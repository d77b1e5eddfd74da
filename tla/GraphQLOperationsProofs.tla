------------------------- MODULE GraphQLOperationsProofs -------------------------
(***************************************************************************)
(* Theorems about GraphQLOperations, for any ids, frames and events: types,*)
(* that operations of an id do not meet and leave nothing behind, that a   *)
(* subscription takes its events once and in order, and that a complete    *)
(* frame ends what it was meant for.                                       *)
(***************************************************************************)
EXTENDS GraphQLOperations, FiniteSetTheorems, TLAPS

-----------------------------------------------------------------------------
\* The inductive invariant.

FrameType == [id : Ids, type : {"subscribe", "complete"}, origin : {"client", "retire"},
              state : {"waiting", "delivered", "dropped"},
              follows : FrameId \cup {0}, awaits : FrameId \cup {0},
              completed : BOOLEAN, settled : BOOLEAN, duplicate : BOOLEAN]
OpType == [stage : {"none", "starting", "pulling", "reading", "ending", "ended"},
           at : Event \cup {0}, closed : BOOLEAN, retired : BOOLEAN,
           chan : {"open", "closed"}, queued : Event \cup {0},
           delivered : BOOLEAN, ack : Event \cup {0},
           reservation : {"none", "active", "removed"}]

Waiting(f) == frames[f].state = "waiting"
\* A frame that made a generation; one that has not settled yet.
Generation(f) == frames[f].type = "subscribe" /\ ~frames[f].duplicate
Unsettled(f) == Generation(f) /\ ~frames[f].settled

\* The frames of an id that wait, and the complete frames of the generators.
WaitingOf(d) == {f \in Routed : IdOf(f) = d /\ Waiting(f)}
Retires == {f \in Routed : frames[f].origin = "retire"}

\* A waiting frame of the client holds the drain; it follows the waiting frame of
\* its id before it; the lane's tail is its last one.
OrderInv ==
  /\ \A f \in Routed : Waiting(f) /\ frames[f].origin = "client" => drain = f
  /\ drain # 0 => Waiting(drain)
  /\ \A f \in Routed : frames[f].origin = "retire" => frames[f].type = "complete"
  /\ \A f \in Routed : Waiting(f) =>
       /\ lanes[IdOf(f)].tail >= f /\ IdOf(lanes[IdOf(f)].tail) = IdOf(f)
       /\ socket = "open" => Waiting(lanes[IdOf(f)].tail)
  /\ \A f, g \in Routed : f < g /\ IdOf(f) = IdOf(g) /\ Waiting(f) =>
       /\ frames[g].state # "delivered"
       /\ Waiting(g) => /\ frames[g].follows >= f /\ frames[g].follows < g
                        /\ IdOf(frames[g].follows) = IdOf(g)
                        /\ socket = "open" => Waiting(frames[g].follows)

\* A lane counts its waiting frames and knows its last unsettled generation.
LaneInv ==
  \A d \in Ids :
    /\ lanes[d].pending = Cardinality(WaitingOf(d))
    /\ lanes[d].pending = 0 /\ lanes[d].current = 0 => lanes[d] = NoLane
    /\ lanes[d].current # 0 => Unsettled(lanes[d].current) /\ IdOf(lanes[d].current) = d

\* Of two unsettled generations of an id the later one waits for the earlier.
GenerationInv ==
  /\ socket = "open" => \A g \in Routed : Unsettled(g) => lanes[IdOf(g)].current >= g
  /\ \A f, g \in Routed : f < g /\ IdOf(f) = IdOf(g) /\ Unsettled(f) /\ Unsettled(g) =>
       Waiting(g) /\ frames[g].awaits = f
  /\ \A f \in Routed : frames[f].awaits # 0 => /\ frames[f].awaits \in Routed
                                               /\ frames[frames[f].awaits].completed
  /\ \A f \in Routed : Generation(f) => /\ frames[f].state = "dropped" => frames[f].settled
                                        /\ frames[f].settled => frames[f].state # "waiting"
                                        /\ frames[f].settled /\ frames[f].state = "delivered"
                                             => ops[f].stage = "ended"

\* An operation belongs to a subscribe frame that was delivered.
StageInv ==
  /\ \A i \in FrameId : ops[i].stage = "none" => ops[i] = NoOp
  /\ \A i \in FrameId : ops[i].stage = "starting" => ops[i] = [NoOp EXCEPT !.stage = "starting"]
  /\ \A i \in FrameId : ops[i].stage # "none" <=>
       i \in Routed /\ frames[i].type = "subscribe" /\ frames[i].state = "delivered"
  /\ \A i \in FrameId : socket = "closed" => ops[i].reservation # "active"
  /\ \A d \in Ids : /\ entry[d].kind = "iterator" => /\ entry[d].op # 0 /\ IdOf(entry[d].op) = d
                                                     /\ ops[entry[d].op].stage \notin {"none", "starting"}
                    /\ entry[d].kind # "iterator" => entry[d].op = 0
                    /\ operations[d] # 0 => /\ IdOf(operations[d]) = d
                                            /\ ops[operations[d]].stage \notin {"none", "starting"}

\* The events of an operation o: pushed p, taken t, sent s, of r events in all.
EventInv(o, p, t, s, r, open) ==
  /\ p \subseteq 1..r
  /\ t \in Seq(Event) /\ s \in Seq(Event)
  /\ \A j \in DOMAIN t : t[j] \in p
  /\ Increasing(t) /\ Increasing(s)
  /\ \A j \in DOMAIN s : \E k \in DOMAIN t : s[j] = t[k]
  /\ o.stage \in {"none", "starting"} => p = {} /\ t = <<>> /\ s = <<>>
  /\ o.stage = "reading" => /\ Len(t) > 0 /\ o.at = t[Len(t)]
                            /\ \A j \in DOMAIN s : s[j] < o.at
  /\ o.stage = "pulling" => o.queued = 0
  /\ o.queued # 0 => o.queued \in p /\ \A j \in DOMAIN t : t[j] < o.queued
  /\ (o.stage \in {"pulling", "reading"} /\ ~o.closed /\ o.chan = "open" /\ open) =>
       /\ p = {t[j] : j \in DOMAIN t} /\ o.queued = 0
       /\ o.stage = "reading" => o.ack = o.at /\ o.delivered
       /\ o.stage = "pulling" => o.ack = 0 /\ ~o.delivered
EventsInv ==
  /\ pushed \in [FrameId -> SUBSET Event]
  /\ taken \in [FrameId -> Seq(Event)] /\ sent \in [FrameId -> Seq(Event)]
  /\ \A i \in FrameId : EventInv(ops[i], pushed[i], taken[i], sent[i], received, socket = "open")

\* Events in hand: being read or queued.  Each retirement spent one.
InHand(o, e) == o.queued = e \/ (o.stage = "reading" /\ o.at = e)
Hand == {e \in 1..received : \E i \in FrameId : InHand(ops[i], e)}
CountInv ==
  /\ \A i, j \in FrameId : i # j => pushed[i] \cap pushed[j] = {}
  /\ Len(frames) = clientFrames + Cardinality(Retires)
  /\ Cardinality(Retires) + Cardinality(Hand) <= received

\* While none is untracked: who holds an id.
AdapterInv ==
  /\ \A i \in Routed : Running(i) => Generation(i)
  /\ \A i \in Routed : Live(i) => /\ entry[IdOf(i)] = [kind |-> "iterator", op |-> i]
                                  /\ operations[IdOf(i)] = i
  /\ \A i \in Routed : ops[i].reservation = "active" => Live(i)
  /\ \A i \in Routed : ops[i].stage \in {"pulling", "reading"} /\ ops[i].chan = "closed" => ops[i].closed
  /\ \A d \in Ids : entry[d].kind = "null" =>
                      \E i \in Routed : ops[i].stage = "starting" /\ IdOf(i) = d
  /\ \A d \in Ids : entry[d].kind = "iterator" => Running(entry[d].op)
  /\ \A d \in Ids : operations[d] # 0 => Running(operations[d])
  /\ socket = "open" => \A d \in variables : \E i \in Routed : Running(i) /\ IdOf(i) = d

\* An operation that a complete frame may still end.
Served(i) == Live(i) \/ (ops[i].stage = "starting" /\ entry[IdOf(i)].kind = "null")

\* While none is untracked and the connection is open: a completed operation has a
\* complete frame on its way, and a generator's complete finds its own operation.
CompletedBy(i) ==
  \/ drain # 0 /\ frames[drain].type = "complete" /\ IdOf(drain) = IdOf(i)
  \/ /\ ops[i].stage = "pulling"
     /\ \E f \in Routed : Waiting(f) /\ frames[f].origin = "retire" /\ IdOf(f) = IdOf(i)
RetireInv ==
  /\ \A i \in Routed : Served(i) /\ frames[i].completed => CompletedBy(i)
  /\ \A g \in Routed : Generation(g) /\ Waiting(g) => ~frames[g].completed
  /\ \A f, g \in Routed : Waiting(f) /\ frames[f].origin = "retire" /\ Waiting(g)
                          /\ Generation(g) /\ IdOf(f) = IdOf(g) => f < g
  /\ \A f \in Routed : Waiting(f) /\ frames[f].origin = "retire" =>
       \/ entry[IdOf(f)].kind = "absent"
       \/ entry[IdOf(f)].kind = "iterator" /\ ops[entry[IdOf(f)].op].retired

OperationsInv ==
  /\ TypeOK /\ OrderInv /\ LaneInv /\ GenerationInv /\ StageInv /\ EventsInv /\ CountInv
  /\ untracked \/ AdapterInv
  /\ untracked \/ socket # "open" \/ RetireInv

-----------------------------------------------------------------------------
\* Types and the operators on one record.

\* The bounds are numbers.
LEMMA Bounds == MaxFrames \in Nat /\ MaxEvents \in Nat
BY OperationsAssumption

\* What the type invariant says of a frame and an operation.
LEMMA FrameRecord == ASSUME TypeOK PROVE
  /\ frames \in Seq(FrameType) /\ Len(frames) \in Nat /\ Routed = 1..Len(frames) /\ Routed \subseteq FrameId
  /\ ops \in [FrameId -> OpType]
  /\ \A f \in Routed : f \in Nat /\ f >= 1 /\ frames[f] \in FrameType /\ IdOf(f) \in Ids
<1>1. frames \in Seq(FrameType) /\ Len(frames) \in Nat /\ Len(frames) <= MaxFrames + MaxEvents
  BY Bounds DEF TypeOK, FrameType
<1>2. Routed = 1..Len(frames)
  BY <1>1 DEF Routed
<1>3. ops \in [FrameId -> OpType]
  BY DEF TypeOK, OpType
<1>4. \A f \in 1..Len(frames) : frames[f] \in FrameType
  BY <1>1
<1>5. Routed \subseteq FrameId
  BY <1>1, <1>2, Bounds DEF FrameId
<1>6. \A f \in Routed : IdOf(f) \in Ids
  BY <1>2, <1>4 DEF IdOf, FrameType
<1> QED BY <1>1, <1>2, <1>3, <1>4, <1>5, <1>6

\* A sequence with one more element; one with the same length.
LEMMA AppendFacts ==
  ASSUME NEW S, NEW q \in Seq(S), NEW e \in S
  PROVE  /\ Append(q, e) \in Seq(S) /\ Len(Append(q, e)) = Len(q) + 1
         /\ DOMAIN Append(q, e) = 1..(Len(q) + 1) /\ DOMAIN q = 1..Len(q) /\ Len(q) \in Nat
         /\ \A k \in 1..Len(q) : Append(q, e)[k] = q[k]
         /\ Append(q, e)[Len(q) + 1] = e
OBVIOUS

\* A function on 1..n is a sequence.
LEMMA SeqOfFunction ==
  ASSUME NEW S, NEW n \in Nat, NEW f \in [1..n -> S]
  PROVE  f \in Seq(S)
OBVIOUS

\* A function on the domain of a sequence is a sequence of its length.
LEMMA SameLength ==
  ASSUME NEW S, NEW q \in Seq(S), NEW r \in [DOMAIN q -> S]
  PROVE  r \in Seq(S) /\ Len(r) = Len(q) /\ DOMAIN r = DOMAIN q
<1>1. Len(q) \in Nat /\ DOMAIN q = 1..Len(q)
  OBVIOUS
<1>2. r \in [1..Len(q) -> S]
  BY <1>1
<1>3. r \in Seq(S)
  BY <1>1, <1>2, SeqOfFunction, Zenon
<1>4. DOMAIN r = 1..Len(q)
  BY <1>2
<1>5. Len(r) = Len(q)
  BY <1>1, <1>3, <1>4
<1> QED BY <1>1, <1>3, <1>4, <1>5

\* The operation that has not begun.
LEMMA NoOpType == NoOp \in OpType /\ NoOp.stage = "none" /\ NoOp.reservation = "none" /\ NoOp.queued = 0
                  /\ NoOp.ack = 0 /\ ~NoOp.delivered /\ ~NoOp.closed /\ NoOp.chan = "open" /\ ~NoOp.retired /\ NoOp.at = 0
BY DEF NoOp, OpType

\* pull() on an operation that is being read.
LEMMA PullFacts ==
  ASSUME NEW o \in OpType, o.stage = "reading"
  PROVE  /\ Pull(o) \in OpType
         /\ Pull(o).closed = o.closed /\ Pull(o).retired = o.retired
         /\ Pull(o).chan = o.chan /\ Pull(o).reservation = o.reservation
         /\ \/ /\ o.chan = "closed" /\ Pull(o).stage = "ending" /\ Pull(o).at = 0
               /\ Pull(o).queued \in {0, o.queued}
            \/ /\ o.chan = "open" /\ Pull(o).stage = "reading" /\ Pull(o).at = o.queued
               /\ o.queued # 0 /\ Pull(o).queued = 0 /\ ~o.delivered
            \/ /\ o.chan = "open" /\ Pull(o).stage = "pulling" /\ Pull(o).at = 0
               /\ o.delivered \/ o.queued = 0
               /\ Pull(o).queued = 0 /\ ~Pull(o).delivered
               /\ Pull(o).ack = IF o.delivered THEN 0 ELSE o.ack
<1> DEFINE p == Acked(o)
<1>1. /\ p \in OpType /\ p.stage = "reading" /\ p.closed = o.closed /\ p.retired = o.retired
      /\ p.chan = o.chan /\ p.reservation = o.reservation
      /\ o.delivered => p.queued = 0 /\ ~p.delivered /\ p.ack = 0
      /\ ~o.delivered => p = o
  BY DEF Acked, OpType
<1>2. Pull(o) = IF p.chan = "closed" THEN [p EXCEPT !.stage = "ending", !.at = 0]
                ELSE IF p.queued # 0 THEN [p EXCEPT !.at = p.queued, !.queued = 0, !.delivered = TRUE]
                ELSE [p EXCEPT !.stage = "pulling", !.at = 0]
  BY <1>1 DEF Pull, OpType
<1> HIDE DEF p
<1>3. CASE p.chan = "closed"
  BY ZenonT(40), <1>1, <1>2, <1>3 DEF OpType
<1>4. CASE p.chan # "closed" /\ p.queued # 0
  BY ZenonT(40), <1>1, <1>2, <1>4 DEF OpType
<1>5. CASE p.chan # "closed" /\ p.queued = 0
  BY ZenonT(40), <1>1, <1>2, <1>5 DEF OpType
<1> QED BY <1>3, <1>4, <1>5

-----------------------------------------------------------------------------
\* The events of one operation.

\* What o becomes (o2) when it takes no event: it ends, closes, or loses some.
Fades(o2, o, open) ==
  /\ o2.stage \in {"none", "starting"} => o.stage \in {"none", "starting"}
  /\ o2.stage \in {"pulling", "reading"} => o2.stage = o.stage
  /\ o2.stage = "reading" => o2.at = o.at
  /\ o2.queued \in {0, o.queued}
  /\ o2.stage \in {"pulling", "reading"} /\ ~o2.closed /\ o2.chan = "open" /\ open =>
       ~o.closed /\ o.chan = "open" /\ o2.ack = o.ack /\ o2.delivered = o.delivered

\* An operation that takes no event keeps what it has to say of them.
LEMMA FadesKeepsEvents ==
  ASSUME NEW o, NEW o2, NEW p, NEW t, NEW s, NEW r \in Nat, NEW r2 \in Nat, r2 >= r,
         NEW open \in BOOLEAN, NEW open2 \in BOOLEAN, open2 => open,
         EventInv(o, p, t, s, r, open), Fades(o2, o, open2)
  PROVE  EventInv(o2, p, t, s, r2, open2)
<1>1. p \subseteq 1..r2
  BY DEF EventInv
<1>2. /\ t \in Seq(Event) /\ s \in Seq(Event)
      /\ \A j \in DOMAIN t : t[j] \in p
      /\ Increasing(t) /\ Increasing(s)
      /\ \A j \in DOMAIN s : \E k \in DOMAIN t : s[j] = t[k]
  BY DEF EventInv
<1>3. o2.stage \in {"none", "starting"} => p = {} /\ t = <<>> /\ s = <<>>
  BY DEF EventInv, Fades
<1>4. /\ o2.stage = "reading" => /\ Len(t) > 0 /\ o2.at = t[Len(t)]
                                 /\ \A j \in DOMAIN s : s[j] < o2.at
      /\ o2.stage = "pulling" => o2.queued = 0
  BY DEF EventInv, Fades
<1>5. o2.queued # 0 => o2.queued \in p /\ \A j \in DOMAIN t : t[j] < o2.queued
  BY DEF EventInv, Fades
<1>6. (o2.stage \in {"pulling", "reading"} /\ ~o2.closed /\ o2.chan = "open" /\ open2) =>
       /\ p = {t[j] : j \in DOMAIN t} /\ o2.queued = 0
       /\ o2.stage = "reading" => o2.ack = o2.at /\ o2.delivered
       /\ o2.stage = "pulling" => o2.ack = 0 /\ ~o2.delivered
  BY DEF EventInv, Fades
<1> QED BY <1>1, <1>2, <1>3, <1>4, <1>5, <1>6 DEF EventInv

\* It has no event in hand it did not have.
LEMMA FadesInHand == ASSUME NEW o, NEW o2, NEW open, Fades(o2, o, open), NEW e \in Nat \ {0}, InHand(o2, e)
                     PROVE  InHand(o, e)
BY DEF Fades, InHand

\* One that stays as it is takes no event.
LEMMA FadesSame == ASSUME NEW o, NEW open PROVE Fades(o, o, open)
BY DEF Fades

\* Taking e, later than all before it.
LEMMA TakeOne ==
  ASSUME NEW t \in Seq(Event), Increasing(t), NEW e \in Event, \A j \in DOMAIN t : t[j] < e
  PROVE  /\ Append(t, e) \in Seq(Event) /\ Increasing(Append(t, e))
         /\ Len(Append(t, e)) > 0 /\ Append(t, e)[Len(Append(t, e))] = e
         /\ {Append(t, e)[j] : j \in DOMAIN Append(t, e)} = {t[j] : j \in DOMAIN t} \cup {e}
         /\ \A k \in DOMAIN t : k \in DOMAIN Append(t, e) /\ Append(t, e)[k] = t[k]
         /\ \A j \in DOMAIN Append(t, e) : Append(t, e)[j] = e \/ \E k \in DOMAIN t : Append(t, e)[j] = t[k]
<1> DEFINE q == Append(t, e)
<1>1. /\ q \in Seq(Event) /\ Len(q) = Len(t) + 1 /\ DOMAIN q = 1..(Len(t) + 1)
      /\ DOMAIN t = 1..Len(t) /\ Len(t) \in Nat
      /\ \A k \in 1..Len(t) : q[k] = t[k]
      /\ q[Len(t) + 1] = e
  BY AppendFacts
<1> HIDE DEF q
<1>2. \A j \in DOMAIN q : j \in DOMAIN t \/ j = Len(t) + 1
  BY <1>1
<1>3. ASSUME NEW j \in DOMAIN q, NEW k \in DOMAIN q, j < k PROVE q[j] < q[k]
  <2>1. CASE k \in DOMAIN t
    <3>1. j \in DOMAIN t
      BY <1>1, <1>3, <2>1
    <3> QED BY <1>1, <1>3, <2>1, <3>1 DEF Increasing
  <2>2. CASE k = Len(t) + 1
    <3>1. j \in DOMAIN t
      BY <1>1, <1>3, <2>2
    <3> QED BY <1>1, <2>2, <3>1
  <2> QED BY <1>2, <2>1, <2>2
<1>4. \A k \in DOMAIN t : k \in DOMAIN q /\ q[k] = t[k]
  BY <1>1
<1>5. \A j \in DOMAIN q : q[j] = e \/ \E k \in DOMAIN t : q[j] = t[k]
  BY <1>1, <1>2
<1>6. Len(t) + 1 \in DOMAIN q
  BY <1>1
<1>7. {q[j] : j \in DOMAIN q} = {t[j] : j \in DOMAIN t} \cup {e}
  BY <1>1, <1>4, <1>5, <1>6
<1>8. Increasing(q)
  BY <1>3 DEF Increasing
<1>9. Len(q) > 0 /\ q[Len(q)] = e
  BY <1>1
<1> QED BY <1>1, <1>4, <1>5, <1>7, <1>8, <1>9 DEF q

\* An event pushed to a waiting pull is taken; to another it is queued.
LEMMA PushKeepsEvents ==
  ASSUME NEW o \in OpType, NEW p, NEW t, NEW s, NEW r \in Nat, NEW open \in BOOLEAN,
         EventInv(o, p, t, s, r, open), r + 1 \in Event, o.ack = 0,
         o.stage \notin {"none", "starting"},
         NEW e, e = r + 1, NEW x, x.closed = o.closed, x.chan = o.chan, NEW t2,
         \/ /\ o.stage = "pulling" /\ t2 = Append(t, e)
            /\ x.stage = "reading" /\ x.at = e /\ x.ack = e /\ x.delivered /\ x.queued = 0
         \/ /\ o.stage # "pulling" /\ t2 = t
            /\ x.stage = o.stage /\ x.at = o.at /\ x.queued = e
  PROVE  EventInv(x, p \cup {e}, t2, s, e, open)
<1>1. /\ p \subseteq 1..r /\ t \in Seq(Event) /\ s \in Seq(Event)
      /\ \A j \in DOMAIN t : t[j] \in p
      /\ Increasing(t) /\ Increasing(s)
      /\ \A j \in DOMAIN s : \E k \in DOMAIN t : s[j] = t[k]
      /\ e \in Event /\ e \in Nat /\ e # 0
  BY DEF EventInv, Event
<1>2. (\A j \in DOMAIN t : t[j] < e) /\ (\A j \in DOMAIN s : s[j] < e) /\ p \cup {e} \subseteq 1..e
  <2>1. \A y \in p : y < e
    BY <1>1
  <2>2. \A j \in DOMAIN t : t[j] < e
    BY <1>1, <2>1
  <2>3. \A j \in DOMAIN s : s[j] < e
    BY <1>1, <2>2
  <2>4. p \cup {e} \subseteq 1..e
    BY <1>1
  <2> QED BY <2>2, <2>3, <2>4
<1>3. CASE o.stage = "pulling"
  <2> DEFINE q == Append(t, e)
  <2>1. x.stage = "reading" /\ x.at = e /\ x.ack = e /\ x.delivered /\ x.queued = 0
        /\ x.closed = o.closed /\ x.chan = o.chan
    BY <1>3
  <2>2. /\ q \in Seq(Event) /\ Increasing(q) /\ Len(q) > 0 /\ q[Len(q)] = e
        /\ {q[j] : j \in DOMAIN q} = {t[j] : j \in DOMAIN t} \cup {e}
        /\ \A k \in DOMAIN t : k \in DOMAIN q /\ q[k] = t[k]
        /\ \A j \in DOMAIN q : q[j] = e \/ \E k \in DOMAIN t : q[j] = t[k]
    BY <1>1, <1>2, TakeOne
  <2> HIDE DEF q
  <2>3. (\A j \in DOMAIN q : q[j] \in p \cup {e}) /\ (\A j \in DOMAIN s : \E k \in DOMAIN q : s[j] = q[k])
    BY <1>1, <2>2
  <2>4. ~x.closed /\ x.chan = "open" /\ open => p \cup {e} = {q[j] : j \in DOMAIN q}
    <3>1. ~x.closed /\ x.chan = "open" /\ open => p = {t[j] : j \in DOMAIN t}
      BY <1>3, <2>1 DEF EventInv
    <3> QED BY <2>2, <3>1
  <2>5. EventInv(x, p \cup {e}, q, s, e, open)
    BY <1>1, <1>2, <2>1, <2>2, <2>3, <2>4 DEF EventInv
  <2> QED BY <1>3, <2>5 DEF q
<1>4. CASE o.stage # "pulling"
  <2>1. x.stage = o.stage /\ x.at = o.at /\ x.queued = e /\ x.closed = o.closed /\ x.chan = o.chan
    BY <1>4
  <2>2. ~(x.stage \in {"pulling", "reading"} /\ ~x.closed /\ x.chan = "open" /\ open)
    <3> SUFFICES ASSUME x.stage \in {"pulling", "reading"}, ~x.closed, x.chan = "open", open PROVE FALSE
      OBVIOUS
    <3>1. o.stage = "reading" /\ o.ack = o.at /\ Len(t) > 0 /\ o.at = t[Len(t)]
      BY <1>4, <2>1 DEF EventInv
    <3>2. t[Len(t)] \in Event
      BY <1>1, <3>1
    <3> QED BY <3>1, <3>2, Bounds DEF Event
  <2>3. EventInv(x, p \cup {e}, t, s, e, open)
    <3>1. \A j \in DOMAIN t : t[j] \in p \cup {e}
      BY <1>1
    <3>2. /\ o.stage = "reading" => /\ Len(t) > 0 /\ o.at = t[Len(t)]
                                    /\ \A j \in DOMAIN s : s[j] < o.at
      BY DEF EventInv
    <3> QED BY <1>1, <1>2, <1>4, <2>1, <2>2, <3>1, <3>2 DEF EventInv
  <2> QED BY <1>4, <2>3
<1> QED BY <1>3, <1>4

\* A pull takes the queued event, waits, or ends; what it has not sent it may have sent.
LEMMA PullKeepsEvents ==
  ASSUME NEW o \in OpType, o.stage = "reading", NEW p, NEW t, NEW s, NEW r \in Nat, NEW open \in BOOLEAN,
         EventInv(o, p, t, s, r, open),
         NEW t2, t2 = IF Pull(o).stage = "reading" THEN Append(t, Pull(o).at) ELSE t,
         NEW s2, s2 \in {s, Append(s, o.at)}
  PROVE  EventInv(Pull(o), p, t2, s2, r, open)
<1> DEFINE x == Pull(o)
<1>1. /\ p \subseteq 1..r /\ t \in Seq(Event) /\ s \in Seq(Event)
      /\ \A j \in DOMAIN t : t[j] \in p
      /\ Increasing(t) /\ Increasing(s)
      /\ \A j \in DOMAIN s : \E k \in DOMAIN t : s[j] = t[k]
      /\ Len(t) > 0 /\ o.at = t[Len(t)] /\ \A j \in DOMAIN s : s[j] < o.at
      /\ o.queued # 0 => o.queued \in p /\ \A j \in DOMAIN t : t[j] < o.queued
      /\ ~o.closed /\ o.chan = "open" /\ open =>
           p = {t[j] : j \in DOMAIN t} /\ o.queued = 0 /\ o.ack = o.at /\ o.delivered
  BY DEF EventInv
<1>2. Len(t) \in DOMAIN t /\ o.at \in Event
  BY <1>1
<1>3. s2 \in Seq(Event) /\ Increasing(s2)
  BY <1>1, <1>2, TakeOne
<1>4. \A j \in DOMAIN s2 : \E k \in DOMAIN t : s2[j] = t[k]
  <2>1. CASE s2 = s
    BY <1>1, <2>1
  <2>2. CASE s2 = Append(s, o.at)
    <3>1. \A j \in DOMAIN s2 : s2[j] = o.at \/ \E k \in DOMAIN s : s2[j] = s[k]
      BY <1>1, <1>2, <2>2, TakeOne
    <3> QED BY <1>1, <1>2, <3>1
  <2> QED BY <2>1, <2>2
<1>5. /\ x.closed = o.closed /\ x.chan = o.chan
      /\ \/ /\ o.chan = "closed" /\ x.stage = "ending" /\ x.at = 0
            /\ x.queued \in {0, o.queued}
         \/ /\ o.chan = "open" /\ x.stage = "reading" /\ x.at = o.queued
            /\ o.queued # 0 /\ x.queued = 0 /\ ~o.delivered
         \/ /\ o.chan = "open" /\ x.stage = "pulling" /\ x.at = 0
            /\ o.delivered \/ o.queued = 0
            /\ x.queued = 0 /\ ~x.delivered
            /\ x.ack = IF o.delivered THEN 0 ELSE o.ack
  BY PullFacts
<1> HIDE DEF x
<1>6. CASE x.stage = "ending"
  <2>1. t2 = t /\ x.queued \in {0, o.queued}
    BY <1>5, <1>6 DEF x
  <2> QED BY <1>1, <1>3, <1>4, <1>6, <2>1 DEF EventInv, x
<1>7. CASE x.stage = "pulling"
  <2>1. t2 = t
    BY <1>7 DEF x
  <2>2. /\ x.queued = 0 /\ ~x.delivered /\ o.chan = "open" /\ x.closed = o.closed
        /\ x.ack = IF o.delivered THEN 0 ELSE o.ack
    BY <1>5, <1>7
  <2> QED BY <1>1, <1>3, <1>4, <1>7, <2>1, <2>2 DEF EventInv, x
<1>8. CASE x.stage = "reading"
  <2>1. t2 = Append(t, x.at) /\ x.at = o.queued /\ o.queued # 0 /\ x.queued = 0 /\ o.chan = "open" /\ ~o.delivered
    BY <1>5, <1>8 DEF x
  <2>2. x.at \in p /\ x.at \in Event /\ \A j \in DOMAIN t : t[j] < x.at
    BY <1>1, <2>1 DEF OpType
  <2>3. /\ t2 \in Seq(Event) /\ Increasing(t2) /\ Len(t2) > 0 /\ t2[Len(t2)] = x.at
        /\ \A k \in DOMAIN t : k \in DOMAIN t2 /\ t2[k] = t[k]
        /\ \A j \in DOMAIN t2 : t2[j] = x.at \/ \E k \in DOMAIN t : t2[j] = t[k]
    BY <1>1, <2>1, <2>2, TakeOne
  <2>4. (\A j \in DOMAIN t2 : t2[j] \in p) /\ (\A j \in DOMAIN s2 : \E k \in DOMAIN t2 : s2[j] = t2[k])
    BY <1>1, <1>4, <2>2, <2>3
  <2>5. \A j \in DOMAIN s2 : s2[j] < x.at
    BY <1>4, <2>2
  <2>6. ~(~x.closed /\ x.chan = "open" /\ open)
    BY <1>1, <1>5, <2>1
  <2> QED BY <1>1, <1>3, <1>8, <2>1, <2>3, <2>4, <2>5, <2>6 DEF EventInv, x
<1> QED BY <1>5, <1>6, <1>7, <1>8

-----------------------------------------------------------------------------
\* What steps have in common.

\* Frames are only added, and the old ones keep what they are.
SameFrames ==
  /\ Routed \subseteq Routed'
  /\ \A f \in Routed : /\ frames'[f].id = frames[f].id /\ frames'[f].type = frames[f].type
                       /\ frames'[f].origin = frames[f].origin
                       /\ frames'[f].duplicate = frames[f].duplicate
                       /\ frames'[f].follows = frames[f].follows /\ frames'[f].awaits = frames[f].awaits

\* Frames left alone.
LEMMA UnchangedFrames == ASSUME UNCHANGED frames PROVE SameFrames /\ Routed' = Routed
BY DEF SameFrames, Routed

\* The type invariant with the record types by name.
LEMMA TypeParts == TypeOK <=>
  /\ socket \in {"open", "stopping", "closed"}
  /\ frames \in Seq(FrameType) /\ Len(frames) \in 0..(MaxFrames + MaxEvents) /\ clientFrames \in 0..MaxFrames
  /\ drain \in {0} \cup Routed
  /\ lanes \in [Ids -> [tail : {0} \cup Routed, pending : 0..Len(frames), current : {0} \cup Routed]]
  /\ entry \in [Ids -> [kind : {"absent", "null", "iterator"}, op : {0} \cup Routed]]
  /\ operations \in [Ids -> {0} \cup Routed] /\ variables \subseteq Ids
  /\ ops \in [FrameId -> OpType]
  /\ received \in 0..MaxEvents /\ untracked \in BOOLEAN
BY DEF TypeOK, FrameType, OpType

\* Steps that leave the lanes alone.
LEMMA LanesKeep ==
  ASSUME TypeOK, OrderInv, LaneInv, GenerationInv, UNCHANGED laneVars, socket' = "open" => socket = "open",
         \A i \in Routed : ops[i].stage = "ended" => ops'[i].stage = "ended"
  PROVE  OrderInv' /\ LaneInv' /\ GenerationInv'
<1>1. UNCHANGED <<frames, lanes, drain>> /\ Routed' = Routed
  BY DEF laneVars, Routed
<1>2. OrderInv'
  BY <1>1 DEF OrderInv, Waiting, IdOf
<1>3. LaneInv'
  <2>1. \A d \in Ids : WaitingOf(d)' = WaitingOf(d)
    BY <1>1 DEF WaitingOf, Waiting, IdOf
  <2> QED BY <1>1, <2>1 DEF LaneInv, Unsettled, Generation, IdOf
<1>4. GenerationInv'
  BY <1>1 DEF GenerationInv, Unsettled, Generation, Waiting, IdOf
<1> QED BY <1>2, <1>3, <1>4

\* Steps that take no event.
LEMMA AllFade ==
  ASSUME TypeOK, EventsInv, UNCHANGED <<received, pushed, taken, sent>>, socket' = "open" => socket = "open",
         \A i \in FrameId : Fades(ops'[i], ops[i], socket' = "open")
  PROVE  EventsInv' /\ Hand' \subseteq Hand
<1>1. received \in Nat
  BY Bounds DEF TypeOK
<1>2. ASSUME NEW i \in FrameId
      PROVE EventInv(ops'[i], pushed'[i], taken'[i], sent'[i], received', socket' = "open")
  <2>1. EventInv(ops[i], pushed[i], taken[i], sent[i], received, socket = "open")
    BY DEF EventsInv
  <2>2. Fades(ops'[i], ops[i], socket' = "open")
    OBVIOUS
  <2> DEFINE open == socket = "open"  open2 == socket' = "open"
  <2>3. EventInv(ops[i], pushed[i], taken[i], sent[i], received, open) /\ Fades(ops'[i], ops[i], open2)
        /\ open \in BOOLEAN /\ open2 \in BOOLEAN /\ (open2 => open) /\ received >= received
    BY <1>1, <2>1, <2>2
  <2> HIDE DEF open, open2
  <2>4. EventInv(ops'[i], pushed[i], taken[i], sent[i], received, open2)
    BY <1>1, <2>3, FadesKeepsEvents
  <2> QED BY <2>4 DEF open2
<1>3. EventsInv'
  BY <1>2 DEF EventsInv
<1>4. ASSUME NEW e \in Nat \ {0}, NEW i \in FrameId, InHand(ops'[i], e) PROVE InHand(ops[i], e)
  BY <1>4, FadesInHand
<1>5. Hand' \subseteq Hand
  BY <1>1, <1>4 DEF Hand
<1> QED BY <1>3, <1>5

\* Retirements and events in hand are finitely many.
LEMMA CountFinite ==
  ASSUME TypeOK
  PROVE  /\ IsFiniteSet(Retires) /\ Cardinality(Retires) \in Nat
         /\ IsFiniteSet(Hand) /\ Cardinality(Hand) \in Nat
<1>1. Routed = 1..Len(frames) /\ Len(frames) \in Nat /\ received \in Nat
  BY FrameRecord, Bounds DEF TypeOK
<1>2. IsFiniteSet(Routed) /\ IsFiniteSet(1..received)
  BY <1>1, FS_Interval
<1>3. Retires \subseteq Routed /\ Hand \subseteq 1..received
  BY DEF Retires, Hand
<1> QED BY <1>2, <1>3, FS_Subset, FS_CardinalityType

\* Steps that route no complete frame of a generator and hand out no event.
LEMMA CountKeeps ==
  ASSUME TypeOK, CountInv, UNCHANGED <<received, pushed>>, Hand' \subseteq Hand, Retires' = Retires,
         Len(frames') - clientFrames' = Len(frames) - clientFrames, Len(frames') \in Nat, clientFrames' \in Nat
  PROVE  CountInv'
<1>1. IsFiniteSet(Hand) /\ Cardinality(Hand) \in Nat /\ Cardinality(Retires) \in Nat
  BY CountFinite
<1>2. Cardinality(Hand') <= Cardinality(Hand) /\ Cardinality(Hand') \in Nat
  BY <1>1, FS_Subset, FS_CardinalityType
<1>3. Len(frames) \in Nat /\ clientFrames \in Nat /\ received \in Nat
  BY FrameRecord, Bounds DEF TypeOK
<1>4. Cardinality(Retires)' = Cardinality(Retires) /\ Cardinality(Hand)' = Cardinality(Hand')
  OBVIOUS
<1>5. Len(frames') = clientFrames' + Cardinality(Retires)
  BY SMTT(30), <1>1, <1>3 DEF CountInv
<1>6. Cardinality(Retires) + Cardinality(Hand') <= received
  BY <1>1, <1>2, <1>3 DEF CountInv
<1> QED BY <1>4, <1>5, <1>6 DEF CountInv

\* Old frames keep their origin.
LEMMA SameRetires == ASSUME SameFrames, Routed' = Routed PROVE Retires' = Retires
BY DEF SameFrames, Retires

\* While none is untracked, an id has one running operation at most.
LEMMA OneRuns ==
  ASSUME TypeOK, GenerationInv, StageInv, AdapterInv, NEW i \in Routed, Running(i)
  PROVE  /\ Unsettled(i) /\ frames[i].state = "delivered" /\ i \in FrameId /\ ops[i].stage # "none"
         /\ \A j \in Routed : Running(j) /\ IdOf(j) = IdOf(i) => j = i
<1>1. ASSUME NEW k \in Routed, Running(k)
      PROVE  Unsettled(k) /\ frames[k].state = "delivered" /\ k \in FrameId /\ ops[k].stage # "none"
  <2>1. k \in FrameId /\ ops[k].stage \notin {"none", "ended"} /\ Generation(k)
    BY <1>1, FrameRecord DEF Running, AdapterInv
  <2>2. frames[k].state = "delivered"
    BY <2>1 DEF StageInv
  <2> QED BY <2>1, <2>2 DEF GenerationInv, Unsettled
<1>2. ASSUME NEW j \in Routed, Running(j), IdOf(j) = IdOf(i), j # i PROVE FALSE
  <2>1. i \in Nat /\ j \in Nat
    BY FrameRecord
  <2>2. CASE j < i
    BY <1>1, <1>2, <2>2 DEF GenerationInv, Waiting
  <2>3. CASE i < j
    BY <1>1, <1>2, <2>3 DEF GenerationInv, Waiting
  <2> QED BY <1>2, <2>1, <2>2, <2>3
<1> QED BY <1>1, <1>2

-----------------------------------------------------------------------------
\* What a step does to the operations of the ids.

\* o goes on (o2): it has not begun, ended or closed, and awaits events if it did.
Active(o) == o.stage \in {"pulling", "reading"}
Over(o) == o.stage \in {"none", "ended"}
Goes(o2, o) ==
  /\ o2.reservation = o.reservation /\ o2.closed = o.closed /\ o2.chan = o.chan
  /\ o2.stage = "starting" <=> o.stage = "starting"
  /\ Over(o2) <=> Over(o)
  /\ Active(o2) => Active(o)
  /\ Active(o) /\ o.chan = "open" => Active(o2)

\* An operation that stays as it is goes on.
LEMMA GoesSame == ASSUME NEW o PROVE Goes(o, o)
BY DEF Goes

\* So does one that pulls.
LEMMA PullGoes == ASSUME NEW o \in OpType, o.stage = "reading" PROVE Goes(Pull(o), o)
BY PullFacts DEF Goes, Active, Over, OpType

\* Running and Live, of the operation's record.
LEMMA RunningIs == \A i \in FrameId : Running(i) <=> ~Over(ops[i])
BY DEF Running, Over
LEMMA LiveIs == \A i \in FrameId : Live(i) <=> Active(ops[i]) /\ ~ops[i].closed /\ ops[i].chan = "open"
BY DEF Live, Active

\* Operations that go on.
LEMMA GoingKeepsAdapter ==
  ASSUME TypeOK, StageInv, AdapterInv, SameFrames, UNCHANGED adapterVars, socket' = "open" => socket = "open",
         Routed' \subseteq FrameId, \A i \in Routed' : i \notin Routed => Over(ops[i]) /\ ops[i].reservation # "active",
         \A i \in FrameId : Goes(ops'[i], ops[i])
  PROVE  AdapterInv'
<1>1. Routed \subseteq FrameId
  BY FrameRecord
<1>2. \A i \in FrameId : /\ Over(ops'[i]) <=> Over(ops[i])
                         /\ ops'[i].stage = "starting" <=> ops[i].stage = "starting"
                         /\ Active(ops'[i]) => Active(ops[i])
                         /\ Active(ops[i]) /\ ops[i].chan = "open" => Active(ops'[i])
                         /\ ops'[i].reservation = ops[i].reservation /\ ops'[i].closed = ops[i].closed
                         /\ ops'[i].chan = ops[i].chan
  BY DEF Goes
<1>3. \A i \in Routed' : ~Over(ops[i]) \/ Active(ops[i]) \/ ops[i].reservation = "active" => i \in Routed
  BY DEF Active, Over
<1>4. \A i \in Routed : IdOf(i)' = IdOf(i) /\ Generation(i)' = Generation(i)
  BY DEF SameFrames, IdOf, Generation
<1>5. entry' = entry /\ operations' = operations /\ variables' = variables
  BY DEF adapterVars
<1>6. \A i \in Routed' : Running(i)' => Generation(i)'
  <2> SUFFICES ASSUME NEW i \in Routed', Running(i)' PROVE Generation(i)'
    OBVIOUS
  <2>1. ~Over(ops'[i])
    BY DEF Running, Over
  <2>2. i \in Routed /\ ~Over(ops[i])
    BY <1>2, <1>3, <2>1
  <2> QED BY <1>1, <1>4, <2>2, RunningIs DEF AdapterInv
<1>7. \A i \in Routed' : Live(i)' <=> Live(i)
  BY <1>2 DEF Live, Active
<1>8. \A i \in Routed' : Live(i) => i \in Routed
  BY <1>1, <1>3 DEF Live, Active
<1>9. \A i \in Routed' : Live(i)' => /\ entry'[IdOf(i)'] = [kind |-> "iterator", op |-> i]
                                     /\ operations'[IdOf(i)'] = i
  BY <1>4, <1>5, <1>7, <1>8 DEF AdapterInv
<1>10. \A i \in Routed' : ops'[i].reservation = "active" => Live(i)'
  BY <1>2, <1>3, <1>7 DEF AdapterInv
<1>11. \A i \in Routed' : ops'[i].stage \in {"pulling", "reading"} /\ ops'[i].chan = "closed" => ops'[i].closed
  BY <1>2, <1>3 DEF AdapterInv, Active
<1>12. \A i \in FrameId : Running(i)' <=> Running(i)
  BY <1>2 DEF Running, Over
<1>13. \A d \in Ids : entry[d].kind = "null" =>
                      \E i \in Routed' : ops'[i].stage = "starting" /\ IdOf(i)' = d
  <2> SUFFICES ASSUME NEW d \in Ids, entry[d].kind = "null"
               PROVE  \E i \in Routed' : ops'[i].stage = "starting" /\ IdOf(i)' = d
    OBVIOUS
  <2>1. PICK i \in Routed : ops[i].stage = "starting" /\ IdOf(i) = d
    BY DEF AdapterInv
  <2> QED BY <1>1, <1>2, <1>4, <2>1 DEF SameFrames
<1>14. \A d \in Ids : /\ entry[d].kind = "iterator" => entry[d].op \in FrameId
                      /\ operations[d] # 0 => operations[d] \in FrameId
  BY <1>1, TypeParts DEF StageInv
<1>15. socket' = "open" => \A d \in variables : \E i \in Routed' : Running(i)' /\ IdOf(i)' = d
  <2> SUFFICES ASSUME socket = "open", NEW d \in variables PROVE \E i \in Routed' : Running(i)' /\ IdOf(i)' = d
    OBVIOUS
  <2>1. PICK i \in Routed : Running(i) /\ IdOf(i) = d
    BY DEF AdapterInv
  <2> QED BY <1>1, <1>4, <1>12, <2>1 DEF SameFrames
<1>16. /\ \A d \in Ids : entry'[d].kind = "iterator" => Running(entry[d].op)'
       /\ \A d \in Ids : operations'[d] # 0 => Running(operations[d])'
  BY <1>5, <1>12, <1>14 DEF AdapterInv
<1> QED BY <1>5, <1>6, <1>9, <1>10, <1>11, <1>13, <1>15, <1>16 DEF AdapterInv

\* An operation that ends and gives up its id.
LEMMA EndKeepsAdapter ==
  ASSUME TypeOK, GenerationInv, StageInv, AdapterInv, UNCHANGED frames, socket' = "open" => socket = "open",
         NEW i \in Routed, Running(i), NEW d, d = IdOf(i),
         entry' = [entry EXCEPT ![d] = Absent], operations' = [operations EXCEPT ![d] = 0],
         socket' = "open" => variables' = variables \ {d},
         ops'[i].stage = "ended", ops'[i].reservation # "active",
         \A j \in FrameId : j # i => ops'[j] = ops[j]
  PROVE  AdapterInv'
<1>1. Routed \subseteq FrameId /\ Routed' = Routed /\ d \in Ids
  BY FrameRecord DEF Routed
<1>2. \A j \in Routed : IdOf(j)' = IdOf(j) /\ Generation(j)' = Generation(j)
  BY DEF IdOf, Generation
<1>3. \A j \in Routed : Running(j) /\ IdOf(j) = d => j = i
  BY OneRuns
<1>4. \A j \in FrameId : Running(j)' <=> Running(j) /\ j # i
  BY DEF Running
<1>5. \A j \in FrameId : Live(j)' <=> Live(j) /\ j # i
  BY DEF Live
<1>6. \A j \in FrameId : Live(j) => Running(j)
  BY DEF Live, Running
<1>7. /\ \A e \in Ids : e # d => entry'[e] = entry[e] /\ operations'[e] = operations[e]
      /\ entry'[d] = Absent /\ operations'[d] = 0
  BY <1>1, TypeParts
<1>8. \A j \in Routed : Running(j)' => Generation(j)'
  BY <1>1, <1>2, <1>4 DEF AdapterInv
<1>9. \A j \in Routed : Live(j)' => /\ entry'[IdOf(j)'] = [kind |-> "iterator", op |-> j]
                                    /\ operations'[IdOf(j)'] = j
  <2> SUFFICES ASSUME NEW j \in Routed, Live(j)'
               PROVE  entry'[IdOf(j)'] = [kind |-> "iterator", op |-> j] /\ operations'[IdOf(j)'] = j
    OBVIOUS
  <2>1. Live(j) /\ j # i /\ Running(j) /\ IdOf(j) \in Ids
    BY <1>1, <1>5, <1>6, FrameRecord
  <2>2. IdOf(j) # d
    BY <1>3, <2>1
  <2> QED BY <1>2, <1>7, <2>1, <2>2 DEF AdapterInv
<1>10. \A j \in Routed : ops'[j].reservation = "active" => Live(j)'
  BY <1>1, <1>5 DEF AdapterInv
<1>11. \A j \in Routed : ops'[j].stage \in {"pulling", "reading"} /\ ops'[j].chan = "closed" => ops'[j].closed
  BY <1>1 DEF AdapterInv
<1>12. \A e \in Ids : entry'[e].kind = "null" =>
                      \E j \in Routed : ops'[j].stage = "starting" /\ IdOf(j)' = e
  <2> SUFFICES ASSUME NEW e \in Ids, entry'[e].kind = "null"
               PROVE  \E j \in Routed : ops'[j].stage = "starting" /\ IdOf(j)' = e
    OBVIOUS
  <2>1. e # d /\ entry[e].kind = "null"
    BY <1>7 DEF Absent
  <2>2. PICK j \in Routed : ops[j].stage = "starting" /\ IdOf(j) = e
    BY <2>1 DEF AdapterInv
  <2> QED BY <1>1, <1>2, <2>1, <2>2
<1>13. \A e \in Ids : e # d =>
          /\ entry[e].kind = "iterator" => entry[e].op \in FrameId /\ entry[e].op # i
          /\ operations[e] # 0 => operations[e] \in FrameId /\ operations[e] # i
  BY <1>1, TypeParts DEF StageInv
<1>14. \A e \in Ids : entry'[e].kind = "iterator" => Running(entry[e].op)'
  <2> SUFFICES ASSUME NEW e \in Ids, entry'[e].kind = "iterator" PROVE Running(entry[e].op)'
    OBVIOUS
  <2>1. e # d /\ entry'[e] = entry[e]
    BY <1>7 DEF Absent
  <2>2. Running(entry[e].op) /\ entry[e].op \in FrameId /\ entry[e].op # i
    BY <1>13, <2>1 DEF AdapterInv
  <2> QED BY <2>1, <2>2 DEF Running
<1>15. \A e \in Ids : operations'[e] # 0 => Running(operations[e])'
  <2> SUFFICES ASSUME NEW e \in Ids, operations'[e] # 0 PROVE Running(operations[e])'
    OBVIOUS
  <2>1. e # d /\ operations'[e] = operations[e]
    BY <1>7
  <2>2. Running(operations[e]) /\ operations[e] \in FrameId /\ operations[e] # i
    BY <1>13, <2>1 DEF AdapterInv
  <2> QED BY <2>1, <2>2 DEF Running
<1>16. socket' = "open" => \A e \in variables' : \E j \in Routed : Running(j)' /\ IdOf(j)' = e
  <2> SUFFICES ASSUME socket = "open", NEW e \in variables, e # d PROVE \E j \in Routed : Running(j)' /\ IdOf(j)' = e
    OBVIOUS
  <2>1. PICK j \in Routed : Running(j) /\ IdOf(j) = e
    BY DEF AdapterInv
  <2> QED BY <1>1, <1>2, <1>4, <2>1
<1> QED BY <1>1, <1>8, <1>9, <1>10, <1>11, <1>12, <1>14, <1>15, <1>16 DEF AdapterInv

\* graphql-ws takes a complete frame: it ends the operation the id's entry has.
LEMMA ReturnKeepsAdapter ==
  ASSUME TypeOK, StageInv, AdapterInv, SameFrames, NEW d \in Ids, AdapterCompleted(d), socket' = "open" => socket = "open",
         Routed' \subseteq FrameId, \A i \in Routed' : i \notin Routed => Over(ops[i]) /\ ops[i].reservation # "active",
         \A i \in FrameId : Goes(ops'[i], OpsCompleted(d)[i])
  PROVE  AdapterInv'
<1> DEFINE h == entry[d].op
           back == entry[d].kind = "iterator"
<1>1. /\ Routed \subseteq FrameId /\ ops \in [FrameId -> OpType]
      /\ back => h \in FrameId /\ h \in Routed /\ IdOf(h) = d /\ ~Over(ops[h])
  BY FrameRecord, TypeParts, RunningIs DEF StageInv, AdapterInv
<1>2. \A i \in FrameId : OpsCompleted(d)[i] = IF back /\ i = h THEN Returned(i) ELSE ops[i]
  BY <1>1 DEF OpsCompleted
<1>3. back => /\ Returned(h).stage = ops[h].stage /\ Returned(h).closed /\ Returned(h).chan = "closed"
              /\ Returned(h).reservation = "removed"
  BY <1>1 DEF Returned, OpType
<1> HIDE DEF h, back
<1>4. \A i \in FrameId : /\ Over(ops'[i]) <=> Over(ops[i])
                         /\ ops'[i].stage = "starting" <=> ops[i].stage = "starting"
                         /\ Active(ops'[i]) => Active(ops[i])
                         /\ ~(back /\ i = h) => /\ Active(ops[i]) /\ ops[i].chan = "open" => Active(ops'[i])
                                                /\ ops'[i].reservation = ops[i].reservation
                                                /\ ops'[i].closed = ops[i].closed
                                                /\ ops'[i].chan = ops[i].chan
                         /\ back /\ i = h => /\ ops'[i].closed /\ ops'[i].chan = "closed"
                                             /\ ops'[i].reservation = "removed"
  <2> SUFFICES ASSUME NEW i \in FrameId
               PROVE  /\ Over(ops'[i]) <=> Over(ops[i])
                      /\ ops'[i].stage = "starting" <=> ops[i].stage = "starting"
                      /\ Active(ops'[i]) => Active(ops[i])
                      /\ ~(back /\ i = h) => /\ Active(ops[i]) /\ ops[i].chan = "open" => Active(ops'[i])
                                             /\ ops'[i].reservation = ops[i].reservation
                                             /\ ops'[i].closed = ops[i].closed
                                             /\ ops'[i].chan = ops[i].chan
                      /\ back /\ i = h => /\ ops'[i].closed /\ ops'[i].chan = "closed"
                                          /\ ops'[i].reservation = "removed"
    OBVIOUS
  <2>1. Goes(ops'[i], OpsCompleted(d)[i])
    OBVIOUS
  <2>2. CASE back /\ i = h
    <3>1. Goes(ops'[i], Returned(h))
      BY <1>2, <2>1, <2>2
    <3> QED BY <1>3, <2>2, <3>1 DEF Goes, Active, Over
  <2>3. CASE ~(back /\ i = h)
    <3>1. Goes(ops'[i], ops[i])
      BY <1>2, <2>1, <2>3
    <3> QED BY <2>3, <3>1 DEF Goes
  <2> QED BY <2>2, <2>3
<1>5. \A i \in Routed' : ~Over(ops[i]) \/ Active(ops[i]) \/ ops[i].reservation = "active" => i \in Routed
  BY DEF Active, Over
<1>6. \A i \in Routed : IdOf(i)' = IdOf(i) /\ Generation(i)' = Generation(i)
  BY DEF SameFrames, IdOf, Generation
<1>7. /\ entry' = [entry EXCEPT ![d] = Absent]
      /\ back => operations' = [operations EXCEPT ![d] = 0] /\ variables' = variables \ {d}
      /\ ~back => operations' = operations /\ variables' = variables
  BY DEF AdapterCompleted, back
<1>8. /\ entry'[d] = Absent /\ \A e \in Ids : e # d => entry'[e] = entry[e] /\ operations'[e] = operations[e]
      /\ \A e \in Ids : operations'[e] # 0 => operations'[e] = operations[e]
      /\ variables' \subseteq variables
  BY <1>7, TypeParts
<1>9. \A i \in FrameId : Running(i)' <=> Running(i)
  BY <1>4 DEF Running, Over
<1>10. ASSUME NEW i \in Routed', Live(i)' PROVE Live(i) /\ i \in Routed /\ IdOf(i) # d
  <2>1. ~(back /\ i = h) /\ Live(i)
    BY <1>4, <1>10 DEF Live, Active
  <2>2. i \in Routed /\ IdOf(i) \in Ids
    BY <1>5, <2>1, FrameRecord DEF Live, Active
  <2>3. entry[IdOf(i)] = [kind |-> "iterator", op |-> i]
    BY <2>1, <2>2 DEF AdapterInv
  <2>4. IdOf(i) = d => back /\ i = h
    BY <2>3 DEF back, h
  <2> QED BY <2>1, <2>2, <2>4
<1>11. \A i \in Routed' : Running(i)' => Generation(i)'
  <2> SUFFICES ASSUME NEW i \in Routed', Running(i)' PROVE Generation(i)'
    OBVIOUS
  <2>1. i \in Routed /\ Running(i)
    BY <1>5, <1>9, RunningIs
  <2> QED BY <1>6, <2>1 DEF AdapterInv
<1>12. \A i \in Routed' : Live(i)' => /\ entry'[IdOf(i)'] = [kind |-> "iterator", op |-> i]
                                      /\ operations'[IdOf(i)'] = i
  <2> SUFFICES ASSUME NEW i \in Routed', Live(i)'
               PROVE  entry'[IdOf(i)'] = [kind |-> "iterator", op |-> i] /\ operations'[IdOf(i)'] = i
    OBVIOUS
  <2>1. Live(i) /\ i \in Routed /\ IdOf(i) # d /\ IdOf(i) \in Ids
    BY <1>10, FrameRecord
  <2> QED BY <1>6, <1>8, <2>1 DEF AdapterInv
<1>13. \A i \in Routed' : ops'[i].reservation = "active" => Live(i)'
  <2> SUFFICES ASSUME NEW i \in Routed', ops'[i].reservation = "active" PROVE Live(i)'
    OBVIOUS
  <2>1. ~(back /\ i = h) /\ ops[i].reservation = "active" /\ i \in Routed
    BY <1>4, <1>5
  <2>2. Live(i)
    BY <2>1 DEF AdapterInv
  <2> QED BY <1>4, <2>1, <2>2 DEF Live, Active
<1>14. \A i \in Routed' : ops'[i].stage \in {"pulling", "reading"} /\ ops'[i].chan = "closed" => ops'[i].closed
  <2> SUFFICES ASSUME NEW i \in Routed', Active(ops'[i]), ops'[i].chan = "closed" PROVE ops'[i].closed
    BY DEF Active
  <2>1. CASE back /\ i = h
    BY <1>4, <2>1
  <2>2. CASE ~(back /\ i = h)
    <3>1. Active(ops[i]) /\ ops[i].chan = "closed" /\ i \in Routed
      BY <1>4, <1>5, <2>2
    <3> QED BY <1>4, <2>2, <3>1 DEF AdapterInv, Active
  <2> QED BY <2>1, <2>2
<1>15. \A e \in Ids : entry'[e].kind = "null" =>
                      \E i \in Routed' : ops'[i].stage = "starting" /\ IdOf(i)' = e
  <2> SUFFICES ASSUME NEW e \in Ids, entry'[e].kind = "null"
               PROVE  \E i \in Routed' : ops'[i].stage = "starting" /\ IdOf(i)' = e
    OBVIOUS
  <2>1. entry[e].kind = "null"
    BY <1>8 DEF Absent
  <2>2. PICK i \in Routed : ops[i].stage = "starting" /\ IdOf(i) = e
    BY <2>1 DEF AdapterInv
  <2> QED BY <1>1, <1>4, <1>6, <2>2 DEF SameFrames
<1>16. \A e \in Ids : /\ entry[e].kind = "iterator" => entry[e].op \in FrameId
                      /\ operations[e] # 0 => operations[e] \in FrameId
  BY <1>1, TypeParts DEF StageInv
<1>17. \A e \in Ids : entry'[e].kind = "iterator" => Running(entry[e].op)'
  <2> SUFFICES ASSUME NEW e \in Ids, entry'[e].kind = "iterator" PROVE Running(entry[e].op)'
    OBVIOUS
  <2>1. entry'[e] = entry[e]
    BY <1>8 DEF Absent
  <2>2. Running(entry[e].op) /\ entry[e].op \in FrameId
    BY <1>16, <2>1 DEF AdapterInv
  <2> QED BY <1>4, <2>1, <2>2 DEF Running, Over
<1>18. \A e \in Ids : operations'[e] # 0 => Running(operations[e])'
  <2> SUFFICES ASSUME NEW e \in Ids, operations'[e] # 0 PROVE Running(operations[e])'
    OBVIOUS
  <2>1. operations'[e] = operations[e]
    BY <1>8
  <2>2. Running(operations[e]) /\ operations[e] \in FrameId
    BY <1>16, <2>1 DEF AdapterInv
  <2> QED BY <1>4, <2>1, <2>2 DEF Running, Over
<1>19. socket' = "open" => \A e \in variables' : \E i \in Routed' : Running(i)' /\ IdOf(i)' = e
  <2> SUFFICES ASSUME socket = "open", NEW e \in variables PROVE \E i \in Routed' : Running(i)' /\ IdOf(i)' = e
    BY <1>8
  <2>1. PICK i \in Routed : Running(i) /\ IdOf(i) = e
    BY DEF AdapterInv
  <2> QED BY <1>1, <1>6, <1>9, <2>1 DEF SameFrames
<1> QED BY <1>11, <1>12, <1>13, <1>14, <1>15, <1>17, <1>18, <1>19 DEF AdapterInv

\* An operation starts under an id that nothing runs under.
LEMMA StartKeepsAdapter ==
  ASSUME TypeOK, StageInv, AdapterInv, SameFrames, Routed' = Routed, socket' = "open" => socket = "open",
         NEW f \in Routed, Generation(f), NEW d, d = IdOf(f), \A i \in Routed : IdOf(i) = d => ~Running(i),
         ops[f].stage = "none", ops' = [ops EXCEPT ![f].stage = "starting"],
         entry' = [entry EXCEPT ![d] = [kind |-> "null", op |-> 0]],
         variables' = variables \cup {d}, UNCHANGED operations
  PROVE  AdapterInv'
<1>1. Routed \subseteq FrameId /\ d \in Ids /\ ops[f] = NoOp /\ ops \in [FrameId -> OpType]
  BY FrameRecord DEF StageInv
<1>2. \A j \in Routed : IdOf(j)' = IdOf(j) /\ Generation(j)' = Generation(j)
  BY DEF SameFrames, IdOf, Generation
<1>3. ops'[f] = [NoOp EXCEPT !.stage = "starting"] /\ \A j \in FrameId : j # f => ops'[j] = ops[j]
  BY <1>1
<1>4. ops'[f].stage = "starting" /\ ops'[f].reservation = "none"
  BY <1>3 DEF NoOp
<1>5. \A j \in FrameId : Running(j)' <=> Running(j) \/ j = f
  BY <1>1, <1>3, <1>4 DEF Running
<1>6. \A j \in FrameId : /\ Live(j)' <=> Live(j)
                         /\ Live(j) => Running(j)
  BY <1>1, <1>3, <1>4 DEF Live, Running
<1>7. /\ \A e \in Ids : e # d => entry'[e] = entry[e]
      /\ entry'[d] = [kind |-> "null", op |-> 0]
  BY <1>1, TypeParts
<1>8. \A j \in Routed : Running(j)' => Generation(j)'
  BY <1>1, <1>2, <1>5 DEF AdapterInv
<1>9. \A j \in Routed : Live(j)' => /\ entry'[IdOf(j)'] = [kind |-> "iterator", op |-> j]
                                    /\ operations'[IdOf(j)'] = j
  <2> SUFFICES ASSUME NEW j \in Routed, Live(j)'
               PROVE  entry'[IdOf(j)'] = [kind |-> "iterator", op |-> j] /\ operations'[IdOf(j)'] = j
    OBVIOUS
  <2>1. Live(j) /\ Running(j) /\ IdOf(j) \in Ids
    BY <1>1, <1>6, FrameRecord
  <2>2. IdOf(j) # d
    BY <2>1
  <2> QED BY <1>2, <1>7, <2>1, <2>2 DEF AdapterInv
<1>10. \A j \in Routed : ops'[j].reservation = "active" => Live(j)'
  BY <1>1, <1>3, <1>4, <1>6 DEF AdapterInv
<1>11. \A j \in Routed : ops'[j].stage \in {"pulling", "reading"} /\ ops'[j].chan = "closed" => ops'[j].closed
  BY <1>1, <1>3, <1>4 DEF AdapterInv
<1>12. \A e \in Ids : entry'[e].kind = "null" =>
                      \E j \in Routed : ops'[j].stage = "starting" /\ IdOf(j)' = e
  <2> SUFFICES ASSUME NEW e \in Ids, entry'[e].kind = "null"
               PROVE  \E j \in Routed : ops'[j].stage = "starting" /\ IdOf(j)' = e
    OBVIOUS
  <2>1. CASE e = d
    BY <1>2, <1>4, <2>1
  <2>2. CASE e # d
    <3>1. PICK j \in Routed : ops[j].stage = "starting" /\ IdOf(j) = e
      BY <1>7, <2>2 DEF AdapterInv
    <3> QED BY <1>1, <1>2, <1>3, <1>4, <3>1
  <2> QED BY <2>1, <2>2
<1>13. \A e \in Ids : /\ entry[e].kind = "iterator" => entry[e].op \in FrameId
                      /\ operations[e] # 0 => operations[e] \in FrameId
  BY <1>1, TypeParts DEF StageInv
<1>14. \A e \in Ids : entry'[e].kind = "iterator" => Running(entry[e].op)'
  <2> SUFFICES ASSUME NEW e \in Ids, entry'[e].kind = "iterator" PROVE Running(entry[e].op)'
    OBVIOUS
  <2>1. e # d /\ entry'[e] = entry[e]
    BY <1>7
  <2>2. Running(entry[e].op) /\ entry[e].op \in FrameId
    BY <1>13, <2>1 DEF AdapterInv
  <2> QED BY <1>5, <2>1, <2>2 DEF Running
<1>15. \A e \in Ids : operations'[e] # 0 => Running(operations[e])'
  <2> SUFFICES ASSUME NEW e \in Ids, operations'[e] # 0 PROVE Running(operations[e])'
    OBVIOUS
  <2>1. Running(operations[e]) /\ operations[e] \in FrameId /\ operations'[e] = operations[e]
    BY <1>13 DEF AdapterInv
  <2> QED BY <1>5, <2>1 DEF Running
<1>16. socket' = "open" => \A e \in variables' : \E j \in Routed : Running(j)' /\ IdOf(j)' = e
  <2> SUFFICES ASSUME socket = "open", NEW e \in variables' PROVE \E j \in Routed : Running(j)' /\ IdOf(j)' = e
    OBVIOUS
  <2>1. CASE e = d
    BY <1>1, <1>2, <1>5, <2>1
  <2>2. CASE e # d
    <3>1. PICK j \in Routed : Running(j) /\ IdOf(j) = e
      BY <2>2 DEF AdapterInv
    <3> QED BY <1>1, <1>2, <1>5, <3>1
  <2> QED BY <2>1, <2>2
<1> QED BY <1>1, <1>8, <1>9, <1>10, <1>11, <1>12, <1>14, <1>15, <1>16 DEF AdapterInv

\* An operation that started gets its iterator.
LEMMA SubscribedKeepsAdapter ==
  ASSUME TypeOK, GenerationInv, StageInv, AdapterInv, UNCHANGED <<frames, variables>>, socket' = "open" => socket = "open",
         NEW i \in Routed, ops[i].stage = "starting", NEW d, d = IdOf(i),
         entry' = [entry EXCEPT ![d] = [kind |-> "iterator", op |-> i]],
         operations' = [operations EXCEPT ![d] = i],
         ops' = [ops EXCEPT ![i].stage = "pulling", ![i].reservation = "active"]
  PROVE  AdapterInv'
<1>1. Routed \subseteq FrameId /\ Routed' = Routed /\ d \in Ids /\ ops[i] = [NoOp EXCEPT !.stage = "starting"]
      /\ ops \in [FrameId -> OpType] /\ i \in FrameId
  BY FrameRecord DEF Routed, StageInv
<1>2. \A j \in Routed : IdOf(j)' = IdOf(j) /\ Generation(j)' = Generation(j)
  BY DEF IdOf, Generation
<1>3. /\ ops'[i].stage = "pulling" /\ ops'[i].reservation = "active" /\ ~ops'[i].closed /\ ops'[i].chan = "open"
      /\ \A j \in FrameId : j # i => ops'[j] = ops[j]
  BY <1>1 DEF NoOp
<1>4. Running(i) /\ \A j \in Routed : Running(j) /\ IdOf(j) = d => j = i
  <2>1. Running(i)
    BY DEF Running
  <2> QED BY <2>1, OneRuns
<1>5. \A j \in FrameId : Running(j)' <=> Running(j)
  BY <1>3, <1>4 DEF Running
<1>6. \A j \in FrameId : /\ Live(j)' <=> Live(j) \/ j = i
                         /\ Live(j) => Running(j) /\ j # i
  BY <1>3 DEF Live, Running
<1>7. /\ \A e \in Ids : e # d => entry'[e] = entry[e] /\ operations'[e] = operations[e]
      /\ entry'[d] = [kind |-> "iterator", op |-> i] /\ operations'[d] = i
  BY <1>1, TypeParts
<1>8. \A j \in Routed : Running(j)' => Generation(j)'
  BY <1>1, <1>2, <1>5 DEF AdapterInv
<1>9. \A j \in Routed : Live(j)' => /\ entry'[IdOf(j)'] = [kind |-> "iterator", op |-> j]
                                    /\ operations'[IdOf(j)'] = j
  <2> SUFFICES ASSUME NEW j \in Routed, Live(j)'
               PROVE  entry'[IdOf(j)'] = [kind |-> "iterator", op |-> j] /\ operations'[IdOf(j)'] = j
    OBVIOUS
  <2>1. CASE j = i
    BY <1>2, <1>7, <2>1
  <2>2. CASE j # i
    <3>1. Live(j) /\ Running(j) /\ IdOf(j) \in Ids
      BY <1>1, <1>6, <2>2, FrameRecord
    <3>2. IdOf(j) # d
      BY <1>4, <2>2, <3>1
    <3> QED BY <1>2, <1>7, <3>1, <3>2 DEF AdapterInv
  <2> QED BY <2>1, <2>2
<1>10. \A j \in Routed : ops'[j].reservation = "active" => Live(j)'
  BY <1>1, <1>3, <1>6 DEF AdapterInv
<1>11. \A j \in Routed : ops'[j].stage \in {"pulling", "reading"} /\ ops'[j].chan = "closed" => ops'[j].closed
  BY <1>1, <1>3 DEF AdapterInv
<1>12. \A e \in Ids : entry'[e].kind = "null" =>
                      \E j \in Routed : ops'[j].stage = "starting" /\ IdOf(j)' = e
  <2> SUFFICES ASSUME NEW e \in Ids, entry'[e].kind = "null"
               PROVE  \E j \in Routed : ops'[j].stage = "starting" /\ IdOf(j)' = e
    OBVIOUS
  <2>1. e # d /\ entry[e].kind = "null"
    BY <1>7
  <2>2. PICK j \in Routed : ops[j].stage = "starting" /\ IdOf(j) = e
    BY <2>1 DEF AdapterInv
  <2> QED BY <1>1, <1>2, <1>3, <2>1, <2>2
<1>13. \A e \in Ids : /\ entry[e].kind = "iterator" => entry[e].op \in FrameId
                      /\ operations[e] # 0 => operations[e] \in FrameId
  BY <1>1, TypeParts DEF StageInv
<1>14. \A e \in Ids : entry'[e].kind = "iterator" => Running(entry'[e].op) /\ entry'[e].op \in FrameId
  BY <1>1, <1>4, <1>7, <1>13 DEF AdapterInv
<1>15. \A e \in Ids : operations'[e] # 0 => Running(operations'[e]) /\ operations'[e] \in FrameId
  BY <1>1, <1>4, <1>7, <1>13 DEF AdapterInv
<1>16. \A e \in Ids : /\ entry'[e].kind = "iterator" => Running(entry[e].op)'
                      /\ operations'[e] # 0 => Running(operations[e])'
  BY <1>3, <1>14, <1>15 DEF Running
<1>17. socket' = "open" => \A e \in variables' : \E j \in Routed : Running(j)' /\ IdOf(j)' = e
  <2> SUFFICES ASSUME socket = "open", NEW e \in variables PROVE \E j \in Routed : Running(j)' /\ IdOf(j)' = e
    OBVIOUS
  <2>1. PICK j \in Routed : Running(j) /\ IdOf(j) = e
    BY DEF AdapterInv
  <2> QED BY <1>1, <1>2, <1>5, <2>1
<1> QED BY <1>1, <1>8, <1>9, <1>10, <1>11, <1>12, <1>16, <1>17 DEF AdapterInv

\* The close event, operation by operation.
LEMMA CloseOps ==
  ASSUME TypeOK, Close, NEW i \in FrameId
  PROVE  /\ i \in Iterators => ops'[i] = Returned(i)
         /\ i \notin Iterators /\ ops[i].reservation # "none" => ops'[i] = [ops[i] EXCEPT !.reservation = "removed"]
         /\ i \notin Iterators /\ ops[i].reservation = "none" => ops'[i] = ops[i]
         /\ ops'[i] \in OpType /\ ops'[i].stage = ops[i].stage /\ ops'[i].reservation # "active"
         /\ i \notin Iterators => ops'[i].closed = ops[i].closed /\ ops'[i].chan = ops[i].chan
         /\ i \in Iterators => ops'[i].closed
<1>1. ops[i] \in OpType
  BY FrameRecord
<1>2. ops'[i] = CASE i \in Iterators -> Returned(i)
                  [] i \notin Iterators /\ ops[i].reservation # "none"
                      -> [ops[i] EXCEPT !.reservation = "removed"]
                  [] OTHER -> ops[i]
  BY DEF Close
<1>3. CASE i \in Iterators
  <2>1. ops'[i] = Returned(i)
    BY <1>2, <1>3
  <2>2. /\ Returned(i) \in OpType /\ Returned(i).stage = ops[i].stage /\ Returned(i).reservation = "removed"
        /\ Returned(i).closed
    BY <1>1 DEF Returned, OpType
  <2> QED BY <1>3, <2>1, <2>2
<1>4. CASE i \notin Iterators /\ ops[i].reservation # "none"
  BY <1>1, <1>2, <1>4 DEF OpType
<1>5. CASE i \notin Iterators /\ ops[i].reservation = "none"
  BY <1>1, <1>2, <1>5 DEF OpType
<1> QED BY <1>3, <1>4, <1>5

\* The close event drops every entry and ends what the entries held.
LEMMA CloseKeepsAdapter ==
  ASSUME TypeOK, StageInv, AdapterInv, Close
  PROVE  AdapterInv'
<1>1. Routed \subseteq FrameId /\ Routed' = Routed /\ UNCHANGED frames
  BY FrameRecord DEF Routed, Close, laneVars
<1>2. \A j \in Routed : IdOf(j)' = IdOf(j) /\ Generation(j)' = Generation(j)
  BY <1>1 DEF IdOf, Generation
<1>3. \A i \in FrameId : Running(i)' <=> Running(i)
  BY CloseOps DEF Running
<1>4. \A i \in Routed : ~Live(i)'
  <2> SUFFICES ASSUME NEW i \in Routed, Live(i)' PROVE FALSE
    OBVIOUS
  <2>1. i \in FrameId /\ i \notin Iterators /\ Live(i)
    BY <1>1, CloseOps DEF Live
  <2>2. entry[IdOf(i)] = [kind |-> "iterator", op |-> i] /\ IdOf(i) \in Ids
    BY <2>1, FrameRecord DEF AdapterInv
  <2> QED BY <2>1, <2>2 DEF Iterators
<1>5. \A i \in Routed : ops'[i].reservation # "active"
  BY <1>1, CloseOps
<1>6. \A i \in Routed : ops'[i].stage \in {"pulling", "reading"} /\ ops'[i].chan = "closed" => ops'[i].closed
  <2> SUFFICES ASSUME NEW i \in Routed, ops'[i].stage \in {"pulling", "reading"}, ops'[i].chan = "closed"
               PROVE  ops'[i].closed
    OBVIOUS
  <2>1. CASE i \in Iterators
    BY <1>1, <2>1, CloseOps
  <2>2. CASE i \notin Iterators
    <3>1. ops'[i].stage = ops[i].stage /\ ops'[i].chan = ops[i].chan /\ ops'[i].closed = ops[i].closed
      BY <1>1, <2>2, CloseOps
    <3> QED BY <3>1 DEF AdapterInv
  <2> QED BY <2>1, <2>2
<1>7. \A e \in Ids : entry'[e].kind = "absent"
  BY DEF Close, Absent
<1>8. \A e \in Ids : operations'[e] # 0 => operations'[e] = operations[e]
  BY DEF Close
<1>9. \A e \in Ids : operations[e] # 0 => operations[e] \in FrameId
  BY <1>1, TypeParts
<1>10. \A e \in Ids : operations'[e] # 0 => Running(operations[e])'
  <2> SUFFICES ASSUME NEW e \in Ids, operations'[e] # 0 PROVE Running(operations[e])'
    OBVIOUS
  <2>1. Running(operations[e]) /\ operations[e] \in FrameId /\ operations'[e] = operations[e]
    BY <1>8, <1>9 DEF AdapterInv
  <2>2. ops'[operations[e]].stage = ops[operations[e]].stage
    BY <2>1, CloseOps
  <2> QED BY <2>1, <2>2 DEF Running
<1>11. socket' # "open"
  BY DEF Close
<1>12. \A j \in Routed : Running(j)' => Generation(j)'
  BY <1>1, <1>2, <1>3 DEF AdapterInv
<1> QED BY <1>1, <1>4, <1>5, <1>6, <1>7, <1>10, <1>11, <1>12 DEF AdapterInv

-----------------------------------------------------------------------------
\* What a step does to the complete frames on their way.

\* An operation that ends.
LEMMA EndKeepsRetire ==
  ASSUME TypeOK, StageInv, RetireInv, UNCHANGED <<frames, drain>>,
         NEW i \in Routed, NEW d, d = IdOf(i), entry' = [entry EXCEPT ![d] = Absent],
         ops'[i].stage = "ended", \A j \in FrameId : j # i => ops'[j] = ops[j]
  PROVE  RetireInv'
<1>1. Routed \subseteq FrameId /\ Routed' = Routed /\ d \in Ids /\ \A j \in Routed : IdOf(j) \in Ids
  BY FrameRecord DEF Routed
<1>2. \A j \in Routed : IdOf(j)' = IdOf(j) /\ (Generation(j)' <=> Generation(j)) /\ (Waiting(j)' <=> Waiting(j))
  BY DEF IdOf, Generation, Waiting
<1>3. entry'[d].kind = "absent" /\ \A e \in Ids : e # d => entry'[e] = entry[e]
  BY <1>1, TypeParts DEF Absent
<1>4. \A j \in Routed : Served(j)' => Served(j) /\ j # i
  BY <1>1, <1>2, <1>3 DEF Served, Live
<1>5. \A j \in Routed : j # i => (CompletedBy(j) => CompletedBy(j)')
  BY <1>1, <1>2 DEF CompletedBy, IdOf
<1>6. \A j \in Routed : Served(j)' /\ frames'[j].completed => CompletedBy(j)'
  BY <1>4, <1>5 DEF RetireInv
<1>7. \A f \in Routed : Waiting(f)' /\ frames'[f].origin = "retire" =>
         \/ entry'[IdOf(f)'].kind = "absent"
         \/ entry'[IdOf(f)'].kind = "iterator" /\ ops'[entry'[IdOf(f)'].op].retired
  <2> SUFFICES ASSUME NEW f \in Routed, Waiting(f), frames[f].origin = "retire", IdOf(f) # d
               PROVE  \/ entry[IdOf(f)].kind = "absent"
                      \/ entry[IdOf(f)].kind = "iterator" /\ ops'[entry[IdOf(f)].op].retired
    BY <1>1, <1>2, <1>3
  <2>1. \/ entry[IdOf(f)].kind = "absent"
        \/ entry[IdOf(f)].kind = "iterator" /\ ops[entry[IdOf(f)].op].retired
    BY DEF RetireInv
  <2>2. entry[IdOf(f)].kind = "iterator" => entry[IdOf(f)].op # i /\ entry[IdOf(f)].op \in FrameId
    BY <1>1, TypeParts DEF StageInv
  <2> QED BY <2>1, <2>2
<1> QED BY <1>1, <1>2, <1>6, <1>7 DEF RetireInv

\* An operation that goes on with its events.
LEMMA EventKeepsRetire ==
  ASSUME TypeOK, StageInv, RetireInv, UNCHANGED <<frames, drain, entry>>,
         NEW i \in Routed, Goes(ops'[i], ops[i]), ops[i].retired => ops'[i].retired,
         ops[i].stage = "pulling" => ~RetireWaits(IdOf(i)),
         \A j \in FrameId : j # i => ops'[j] = ops[j]
  PROVE  RetireInv'
<1>1. Routed \subseteq FrameId /\ Routed' = Routed /\ \A j \in Routed : IdOf(j) \in Ids
  BY FrameRecord DEF Routed
<1>2. \A j \in Routed : IdOf(j)' = IdOf(j) /\ (Generation(j)' <=> Generation(j)) /\ (Waiting(j)' <=> Waiting(j))
  BY DEF IdOf, Generation, Waiting
<1>3. \A j \in Routed : Served(j)' => Served(j)
  BY <1>1, <1>2 DEF Served, Live, Goes, Active
<1>4. \A j \in Routed : CompletedBy(j) => CompletedBy(j)'
  BY <1>1, <1>2 DEF CompletedBy, IdOf, RetireWaits, Waiting
<1>5. \A j \in Routed : Served(j)' /\ frames'[j].completed => CompletedBy(j)'
  BY <1>3, <1>4 DEF RetireInv
<1>6. \A f \in Routed : entry[IdOf(f)].kind = "iterator" => entry[IdOf(f)].op \in FrameId
  BY <1>1, TypeParts DEF StageInv
<1>7. \A f \in Routed : Waiting(f)' /\ frames'[f].origin = "retire" =>
         \/ entry'[IdOf(f)'].kind = "absent"
         \/ entry'[IdOf(f)'].kind = "iterator" /\ ops'[entry'[IdOf(f)'].op].retired
  BY <1>1, <1>2, <1>6 DEF RetireInv
<1> QED BY <1>1, <1>2, <1>5, <1>7 DEF RetireInv

-----------------------------------------------------------------------------
\* The steps of operations leave the lanes alone.

\* Types after a step that leaves the lanes alone.
LEMMA OpsTypes ==
  ASSUME TypeOK, UNCHANGED <<laneVars, untracked>>, socket' \in {"open", "stopping", "closed"},
         entry' \in [Ids -> [kind : {"absent", "null", "iterator"}, op : {0} \cup Routed]],
         operations' \in [Ids -> {0} \cup Routed], variables' \subseteq Ids,
         ops' \in [FrameId -> OpType], received' \in 0..MaxEvents
  PROVE  TypeOK'
<1>1. UNCHANGED <<frames, clientFrames, drain, lanes, untracked>> /\ Routed' = Routed
  BY DEF laneVars, Routed
<1>2. /\ frames \in Seq(FrameType) /\ Len(frames) \in 0..(MaxFrames + MaxEvents) /\ clientFrames \in 0..MaxFrames
      /\ drain \in {0} \cup Routed
      /\ lanes \in [Ids -> [tail : {0} \cup Routed, pending : 0..Len(frames), current : {0} \cup Routed]]
      /\ untracked \in BOOLEAN
  BY TypeParts
<1> QED BY <1>1, <1>2 DEF TypeOK, FrameType, OpType

\* Such a step ends operations and stores one that belongs to the id.
LEMMA OpsStage ==
  ASSUME TypeOK, StageInv, UNCHANGED frames,
         \A j \in FrameId : ops'[j] = ops[j] \/ (ops[j].stage # "none" /\ ops'[j].stage \notin {"none", "starting"}),
         socket' = "closed" => \A j \in FrameId : ops'[j].reservation # "active",
         \A d \in Ids : \/ entry'[d] \in {entry[d], Absent}
                        \/ \E j \in Routed : /\ entry'[d] = [kind |-> "iterator", op |-> j]
                                             /\ IdOf(j) = d /\ ops'[j].stage \notin {"none", "starting"},
         \A d \in Ids : \/ operations'[d] \in {0, operations[d]}
                        \/ IdOf(operations'[d]) = d /\ ops'[operations'[d]].stage \notin {"none", "starting"}
  PROVE  StageInv'
<1>1. Routed' = Routed /\ Routed \subseteq FrameId /\ \A f \in Routed : f # 0
  BY FrameRecord DEF Routed
<1>2. \A j \in FrameId : ops[j].stage \notin {"none", "starting"} => ops'[j].stage \notin {"none", "starting"}
  OBVIOUS
<1>3. /\ \A j \in FrameId : ops'[j].stage = "none" => ops'[j] = NoOp
      /\ \A j \in FrameId : ops'[j].stage = "starting" => ops'[j] = [NoOp EXCEPT !.stage = "starting"]
  BY DEF StageInv
<1>4. \A j \in FrameId : ops'[j].stage # "none" <=>
       j \in Routed /\ frames'[j].type = "subscribe" /\ frames'[j].state = "delivered"
  BY DEF StageInv
<1>5. \A d \in Ids : /\ entry[d].kind = "iterator" => entry[d].op \in FrameId
                     /\ operations[d] # 0 => operations[d] \in FrameId
  BY <1>1, TypeParts DEF StageInv
<1>6. \A d \in Ids : /\ entry'[d].kind = "iterator" => /\ entry'[d].op # 0 /\ IdOf(entry'[d].op) = d
                                                       /\ ops'[entry'[d].op].stage \notin {"none", "starting"}
                     /\ entry'[d].kind # "iterator" => entry'[d].op = 0
  <2> SUFFICES ASSUME NEW d \in Ids
               PROVE  /\ entry'[d].kind = "iterator" => /\ entry'[d].op # 0 /\ IdOf(entry'[d].op) = d
                                                        /\ ops'[entry'[d].op].stage \notin {"none", "starting"}
                      /\ entry'[d].kind # "iterator" => entry'[d].op = 0
    OBVIOUS
  <2>1. CASE entry'[d] = entry[d]
    BY <1>2, <1>5, <2>1 DEF StageInv
  <2>2. CASE entry'[d] = Absent
    BY <2>2 DEF Absent
  <2>3. CASE \E j \in Routed : /\ entry'[d] = [kind |-> "iterator", op |-> j]
                               /\ IdOf(j) = d /\ ops'[j].stage \notin {"none", "starting"}
    BY <1>1, <2>3
  <2> QED BY <2>1, <2>2, <2>3
<1>7. \A d \in Ids : operations'[d] # 0 => /\ IdOf(operations'[d]) = d
                                           /\ ops'[operations'[d]].stage \notin {"none", "starting"}
  BY <1>2, <1>5 DEF StageInv
<1>8. \A k : IdOf(k)' = IdOf(k)
  BY DEF IdOf
<1>9. \A d \in Ids : /\ entry'[d].kind = "iterator" => frames'[entry'[d].op].id = d
                     /\ operations'[d] # 0 => frames'[operations'[d]].id = d
  BY <1>6, <1>7 DEF IdOf
<1> QED BY <1>1, <1>3, <1>4, <1>6, <1>7, <1>9 DEF StageInv, IdOf

\* A step that ends operation i of id d.  While none is untracked it concerns no other.
LEMMA EndStep ==
  ASSUME OperationsInv, UNCHANGED <<laneVars, received, historyVars>>,
         NEW i \in Routed, Running(i), NEW d, d = IdOf(i),
         socket' \in {socket, Stopping},
         \A j \in FrameId : ops'[j] \in OpType /\ Fades(ops'[j], ops[j], socket' = "open"),
         ops' \in [FrameId -> OpType], ops'[i].stage = "ended",
         \A j \in FrameId : ops'[j].reservation = "active" => ops[j].reservation = "active",
         \A j \in FrameId : j # i => ops'[j] = ops[j] \/
                              (ops[j].stage \notin {"none", "starting"} /\ ops'[j].stage = ops[j].stage),
         entry' = [entry EXCEPT ![d] = Absent],
         operations' \in {operations, [operations EXCEPT ![d] = 0]},
         variables' \subseteq variables, socket' = "open" => variables' = variables \ {d},
         ~untracked => /\ operations' = [operations EXCEPT ![d] = 0] /\ ops'[i].reservation # "active"
                       /\ \A j \in FrameId : j # i => ops'[j] = ops[j]
  PROVE  OperationsInv'
<1>1. /\ TypeOK /\ OrderInv /\ LaneInv /\ GenerationInv /\ StageInv /\ EventsInv /\ CountInv
      /\ untracked \/ AdapterInv
      /\ untracked \/ socket # "open" \/ RetireInv
  BY DEF OperationsInv
<1>2. /\ Routed \subseteq FrameId /\ Routed' = Routed /\ d \in Ids /\ frames' = frames /\ drain' = drain
      /\ received' = received /\ untracked' = untracked /\ pushed' = pushed /\ taken' = taken /\ sent' = sent
      /\ clientFrames' = clientFrames /\ ops[i].stage # "none"
  BY <1>1, FrameRecord DEF laneVars, historyVars, Routed, Running
<1>3. /\ socket' = "open" => socket = "open"
      /\ socket' = "closed" => socket = "closed"
      /\ socket' \in {"open", "stopping", "closed"}
  BY <1>1 DEF Stopping, TypeOK
<1>4. TypeOK'
  <2>1. /\ entry \in [Ids -> [kind : {"absent", "null", "iterator"}, op : {0} \cup Routed]]
        /\ operations \in [Ids -> {0} \cup Routed] /\ variables \subseteq Ids /\ received \in 0..MaxEvents
    BY <1>1, TypeParts
  <2>2. /\ entry' \in [Ids -> [kind : {"absent", "null", "iterator"}, op : {0} \cup Routed]]
        /\ operations' \in [Ids -> {0} \cup Routed] /\ variables' \subseteq Ids
    BY <1>2, <2>1 DEF Absent
  <2> QED BY <1>1, <1>2, <1>3, <2>1, <2>2, OpsTypes
<1>5. OrderInv' /\ LaneInv' /\ GenerationInv'
  <2>1. \A j \in Routed : ops[j].stage = "ended" => ops'[j].stage = "ended"
    BY <1>2
  <2> QED BY <1>1, <1>3, <2>1, LanesKeep
<1>6. StageInv'
  <2>1. \A j \in FrameId : ops'[j] = ops[j] \/ (ops[j].stage # "none" /\ ops'[j].stage \notin {"none", "starting"})
    BY <1>2
  <2>2. socket' = "closed" => \A j \in FrameId : ops'[j].reservation # "active"
    BY <1>1, <1>3 DEF StageInv
  <2>3. \A e \in Ids : entry'[e] \in {entry[e], Absent} /\ operations'[e] \in {0, operations[e]}
    BY <1>1, <1>2, TypeParts
  <2> QED BY <1>1, <1>2, <2>1, <2>2, <2>3, OpsStage
<1>7. EventsInv' /\ Hand' \subseteq Hand
  BY <1>1, <1>2, <1>3, AllFade
<1>8. CountInv'
  <2>1. Retires' = Retires /\ Len(frames) \in Nat /\ clientFrames \in Nat
    BY <1>1, <1>2, UnchangedFrames, SameRetires, FrameRecord, Bounds DEF TypeOK
  <2> QED BY <1>1, <1>2, <1>7, <2>1, CountKeeps
<1>9. untracked' \/ AdapterInv'
  BY <1>1, <1>2, <1>3, EndKeepsAdapter
<1>10. untracked' \/ socket' # "open" \/ RetireInv'
  BY <1>1, <1>2, <1>3, EndKeepsRetire
<1> QED BY <1>4, <1>5, <1>6, <1>7, <1>8, <1>9, <1>10 DEF OperationsInv

\* What finalizing an operation changes.
LEMMA FinalizedFacts ==
  ASSUME NEW i \in FrameId, ops[i] \in OpType
  PROVE  /\ Finalized(i) \in OpType /\ [Finalized(i) EXCEPT !.stage = "ended", !.at = 0] \in OpType
         /\ [Finalized(i) EXCEPT !.stage = "ended", !.at = 0].stage = "ended"
         /\ [Finalized(i) EXCEPT !.stage = "ended", !.at = 0].reservation = "removed"
         /\ Finalized(i).stage = ops[i].stage /\ Finalized(i).reservation = "removed"
         /\ Finalized(i).closed = ops[i].closed /\ Finalized(i).chan = "closed"
         /\ \A open : /\ Fades(Finalized(i), ops[i], open)
                      /\ Fades([Finalized(i) EXCEPT !.stage = "ended", !.at = 0], ops[i], open)
<1>1. /\ Finalized(i) \in OpType /\ Finalized(i).stage = ops[i].stage /\ Finalized(i).reservation = "removed"
      /\ Finalized(i).chan = "closed" /\ Finalized(i).closed = ops[i].closed
      /\ Finalized(i).at = ops[i].at /\ Finalized(i).queued = 0
  BY DEF Finalized, OpType
<1> DEFINE o == Finalized(i)
           e == [o EXCEPT !.stage = "ended", !.at = 0]
<1>2. e \in OpType /\ e.stage = "ended" /\ e.reservation = "removed" /\ e.queued = 0
  BY <1>1 DEF OpType
<1>3. \A open : Fades(o, ops[i], open) /\ Fades(e, ops[i], open)
  BY <1>1, <1>2 DEF Fades
<1> QED BY <1>1, <1>2, <1>3

\* An operation that is starting has touched nothing.
LEMMA StartingFacts ==
  ASSUME TypeOK, StageInv, NEW i \in Routed, ops[i].stage = "starting"
  PROVE  /\ i \in FrameId /\ Running(i) /\ ops \in [FrameId -> OpType] /\ IdOf(i) \in Ids
         /\ ops[i].reservation = "none" /\ ~ops[i].closed /\ ops[i].chan = "open"
         /\ ops[i].queued = 0 /\ ops[i].at = 0 /\ ops[i].ack = 0 /\ ~ops[i].delivered /\ ~ops[i].retired
<1>1. i \in FrameId /\ ops \in [FrameId -> OpType] /\ IdOf(i) \in Ids
  BY FrameRecord
<1>2. ops[i] = [NoOp EXCEPT !.stage = "starting"]
  BY <1>1 DEF StageInv
<1> QED BY <1>1, <1>2 DEF NoOp, Running

\* Nothing is stored for an id whose operation has only started.
LEMMA NoneStored ==
  ASSUME TypeOK, GenerationInv, StageInv, AdapterInv, NEW i \in Routed, ops[i].stage = "starting"
  PROVE  operations[IdOf(i)] = 0 /\ entry[IdOf(i)].kind # "iterator"
<1>1. Running(i) /\ IdOf(i) \in Ids
  BY StartingFacts
<1>2. \A j \in Routed : Running(j) /\ IdOf(j) = IdOf(i) => j = i
  BY <1>1, OneRuns
<1>3. operations[IdOf(i)] = 0
  <2> SUFFICES ASSUME operations[IdOf(i)] # 0 PROVE FALSE
    OBVIOUS
  <2> DEFINE h == operations[IdOf(i)]
  <2>1. h \in Routed /\ IdOf(h) = IdOf(i) /\ Running(h) /\ ops[h].stage # "starting"
    BY <1>1, TypeParts DEF StageInv, AdapterInv
  <2> QED BY <1>2, <2>1
<1>4. entry[IdOf(i)].kind # "iterator"
  <2> SUFFICES ASSUME entry[IdOf(i)].kind = "iterator" PROVE FALSE
    OBVIOUS
  <2> DEFINE h == entry[IdOf(i)].op
  <2>1. h \in Routed /\ IdOf(h) = IdOf(i) /\ Running(h) /\ ops[h].stage # "starting"
    BY <1>1, TypeParts DEF StageInv, AdapterInv
  <2> QED BY <1>2, <2>1
<1> QED BY <1>3, <1>4

\* onSubscribe ends with errors or rejects, or subscribe() gives a single result.
LEMMA SubscribeFailsKeeps ==
  ASSUME OperationsInv, NEW i \in Routed, SubscribeFails(i) \/ SubscribeThrows(i) \/ SubscribeErrors(i)
  PROVE  OperationsInv'
<1> DEFINE d == IdOf(i)
<1>1. /\ TypeOK /\ GenerationInv /\ StageInv
      /\ untracked \/ AdapterInv
  BY DEF OperationsInv
<1>2. ops[i].stage = "starting"
  BY DEF SubscribeFails, SubscribeThrows, SubscribeErrors
<1>3. /\ i \in FrameId /\ Running(i) /\ ops \in [FrameId -> OpType] /\ d \in Ids
      /\ ops[i].reservation = "none" /\ ops[i].queued = 0
  BY <1>1, <1>2, StartingFacts
<1>4. /\ ops' = [ops EXCEPT ![i].stage = "ended"]
      /\ entry' = [entry EXCEPT ![d] = Absent] /\ socket' \in {socket, Stopping}
      /\ variables' \subseteq variables /\ (socket' = "open" => variables' = variables \ {d})
      /\ operations' \in {operations, [operations EXCEPT ![d] = 0]}
      /\ UNCHANGED <<laneVars, received, historyVars>>
  BY DEF SubscribeFails, SubscribeThrows, SubscribeErrors, Stopping
<1>5. /\ ops'[i] = [ops[i] EXCEPT !.stage = "ended"] /\ \A j \in FrameId : j # i => ops'[j] = ops[j]
      /\ ops'[i] \in OpType /\ ops'[i].stage = "ended" /\ ops'[i].reservation = "none" /\ ops'[i].queued = 0
  BY <1>3, <1>4 DEF OpType
<1>6. \A j \in FrameId : ops'[j] \in OpType /\ Fades(ops'[j], ops[j], socket' = "open")
  <2>1. Fades(ops'[i], ops[i], socket' = "open")
    BY <1>5 DEF Fades
  <2> QED BY <1>3, <1>5, <2>1, FadesSame
<1>7. ops' \in [FrameId -> OpType]
  BY <1>3, <1>4, <1>5
<1>8. ~untracked => operations' = [operations EXCEPT ![d] = 0]
  <2>1. ~untracked => operations[d] = 0
    BY <1>1, <1>2, NoneStored
  <2>2. operations[d] = 0 => operations = [operations EXCEPT ![d] = 0]
    BY <1>1, <1>3, TypeParts
  <2> QED BY <1>4, <2>1, <2>2
<1> HIDE DEF d
<1>9. d = IdOf(i)
  BY DEF d
<1> QED BY <1>3, <1>4, <1>5, <1>6, <1>7, <1>8, <1>9, EndStep

\* The iterator's loop is over.
LEMMA LoopEndsKeeps ==
  ASSUME OperationsInv, NEW i \in Routed, LoopEnds(i)
  PROVE  OperationsInv'
<1> DEFINE d == IdOf(i)
           h == operations[d]
<1>1. /\ TypeOK /\ GenerationInv /\ StageInv
      /\ untracked \/ AdapterInv
  BY DEF OperationsInv
<1>2. i \in FrameId /\ ops \in [FrameId -> OpType] /\ d \in Ids /\ Running(i) /\ ops[i].stage \notin {"none", "starting"}
  BY <1>1, FrameRecord DEF LoopEnds, Running
<1>3. /\ ops' = [OpsAfterComplete(d) EXCEPT ![i].stage = "ended", ![i].at = 0]
      /\ operations' = [operations EXCEPT ![d] = 0] /\ variables' = variables \ {d}
      /\ entry' = [entry EXCEPT ![d] = Absent]
      /\ UNCHANGED <<socket, laneVars, received, historyVars>>
  BY DEF LoopEnds, EndOf
<1>4. h # 0 => h \in FrameId /\ h \in Routed /\ IdOf(h) = d /\ ops[h].stage \notin {"none", "starting"}
  BY <1>1, <1>2, FrameRecord, TypeParts DEF StageInv
<1>5. /\ OpsAfterComplete(d) \in [FrameId -> OpType]
      /\ \A j \in FrameId : OpsAfterComplete(d)[j] = IF j = h THEN Finalized(j) ELSE ops[j]
  <2>1. h # 0 => Finalized(h) \in OpType
    BY <1>2, <1>4, FinalizedFacts
  <2>2. \A j \in FrameId : j # 0
    BY DEF FrameId
  <2> QED BY <1>2, <1>4, <2>1, <2>2 DEF OpsAfterComplete
<1> DEFINE o == OpsAfterComplete(d)[i]
           e == [o EXCEPT !.stage = "ended", !.at = 0]
<1>a. /\ o \in OpType /\ o.stage = ops[i].stage /\ o.queued \in {0, ops[i].queued}
      /\ o.reservation \in {ops[i].reservation, "removed"}
      /\ i = h => o.reservation = "removed"
  <2>1. CASE i = h
    <3>1. o = Finalized(i)
      BY <1>2, <1>5, <2>1
    <3>2. ops[i] \in OpType
      BY <1>2
    <3> QED BY <2>1, <3>1, <3>2 DEF Finalized, OpType
  <2>2. CASE i # h
    <3>1. o = ops[i]
      BY <1>2, <1>5, <2>2
    <3> QED BY <1>2, <2>2, <3>1
  <2> QED BY <2>1, <2>2
<1>b. ops' = [OpsAfterComplete(d) EXCEPT ![i] = e]
  BY <1>2, <1>3, <1>5
<1>c. e \in OpType /\ e.stage = "ended" /\ e.reservation = o.reservation /\ e.queued = o.queued
  BY <1>a DEF OpType
<1> HIDE DEF o, e, h, d
<1>6. /\ ops'[i] = e /\ ops' \in [FrameId -> OpType]
      /\ \A j \in FrameId : j # i => ops'[j] = OpsAfterComplete(d)[j]
  BY <1>2, <1>5, <1>b, <1>c
<1>7. /\ ops'[i].stage = "ended" /\ ops'[i].reservation \in {ops[i].reservation, "removed"}
      /\ i = h => ops'[i].reservation = "removed"
      /\ ops'[i].queued \in {0, ops[i].queued}
  <2>1. ops'[i] = e
    BY <1>6
  <2>2. ops'[i].stage = "ended" /\ ops'[i].reservation = o.reservation /\ ops'[i].queued = o.queued
    BY <2>1, <1>c
  <2> QED BY <2>2, <1>a
<1>8. \A j \in FrameId : j # i => /\ j = h => ops'[j] = Finalized(j)
                                  /\ j # h => ops'[j] = ops[j]
  BY <1>5, <1>6
<1>9. \A j \in FrameId : ops'[j] \in OpType /\ Fades(ops'[j], ops[j], socket' = "open")
  <2>1. Fades(ops'[i], ops[i], socket' = "open")
    BY <1>7 DEF Fades
  <2>2. ASSUME NEW j \in FrameId, j # i PROVE Fades(ops'[j], ops[j], socket' = "open")
    <3>1. ops[j] \in OpType
      BY <1>2
    <3> QED BY <1>8, <2>2, <3>1, FadesSame, FinalizedFacts
  <2> QED BY <1>6, <2>1, <2>2
<1>d. \A j \in FrameId : Finalized(j).stage = ops[j].stage /\ Finalized(j).reservation = "removed"
  <2> SUFFICES ASSUME NEW j \in FrameId, ops[j] \in OpType
               PROVE  Finalized(j).stage = ops[j].stage /\ Finalized(j).reservation = "removed"
    BY <1>2
  <2> QED BY FinalizedFacts
<1>10. \A j \in FrameId : ops'[j].reservation = "active" => ops[j].reservation = "active"
  BY <1>7, <1>8, <1>d
<1>11. \A j \in FrameId : j # i => ops'[j] = ops[j] \/
                              (ops[j].stage \notin {"none", "starting"} /\ ops'[j].stage = ops[j].stage)
  <2>1. \A j \in FrameId : j # 0
    BY DEF FrameId
  <2> QED BY <1>4, <1>8, <1>d, <2>1
<1>12. ~untracked => ops'[i].reservation # "active" /\ \A j \in FrameId : j # i => ops'[j] = ops[j]
  <2> SUFFICES ASSUME ~untracked
               PROVE  ops'[i].reservation # "active" /\ \A j \in FrameId : j # i => ops'[j] = ops[j]
    OBVIOUS
  <2>1. AdapterInv
    BY <1>1
  <2>2. h # 0 => h = i
    BY <1>1, <1>2, <1>4, <2>1, OneRuns DEF AdapterInv, d, h
  <2>3. \A j \in FrameId : j # i => ops'[j] = ops[j]
    BY <1>8, <2>2 DEF FrameId
  <2>4. ops[i].reservation = "active" => h = i
    BY <2>1 DEF AdapterInv, d, h
  <2> QED BY <1>7, <2>3, <2>4
<1>13. d = IdOf(i) /\ socket' \in {socket, Stopping}
  BY <1>3 DEF d
<1> QED BY <1>2, <1>3, <1>6, <1>7, <1>9, <1>10, <1>11, <1>12, <1>13, EndStep

\* The generator fails.
LEMMA ReadFailsKeeps ==
  ASSUME OperationsInv, NEW i \in Routed, ReadFails(i)
  PROVE  OperationsInv'
<1> DEFINE d == IdOf(i)
           o == [Finalized(i) EXCEPT !.stage = "ended", !.at = 0]
<1>1. TypeOK
  BY DEF OperationsInv
<1>2. i \in FrameId /\ ops \in [FrameId -> OpType] /\ d \in Ids /\ Running(i)
  BY <1>1, FrameRecord DEF ReadFails, Running
<1>3. /\ ops' = [ops EXCEPT ![i] = o]
      /\ operations' = [operations EXCEPT ![d] = 0] /\ variables' = variables \ {d}
      /\ entry' = [entry EXCEPT ![d] = Absent] /\ socket' \in {socket, Stopping}
      /\ UNCHANGED <<laneVars, received, historyVars>>
  BY DEF ReadFails
<1>4. o \in OpType /\ o.stage = "ended" /\ o.reservation = "removed" /\ Fades(o, ops[i], socket' = "open")
  BY <1>2, FinalizedFacts
<1> HIDE DEF d, o
<1>5. ops'[i] = o /\ (\A j \in FrameId : j # i => ops'[j] = ops[j]) /\ ops' \in [FrameId -> OpType]
  BY <1>2, <1>3, <1>4
<1>6. \A j \in FrameId : ops'[j] \in OpType /\ Fades(ops'[j], ops[j], socket' = "open")
  BY <1>4, <1>5, FadesSame
<1>7. d = IdOf(i)
  BY DEF d
<1>8. \A j \in FrameId : ops'[j].reservation = "active" => ops[j].reservation = "active"
  BY <1>4, <1>5
<1> QED BY <1>2, <1>3, <1>4, <1>5, <1>6, <1>7, <1>8, EndStep

\* What is left to show of a step that leaves the lanes alone.
LEMMA OpsStep ==
  ASSUME OperationsInv, UNCHANGED <<laneVars, untracked>>, socket' = "open" => socket = "open",
         \A i \in Routed : ops[i].stage = "ended" => ops'[i].stage = "ended",
         TypeOK', StageInv', EventsInv', CountInv',
         ~untracked /\ AdapterInv => AdapterInv',
         ~untracked /\ AdapterInv /\ socket' = "open" /\ RetireInv => RetireInv'
  PROVE  OperationsInv'
<1>1. untracked' = untracked /\ OrderInv' /\ LaneInv' /\ GenerationInv'
  BY LanesKeep DEF OperationsInv
<1> QED BY <1>1 DEF OperationsInv

\* The iterator comes for an id whose entry is still there.
LEMMA SubscribedLive ==
  ASSUME OperationsInv, NEW i \in Routed, Subscribed(i), entry[IdOf(i)].kind # "absent"
  PROVE  OperationsInv'
<1> DEFINE d == IdOf(i)
<1>1. TypeOK /\ OrderInv /\ GenerationInv /\ StageInv /\ EventsInv /\ CountInv
  BY DEF OperationsInv
<1>2. ops[i].stage = "starting" /\ socket = "open"
  BY DEF Subscribed
<1>3. /\ i \in FrameId /\ Running(i) /\ ops \in [FrameId -> OpType] /\ d \in Ids
      /\ ~ops[i].closed /\ ops[i].chan = "open" /\ ops[i].queued = 0 /\ ops[i].ack = 0 /\ ~ops[i].delivered
  BY <1>1, <1>2, StartingFacts
<1>4. /\ entry' = [entry EXCEPT ![d] = [kind |-> "iterator", op |-> i]]
      /\ operations' = [operations EXCEPT ![d] = i]
      /\ ops' = [ops EXCEPT ![i].stage = "pulling", ![i].reservation = "active"]
      /\ UNCHANGED <<variables, socket, laneVars, received, historyVars>>
  BY DEF Subscribed
<1> HIDE DEF d
<1>5. /\ UNCHANGED <<frames, drain, clientFrames, untracked, pushed, taken, sent>> /\ Routed' = Routed
      /\ Routed \subseteq FrameId
  BY <1>1, <1>4, FrameRecord DEF laneVars, historyVars, Routed
<1>6. /\ ops'[i] = [ops[i] EXCEPT !.stage = "pulling", !.reservation = "active"]
      /\ \A j \in FrameId : j # i => ops'[j] = ops[j]
  BY <1>3, <1>4
<1>7. /\ ops'[i] \in OpType /\ ops'[i].stage = "pulling" /\ ops'[i].queued = 0 /\ ops'[i].ack = 0
      /\ ~ops'[i].delivered /\ ~ops'[i].closed /\ ops'[i].chan = "open"
  BY <1>3, <1>6 DEF OpType
<1>8. TypeOK'
  <2>1. ops' \in [FrameId -> OpType]
    BY <1>3, <1>4, <1>6, <1>7
  <2>2. entry' \in [Ids -> [kind : {"absent", "null", "iterator"}, op : {0} \cup Routed]]
        /\ operations' \in [Ids -> {0} \cup Routed]
    BY <1>1, <1>4, TypeParts
  <2> QED BY <1>1, <1>4, <1>5, <2>1, <2>2, OpsTypes, TypeParts
<1>9. StageInv'
  <2>1. \A j \in FrameId : ops'[j] = ops[j] \/ (ops[j].stage # "none" /\ ops'[j].stage \notin {"none", "starting"})
    BY <1>2, <1>6, <1>7
  <2>2. /\ \A e \in Ids : e # d => entry'[e] = entry[e] /\ operations'[e] = operations[e]
        /\ entry'[d] = [kind |-> "iterator", op |-> i] /\ operations'[d] = i
    BY <1>1, <1>3, <1>4, TypeParts
  <2>3. IdOf(i) = d
    BY DEF d
  <2>4. \A e \in Ids : \/ entry'[e] \in {entry[e], Absent}
                       \/ \E j \in Routed : /\ entry'[e] = [kind |-> "iterator", op |-> j]
                                            /\ IdOf(j) = e /\ ops'[j].stage \notin {"none", "starting"}
    BY <1>7, <2>2, <2>3
  <2>5. \A e \in Ids : \/ operations'[e] \in {0, operations[e]}
                       \/ IdOf(operations'[e]) = e /\ ops'[operations'[e]].stage \notin {"none", "starting"}
    BY <1>7, <2>2, <2>3
  <2> QED BY <1>1, <1>2, <1>4, <1>5, <2>1, <2>4, <2>5, OpsStage
<1>10. EventsInv'
  <2>1. /\ \A j \in FrameId : EventInv(ops[j], pushed[j], taken[j], sent[j], received, TRUE)
        /\ pushed \in [FrameId -> SUBSET Event]
        /\ taken \in [FrameId -> Seq(Event)] /\ sent \in [FrameId -> Seq(Event)]
    BY <1>1, <1>2 DEF EventsInv
  <2>2. EventInv(ops'[i], pushed[i], taken[i], sent[i], received, TRUE)
    <3>1. EventInv(ops[i], pushed[i], taken[i], sent[i], received, TRUE)
      BY <1>3, <2>1
    <3>2. pushed[i] = {} /\ taken[i] = <<>> /\ sent[i] = <<>>
      BY <1>2, <3>1 DEF EventInv
    <3>3. {taken[i][j] : j \in DOMAIN taken[i]} = {}
      BY <3>2
    <3> QED BY <1>7, <3>1, <3>2, <3>3 DEF EventInv
  <2>3. \A j \in FrameId : EventInv(ops'[j], pushed[j], taken[j], sent[j], received, TRUE)
    BY <1>6, <2>1, <2>2
  <2> QED BY <1>2, <1>4, <1>5, <2>1, <2>3 DEF EventsInv
<1>11. CountInv'
  <2>1. Hand' \subseteq Hand
    <3>1. \A e \in 1..received : e # 0
      BY <1>1, Bounds DEF TypeOK
    <3>2. \A j \in FrameId : \A e \in 1..received : InHand(ops'[j], e) => InHand(ops[j], e)
      BY <1>6, <1>7, <3>1 DEF InHand
    <3> QED BY <1>4, <3>2 DEF Hand
  <2>2. Retires' = Retires /\ Len(frames) \in Nat /\ clientFrames \in Nat
    BY <1>1, <1>5, UnchangedFrames, SameRetires, FrameRecord, Bounds DEF TypeOK
  <2> QED BY <1>1, <1>4, <1>5, <2>1, <2>2, CountKeeps
<1>12. ASSUME ~untracked, AdapterInv PROVE AdapterInv'
  BY <1>1, <1>2, <1>4, <1>5, <1>12, SubscribedKeepsAdapter DEF d
<1>13. ASSUME ~untracked, AdapterInv, RetireInv PROVE RetireInv'
  <2>1. entry[d].kind = "null"
    <3>1. entry[d].kind # "iterator" /\ entry[d].kind # "absent"
      BY <1>1, <1>2, <1>13, NoneStored DEF d
    <3> QED BY <1>1, <1>3, <3>1, TypeParts
  <2>2. \A j \in Routed : /\ IdOf(j)' = IdOf(j) /\ IdOf(j) \in Ids
                          /\ Generation(j)' <=> Generation(j)
                          /\ Waiting(j)' <=> Waiting(j)
    BY <1>1, <1>5, FrameRecord DEF IdOf, Generation, Waiting
  <2>3. entry'[d] = [kind |-> "iterator", op |-> i] /\ \A e \in Ids : e # d => entry'[e] = entry[e]
    BY <1>1, <1>3, <1>4, TypeParts
  <2>4. \A f \in Routed : Waiting(f) /\ frames[f].origin = "retire" => IdOf(f) # d
    BY <1>13, <2>1 DEF RetireInv
  <2>5. \A j \in Routed : Served(j)' => Served(j)
    <3> SUFFICES ASSUME NEW j \in Routed, Served(j)' PROVE Served(j)
      OBVIOUS
    <3>1. CASE j = i
      BY <1>2, <2>1, <3>1 DEF Served, d
    <3>2. CASE j # i
      <4>1. ops'[j] = ops[j] /\ j \in FrameId
        BY <1>5, <1>6, <3>2
      <4>2. ops[j].stage = "starting" /\ entry'[IdOf(j)].kind = "null" => entry[IdOf(j)].kind = "null"
        BY <2>2, <2>3
      <4> QED BY <2>2, <4>1, <4>2 DEF Served, Live
    <3> QED BY <3>1, <3>2
  <2>6. \A j \in Routed : ops[j].stage \in {"starting", "pulling", "reading"} => (CompletedBy(j) => CompletedBy(j)')
    BY <1>2, <1>5, <1>6 DEF CompletedBy, IdOf, Waiting
  <2>7. \A j \in Routed : Served(j)' /\ frames'[j].completed => CompletedBy(j)'
    BY <1>5, <1>13, <2>5, <2>6 DEF RetireInv, Served, Live
  <2>8. \A f \in Routed : entry[IdOf(f)].kind = "iterator" => entry[IdOf(f)].op # i
    BY <1>1, <1>2, <2>2 DEF StageInv
  <2>9. \A f \in Routed : Waiting(f) /\ frames[f].origin = "retire" =>
         \/ entry'[IdOf(f)].kind = "absent"
         \/ entry'[IdOf(f)].kind = "iterator" /\ ops'[entry'[IdOf(f)].op].retired
    <3> SUFFICES ASSUME NEW f \in Routed, Waiting(f), frames[f].origin = "retire"
                 PROVE  \/ entry'[IdOf(f)].kind = "absent"
                        \/ entry'[IdOf(f)].kind = "iterator" /\ ops'[entry'[IdOf(f)].op].retired
      OBVIOUS
    <3>1. entry'[IdOf(f)] = entry[IdOf(f)]
      BY <2>2, <2>3, <2>4
    <3>2. \/ entry[IdOf(f)].kind = "absent"
          \/ entry[IdOf(f)].kind = "iterator" /\ ops[entry[IdOf(f)].op].retired
      BY <1>13 DEF RetireInv
    <3>3. entry[IdOf(f)].kind = "iterator" => entry[IdOf(f)].op \in FrameId /\ entry[IdOf(f)].op # i
      BY <1>1, <1>5, <2>2, <2>8, TypeParts DEF StageInv
    <3> QED BY <1>6, <3>1, <3>2, <3>3
  <2> QED BY <1>5, <1>13, <2>2, <2>7, <2>9 DEF RetireInv
<1>14. \A j \in Routed : ops[j].stage = "ended" => ops'[j].stage = "ended"
  BY <1>2, <1>5, <1>6
<1> QED BY <1>2, <1>4, <1>5, <1>8, <1>9, <1>10, <1>11, <1>12, <1>13, <1>14, OpsStep

\* subscribe() gives an iterator.
LEMMA SubscribedKeeps ==
  ASSUME OperationsInv, NEW i \in Routed, Subscribed(i)
  PROVE  OperationsInv'
<1>1. CASE entry[IdOf(i)].kind # "absent"
  BY <1>1, SubscribedLive
<1>2. CASE entry[IdOf(i)].kind = "absent"
  <2> DEFINE d == IdOf(i)
             o == [ops[i] EXCEPT !.stage = "ended", !.closed = TRUE, !.chan = "closed", !.reservation = "removed"]
  <2>1. TypeOK /\ StageInv /\ ops[i].stage = "starting"
    BY DEF OperationsInv, Subscribed
  <2>2. i \in FrameId /\ Running(i) /\ ops \in [FrameId -> OpType] /\ d \in Ids /\ ops[i].queued = 0
    BY <2>1, StartingFacts
  <2>3. /\ ops' = [ops EXCEPT ![i].stage = "ended", ![i].closed = TRUE,
                              ![i].chan = "closed", ![i].reservation = "removed"]
        /\ operations' = [operations EXCEPT ![d] = 0] /\ variables' = variables \ {d}
        /\ UNCHANGED <<entry, socket, laneVars, received, historyVars>>
    BY <1>2 DEF Subscribed
  <2>4. o \in OpType /\ o.stage = "ended" /\ o.reservation = "removed" /\ o.queued = 0
    <3>1. ops[i] \in OpType
      BY <2>2
    <3> QED BY <2>2, <3>1 DEF OpType
  <2>5. ops' = [ops EXCEPT ![i] = o]
    BY <2>2, <2>3
  <2>6. entry' = [entry EXCEPT ![d] = Absent]
    <3>1. entry \in [Ids -> [kind : {"absent", "null", "iterator"}, op : {0} \cup Routed]]
      BY <2>1, TypeParts
    <3>2. entry[d] = Absent
      BY <1>2, <2>1, <2>2, <3>1 DEF Absent, StageInv
    <3> QED BY <2>2, <2>3, <3>1, <3>2
  <2> HIDE DEF d, o
  <2>7. ops'[i] = o /\ (\A j \in FrameId : j # i => ops'[j] = ops[j]) /\ ops' \in [FrameId -> OpType]
    BY <2>2, <2>4, <2>5
  <2>8. \A j \in FrameId : ops'[j] \in OpType /\ Fades(ops'[j], ops[j], socket' = "open")
    <3>1. Fades(o, ops[i], socket' = "open")
      BY <2>4 DEF Fades
    <3> QED BY <2>7, <3>1, FadesSame
  <2>9. d = IdOf(i) /\ socket' \in {socket, Stopping}
    BY <2>3 DEF d
  <2>10. \A j \in FrameId : ops'[j].reservation = "active" => ops[j].reservation = "active"
    BY <2>4, <2>7
  <2>11. variables' \subseteq variables /\ (socket' = "open" => variables' = variables \ {d})
    BY <2>3
  <2>12. operations' \in {operations, [operations EXCEPT ![d] = 0]} /\ ops'[i].stage = "ended"
    BY <2>3, <2>4, <2>7
  <2>13. ~untracked => /\ operations' = [operations EXCEPT ![d] = 0] /\ ops'[i].reservation # "active"
                       /\ \A j \in FrameId : j # i => ops'[j] = ops[j]
    BY <2>3, <2>4, <2>7
  <2>14. UNCHANGED <<laneVars, received, historyVars>>
    BY <2>3
  <2> QED BY <2>2, <2>6, <2>7, <2>8, <2>9, <2>10, <2>11, <2>12, <2>13, <2>14, EndStep
<1> QED BY <1>1, <1>2

\* A value or none, and the next pull.
LEMMA PullKeeps ==
  ASSUME OperationsInv, NEW i \in Routed, ReadNothing(i) \/ Yield(i)
  PROVE  OperationsInv'
<1> DEFINE o == Pull(ops[i])
<1>1. TypeOK /\ OrderInv /\ GenerationInv /\ StageInv /\ EventsInv /\ CountInv
  BY DEF OperationsInv
<1>2. ops[i].stage = "reading"
  BY DEF ReadNothing, Yield
<1>3. i \in FrameId /\ ops \in [FrameId -> OpType] /\ received \in Nat
  BY <1>1, FrameRecord, Bounds DEF TypeOK
<1>4. /\ ops' = [ops EXCEPT ![i] = o] /\ taken' = TakenBy(i, ops[i])
      /\ sent' = sent \/ sent' = [sent EXCEPT ![i] = Append(@, ops[i].at)]
      /\ UNCHANGED <<socket, laneVars, adapterVars, received, untracked, pushed>>
  BY <1>3 DEF ReadNothing, Yield, PullNext
<1>5. /\ o \in OpType /\ o.reservation = ops[i].reservation /\ o.stage \in {"ending", "pulling", "reading"}
      /\ Goes(o, ops[i]) /\ o.retired = ops[i].retired
      /\ o.queued \in {0, ops[i].queued} /\ (o.stage = "reading" => o.at = ops[i].queued)
  BY <1>2, <1>3, PullFacts, PullGoes
<1> DEFINE p == pushed[i]
           t == taken[i]
           s == sent[i]
           t2 == IF o.stage = "reading" THEN Append(t, o.at) ELSE t
           open == socket = "open"
<1>6. /\ \A j \in FrameId : EventInv(ops[j], pushed[j], taken[j], sent[j], received, open)
      /\ pushed \in [FrameId -> SUBSET Event]
      /\ taken \in [FrameId -> Seq(Event)] /\ sent \in [FrameId -> Seq(Event)]
  BY <1>1 DEF EventsInv
<1>7. taken' = [taken EXCEPT ![i] = t2]
  <2>1. CASE o.stage = "reading"
    BY <1>4, <2>1 DEF TakenBy
  <2>2. CASE o.stage # "reading"
    BY <1>4, <1>6, <2>2 DEF TakenBy
  <2> QED BY <2>1, <2>2
<1>8. \E s2 \in {s, Append(s, ops[i].at)} : sent' = [sent EXCEPT ![i] = s2]
  BY <1>3, <1>4, <1>6
<1>9. PICK s2 \in {s, Append(s, ops[i].at)} : sent' = [sent EXCEPT ![i] = s2]
  BY <1>8
<1>10. EventInv(o, p, t2, s2, received, open)
  <2>1. EventInv(ops[i], p, t, s, received, open) /\ ops[i] \in OpType /\ open \in BOOLEAN
    BY <1>3, <1>6
  <2> HIDE DEF p, t, s, open
  <2> QED BY <1>2, <1>3, <2>1, PullKeepsEvents
<1> HIDE DEF o, t2
<1>11. ops'[i] = o /\ (\A j \in FrameId : j # i => ops'[j] = ops[j]) /\ ops' \in [FrameId -> OpType]
  BY <1>3, <1>4, <1>5
<1>12. UNCHANGED <<frames, drain, clientFrames, entry, operations, variables>> /\ Routed' = Routed /\ Routed \subseteq FrameId
  BY <1>1, <1>4, FrameRecord DEF laneVars, adapterVars, Routed
<1>13. TypeOK'
  BY <1>1, <1>4, <1>11, <1>12, OpsTypes, TypeParts
<1>14. StageInv'
  <2>1. \A j \in FrameId : ops'[j] = ops[j] \/ (ops[j].stage # "none" /\ ops'[j].stage \notin {"none", "starting"})
    BY <1>2, <1>5, <1>11
  <2>2. socket' = "closed" => \A j \in FrameId : ops'[j].reservation # "active"
    BY <1>1, <1>4, <1>5, <1>11 DEF StageInv
  <2> QED BY <1>1, <1>12, <2>1, <2>2, OpsStage
<1>15. EventsInv'
  <2>1. \A j \in FrameId : EventInv(ops'[j], pushed'[j], taken'[j], sent'[j], received', socket' = "open")
    BY <1>3, <1>4, <1>6, <1>7, <1>9, <1>10, <1>11
  <2>2. t2 \in Seq(Event) /\ s2 \in Seq(Event)
    BY <1>10 DEF EventInv
  <2>3. taken' \in [FrameId -> Seq(Event)] /\ sent' \in [FrameId -> Seq(Event)]
    BY <1>6, <1>7, <1>9, <2>2
  <2> QED BY <1>4, <1>6, <2>1, <2>3 DEF EventsInv
<1>16. CountInv'
  <2>1. \A j \in FrameId : \A e \in 1..received : InHand(ops'[j], e) => InHand(ops[j], e)
    BY <1>2, <1>3, <1>5, <1>11 DEF InHand
  <2>2. Hand' \subseteq Hand
    BY <1>4, <2>1 DEF Hand
  <2>3. Retires' = Retires /\ Len(frames) \in Nat /\ clientFrames \in Nat
    BY <1>1, <1>12, UnchangedFrames, SameRetires, FrameRecord, Bounds DEF TypeOK
  <2> QED BY <1>1, <1>4, <1>12, <2>2, <2>3, CountKeeps
<1>17. \A j \in FrameId : Goes(ops'[j], ops[j])
  BY <1>5, <1>11, GoesSame
<1>18. ASSUME ~untracked, AdapterInv PROVE AdapterInv'
  BY <1>1, <1>4, <1>12, <1>17, <1>18, UnchangedFrames, GoingKeepsAdapter
<1>19. ASSUME RetireInv PROVE RetireInv'
  <2>1. /\ Goes(ops'[i], ops[i])
        /\ ops[i].retired => ops'[i].retired
        /\ ops[i].stage = "pulling" => ~RetireWaits(IdOf(i))
    BY <1>2, <1>5, <1>11
  <2> QED BY <1>1, <1>11, <1>12, <1>19, <2>1, EventKeepsRetire
<1>20. \A j \in Routed : ops[j].stage = "ended" => ops'[j].stage = "ended"
  BY <1>2, <1>11, <1>12
<1> QED BY <1>4, <1>13, <1>14, <1>15, <1>16, <1>18, <1>19, <1>20, OpsStep

\* dispatch pushes an event.
LEMMA PushKeeps ==
  ASSUME OperationsInv, NEW i \in FrameId, Push(i)
  PROVE  OperationsInv'
<1> DEFINE e == received + 1
           open == socket = "open"
<1>1. TypeOK /\ OrderInv /\ GenerationInv /\ StageInv /\ EventsInv /\ CountInv
  BY DEF OperationsInv
<1>2. /\ ops[i].reservation = "active" /\ ops[i].ack = 0 /\ ops[i].chan = "open"
      /\ received < MaxEvents /\ ~RetireWaits(IdOf(i))
      /\ received' = e /\ pushed' = [pushed EXCEPT ![i] = @ \cup {e}]
      /\ UNCHANGED <<socket, laneVars, adapterVars, untracked, sent>>
  BY DEF Push
<1>3. /\ ops \in [FrameId -> OpType] /\ ops[i] \in OpType /\ received \in Nat
      /\ i \in Routed /\ ops[i].stage \notin {"none", "starting"}
  <2>1. ops \in [FrameId -> OpType] /\ ops[i] \in OpType
    BY <1>1, FrameRecord
  <2>2. ops[i].stage # "none"
    BY <1>1, <1>2, NoOpType DEF StageInv
  <2>3. i \in Routed
    BY <1>1, <2>2 DEF StageInv
  <2>4. ops[i].stage # "starting"
    BY <1>1, <1>2, <2>3, StartingFacts
  <2>5. received \in Nat
    BY <1>1, Bounds DEF TypeOK
  <2> QED BY <2>1, <2>2, <2>3, <2>4, <2>5
<1>4. e \in Event /\ e \in Nat /\ e # 0
  BY <1>1, <1>2, <1>3, Bounds DEF Event
<1> DEFINE p == pushed[i]
           t == taken[i]
           o == IF ops[i].stage = "pulling"
                THEN [ops[i] EXCEPT !.stage = "reading", !.at = e, !.ack = e, !.delivered = TRUE]
                ELSE [ops[i] EXCEPT !.queued = e, !.ack = e, !.delivered = FALSE]
           t2 == IF ops[i].stage = "pulling" THEN Append(t, e) ELSE t
<1>5. /\ \A j \in FrameId : EventInv(ops[j], pushed[j], taken[j], sent[j], received, open)
      /\ pushed \in [FrameId -> SUBSET Event]
      /\ taken \in [FrameId -> Seq(Event)] /\ sent \in [FrameId -> Seq(Event)]
  BY <1>1 DEF EventsInv
<1>6. ops' = [ops EXCEPT ![i] = o] /\ taken' = [taken EXCEPT ![i] = t2]
  <2>1. CASE ops[i].stage = "pulling"
    BY <1>3, <1>5, <2>1 DEF Push
  <2>2. CASE ops[i].stage # "pulling"
    BY <1>3, <1>5, <2>2 DEF Push
  <2> QED BY <2>1, <2>2
<1>7. /\ o \in OpType /\ o.reservation = ops[i].reservation /\ o.closed = ops[i].closed /\ o.chan = ops[i].chan
      /\ o.retired = ops[i].retired
      /\ ops[i].stage = "pulling" => /\ o.stage = "reading" /\ o.at = e /\ o.queued = ops[i].queued
                                     /\ o.ack = e /\ o.delivered
      /\ ops[i].stage # "pulling" => o.stage = ops[i].stage /\ o.at = ops[i].at /\ o.queued = e
  <2>1. CASE ops[i].stage = "pulling"
    BY <1>3, <1>4, <2>1 DEF OpType
  <2>2. CASE ops[i].stage # "pulling"
    BY <1>3, <1>4, <2>2 DEF OpType
  <2> QED BY <2>1, <2>2
<1>8. EventInv(o, p \cup {e}, t2, sent[i], e, open)
  <2>1. EventInv(ops[i], p, t, sent[i], received, open) /\ open \in BOOLEAN
    BY <1>5
  <2>2. received + 1 \in Event /\ e = received + 1
    BY <1>4
  <2> HIDE DEF p, open, e
  <2>3. \/ /\ ops[i].stage = "pulling" /\ t2 = Append(t, e)
           /\ o.stage = "reading" /\ o.at = e /\ o.ack = e /\ o.delivered /\ o.queued = 0
        \/ /\ ops[i].stage # "pulling" /\ t2 = t
           /\ o.stage = ops[i].stage /\ o.at = ops[i].at /\ o.queued = e
    <3>1. ops[i].stage = "pulling" => ops[i].queued = 0
      BY <2>1 DEF EventInv
    <3> QED BY <1>7, <3>1
  <2> HIDE DEF o, t2, t
  <2> QED BY <1>2, <1>3, <1>7, <2>1, <2>2, <2>3, PushKeepsEvents
<1> HIDE DEF o, t2
<1>9. ops'[i] = o /\ (\A j \in FrameId : j # i => ops'[j] = ops[j]) /\ ops' \in [FrameId -> OpType]
  BY <1>3, <1>6, <1>7
<1>10. UNCHANGED <<frames, drain, clientFrames, entry, operations, variables>> /\ Routed' = Routed /\ Routed \subseteq FrameId
  BY <1>1, <1>2, FrameRecord DEF laneVars, adapterVars, Routed
<1>11. TypeOK'
  <2>1. received' \in 0..MaxEvents
    BY <1>2, <1>3, Bounds
  <2> QED BY <1>1, <1>2, <1>9, <1>10, <2>1, OpsTypes, TypeParts
<1>12. StageInv'
  <2>1. \A j \in FrameId : ops'[j] = ops[j] \/ (ops[j].stage # "none" /\ ops'[j].stage \notin {"none", "starting"})
    BY <1>3, <1>7, <1>9
  <2>2. socket' = "closed" => \A j \in FrameId : ops'[j].reservation # "active"
    BY <1>1, <1>2, <1>7, <1>9 DEF StageInv
  <2> QED BY <1>1, <1>10, <2>1, <2>2, OpsStage
<1>13. EventsInv'
  <2>1. \A j \in FrameId : j # i => EventInv(ops'[j], pushed'[j], taken'[j], sent'[j], received', open)
    <3> SUFFICES ASSUME NEW j \in FrameId, j # i
                 PROVE  EventInv(ops'[j], pushed'[j], taken'[j], sent'[j], received', open)
      OBVIOUS
    <3>1. ops'[j] = ops[j] /\ pushed'[j] = pushed[j] /\ taken'[j] = taken[j] /\ sent'[j] = sent[j]
      BY <1>2, <1>5, <1>6, <1>9
    <3>2. EventInv(ops[j], pushed[j], taken[j], sent[j], received, open) /\ Fades(ops[j], ops[j], open)
          /\ open \in BOOLEAN /\ e >= received
      BY <1>3, <1>5, FadesSame
    <3> HIDE DEF e, open
    <3>3. EventInv(ops[j], pushed[j], taken[j], sent[j], e, open)
      BY <1>3, <1>4, <3>2, FadesKeepsEvents
    <3> QED BY <1>2, <3>1, <3>3
  <2>2. pushed'[i] = p \cup {e} /\ taken'[i] = t2 /\ sent'[i] = sent[i]
    BY <1>2, <1>5, <1>6
  <2>3. \A j \in FrameId : EventInv(ops'[j], pushed'[j], taken'[j], sent'[j], received', socket' = "open")
    BY <1>2, <1>8, <1>9, <2>1, <2>2
  <2>4. t2 \in Seq(Event)
    BY <1>8 DEF EventInv
  <2>5. taken' \in [FrameId -> Seq(Event)] /\ pushed' \in [FrameId -> SUBSET Event] /\ sent' = sent
    BY <1>2, <1>4, <1>5, <1>6, <2>4
  <2> QED BY <1>5, <2>3, <2>5 DEF EventsInv
<1>14. CountInv'
  <2>1. /\ IsFiniteSet(Hand) /\ Cardinality(Hand) \in Nat /\ Cardinality(Retires) \in Nat
    BY <1>1, CountFinite
  <2>2. Hand' \subseteq Hand \cup {e}
    <3>1. \A j \in FrameId : \A x \in 1..e : x # e => x \in 1..received /\ (InHand(ops'[j], x) => InHand(ops[j], x))
      BY <1>3, <1>7, <1>9 DEF InHand
    <3> QED BY <1>2, <3>1 DEF Hand
  <2>3. Cardinality(Hand') <= Cardinality(Hand) + 1 /\ Cardinality(Hand') \in Nat
    <3>1. IsFiniteSet(Hand \cup {e}) /\ Cardinality(Hand \cup {e}) <= Cardinality(Hand) + 1
          /\ Cardinality(Hand \cup {e}) \in Nat
      BY <2>1, FS_AddElement, FS_CardinalityType
    <3>2. IsFiniteSet(Hand') /\ Cardinality(Hand') <= Cardinality(Hand \cup {e})
      BY <2>2, <3>1, FS_Subset
    <3> QED BY <2>1, <3>1, <3>2, FS_CardinalityType
  <2>4. Retires' = Retires
    BY <1>10, UnchangedFrames, SameRetires
  <2>5. Cardinality(Retires)' = Cardinality(Retires) /\ Cardinality(Hand)' = Cardinality(Hand')
    BY <2>4
  <2>6. Cardinality(Retires) + Cardinality(Hand) <= received
    BY <1>1 DEF CountInv
  <2>7. Cardinality(Retires)' + Cardinality(Hand)' <= received'
    BY <1>2, <1>3, <2>1, <2>3, <2>5, <2>6
  <2>8. Len(frames') = clientFrames' + Cardinality(Retires)'
    BY <1>1, <1>10, <2>5 DEF CountInv
  <2>9. \A j, k \in FrameId : j # k => pushed'[j] \cap pushed'[k] = {}
    <3>1. \A j \in FrameId : e \notin pushed[j]
      BY <1>3, <1>5 DEF EventInv
    <3>2. \A j \in FrameId : pushed'[j] = IF j = i THEN pushed[j] \cup {e} ELSE pushed[j]
      BY <1>2, <1>5
    <3>3. \A j, k \in FrameId : j # k => pushed[j] \cap pushed[k] = {}
      BY <1>1 DEF CountInv
    <3> HIDE DEF e
    <3> QED BY ZenonT(40), <3>1, <3>2, <3>3
  <2> QED BY <2>7, <2>8, <2>9 DEF CountInv
<1>15. Goes(ops'[i], ops[i]) /\ \A j \in FrameId : Goes(ops'[j], ops[j])
  <2>1. Goes(o, ops[i])
    <3>1. CASE ops[i].stage = "pulling"
      BY <1>7, <3>1 DEF Goes, Active, Over
    <3>2. CASE ops[i].stage # "pulling"
      BY <1>7, <3>2 DEF Goes, Active, Over
    <3> QED BY <3>1, <3>2
  <2> QED BY <1>9, <2>1, GoesSame
<1>16. ASSUME ~untracked, AdapterInv PROVE AdapterInv'
  BY <1>1, <1>2, <1>10, <1>15, <1>16, UnchangedFrames, GoingKeepsAdapter
<1>17. ASSUME RetireInv PROVE RetireInv'
  BY <1>1, <1>2, <1>3, <1>7, <1>9, <1>10, <1>15, <1>17, EventKeepsRetire
<1>18. \A j \in Routed : ops[j].stage = "ended" => ops'[j].stage = "ended"
  BY <1>7, <1>9, <1>10
<1> QED BY <1>2, <1>11, <1>12, <1>13, <1>14, <1>16, <1>17, <1>18, OpsStep

\* The connection stops; pushes in progress may be aborted.
LEMMA StopKeeps ==
  ASSUME OperationsInv, Stop
  PROVE  OperationsInv'
<1>1. TypeOK /\ OrderInv /\ GenerationInv /\ StageInv /\ EventsInv /\ CountInv
  BY DEF OperationsInv
<1>2. /\ socket = "open" /\ socket' = "stopping" /\ ops' \in {ops, Aborted}
      /\ UNCHANGED <<laneVars, adapterVars, received, historyVars>>
  BY DEF Stop
<1>3. ops \in [FrameId -> OpType]
  BY <1>1, FrameRecord
<1>4. \A i \in FrameId : \/ ops'[i] = ops[i]
                         \/ ops'[i] = [ops[i] EXCEPT !.ack = 0, !.delivered = FALSE, !.queued = 0] /\ ops[i].ack # 0
  BY <1>2 DEF Aborted
<1>5. \A i \in FrameId :
        /\ ops'[i] \in OpType /\ ops'[i].stage = ops[i].stage /\ ops'[i].at = ops[i].at
        /\ ops'[i].closed = ops[i].closed /\ ops'[i].chan = ops[i].chan
        /\ ops'[i].reservation = ops[i].reservation /\ ops'[i].queued \in {0, ops[i].queued}
        /\ ops[i].stage \in {"none", "starting"} => ops'[i] = ops[i]
  <2> SUFFICES ASSUME NEW i \in FrameId
               PROVE  /\ ops'[i] \in OpType /\ ops'[i].stage = ops[i].stage /\ ops'[i].at = ops[i].at
                      /\ ops'[i].closed = ops[i].closed /\ ops'[i].chan = ops[i].chan
                      /\ ops'[i].reservation = ops[i].reservation /\ ops'[i].queued \in {0, ops[i].queued}
                      /\ ops[i].stage \in {"none", "starting"} => ops'[i] = ops[i]
    OBVIOUS
  <2>1. ops[i] \in OpType
    BY <1>3
  <2>2. ops[i].stage \in {"none", "starting"} => ops[i].ack = 0
    <3>1. CASE ops[i].stage = "none"
      BY <1>1, <3>1, NoOpType DEF StageInv
    <3>2. CASE ops[i].stage = "starting"
      BY <1>1, <3>2 DEF StageInv, NoOp
    <3> QED BY <3>1, <3>2
  <2>3. CASE ops'[i] = ops[i]
    BY <2>1, <2>3
  <2>4. CASE ops'[i] = [ops[i] EXCEPT !.ack = 0, !.delivered = FALSE, !.queued = 0] /\ ops[i].ack # 0
    BY <2>1, <2>2, <2>4 DEF OpType
  <2> QED BY <1>4, <2>3, <2>4
<1>6. ops' \in [FrameId -> OpType]
  <2>1. ops' = [i \in FrameId |-> ops'[i]]
    BY <1>2, <1>3 DEF Aborted
  <2> QED BY <1>5, <2>1
<1>7. UNCHANGED <<frames, drain, clientFrames, entry, operations, variables, untracked, pushed, taken, sent>>
      /\ Routed' = Routed /\ Routed \subseteq FrameId
  BY <1>1, <1>2, FrameRecord DEF laneVars, adapterVars, historyVars, Routed
<1>8. TypeOK'
  BY <1>1, <1>2, <1>6, <1>7, OpsTypes, TypeParts
<1>9. StageInv'
  <2>1. \A j \in FrameId : ops'[j] = ops[j] \/ (ops[j].stage # "none" /\ ops'[j].stage \notin {"none", "starting"})
    BY <1>5
  <2> QED BY <1>1, <1>2, <1>7, <2>1, OpsStage
<1>10. EventsInv' /\ Hand' \subseteq Hand
  <2>1. \A i \in FrameId : Fades(ops'[i], ops[i], socket' = "open")
    BY <1>2, <1>5 DEF Fades
  <2> QED BY <1>1, <1>2, <1>7, <2>1, AllFade
<1>11. CountInv'
  <2>1. Retires' = Retires /\ Len(frames) \in Nat /\ clientFrames \in Nat
    BY <1>1, <1>7, UnchangedFrames, SameRetires, FrameRecord, Bounds DEF TypeOK
  <2> QED BY <1>1, <1>2, <1>7, <1>10, <2>1, CountKeeps
<1>12. ASSUME ~untracked, AdapterInv PROVE AdapterInv'
  <2>1. \A i \in FrameId : Goes(ops'[i], ops[i])
    BY <1>5 DEF Goes, Active, Over
  <2> QED BY <1>1, <1>2, <1>7, <1>12, <2>1, UnchangedFrames, GoingKeepsAdapter
<1>13. \A j \in Routed : ops[j].stage = "ended" => ops'[j].stage = "ended"
  BY <1>5, <1>7
<1> QED BY <1>2, <1>7, <1>8, <1>9, <1>10, <1>11, <1>12, <1>13, OpsStep

\* The close event.
LEMMA CloseKeeps ==
  ASSUME OperationsInv, Close
  PROVE  OperationsInv'
<1>1. TypeOK /\ OrderInv /\ GenerationInv /\ StageInv /\ EventsInv /\ CountInv
  BY DEF OperationsInv
<1>2. /\ socket # "closed" /\ socket' = "closed"
      /\ UNCHANGED <<laneVars, received, historyVars>>
  BY DEF Close
<1>3. \A i \in FrameId : /\ ops'[i] \in OpType /\ ops'[i].stage = ops[i].stage /\ ops'[i].reservation # "active"
                         /\ ops[i].stage \in {"none", "starting"} => ops'[i] = ops[i]
  <2>1. \A i \in FrameId : ops[i].stage \in {"none", "starting"} => ops[i].reservation = "none" /\ i \notin Iterators
    <3>1. \A i \in FrameId : ops[i].stage \in {"none", "starting"} => ops[i].reservation = "none"
      BY <1>1 DEF StageInv, NoOp
    <3>2. \A i \in Iterators : ops[i].stage \notin {"none", "starting"}
      BY <1>1 DEF StageInv, Iterators
    <3> QED BY <3>1, <3>2
  <2> QED BY <1>1, <2>1, CloseOps
<1>4. ops' \in [FrameId -> OpType]
  <2>1. ops' = [i \in FrameId |-> ops'[i]]
    BY DEF Close
  <2> QED BY <1>3, <2>1
<1>5. UNCHANGED <<frames, drain, clientFrames, untracked, pushed, taken, sent, received>>
      /\ Routed' = Routed /\ Routed \subseteq FrameId
  BY <1>1, <1>2, FrameRecord DEF laneVars, historyVars, Routed
<1>6. /\ \A d \in Ids : entry'[d] = Absent /\ operations'[d] \in {0, operations[d]}
      /\ entry' \in [Ids -> [kind : {"absent", "null", "iterator"}, op : {0} \cup Routed]]
      /\ operations' \in [Ids -> {0} \cup Routed] /\ variables' \subseteq Ids
  <2>1. operations \in [Ids -> {0} \cup Routed] /\ variables \subseteq Ids
    BY <1>1, TypeParts
  <2>2. entry' = [d \in Ids |-> Absent]
    BY DEF Close
  <2>3. operations' = [d \in Ids |-> IF operations[d] \in Iterators THEN 0 ELSE operations[d]]
    BY DEF Close
  <2>4. variables' \subseteq variables
    BY DEF Close
  <2> QED BY <2>1, <2>2, <2>3, <2>4 DEF Absent
<1>7. TypeOK'
  <2>1. received' \in 0..MaxEvents
    BY <1>1, <1>5, TypeParts
  <2> QED BY <1>1, <1>2, <1>4, <1>5, <1>6, <2>1, OpsTypes
<1>8. StageInv'
  <2>1. \A j \in FrameId : ops'[j] = ops[j] \/ (ops[j].stage # "none" /\ ops'[j].stage \notin {"none", "starting"})
    BY <1>3
  <2>2. \A d \in Ids : entry'[d] \in {entry[d], Absent} /\ operations'[d] \in {0, operations[d]}
    BY <1>6
  <2> QED BY <1>1, <1>3, <1>5, <2>1, <2>2, OpsStage
<1>9. EventsInv' /\ Hand' \subseteq Hand
  <2>1. ASSUME NEW i \in FrameId PROVE Fades(ops'[i], ops[i], socket' = "open")
    <3>1. ops[i] \in OpType
      BY <1>1, FrameRecord
    <3>2. ops'[i].at = ops[i].at /\ ops'[i].queued \in {0, ops[i].queued}
      <4>1. CASE i \in Iterators
        <5>1. ops'[i] = Returned(i)
          BY <1>1, <4>1, CloseOps
        <5> QED BY <3>1, <5>1 DEF Returned, OpType
      <4>2. CASE i \notin Iterators
        <5>1. ops'[i] = ops[i] \/ ops'[i] = [ops[i] EXCEPT !.reservation = "removed"]
          BY <1>1, <4>2, CloseOps
        <5> QED BY <3>1, <5>1 DEF OpType
      <4> QED BY <4>1, <4>2
    <3> QED BY <1>2, <1>3, <3>2 DEF Fades
  <2> QED BY <1>1, <1>2, <1>5, <2>1, AllFade
<1>10. CountInv'
  <2>1. Retires' = Retires /\ Len(frames) \in Nat /\ clientFrames \in Nat
    BY <1>1, <1>5, UnchangedFrames, SameRetires, FrameRecord, Bounds DEF TypeOK
  <2> QED BY <1>1, <1>2, <1>5, <1>9, <2>1, CountKeeps
<1>11. ASSUME ~untracked, AdapterInv PROVE AdapterInv'
  BY <1>1, <1>11, CloseKeepsAdapter
<1>12. \A j \in Routed : ops[j].stage = "ended" => ops'[j].stage = "ended"
  BY <1>3, <1>5
<1> QED BY <1>2, <1>5, <1>7, <1>8, <1>9, <1>10, <1>11, <1>12, OpsStep

-----------------------------------------------------------------------------
\* Frames and lanes.

LaneType == [tail : {0} \cup Routed, pending : 0..Len(frames), current : {0} \cup Routed]

\* A lane's waiting frames are finitely many.
LEMMA WaitingCount ==
  ASSUME TypeOK, LaneInv, NEW d \in Ids
  PROVE  /\ IsFiniteSet(WaitingOf(d)) /\ lanes[d].pending = Cardinality(WaitingOf(d)) /\ lanes[d].pending \in Nat
         /\ lanes[d] \in LaneType /\ lanes \in [Ids -> LaneType]
         /\ lanes[d].pending = 0 => WaitingOf(d) = {}
         /\ \A f \in WaitingOf(d) : f \in Routed /\ lanes[d].pending >= 1
<1>1. Routed = 1..Len(frames) /\ Len(frames) \in Nat
  BY FrameRecord
<1>2. IsFiniteSet(Routed) /\ WaitingOf(d) \subseteq Routed
  BY <1>1, FS_Interval DEF WaitingOf
<1>3. IsFiniteSet(WaitingOf(d)) /\ Cardinality(WaitingOf(d)) \in Nat
  BY <1>2, FS_Subset, FS_CardinalityType
<1>4. lanes[d].pending = Cardinality(WaitingOf(d))
  BY DEF LaneInv
<1>5. Cardinality(WaitingOf(d)) = 0 <=> WaitingOf(d) = {}
  BY <1>3, FS_EmptySet
<1>6. lanes \in [Ids -> LaneType] /\ lanes[d] \in LaneType
  BY TypeParts DEF LaneType
<1> QED BY <1>2, <1>3, <1>4, <1>5, <1>6

\* Reaping keeps the counts of a lane.
LEMMA ReapedFacts ==
  ASSUME NEW S, NEW n \in Nat,
         NEW l \in [tail : {0} \cup S, pending : 0..n, current : {0} \cup S]
  PROVE  /\ Reaped(l) \in [tail : {0} \cup S, pending : 0..n, current : {0} \cup S]
         /\ Reaped(l).pending = l.pending /\ Reaped(l).current = l.current
         /\ l.pending > 0 => Reaped(l).tail = l.tail
         /\ Reaped(l).pending = 0 /\ Reaped(l).current = 0 => Reaped(l) = NoLane
<1>1. CASE l.pending = 0 /\ l.current = 0
  <2>1. Reaped(l) = NoLane
    BY <1>1 DEF Reaped
  <2> QED BY <1>1, <2>1 DEF NoLane
<1>2. CASE ~(l.pending = 0 /\ l.current = 0)
  <2>1. Reaped(l) = l
    BY <1>2 DEF Reaped
  <2> QED BY <1>2, <2>1
<1> QED BY <1>1, <1>2

\* One frame changes.
LEMMA OneFrame ==
  ASSUME TypeOK, NEW f \in Routed, NEW x \in FrameType, frames' = [frames EXCEPT ![f] = x]
  PROVE  /\ frames' \in Seq(FrameType) /\ Len(frames') = Len(frames) /\ Routed' = Routed
         /\ frames'[f] = x /\ \A g \in Routed : g # f => frames'[g] = frames[g]
<1>1. frames \in Seq(FrameType) /\ Routed = DOMAIN frames
  BY FrameRecord DEF Routed
<1>2. frames' \in [DOMAIN frames -> FrameType]
  BY <1>1
<1>3. frames' \in Seq(FrameType) /\ Len(frames') = Len(frames) /\ DOMAIN frames' = DOMAIN frames
  BY <1>1, <1>2, SameLength
<1>4. frames'[f] = x /\ \A g \in Routed : g # f => frames'[g] = frames[g]
  BY <1>1
<1> QED BY <1>1, <1>3, <1>4 DEF Routed

\* One frame is added to m, which has the frames there were.
LEMMA OneMore ==
  ASSUME TypeOK, NEW m \in Seq(FrameType), Len(m) = Len(frames), NEW x \in FrameType, frames' = Append(m, x),
         NEW n, n = Len(frames) + 1
  PROVE  /\ frames' \in Seq(FrameType) /\ Len(frames') = n /\ Routed' = Routed \cup {n} /\ n \notin Routed
         /\ frames'[n] = x /\ n \in Nat /\ n >= 1
         /\ \A g \in Routed : frames'[g] = m[g] /\ g < n
<1>1. Routed = 1..Len(frames) /\ Len(frames) \in Nat
  BY FrameRecord
<1>2. /\ frames' \in Seq(FrameType) /\ Len(frames') = Len(m) + 1 /\ DOMAIN frames' = 1..(Len(m) + 1)
      /\ \A k \in 1..Len(m) : frames'[k] = m[k]
      /\ frames'[Len(m) + 1] = x
  BY AppendFacts
<1>3. Routed' = 1..n
  BY <1>2 DEF Routed
<1>4. Routed' = Routed \cup {n} /\ n \notin Routed /\ n \in Nat /\ n >= 1 /\ \A g \in Routed : g < n
  BY <1>1, <1>3
<1> QED BY <1>1, <1>2, <1>4

\* Completing the predecessor.
LEMMA PredecessorFacts ==
  ASSUME TypeOK, LaneInv, NEW d \in Ids
  PROVE  /\ Predecessor(d) \in {0} \cup Routed /\ Predecessor(d) \in {0, lanes[d].current}
         /\ Predecessor(d) # 0 => Unsettled(Predecessor(d)) /\ IdOf(Predecessor(d)) = d
         /\ lanes[d].current # 0 => Predecessor(d) = lanes[d].current
<1>1. lanes[d].current \in {0} \cup Routed
  BY TypeParts
<1>2. lanes[d].current # 0 => Unsettled(lanes[d].current) /\ IdOf(lanes[d].current) = d
  BY DEF LaneInv
<1> QED BY <1>1, <1>2 DEF Predecessor, Unsettled

Marked(p) == IF p = 0 THEN frames ELSE [frames EXCEPT ![p].completed = TRUE]
\* Marking a frame completed leaves the rest of it.
LEMMA MarkedFacts ==
  ASSUME TypeOK, NEW p \in {0} \cup Routed
  PROVE  /\ Marked(p) \in Seq(FrameType) /\ Len(Marked(p)) = Len(frames)
         /\ \A g \in Routed : /\ Marked(p)[g].id = frames[g].id /\ Marked(p)[g].type = frames[g].type
                              /\ Marked(p)[g].origin = frames[g].origin /\ Marked(p)[g].state = frames[g].state
                              /\ Marked(p)[g].follows = frames[g].follows /\ Marked(p)[g].awaits = frames[g].awaits
                              /\ Marked(p)[g].settled = frames[g].settled
                              /\ Marked(p)[g].duplicate = frames[g].duplicate
                              /\ Marked(p)[g].completed <=> frames[g].completed \/ g = p
<1>1. frames \in Seq(FrameType) /\ Routed = DOMAIN frames /\ \A g \in Routed : frames[g] \in FrameType /\ g # 0
  BY FrameRecord DEF Routed
<1>2. CASE p = 0
  BY <1>1, <1>2 DEF Marked
<1>3. CASE p # 0
  <2> DEFINE x == [frames[p] EXCEPT !.completed = TRUE]
  <2>1. p \in Routed
    BY <1>3
  <2>2. /\ x \in FrameType /\ x.completed
        /\ x.id = frames[p].id /\ x.type = frames[p].type /\ x.origin = frames[p].origin /\ x.state = frames[p].state
        /\ x.follows = frames[p].follows /\ x.awaits = frames[p].awaits
        /\ x.settled = frames[p].settled /\ x.duplicate = frames[p].duplicate
    BY ZenonT(40), <1>1, <2>1 DEF FrameType
  <2>3. Marked(p) = [frames EXCEPT ![p] = x]
    BY <1>1, <1>3, <2>1 DEF Marked
  <2> HIDE DEF x
  <2>4. Marked(p) \in [DOMAIN frames -> FrameType]
    BY <1>1, <2>2, <2>3
  <2>5. Marked(p) \in Seq(FrameType) /\ Len(Marked(p)) = Len(frames)
    BY <1>1, <2>4, SameLength
  <2>6. Marked(p)[p] = x /\ \A g \in Routed : g # p => Marked(p)[g] = frames[g]
    BY <1>1, <2>1, <2>3
  <2> QED BY <2>2, <2>5, <2>6
<1> QED BY <1>2, <1>3

\* A frame x is added to the others, of which only `completed' changes.
SameBut(y, z) ==
  /\ y.id = z.id /\ y.type = z.type /\ y.origin = z.origin /\ y.state = z.state
  /\ y.follows = z.follows /\ y.awaits = z.awaits
  /\ y.settled = z.settled /\ y.duplicate = z.duplicate
Added(n, x, m) ==
  /\ frames' \in Seq(FrameType) /\ Len(frames') = n /\ Routed' = Routed \cup {n} /\ n \notin Routed
  /\ Routed' = 1..n /\ Routed \subseteq Nat /\ n \in Nat /\ n >= 1 /\ n = Len(frames) + 1
  /\ frames'[n] = x /\ \A g \in Routed : frames'[g] = m[g] /\ g < n /\ SameBut(frames'[g], frames[g])

\* The frame added after marking another.
LEMMA AddedFacts ==
  ASSUME TypeOK, NEW m \in Seq(FrameType), Len(m) = Len(frames), \A g \in Routed : SameBut(m[g], frames[g]),
         NEW x \in FrameType, frames' = Append(m, x)
  PROVE  Added(Len(frames) + 1, x, m)
<1>1. PICK n : n = Len(frames) + 1
  OBVIOUS
<1>2. /\ frames' \in Seq(FrameType) /\ Len(frames') = n /\ Routed' = Routed \cup {n} /\ n \notin Routed
      /\ frames'[n] = x /\ n \in Nat /\ n >= 1
      /\ \A g \in Routed : frames'[g] = m[g] /\ g < n
  BY <1>1, OneMore
<1>3. \A g \in Routed : SameBut(frames'[g], frames[g])
  BY <1>2
<1>4. Routed' = 1..n /\ Routed \subseteq Nat
  BY <1>1, <1>2, FrameRecord
<1> QED BY <1>1, <1>2, <1>3, <1>4 DEF Added

\* It waits, in the lane of id d, whose generation is c now.
Queues(d, x, c, n) ==
  /\ lanes' = [lanes EXCEPT ![d] = [tail |-> n, pending |-> @.pending + 1, current |-> c]]
  /\ x \in FrameType /\ x.id = d /\ x.state = "waiting" /\ x.follows = lanes[d].tail
  /\ \/ x.origin = "client" /\ drain = 0 /\ drain' = n
     \/ x.origin = "retire" /\ x.type = "complete" /\ drain' = drain
  /\ c = n => x.type = "subscribe" /\ ~x.duplicate /\ ~x.settled
  /\ c # n => c = lanes[d].current

\* A frame that queues keeps the order and the counts of the lanes.
LEMMA QueueFrame ==
  ASSUME TypeOK, OrderInv, LaneInv, NEW d \in Ids, NEW x, NEW m,
         NEW n \in FrameId, NEW c \in {0} \cup Routed \cup {n},
         Added(n, x, m), Queues(d, x, c, n), UNCHANGED socket
  PROVE  /\ OrderInv' /\ LaneInv' /\ SameFrames
         /\ drain' \in {0} \cup Routed'
         /\ lanes' \in [Ids -> [tail : {0} \cup Routed', pending : 0..Len(frames'), current : {0} \cup Routed']]
         /\ lanes'[d].current = c /\ \A e \in Ids : e # d => lanes'[e] = lanes[e]
<1>1. /\ Len(frames') = n /\ Routed' = Routed \cup {n} /\ n \notin Routed
      /\ frames'[n] = x /\ n \in Nat /\ n >= 1
      /\ \A g \in Routed : g < n
  BY DEF Added
<1>2. \A g \in Routed : /\ frames'[g].id = frames[g].id /\ frames'[g].type = frames[g].type
                        /\ frames'[g].origin = frames[g].origin /\ frames'[g].state = frames[g].state
                        /\ frames'[g].follows = frames[g].follows /\ frames'[g].awaits = frames[g].awaits
                        /\ frames'[g].settled = frames[g].settled
                        /\ frames'[g].duplicate = frames[g].duplicate
  BY DEF Added, SameBut
<1>14. Routed' = 1..n /\ Routed \subseteq Nat
  BY DEF Added
<1>16. x.id = d /\ x.state = "waiting" /\ x.follows = lanes[d].tail
  BY DEF Queues
<1>17. \/ x.origin = "client" /\ drain = 0 /\ drain' = n
       \/ x.origin = "retire" /\ x.type = "complete" /\ drain' = drain
  BY DEF Queues
<1>18. /\ c = n => x.type = "subscribe" /\ ~x.duplicate /\ ~x.settled
       /\ c # n => c = lanes[d].current
  BY DEF Queues
<1>3. SameFrames
  BY <1>1, <1>2 DEF SameFrames
<1>4. /\ \A e \in Ids : lanes[e] \in LaneType
      /\ lanes'[d] = [tail |-> n, pending |-> lanes[d].pending + 1, current |-> c]
      /\ \A e \in Ids : e # d => lanes'[e] = lanes[e]
  BY TypeParts DEF LaneType, Queues
<1>5. \A g \in Routed : IdOf(g)' = IdOf(g) /\ (Waiting(g)' <=> Waiting(g)) /\ IdOf(g) \in Ids /\ g \in Nat /\ g >= 1
                        /\ (Unsettled(g)' <=> Unsettled(g))
  BY <1>2, FrameRecord DEF IdOf, Waiting, Unsettled, Generation
<1>6. IdOf(n)' = d /\ Waiting(n)'
  BY <1>1, <1>16 DEF IdOf, Waiting
<1>7. drain \in {0} \cup Routed /\ socket' = socket
  BY TypeParts
<1>8. \A f \in Routed : Waiting(f) =>
        /\ lanes[IdOf(f)].tail \in Routed /\ lanes[IdOf(f)].tail >= f /\ IdOf(lanes[IdOf(f)].tail) = IdOf(f)
        /\ socket = "open" => Waiting(lanes[IdOf(f)].tail)
  BY <1>4, <1>5 DEF OrderInv, LaneType
<1>15. \A f, g \in Routed : f < g /\ frames[f].id = frames[g].id /\ frames[f].state = "waiting" =>
         /\ frames[g].state # "delivered"
         /\ frames[g].state = "waiting" =>
              /\ frames[g].follows >= f /\ frames[g].follows < g
              /\ frames[frames[g].follows].id = frames[g].id
              /\ socket = "open" => frames[frames[g].follows].state = "waiting"
  <2> SUFFICES ASSUME NEW f \in Routed, NEW g \in Routed, f < g, IdOf(f) = IdOf(g), Waiting(f)
               PROVE  /\ frames[g].state # "delivered"
                      /\ Waiting(g) => /\ frames[g].follows >= f /\ frames[g].follows < g
                                       /\ IdOf(frames[g].follows) = IdOf(g)
                                       /\ socket = "open" => Waiting(frames[g].follows)
    BY DEF IdOf, Waiting
  <2> QED BY DEF OrderInv
<1>9. OrderInv'
  <2>1. \A f \in Routed' : Waiting(f)' /\ frames'[f].origin = "client" => drain' = f
    <3>1. \A f \in Routed : Waiting(f)' /\ frames'[f].origin = "client" => drain = f /\ drain # 0
      BY <1>1, <1>2, <1>5 DEF OrderInv
    <3>2. frames'[n].origin = "client" => drain' = n
      BY <1>1, <1>17
    <3> QED BY <1>1, <1>17, <3>1, <3>2
  <2>2. drain' # 0 => Waiting(drain)'
    <3>1. CASE drain' = n
      BY <1>1, <1>16, <3>1 DEF Waiting
    <3>2. CASE drain' # n
      <4>1. drain' = drain /\ (drain # 0 => drain \in Routed /\ frames[drain].state = "waiting")
        BY <1>7, <1>17, <3>2 DEF OrderInv, Waiting
      <4> QED BY <1>2, <4>1 DEF Waiting
    <3> QED BY <3>1, <3>2
  <2>3. \A f \in Routed' : frames'[f].origin = "retire" => frames'[f].type = "complete"
    <3>1. \A f \in Routed : frames'[f].origin = "retire" => frames'[f].type = "complete"
      BY <1>2 DEF OrderInv
    <3>2. frames'[n].origin = "retire" => frames'[n].type = "complete"
      BY <1>1, <1>17
    <3> QED BY <1>1, <3>1, <3>2
  <2>4. \A f \in Routed' : frames'[f].state = "waiting" =>
          /\ lanes'[frames'[f].id].tail >= f
          /\ frames'[lanes'[frames'[f].id].tail].id = frames'[f].id
          /\ socket' = "open" => frames'[lanes'[frames'[f].id].tail].state = "waiting"
    <3> SUFFICES ASSUME NEW f \in Routed', frames'[f].state = "waiting"
                 PROVE  /\ lanes'[frames'[f].id].tail >= f
                        /\ frames'[lanes'[frames'[f].id].tail].id = frames'[f].id
                        /\ socket' = "open" => frames'[lanes'[frames'[f].id].tail].state = "waiting"
      OBVIOUS
    <3> DEFINE e == frames'[f].id
               t == lanes'[e].tail
    <3>1. CASE e = d
      <4>1. t = n /\ n >= f
        BY <1>4, <1>14, <3>1
      <4> QED BY <1>1, <1>16, <3>1, <4>1
    <3>2. CASE e # d
      <4>1. f \in Routed
        BY <1>1, <1>16, <3>2
      <4>2. e = frames[f].id /\ frames[f].state = "waiting" /\ e \in Ids
        BY <1>2, <1>5, <4>1 DEF IdOf
      <4>3. t = lanes[e].tail
        BY <1>4, <3>2, <4>2
      <4> HIDE DEF e, t
      <4>4. t \in Routed /\ t >= f /\ frames[t].id = e /\ (socket = "open" => frames[t].state = "waiting")
        BY <1>8, <4>1, <4>2, <4>3 DEF IdOf, Waiting
      <4>5. t \in Routed /\ t >= f /\ frames'[t].id = e /\ (socket' = "open" => frames'[t].state = "waiting")
        BY <1>2, <1>7, <4>4
      <4> QED BY <4>5 DEF e, t
    <3> QED BY <3>1, <3>2
  <2>5. \A f, g \in Routed' : f < g /\ frames'[f].id = frames'[g].id /\ frames'[f].state = "waiting" =>
          /\ frames'[g].state # "delivered"
          /\ frames'[g].state = "waiting" =>
               /\ frames'[g].follows >= f /\ frames'[g].follows < g
               /\ frames'[frames'[g].follows].id = frames'[g].id
               /\ socket' = "open" => frames'[frames'[g].follows].state = "waiting"
    <3> SUFFICES ASSUME NEW f \in Routed', NEW g \in Routed', f < g, frames'[f].id = frames'[g].id,
                        frames'[f].state = "waiting"
                 PROVE  /\ frames'[g].state # "delivered"
                        /\ frames'[g].state = "waiting" =>
                             /\ frames'[g].follows >= f /\ frames'[g].follows < g
                             /\ frames'[frames'[g].follows].id = frames'[g].id
                             /\ socket' = "open" => frames'[frames'[g].follows].state = "waiting"
      OBVIOUS
    <3> DEFINE h == frames'[g].follows
    <3>1. f \in Routed
      BY <1>1, <1>14
    <3>2. frames[f].state = "waiting" /\ frames[f].id = frames'[g].id
      BY <1>2, <3>1
    <3>3. CASE g = n
      <4>1. frames[f].id = d /\ h = lanes[d].tail /\ frames'[g].state = "waiting" /\ frames'[g].id = d
        BY <1>1, <1>16, <3>2, <3>3
      <4> HIDE DEF h
      <4>2. h \in Routed /\ h >= f /\ frames[h].id = d /\ (socket = "open" => frames[h].state = "waiting")
        BY <1>8, <3>1, <3>2, <4>1 DEF IdOf, Waiting
      <4>3. h \in Routed /\ h >= f /\ h < g /\ frames'[h].id = d /\ (socket' = "open" => frames'[h].state = "waiting")
        BY <1>1, <1>2, <1>7, <3>3, <4>2
      <4> QED BY <4>1, <4>3 DEF h
    <3>4. CASE g # n
      <4>1. g \in Routed
        BY <1>1, <3>4
      <4>2. h = frames[g].follows /\ frames'[g].id = frames[g].id /\ frames'[g].state = frames[g].state
            /\ h \in FrameId \cup {0}
        BY <1>2, <4>1, FrameRecord DEF FrameType
      <4> HIDE DEF h
      <4>3. /\ frames[g].state # "delivered"
            /\ frames[g].state = "waiting" => /\ h >= f /\ h < g /\ frames[h].id = frames[g].id
                                              /\ socket = "open" => frames[h].state = "waiting"
        <5>1. /\ frames[g].state # "delivered"
              /\ frames[g].state = "waiting" =>
                   /\ frames[g].follows >= f /\ frames[g].follows < g
                   /\ frames[frames[g].follows].id = frames[g].id
                   /\ socket = "open" => frames[frames[g].follows].state = "waiting"
          BY <1>15, <3>1, <3>2, <4>1, <4>2
        <5> QED BY <4>2, <5>1
      <4>4. frames[g].state = "waiting" => h \in Routed
        <5>1. Routed = 1..Len(frames) /\ Len(frames) \in Nat
          BY FrameRecord
        <5> QED BY <3>1, <4>1, <4>2, <4>3, <5>1, Bounds DEF FrameId
      <4>5. frames[g].state = "waiting" => frames'[h].id = frames[g].id /\ (socket' = "open" => frames'[h].state = "waiting")
        BY <1>2, <1>7, <4>3, <4>4
      <4> QED BY <4>2, <4>3, <4>5 DEF h
    <3> QED BY <3>3, <3>4
  <2> QED BY <2>1, <2>2, <2>3, <2>4, <2>5 DEF OrderInv, Waiting, IdOf
<1>10. LaneInv'
  <2>1. \A e \in Ids : WaitingOf(e)' = IF e = d THEN WaitingOf(d) \cup {n} ELSE WaitingOf(e)
    BY <1>1, <1>5, <1>6 DEF WaitingOf
  <2>2. ASSUME NEW e \in Ids PROVE lanes'[e].pending = Cardinality(WaitingOf(e))'
    <3>1. CASE e = d
      <4>1. WaitingOf(e)' = WaitingOf(d) \cup {n}
        BY <2>1, <3>1
      <4>2. IsFiniteSet(WaitingOf(d)) /\ n \notin WaitingOf(d) /\ lanes[d].pending = Cardinality(WaitingOf(d))
        BY <1>1, WaitingCount DEF WaitingOf
      <4>3. Cardinality(WaitingOf(d) \cup {n}) = Cardinality(WaitingOf(d)) + 1
        BY <4>2, FS_AddElement
      <4>4. lanes'[e].pending = lanes[d].pending + 1
        BY <1>4, <3>1
      <4>5. Cardinality(WaitingOf(e))' = Cardinality(WaitingOf(e)')
        OBVIOUS
      <4> QED BY <4>1, <4>2, <4>3, <4>4, <4>5
    <3>2. CASE e # d
      <4>1. WaitingOf(e)' = WaitingOf(e) /\ lanes'[e] = lanes[e]
        BY <1>4, <2>1, <3>2
      <4>2. lanes[e].pending = Cardinality(WaitingOf(e))
        BY DEF LaneInv
      <4> QED BY <4>1, <4>2
    <3> QED BY <3>1, <3>2
  <2>3. ASSUME NEW e \in Ids, lanes'[e].pending = 0, lanes'[e].current = 0 PROVE lanes'[e] = NoLane
    <3>1. CASE e = d
      <4>1. lanes[d].pending \in Nat /\ lanes'[d].pending = lanes[d].pending + 1
        BY <1>4, WaitingCount
      <4> QED BY <2>3, <3>1, <4>1
    <3>2. CASE e # d
      BY <1>4, <2>3, <3>2 DEF LaneInv
    <3> QED BY <3>1, <3>2
  <2>4. ASSUME NEW e \in Ids, lanes'[e].current # 0
        PROVE  /\ frames'[lanes'[e].current].type = "subscribe" /\ ~frames'[lanes'[e].current].duplicate
               /\ ~frames'[lanes'[e].current].settled /\ frames'[lanes'[e].current].id = e
    <3> DEFINE k == lanes'[e].current
    <3>1. CASE k = n
      <4>1. n \notin {0} \cup Routed /\ (e # d => k = lanes[e].current)
        BY <1>1, <1>4
      <4>2. e = d /\ c = n
        BY <1>4, <3>1, <4>1 DEF LaneType
      <4> QED BY <1>1, <1>16, <1>18, <3>1, <4>2
    <3>2. CASE k # n
      <4>1. k = lanes[e].current /\ k \in Routed
        BY <1>4, <1>18, <2>4, <3>2 DEF LaneType
      <4>2. Unsettled(k) /\ IdOf(k) = e
        BY <2>4, <4>1 DEF LaneInv
      <4> QED BY <1>2, <4>1, <4>2 DEF Unsettled, Generation, IdOf
    <3> QED BY <3>1, <3>2
  <2> QED BY <2>2, <2>3, <2>4 DEF LaneInv, Unsettled, Generation, IdOf
<1>11. drain' \in {0} \cup Routed'
  BY <1>1, <1>7, <1>17
<1>12. lanes' \in [Ids -> [tail : {0} \cup Routed', pending : 0..Len(frames'), current : {0} \cup Routed']]
  <2>1. Len(frames) \in Nat /\ n = Len(frames) + 1
    BY FrameRecord DEF Added
  <2>2. \A e \in Ids : lanes'[e] \in [tail : {0} \cup Routed', pending : 0..Len(frames'), current : {0} \cup Routed']
    BY <1>1, <1>4, <2>1 DEF LaneType
  <2>3. lanes' = [e \in Ids |-> lanes'[e]]
    BY TypeParts DEF Queues
  <2> QED BY <2>2, <2>3
<1>13. lanes'[d].current = c
  BY <1>4
<1> QED BY <1>1, <1>3, <1>4, <1>9, <1>10, <1>11, <1>12, <1>13

\* What is left to show of a step that routes or hands off a frame.
LEMMA FramesTypes ==
  ASSUME TypeOK, frames' \in Seq(FrameType), Len(frames') \in 0..(MaxFrames + MaxEvents), Routed \subseteq Routed',
         clientFrames' \in 0..MaxFrames, drain' \in {0} \cup Routed',
         lanes' \in [Ids -> [tail : {0} \cup Routed', pending : 0..Len(frames'), current : {0} \cup Routed']],
         socket' \in {"open", "stopping", "closed"},
         entry' \in [Ids -> [kind : {"absent", "null", "iterator"}, op : {0} \cup Routed]],
         operations' \in [Ids -> {0} \cup Routed], variables' \subseteq Ids,
         ops' \in [FrameId -> OpType], received' = received, untracked' \in BOOLEAN
  PROVE  TypeOK'
<1>1. entry' \in [Ids -> [kind : {"absent", "null", "iterator"}, op : {0} \cup Routed']]
  OBVIOUS
<1>2. operations' \in [Ids -> {0} \cup Routed']
  OBVIOUS
<1>3. received' \in 0..MaxEvents
  BY TypeParts
<1> QED BY <1>1, <1>2, <1>3 DEF TypeOK, FrameType, OpType

\* Frames change while an operation starts, ends or loses its reservation.
LEMMA FramesStage ==
  ASSUME TypeOK, StageInv, SameFrames, Routed' \subseteq FrameId, socket' = "closed" => socket = "closed",
         \A j \in FrameId : \/ ops'[j] = ops[j]
                            \/ ops'[j].stage \notin {"none", "starting"}
                            \/ ops[j].stage = "none" /\ ops'[j] = [NoOp EXCEPT !.stage = "starting"],
         \A j \in FrameId : ops'[j].reservation = "active" => ops[j].reservation = "active",
         \A j \in FrameId : ops'[j].stage # "none" <=>
           j \in Routed' /\ frames'[j].type = "subscribe" /\ frames'[j].state = "delivered",
         \A e \in Ids : /\ entry'[e] \in {entry[e], Absent, [kind |-> "null", op |-> 0]}
                        /\ operations'[e] \in {0, operations[e]}
  PROVE  StageInv'
<1>1. \A j \in FrameId : ops[j].stage \notin {"none", "starting"} => ops'[j].stage \notin {"none", "starting"}
  OBVIOUS
<1>2. \A j \in FrameId : ops'[j].stage = "none" => ops'[j] = NoOp
  BY DEF StageInv, NoOp
<1>3. \A j \in FrameId : ops'[j].stage = "starting" => ops'[j] = [NoOp EXCEPT !.stage = "starting"]
  BY DEF StageInv
<1>4. \A j \in FrameId : socket' = "closed" => ops'[j].reservation # "active"
  BY DEF StageInv
<1>5. \A e \in Ids : entry[e].op \in {0} \cup Routed /\ operations[e] \in {0} \cup Routed
  BY TypeParts
<1>6. \A j \in Routed : j \in FrameId /\ frames'[j].id = frames[j].id
  BY FrameRecord DEF SameFrames
<1>7. \A e \in Ids : /\ entry'[e].kind = "iterator" => /\ entry'[e].op # 0 /\ frames'[entry'[e].op].id = e
                                                       /\ ops'[entry'[e].op].stage \notin {"none", "starting"}
                     /\ entry'[e].kind # "iterator" => entry'[e].op = 0
  <2> SUFFICES ASSUME NEW e \in Ids
               PROVE  /\ entry'[e].kind = "iterator" => /\ entry'[e].op # 0 /\ frames'[entry'[e].op].id = e
                                                        /\ ops'[entry'[e].op].stage \notin {"none", "starting"}
                      /\ entry'[e].kind # "iterator" => entry'[e].op = 0
    OBVIOUS
  <2>1. CASE entry'[e] = entry[e]
    <3>1. /\ entry[e].kind = "iterator" => /\ entry[e].op # 0 /\ frames[entry[e].op].id = e
                                           /\ ops[entry[e].op].stage \notin {"none", "starting"}
          /\ entry[e].kind # "iterator" => entry[e].op = 0
      BY DEF StageInv, IdOf
    <3> QED BY <1>1, <1>5, <1>6, <2>1, <3>1
  <2>2. CASE entry'[e] = Absent
    BY <2>2 DEF Absent
  <2>3. CASE entry'[e] = [kind |-> "null", op |-> 0]
    BY <2>3
  <2> QED BY <2>1, <2>2, <2>3
<1>8. \A e \in Ids : operations'[e] # 0 => /\ frames'[operations'[e]].id = e
                                           /\ ops'[operations'[e]].stage \notin {"none", "starting"}
  <2> SUFFICES ASSUME NEW e \in Ids, operations'[e] # 0
               PROVE  frames'[operations'[e]].id = e /\ ops'[operations'[e]].stage \notin {"none", "starting"}
    OBVIOUS
  <2>1. operations'[e] = operations[e]
    OBVIOUS
  <2>2. frames[operations[e]].id = e /\ ops[operations[e]].stage \notin {"none", "starting"}
    BY <2>1 DEF StageInv, IdOf
  <2> QED BY <1>1, <1>5, <1>6, <2>1, <2>2
<1> QED BY <1>2, <1>3, <1>4, <1>7, <1>8 DEF StageInv, IdOf

\* The iterator is returned.
LEMMA ReturnedFacts ==
  ASSUME NEW i \in FrameId, ops[i] \in OpType
  PROVE  /\ Returned(i) \in OpType /\ Returned(i).stage = ops[i].stage /\ Returned(i).reservation = "removed"
         /\ Returned(i).closed /\ Returned(i).chan = "closed" /\ Returned(i).at = ops[i].at
         /\ Returned(i).queued = 0 /\ Returned(i).retired = ops[i].retired
         /\ \A open : Fades(Returned(i), ops[i], open)
<1>1. /\ Returned(i) \in OpType /\ Returned(i).stage = ops[i].stage /\ Returned(i).reservation = "removed"
      /\ Returned(i).closed /\ Returned(i).chan = "closed" /\ Returned(i).at = ops[i].at
      /\ Returned(i).queued = 0 /\ Returned(i).retired = ops[i].retired
  BY DEF Returned, OpType
<1> DEFINE o == Returned(i)
<1> HIDE DEF o
<1>2. \A open : Fades(o, ops[i], open)
  BY <1>1 DEF Fades, o
<1> QED BY <1>1, <1>2 DEF o

\* A complete frame reaches graphql-ws.
LEMMA CompletedFacts ==
  ASSUME TypeOK, StageInv, NEW d \in Ids
  PROVE  /\ OpsCompleted(d) \in [FrameId -> OpType]
         /\ \A i \in FrameId : /\ OpsCompleted(d)[i].stage = ops[i].stage /\ OpsCompleted(d)[i].at = ops[i].at
                               /\ OpsCompleted(d)[i].retired = ops[i].retired
                               /\ OpsCompleted(d)[i].reservation = "active" => ops[i].reservation = "active"
                               /\ ops[i].closed => OpsCompleted(d)[i].closed
                               /\ OpsCompleted(d)[i].queued \in {0, ops[i].queued}
                               /\ OpsCompleted(d)[i] = ops[i] \/ ops[i].stage \notin {"none", "starting"}
                               /\ ~(entry[d].kind = "iterator" /\ i = entry[d].op) => OpsCompleted(d)[i] = ops[i]
                               /\ entry[d].kind = "iterator" /\ i = entry[d].op =>
                                    OpsCompleted(d)[i].closed /\ OpsCompleted(d)[i].chan = "closed"
                               /\ \A open : Fades(OpsCompleted(d)[i], ops[i], open)
<1>1. ops \in [FrameId -> OpType] /\ Routed \subseteq FrameId
  BY FrameRecord
<1>2. CASE entry[d].kind # "iterator"
  BY <1>1, <1>2, FadesSame DEF OpsCompleted
<1>3. CASE entry[d].kind = "iterator"
  <2> DEFINE h == entry[d].op
             o == Returned(h)
  <2>1. h \in FrameId /\ ops[h].stage \notin {"none", "starting"}
    BY <1>1, <1>3, TypeParts DEF StageInv
  <2>2. /\ o \in OpType /\ o.stage = ops[h].stage /\ o.reservation = "removed"
        /\ o.closed /\ o.chan = "closed" /\ o.at = ops[h].at
        /\ o.queued = 0 /\ o.retired = ops[h].retired
        /\ \A open : Fades(o, ops[h], open)
    BY <1>1, <2>1, ReturnedFacts
  <2>3. OpsCompleted(d) = [ops EXCEPT ![h] = o]
    BY <1>3 DEF OpsCompleted
  <2>4. entry[d].kind = "iterator" /\ entry[d].op = h
    BY <1>3
  <2> HIDE DEF h, o
  <2>5. OpsCompleted(d)[h] = o /\ (\A i \in FrameId : i # h => OpsCompleted(d)[i] = ops[i])
        /\ OpsCompleted(d) \in [FrameId -> OpType]
    BY <1>1, <2>1, <2>2, <2>3
  <2> QED BY <2>1, <2>2, <2>4, <2>5, FadesSame
<1> QED BY <1>2, <1>3

-----------------------------------------------------------------------------
\* The client's frames.

\* There is room for a frame of the client.
LEMMA RoomForClient ==
  ASSUME TypeOK, CountInv, clientFrames < MaxFrames
  PROVE  Len(frames) + 1 \in FrameId /\ clientFrames + 1 \in 0..MaxFrames
<1>1. Len(frames) = clientFrames + Cardinality(Retires) /\ Cardinality(Retires) + Cardinality(Hand) <= received
  BY DEF CountInv
<1>2. clientFrames \in Nat /\ received \in Nat /\ received <= MaxEvents /\ MaxFrames \in Nat /\ MaxEvents \in Nat
  BY Bounds DEF TypeOK
<1>3. Cardinality(Retires) \in Nat /\ Cardinality(Hand) \in Nat
  BY CountFinite
<1> QED BY <1>1, <1>2, <1>3 DEF FrameId

\* One frame of the client more.
LEMMA CountClient ==
  ASSUME TypeOK, CountInv, NEW x, NEW m, Added(Len(frames) + 1, x, m), x.origin = "client",
         clientFrames' = clientFrames + 1, UNCHANGED <<received, pushed>>, Hand' \subseteq Hand
  PROVE  CountInv'
<1>1. /\ Routed' = Routed \cup {Len(frames) + 1} /\ Len(frames') = Len(frames) + 1
      /\ frames'[Len(frames) + 1].origin = "client"
      /\ \A g \in Routed : frames'[g].origin = frames[g].origin
  BY DEF Added, SameBut
<1>2. Retires' = Retires
  <2>1. Retires' = {f \in Routed' : frames'[f].origin = "retire"}
    BY DEF Retires
  <2> QED BY <1>1, <2>1 DEF Retires
<1>3. Len(frames) \in Nat /\ clientFrames \in Nat
  BY FrameRecord, Bounds DEF TypeOK
<1> QED BY <1>1, <1>2, <1>3, CountKeeps

\* The frame of a subscribe.
LEMMA SubscribeFrameFacts ==
  ASSUME TypeOK, LaneInv, NEW d \in Ids, NEW x, x = SubscribeFrame(d), NEW p, p = Predecessor(d)
  PROVE  /\ x \in FrameType /\ x.id = d /\ x.type = "subscribe" /\ x.origin = "client" /\ x.state = "waiting"
         /\ x.follows = lanes[d].tail /\ ~x.completed /\ ~x.settled
         /\ x.duplicate <=> p # 0 /\ ~frames[p].completed
         /\ x.awaits = IF p # 0 /\ frames[p].completed THEN p ELSE 0
         /\ p = lanes[d].current
<1>1. p \in {0} \cup Routed /\ p = lanes[d].current
  BY PredecessorFacts
<1>2. Routed \subseteq FrameId /\ lanes[d].tail \in {0} \cup Routed
  BY FrameRecord, TypeParts
<1>3. \A g \in Routed : frames[g].completed \in BOOLEAN
  BY FrameRecord DEF FrameType
<1> DEFINE dup == p # 0 /\ ~frames[p].completed
           aw == IF p # 0 /\ frames[p].completed THEN p ELSE 0
<1>4. x = [Frame(d, "subscribe", "client") EXCEPT !.awaits = aw, !.duplicate = dup]
  BY DEF SubscribeFrame
<1>5. aw \in FrameId \cup {0} /\ dup \in BOOLEAN
  BY <1>1, <1>2
<1> HIDE DEF dup, aw
<1>6. x = [id |-> d, type |-> "subscribe", origin |-> "client", state |-> "waiting",
           follows |-> lanes[d].tail, awaits |-> aw,
           completed |-> FALSE, settled |-> FALSE, duplicate |-> dup]
  BY <1>4 DEF Frame
<1>7. /\ x \in FrameType /\ x.id = d /\ x.type = "subscribe" /\ x.origin = "client" /\ x.state = "waiting"
      /\ x.follows = lanes[d].tail /\ ~x.completed /\ ~x.settled /\ x.duplicate = dup /\ x.awaits = aw
  BY <1>2, <1>5, <1>6 DEF FrameType
<1> QED BY <1>1, <1>7 DEF dup, aw

\* A generation of an open connection that waits for nothing to be drained has started.
LEMMA Drained ==
  ASSUME TypeOK, OrderInv, drain = 0, NEW g \in Routed, frames[g].type = "subscribe"
  PROVE  frames[g].state # "waiting"
<1>1. frames[g].origin = "client"
  BY FrameRecord DEF OrderInv, FrameType
<1>2. g # 0
  BY FrameRecord
<1> QED BY <1>1, <1>2 DEF OrderInv, Waiting

\* A generation more, or a duplicate.
LEMMA SubscribeGeneration ==
  ASSUME TypeOK, OrderInv, LaneInv, GenerationInv, drain = 0, UNCHANGED <<socket, ops>>, socket = "open",
         NEW d \in Ids, NEW x, x = SubscribeFrame(d), NEW n \in FrameId, Added(n, x, frames),
         NEW c, c = IF x.duplicate THEN lanes[d].current ELSE n,
         lanes'[d].current = c, \A e \in Ids : e # d => lanes'[e] = lanes[e]
  PROVE  GenerationInv'
<1> DEFINE p == Predecessor(d)
<1>1. /\ x.id = d /\ x.type = "subscribe" /\ x.state = "waiting" /\ ~x.settled
      /\ x.duplicate <=> p # 0 /\ ~frames[p].completed
      /\ x.awaits = IF p # 0 /\ frames[p].completed THEN p ELSE 0
      /\ p = lanes[d].current /\ p \in {0} \cup Routed
  BY SubscribeFrameFacts, PredecessorFacts
<1> HIDE DEF p
<1>2. /\ Routed' = Routed \cup {n} /\ n \notin Routed /\ frames'[n] = x /\ n \in Nat
      /\ \A g \in Routed : frames'[g] = frames[g] /\ g < n /\ g \in Nat /\ IdOf(g) \in Ids
  BY FrameRecord DEF Added
<1>3. \A g \in Routed : (Unsettled(g)' <=> Unsettled(g)) /\ (Generation(g)' <=> Generation(g)) /\ (Waiting(g)' <=> Waiting(g))
  BY <1>2 DEF Unsettled, Generation, Waiting
<1>4. (Generation(n)' <=> ~x.duplicate) /\ (Unsettled(n)' <=> ~x.duplicate) /\ Waiting(n)'
  BY <1>1, <1>2 DEF Unsettled, Generation, Waiting
<1>5. p # 0 => p \in Routed /\ Unsettled(p) /\ IdOf(p) = d /\ ~Waiting(p)
  BY <1>1, Drained DEF LaneInv, Unsettled, Generation, Waiting
<1>6. \A g \in Routed : Unsettled(g) => lanes[IdOf(g)].current >= g
  BY DEF GenerationInv
<1>7. \A g \in Routed : Unsettled(g) /\ IdOf(g) = d => g = p
  <2> SUFFICES ASSUME NEW g \in Routed, Unsettled(g), IdOf(g) = d, g # p PROVE FALSE
    OBVIOUS
  <2>1. p >= g /\ p # 0
    BY <1>1, <1>2, <1>6
  <2>2. g < p /\ IdOf(g) = IdOf(p) /\ p \in Routed /\ Unsettled(p) /\ ~Waiting(p)
    BY <1>2, <1>5, <2>1
  <2> QED BY <2>2 DEF GenerationInv
<1>8. \A g \in Routed' : Unsettled(g)' => lanes'[frames'[g].id].current >= g
  <2> SUFFICES ASSUME NEW g \in Routed', Unsettled(g)' PROVE lanes'[frames'[g].id].current >= g
    OBVIOUS
  <2>1. CASE g = n
    BY <1>1, <1>2, <1>4, <2>1
  <2>2. CASE g \in Routed /\ IdOf(g) # d
    BY <1>2, <1>3, <1>6, <2>2 DEF IdOf
  <2>3. CASE g \in Routed /\ IdOf(g) = d
    <3>1. g = p /\ frames'[g].id = d /\ c \in {p, n} /\ g < n /\ n \in Nat /\ g \in Nat
      BY <1>1, <1>2, <1>3, <1>7, <2>3 DEF IdOf
    <3> QED BY <3>1
  <2> QED BY <1>2, <2>1, <2>2, <2>3
<1>9. \A f, g \in Routed' : f < g /\ frames'[f].id = frames'[g].id /\ Unsettled(f)' /\ Unsettled(g)' =>
        Waiting(g)' /\ frames'[g].awaits = f
  <2> SUFFICES ASSUME NEW f \in Routed', NEW g \in Routed', f < g, frames'[f].id = frames'[g].id,
                      Unsettled(f)', Unsettled(g)'
               PROVE  Waiting(g)' /\ frames'[g].awaits = f
    OBVIOUS
  <2>1. f \in Routed
    BY <1>2
  <2>2. CASE g = n
    <3>1. f = p /\ ~x.duplicate
      BY <1>1, <1>2, <1>3, <1>4, <1>7, <2>1, <2>2 DEF IdOf
    <3>2. p # 0 /\ frames[p].completed
      BY <1>1, <1>2, <2>1, <3>1, FrameRecord
    <3> QED BY <1>1, <1>2, <1>4, <2>2, <3>1, <3>2
  <2>3. CASE g # n
    <3>1. g \in Routed /\ Unsettled(f) /\ Unsettled(g) /\ IdOf(f) = IdOf(g)
      BY <1>2, <1>3, <2>1, <2>3 DEF IdOf
    <3>2. Waiting(g) /\ frames[g].awaits = f
      BY <2>1, <3>1 DEF GenerationInv
    <3> QED BY <1>2, <1>3, <3>1, <3>2
  <2> QED BY <2>2, <2>3
<1>10. \A f \in Routed' : frames'[f].awaits # 0 => /\ frames'[f].awaits \in Routed'
                                                   /\ frames'[frames'[f].awaits].completed
  <2> SUFFICES ASSUME NEW f \in Routed', frames'[f].awaits # 0
               PROVE  frames'[f].awaits \in Routed' /\ frames'[frames'[f].awaits].completed
    OBVIOUS
  <2>1. CASE f = n
    <3>1. frames'[f].awaits = p /\ p \in Routed /\ frames[p].completed
      BY <1>1, <1>2, <2>1
    <3> QED BY <1>2, <3>1
  <2>2. CASE f # n
    <3>1. f \in Routed /\ frames'[f].awaits = frames[f].awaits
      BY <1>2, <2>2
    <3>2. frames[f].awaits \in Routed /\ frames[frames[f].awaits].completed
      BY <3>1 DEF GenerationInv
    <3> QED BY <1>2, <3>1, <3>2
  <2> QED BY <2>1, <2>2
<1>11. \A f \in Routed' : Generation(f)' => /\ frames'[f].state = "dropped" => frames'[f].settled
                                            /\ frames'[f].settled => frames'[f].state # "waiting"
                                            /\ frames'[f].settled /\ frames'[f].state = "delivered"
                                                 => ops'[f].stage = "ended"
  <2>1. \A f \in Routed : Generation(f) => /\ frames[f].state = "dropped" => frames[f].settled
                                           /\ frames[f].settled => frames[f].state # "waiting"
                                           /\ frames[f].settled /\ frames[f].state = "delivered"
                                                => ops[f].stage = "ended"
    BY DEF GenerationInv
  <2> QED BY <1>1, <1>2, <1>3, <2>1
<1> QED BY <1>8, <1>9, <1>10, <1>11 DEF GenerationInv, IdOf

\* The complete frames on their way do not concern it.
LEMMA SubscribeRetire ==
  ASSUME TypeOK, RetireInv, drain = 0, UNCHANGED <<entry, ops>>,
         NEW x, x.type = "subscribe", x.origin = "client", ~x.completed, NEW n \in FrameId, Added(n, x, frames)
  PROVE  RetireInv'
<1>1. /\ Routed' = Routed \cup {n} /\ n \notin Routed /\ frames'[n] = x /\ n \in Nat
      /\ \A g \in Routed : frames'[g] = frames[g] /\ g < n /\ g \in Nat /\ g \in FrameId /\ frames[g].id \in Ids
  BY FrameRecord DEF Added, IdOf
<1>2. \A g \in Routed : (Generation(g)' <=> Generation(g)) /\ (Waiting(g)' <=> Waiting(g)) /\ (Served(g)' <=> Served(g))
  BY <1>1 DEF Generation, Waiting, Served, Live, IdOf
<1>3. \A j \in Routed : CompletedBy(j) =>
        /\ ops[j].stage = "pulling"
        /\ \E f \in Routed : Waiting(f) /\ frames[f].origin = "retire" /\ frames[f].id = frames[j].id
  BY DEF CompletedBy, IdOf
<1>4. \A j \in Routed : CompletedBy(j) => CompletedBy(j)'
  <2> SUFFICES ASSUME NEW j \in Routed, CompletedBy(j) PROVE CompletedBy(j)'
    OBVIOUS
  <2>1. PICK f \in Routed : Waiting(f) /\ frames[f].origin = "retire" /\ frames[f].id = frames[j].id
    BY <1>3
  <2>2. f \in Routed' /\ frames'[f].state = "waiting" /\ frames'[f].origin = "retire" /\ frames'[f].id = frames'[j].id
        /\ ops'[j].stage = "pulling"
    BY <1>1, <1>3, <2>1 DEF Waiting
  <2> QED BY <2>2 DEF CompletedBy, IdOf, Waiting
<1>5. \A j \in Routed' : Served(j)' /\ frames'[j].completed => CompletedBy(j)'
  BY <1>1, <1>2, <1>4 DEF RetireInv
<1>6. \A g \in Routed' : Generation(g)' /\ Waiting(g)' => ~frames'[g].completed
  BY <1>1, <1>2 DEF RetireInv
<1>7. \A f, g \in Routed' : Waiting(f)' /\ frames'[f].origin = "retire" /\ Waiting(g)'
                            /\ Generation(g)' /\ frames'[f].id = frames'[g].id => f < g
  <2> SUFFICES ASSUME NEW f \in Routed', NEW g \in Routed', Waiting(f)', frames'[f].origin = "retire", Waiting(g)',
                      Generation(g)', frames'[f].id = frames'[g].id
               PROVE  f < g
    OBVIOUS
  <2>1. f \in Routed
    BY <1>1
  <2> QED BY <1>1, <1>2, <2>1 DEF RetireInv, IdOf
<1>8. \A f \in Routed' : Waiting(f)' /\ frames'[f].origin = "retire" =>
       \/ entry'[frames'[f].id].kind = "absent"
       \/ entry'[frames'[f].id].kind = "iterator" /\ ops'[entry'[frames'[f].id].op].retired
  <2> SUFFICES ASSUME NEW f \in Routed', Waiting(f)', frames'[f].origin = "retire"
               PROVE  \/ entry[frames'[f].id].kind = "absent"
                      \/ entry[frames'[f].id].kind = "iterator" /\ ops[entry[frames'[f].id].op].retired
    OBVIOUS
  <2>1. f \in Routed /\ Waiting(f) /\ frames[f].origin = "retire" /\ frames'[f].id = frames[f].id
    BY <1>1, <1>2
  <2> QED BY <2>1 DEF RetireInv, IdOf
<1> QED BY <1>5, <1>6, <1>7, <1>8 DEF RetireInv, IdOf

\* A routed frame that leaves the operations alone.
LEMMA RoutedStage ==
  ASSUME TypeOK, StageInv, UNCHANGED <<socket, ops, entry, operations>>,
         NEW x, NEW m, NEW n \in FrameId, Added(n, x, m), x.state = "waiting" \/ x.type = "complete"
  PROVE  StageInv' /\ SameFrames
<1>1. /\ Routed' = Routed \cup {n} /\ n \notin Routed /\ frames'[n] = x /\ Routed \subseteq FrameId
      /\ \A g \in Routed : SameBut(frames'[g], frames[g])
  BY FrameRecord DEF Added
<1>2. SameFrames
  BY <1>1 DEF SameFrames, SameBut
<1>3. \A j \in FrameId : ops[j].stage # "none" <=>
           j \in Routed' /\ frames'[j].type = "subscribe" /\ frames'[j].state = "delivered"
  BY <1>1 DEF StageInv, SameBut
<1> QED BY <1>1, <1>2, <1>3, FramesStage

\* The client subscribes.
LEMMA RouteSubscribeKeeps ==
  ASSUME OperationsInv, NEW d \in Ids, socket = "open", drain = 0, clientFrames < MaxFrames,
         clientFrames' = clientFrames + 1, RouteSubscribe(d), UNCHANGED <<socket, received, historyVars>>
  PROVE  OperationsInv'
<1>1. /\ TypeOK /\ OrderInv /\ LaneInv /\ GenerationInv /\ StageInv /\ EventsInv /\ CountInv
      /\ untracked \/ AdapterInv
      /\ untracked \/ RetireInv
  BY DEF OperationsInv
<1> DEFINE x == SubscribeFrame(d)
           n == Len(frames) + 1
           c == IF x.duplicate THEN lanes[d].current ELSE n
<1>2. /\ frames' = Append(frames, x)
      /\ lanes' = [lanes EXCEPT ![d] = [tail |-> n, pending |-> @.pending + 1, current |-> c]]
      /\ drain' = n
      /\ UNCHANGED <<entry, operations, variables, ops, received, untracked, pushed, taken, sent>>
  BY DEF RouteSubscribe, adapterVars, historyVars
<1>3. /\ x \in FrameType /\ x.id = d /\ x.type = "subscribe" /\ x.origin = "client" /\ x.state = "waiting"
      /\ x.follows = lanes[d].tail /\ ~x.completed /\ ~x.settled
  BY <1>1, SubscribeFrameFacts
<1>4. n \in FrameId /\ n \in Nat /\ clientFrames + 1 \in 0..MaxFrames /\ Len(frames) \in Nat
  BY <1>1, RoomForClient, FrameRecord
<1>5. Added(n, x, frames)
  <2>1. frames \in Seq(FrameType) /\ \A g \in Routed : SameBut(frames[g], frames[g])
    BY <1>1, FrameRecord DEF SameBut
  <2> HIDE DEF x
  <2> QED BY <1>1, <1>2, <1>3, <2>1, AddedFacts
<1>6. c \in {0} \cup Routed \cup {n}
  BY <1>1, TypeParts
<1>7. Queues(d, x, c, n)
  <2>1. c = n => ~x.duplicate
    <3>1. n \notin Routed /\ n # 0 /\ lanes[d].current \in {0} \cup Routed
      BY <1>1, <1>5, TypeParts DEF Added
    <3> QED BY <3>1
  <2>2. c # n => c = lanes[d].current
    OBVIOUS
  <2> HIDE DEF x, c
  <2> QED BY <1>2, <1>3, <2>1, <2>2 DEF Queues
<1>8. x = SubscribeFrame(d) /\ c = (IF x.duplicate THEN lanes[d].current ELSE n) /\ n = Len(frames) + 1
  OBVIOUS
<1> HIDE DEF x, c, n
<1>9. /\ OrderInv' /\ LaneInv' /\ SameFrames /\ drain' \in {0} \cup Routed'
      /\ lanes' \in [Ids -> [tail : {0} \cup Routed', pending : 0..Len(frames'), current : {0} \cup Routed']]
      /\ lanes'[d].current = c /\ \A e \in Ids : e # d => lanes'[e] = lanes[e]
  BY <1>1, <1>4, <1>5, <1>6, <1>7, QueueFrame
<1>10. /\ frames' \in Seq(FrameType) /\ Len(frames') = n /\ Routed' = Routed \cup {n} /\ n \notin Routed
       /\ Routed' \subseteq FrameId /\ Routed \subseteq Routed'
  BY <1>1, <1>4, <1>5, FrameRecord DEF Added
<1>11. TypeOK'
  <2>1. Len(frames') \in 0..(MaxFrames + MaxEvents)
    BY <1>4, <1>10, Bounds DEF FrameId
  <2>2. /\ entry' \in [Ids -> [kind : {"absent", "null", "iterator"}, op : {0} \cup Routed]]
        /\ operations' \in [Ids -> {0} \cup Routed] /\ variables' \subseteq Ids
        /\ ops' \in [FrameId -> OpType] /\ untracked' \in BOOLEAN
        /\ socket' \in {"open", "stopping", "closed"} /\ clientFrames' \in 0..MaxFrames
    BY <1>1, <1>2, <1>4, TypeParts
  <2> QED BY <1>1, <1>2, <1>9, <1>10, <2>1, <2>2, FramesTypes
<1>12. GenerationInv'
  BY <1>1, <1>2, <1>4, <1>5, <1>8, <1>9, SubscribeGeneration
<1>13. StageInv'
  BY <1>1, <1>2, <1>3, <1>4, <1>5, RoutedStage
<1>14. EventsInv' /\ Hand' \subseteq Hand
  BY <1>1, <1>2, FadesSame, AllFade
<1>15. CountInv'
  BY <1>1, <1>2, <1>3, <1>5, <1>8, <1>14, CountClient
<1>16. untracked' \/ AdapterInv'
  <2>1. ops[n].stage = "none" /\ ops[n].reservation # "active"
    BY <1>1, <1>4, <1>10, NoOpType DEF StageInv
  <2>2. \A i \in Routed' : i \notin Routed => Over(ops[i]) /\ ops[i].reservation # "active"
    BY <1>10, <2>1 DEF Over
  <2> QED BY <1>1, <1>2, <1>9, <1>10, <2>2, GoesSame, GoingKeepsAdapter DEF adapterVars
<1>17. untracked' \/ socket' # "open" \/ RetireInv'
  BY <1>1, <1>2, <1>3, <1>4, <1>5, SubscribeRetire
<1> QED BY <1>9, <1>11, <1>12, <1>13, <1>14, <1>15, <1>16, <1>17 DEF OperationsInv

\* A complete frame that is routed, waiting or delivered at once.
CompleteFrame(d, origin) ==
  [Frame(d, "complete", origin) EXCEPT !.state = IF NoWait(d) THEN "delivered" ELSE "waiting"]

\* The frame of a complete.
LEMMA CompleteFrameFacts ==
  ASSUME TypeOK, NEW d \in Ids, NEW origin \in {"client", "retire"}, NEW x, x = CompleteFrame(d, origin)
  PROVE  /\ x \in FrameType /\ x.id = d /\ x.type = "complete" /\ x.origin = origin
         /\ x.state = IF NoWait(d) THEN "delivered" ELSE "waiting"
         /\ x.follows = lanes[d].tail /\ x.awaits = 0 /\ ~x.completed /\ ~x.settled /\ ~x.duplicate
         /\ NoWait(d) => x = [Frame(d, "complete", origin) EXCEPT !.state = "delivered"]
         /\ ~NoWait(d) => x = Frame(d, "complete", origin)
<1>1. Routed \subseteq FrameId /\ lanes[d].tail \in {0} \cup Routed
  BY FrameRecord, TypeParts
<1> DEFINE s == IF NoWait(d) THEN "delivered" ELSE "waiting"
<1>2. s \in {"delivered", "waiting"}
  OBVIOUS
<1>3. x = [Frame(d, "complete", origin) EXCEPT !.state = s]
  BY DEF CompleteFrame
<1>4. s = IF NoWait(d) THEN "delivered" ELSE "waiting"
  OBVIOUS
<1> HIDE DEF s
<1>5. x = [id |-> d, type |-> "complete", origin |-> origin, state |-> s,
           follows |-> lanes[d].tail, awaits |-> 0,
           completed |-> FALSE, settled |-> FALSE, duplicate |-> FALSE]
  BY <1>3 DEF Frame
<1>6. /\ x \in FrameType /\ x.id = d /\ x.type = "complete" /\ x.origin = origin /\ x.state = s
      /\ x.follows = lanes[d].tail /\ x.awaits = 0 /\ ~x.completed /\ ~x.settled /\ ~x.duplicate
  BY <1>1, <1>2, <1>5 DEF FrameType
<1>7. s = "waiting" => x = Frame(d, "complete", origin)
  BY <1>5 DEF Frame
<1>8. NoWait(d) => x = [Frame(d, "complete", origin) EXCEPT !.state = "delivered"]
  BY <1>3, <1>4
<1> QED BY <1>4, <1>6, <1>7, <1>8

\* What routing a complete writes into the lane.
LEMMA LaneUpdate ==
  ASSUME NEW A, NEW B, NEW C, NEW l \in [tail : A, pending : B, current : C], NEW n,
         NEW x, x = [l EXCEPT !.tail = n, !.pending = @ + 1]
  PROVE  x = [tail |-> n, pending |-> l.pending + 1, current |-> l.current]
<1>1. x.tail = n /\ x.pending = l.pending + 1 /\ x.current = l.current
  OBVIOUS
<1>2. x \in [tail : {n}, pending : {l.pending + 1}, current : C]
  OBVIOUS
<1> QED BY <1>1, <1>2

\* The lanes when it waits.
LEMMA CompleteQueues ==
  ASSUME TypeOK, OrderInv, LaneInv, NEW d \in Ids, NEW origin \in {"client", "retire"},
         RouteComplete(d, origin), ~NoWait(d), origin = "client" => drain = 0, UNCHANGED socket,
         NEW n \in FrameId, n = Len(frames) + 1, NEW x, x = CompleteFrame(d, origin), NEW m, Added(n, x, m)
  PROVE  /\ OrderInv' /\ LaneInv' /\ SameFrames /\ drain' \in {0} \cup Routed'
         /\ lanes' \in [Ids -> [tail : {0} \cup Routed', pending : 0..Len(frames'), current : {0} \cup Routed']]
         /\ \A e \in Ids : lanes'[e].current = lanes[e].current
<1> DEFINE c == lanes[d].current
<1>1. /\ x \in FrameType /\ x.id = d /\ x.type = "complete" /\ x.origin = origin /\ x.state = "waiting"
      /\ x.follows = lanes[d].tail
  BY CompleteFrameFacts
<1>2. lanes' = [lanes EXCEPT ![d].tail = n, ![d].pending = @ + 1] /\ drain' = IF origin = "client" THEN n ELSE drain
  BY DEF RouteComplete
<1>3. lanes \in [Ids -> LaneType] /\ c \in {0} \cup Routed
  BY TypeParts DEF LaneType
<1>4. lanes' = [lanes EXCEPT ![d] = [tail |-> n, pending |-> @.pending + 1, current |-> c]]
  <2>1. PICK l \in [tail : {0} \cup Routed, pending : 0..Len(frames), current : {0} \cup Routed] : l = lanes[d]
    BY <1>3 DEF LaneType
  <2>2. PICK y : y = [l EXCEPT !.tail = n, !.pending = @ + 1]
    OBVIOUS
  <2>3. y = [tail |-> n, pending |-> l.pending + 1, current |-> l.current]
    BY <2>2, LaneUpdate
  <2>4. lanes' = [lanes EXCEPT ![d] = y]
    BY <1>2, <1>3, <2>1, <2>2 DEF LaneType
  <2> QED BY <2>1, <2>3, <2>4
<1>5. c # n
  BY <1>3, FrameRecord DEF Added
<1>6. Queues(d, x, c, n)
  <2>1. \/ x.origin = "client" /\ drain = 0 /\ drain' = n
        \/ x.origin = "retire" /\ x.type = "complete" /\ drain' = drain
    BY <1>1, <1>2
  <2> QED BY <1>1, <1>4, <1>5, <2>1 DEF Queues
<1>7. /\ OrderInv' /\ LaneInv' /\ SameFrames /\ drain' \in {0} \cup Routed'
      /\ lanes' \in [Ids -> [tail : {0} \cup Routed', pending : 0..Len(frames'), current : {0} \cup Routed']]
      /\ lanes'[d].current = c /\ \A e \in Ids : e # d => lanes'[e] = lanes[e]
  <2>1. c \in {0} \cup Routed \cup {n}
    BY <1>3
  <2> HIDE DEF c
  <2> QED BY <1>6, <2>1, QueueFrame
<1> QED BY <1>7

\* The lanes when it does not.
LEMMA CompletePasses ==
  ASSUME TypeOK, OrderInv, LaneInv, NEW d \in Ids, NoWait(d), UNCHANGED <<socket, lanes, drain>>,
         NEW n \in FrameId, NEW x, x.id = d, x.state = "delivered", x.type = "complete",
         NEW m, Added(n, x, m)
  PROVE  /\ OrderInv' /\ LaneInv' /\ SameFrames /\ drain' \in {0} \cup Routed'
         /\ lanes' \in [Ids -> [tail : {0} \cup Routed', pending : 0..Len(frames'), current : {0} \cup Routed']]
<1>1. /\ Routed' = Routed \cup {n} /\ n \notin Routed /\ frames'[n] = x /\ n \in Nat /\ Len(frames') = n
      /\ n = Len(frames) + 1 /\ Routed' = 1..n
      /\ \A g \in Routed : /\ frames'[g].id = frames[g].id /\ frames'[g].type = frames[g].type
                           /\ frames'[g].origin = frames[g].origin /\ frames'[g].state = frames[g].state
                           /\ frames'[g].follows = frames[g].follows /\ frames'[g].awaits = frames[g].awaits
                           /\ frames'[g].settled = frames[g].settled
                           /\ frames'[g].duplicate = frames[g].duplicate
  BY DEF Added, SameBut
<1>2. lanes[d].pending = 0 /\ WaitingOf(d) = {}
  BY WaitingCount DEF NoWait, NoLane
<1>3. SameFrames
  BY <1>1 DEF SameFrames
<1>4. \A f \in Routed : frames[f].state = "waiting" => frames[f].id # d
  BY <1>2 DEF WaitingOf, Waiting, IdOf
<1>5. /\ drain \in {0} \cup Routed /\ lanes \in [Ids -> LaneType] /\ Len(frames) \in Nat
      /\ \A f \in Routed : f \in Nat /\ frames[f].id \in Ids
  BY TypeParts, FrameRecord DEF LaneType, IdOf
<1>6. lanes' \in [Ids -> [tail : {0} \cup Routed', pending : 0..Len(frames'), current : {0} \cup Routed']]
  <2>1. \A e \in Ids : lanes[e] \in [tail : {0} \cup Routed', pending : 0..Len(frames'), current : {0} \cup Routed']
    BY <1>1, <1>5 DEF LaneType
  <2> QED BY <1>5, <2>1
<1>7. OrderInv'
  <2>1. \A f \in Routed' : frames'[f].state = "waiting" => f \in Routed /\ frames[f].state = "waiting"
    BY <1>1
  <2>2. \A f \in Routed' : frames'[f].state = "waiting" /\ frames'[f].origin = "client" => drain' = f
    BY <1>1, <2>1 DEF OrderInv, Waiting
  <2>3. drain' # 0 => frames'[drain'].state = "waiting"
    BY <1>1, <1>5 DEF OrderInv, Waiting
  <2>4. \A f \in Routed' : frames'[f].origin = "retire" => frames'[f].type = "complete"
    BY <1>1 DEF OrderInv
  <2>5. \A f \in Routed' : frames'[f].state = "waiting" =>
          /\ lanes'[frames'[f].id].tail >= f
          /\ frames'[lanes'[frames'[f].id].tail].id = frames'[f].id
          /\ socket' = "open" => frames'[lanes'[frames'[f].id].tail].state = "waiting"
    <3> SUFFICES ASSUME NEW f \in Routed, frames[f].state = "waiting"
                 PROVE  /\ lanes[frames[f].id].tail >= f
                        /\ frames'[lanes[frames[f].id].tail].id = frames[f].id
                        /\ socket = "open" => frames'[lanes[frames[f].id].tail].state = "waiting"
      BY <1>1, <2>1
    <3> DEFINE t == lanes[frames[f].id].tail
    <3>1. t >= f /\ frames[t].id = frames[f].id /\ (socket = "open" => frames[t].state = "waiting")
      BY DEF OrderInv, Waiting, IdOf
    <3>2. t \in Routed
      BY <1>5, <3>1, FrameRecord DEF LaneType
    <3> QED BY <1>1, <3>1, <3>2
  <2>6. \A f, g \in Routed' : f < g /\ frames'[f].id = frames'[g].id /\ frames'[f].state = "waiting" =>
          /\ frames'[g].state # "delivered"
          /\ frames'[g].state = "waiting" =>
               /\ frames'[g].follows >= f /\ frames'[g].follows < g
               /\ frames'[frames'[g].follows].id = frames'[g].id
               /\ socket' = "open" => frames'[frames'[g].follows].state = "waiting"
    <3> SUFFICES ASSUME NEW f \in Routed, NEW g \in Routed', f < g, frames[f].id = frames'[g].id,
                        frames[f].state = "waiting"
                 PROVE  /\ frames'[g].state # "delivered"
                        /\ frames'[g].state = "waiting" =>
                             /\ frames'[g].follows >= f /\ frames'[g].follows < g
                             /\ frames'[frames'[g].follows].id = frames'[g].id
                             /\ socket = "open" => frames'[frames'[g].follows].state = "waiting"
      BY <1>1, <2>1
    <3>1. g \in Routed
      BY <1>1, <1>4
    <3> DEFINE h == frames[g].follows
    <3>2. /\ frames[g].state # "delivered"
          /\ frames[g].state = "waiting" => /\ h >= f /\ h < g /\ frames[h].id = frames[g].id
                                            /\ socket = "open" => frames[h].state = "waiting"
      <4>1. f < g /\ IdOf(f) = IdOf(g) /\ Waiting(f)
        BY <1>1, <3>1 DEF IdOf, Waiting
      <4>2. /\ frames[g].state # "delivered"
            /\ Waiting(g) => /\ frames[g].follows >= f /\ frames[g].follows < g
                             /\ IdOf(frames[g].follows) = IdOf(g)
                             /\ socket = "open" => Waiting(frames[g].follows)
        BY <3>1, <4>1 DEF OrderInv
      <4> QED BY <4>2 DEF Waiting, IdOf
    <3>3. frames[g].state = "waiting" => h \in Routed
      <4>1. Routed = 1..Len(frames) /\ h \in FrameId \cup {0}
        BY <3>1, FrameRecord DEF FrameType
      <4> QED BY <1>5, <3>1, <3>2, <4>1, Bounds DEF FrameId
    <3> QED BY <1>1, <3>1, <3>2, <3>3
  <2> QED BY <2>2, <2>3, <2>4, <2>5, <2>6 DEF OrderInv, Waiting, IdOf
<1>8. LaneInv'
  <2>1. \A e \in Ids : WaitingOf(e)' = WaitingOf(e)
    BY <1>1 DEF WaitingOf, Waiting, IdOf
  <2>2. \A e \in Ids : lanes'[e].pending = Cardinality(WaitingOf(e))'
    BY <2>1 DEF LaneInv
  <2>3. \A e \in Ids : lanes'[e].pending = 0 /\ lanes'[e].current = 0 => lanes'[e] = NoLane
    BY DEF LaneInv
  <2>4. \A e \in Ids : lanes'[e].current # 0 =>
          /\ frames'[lanes'[e].current].type = "subscribe" /\ ~frames'[lanes'[e].current].duplicate
          /\ ~frames'[lanes'[e].current].settled /\ frames'[lanes'[e].current].id = e
    <3> SUFFICES ASSUME NEW e \in Ids, lanes[e].current # 0
                 PROVE  /\ frames'[lanes[e].current].type = "subscribe" /\ ~frames'[lanes[e].current].duplicate
                        /\ ~frames'[lanes[e].current].settled /\ frames'[lanes[e].current].id = e
      OBVIOUS
    <3>1. lanes[e].current \in Routed
      BY <1>5 DEF LaneType
    <3>2. Unsettled(lanes[e].current) /\ IdOf(lanes[e].current) = e
      BY DEF LaneInv
    <3> QED BY <1>1, <3>1, <3>2 DEF Unsettled, Generation, IdOf
  <2> QED BY <2>2, <2>3, <2>4 DEF LaneInv, Unsettled, Generation, IdOf
<1>9. drain' \in {0} \cup Routed'
  BY <1>1, <1>5
<1> QED BY <1>3, <1>6, <1>7, <1>8, <1>9

\* A complete frame makes no generation.
LEMMA CompleteGeneration ==
  ASSUME TypeOK, GenerationInv, UNCHANGED socket, NEW p \in {0} \cup Routed,
         NEW n \in FrameId, NEW x, x.type = "complete", x.awaits = 0, Added(n, x, Marked(p)),
         \A e \in Ids : lanes'[e].current = lanes[e].current,
         \A j \in FrameId : ops[j].stage = "ended" => ops'[j].stage = "ended"
  PROVE  GenerationInv'
<1>1. /\ Routed' = Routed \cup {n} /\ n \notin Routed /\ frames'[n] = x
      /\ \A g \in Routed : /\ frames'[g].id = frames[g].id /\ frames'[g].type = frames[g].type
                           /\ frames'[g].state = frames[g].state /\ frames'[g].awaits = frames[g].awaits
                           /\ frames'[g].settled = frames[g].settled
                           /\ frames'[g].duplicate = frames[g].duplicate
  BY DEF Added, SameBut
<1>2. \A g \in Routed : frames[g].completed => frames'[g].completed
  BY MarkedFacts DEF Added
<1>3. \A g \in Routed : (Unsettled(g)' <=> Unsettled(g)) /\ (Generation(g)' <=> Generation(g)) /\ (Waiting(g)' <=> Waiting(g))
  BY <1>1 DEF Unsettled, Generation, Waiting
<1>4. ~Generation(n)' /\ ~Unsettled(n)'
  BY <1>1 DEF Generation, Unsettled
<1>5. \A g \in Routed : g \in FrameId /\ frames[g].id \in Ids
  BY FrameRecord DEF IdOf
<1>6. socket' = "open" => \A g \in Routed' : Unsettled(g)' => lanes'[frames'[g].id].current >= g
  BY <1>1, <1>3, <1>4, <1>5 DEF GenerationInv, IdOf
<1>7. \A f, g \in Routed' : f < g /\ frames'[f].id = frames'[g].id /\ Unsettled(f)' /\ Unsettled(g)' =>
        Waiting(g)' /\ frames'[g].awaits = f
  <2> SUFFICES ASSUME NEW f \in Routed', NEW g \in Routed', f < g, frames'[f].id = frames'[g].id,
                      Unsettled(f)', Unsettled(g)'
               PROVE  Waiting(g)' /\ frames'[g].awaits = f
    OBVIOUS
  <2>1. f \in Routed /\ g \in Routed /\ Unsettled(f) /\ Unsettled(g) /\ IdOf(f) = IdOf(g)
    BY <1>1, <1>3, <1>4 DEF IdOf
  <2>2. Waiting(g) /\ frames[g].awaits = f
    BY <2>1 DEF GenerationInv
  <2> QED BY <1>1, <1>3, <2>1, <2>2
<1>8. \A f \in Routed' : frames'[f].awaits # 0 => /\ frames'[f].awaits \in Routed'
                                                  /\ frames'[frames'[f].awaits].completed
  <2> SUFFICES ASSUME NEW f \in Routed', frames'[f].awaits # 0
               PROVE  frames'[f].awaits \in Routed' /\ frames'[frames'[f].awaits].completed
    OBVIOUS
  <2>1. f \in Routed /\ frames'[f].awaits = frames[f].awaits
    BY <1>1
  <2>2. frames[f].awaits \in Routed /\ frames[frames[f].awaits].completed
    BY <2>1 DEF GenerationInv
  <2> QED BY <1>1, <1>2, <2>1, <2>2
<1>9. \A f \in Routed' : Generation(f)' => /\ frames'[f].state = "dropped" => frames'[f].settled
                                           /\ frames'[f].settled => frames'[f].state # "waiting"
                                           /\ frames'[f].settled /\ frames'[f].state = "delivered"
                                                => ops'[f].stage = "ended"
  <2>1. \A f \in Routed : Generation(f) => /\ frames[f].state = "dropped" => frames[f].settled
                                           /\ frames[f].settled => frames[f].state # "waiting"
                                           /\ frames[f].settled /\ frames[f].state = "delivered"
                                                => ops[f].stage = "ended"
    BY DEF GenerationInv
  <2> QED BY <1>1, <1>3, <1>4, <1>5, <2>1
<1> QED BY <1>6, <1>7, <1>8, <1>9 DEF GenerationInv, IdOf

\* What a complete frame that is routed does, but for the operations.
CompleteRouted(d, origin, n) ==
  /\ Added(n, CompleteFrame(d, origin), Marked(Predecessor(d)))
  /\ OrderInv' /\ LaneInv' /\ SameFrames /\ drain' \in {0} \cup Routed'
  /\ lanes' \in [Ids -> [tail : {0} \cup Routed', pending : 0..Len(frames'), current : {0} \cup Routed']]
  /\ \A e \in Ids : lanes'[e].current = lanes[e].current
  /\ IF NoWait(d) THEN drain' = drain /\ AdapterCompleted(d)
                  ELSE UNCHANGED adapterVars /\ drain' = IF origin = "client" THEN n ELSE drain

\* A complete that is routed, passing at once or queueing.
LEMMA RouteCompleteFacts ==
  ASSUME TypeOK, OrderInv, LaneInv, NEW d \in Ids, NEW origin \in {"client", "retire"},
         RouteComplete(d, origin), origin = "client" => drain = 0, UNCHANGED socket,
         NEW n \in FrameId, n = Len(frames) + 1
  PROVE  CompleteRouted(d, origin, n)
<1> DEFINE x == CompleteFrame(d, origin)
           m == Marked(Predecessor(d))
<1>1. /\ x \in FrameType /\ x.id = d /\ x.type = "complete" /\ x.origin = origin
      /\ x.state = IF NoWait(d) THEN "delivered" ELSE "waiting"
      /\ NoWait(d) => x = [Frame(d, "complete", origin) EXCEPT !.state = "delivered"]
      /\ ~NoWait(d) => x = Frame(d, "complete", origin)
  BY CompleteFrameFacts
<1>2. Predecessor(d) \in {0} \cup Routed
  BY PredecessorFacts
<1>3. frames' = Append(m, x)
  <2>1. m = IF Predecessor(d) = 0 THEN frames ELSE [frames EXCEPT ![Predecessor(d)].completed = TRUE]
    BY DEF Marked
  <2> HIDE DEF m, x
  <2>2. CASE NoWait(d)
    BY <1>1, <2>1, <2>2 DEF RouteComplete
  <2>3. CASE ~NoWait(d)
    BY <1>1, <2>1, <2>3 DEF RouteComplete
  <2> QED BY <2>2, <2>3
<1>4. Added(n, x, m)
  <2>1. m \in Seq(FrameType) /\ Len(m) = Len(frames) /\ \A g \in Routed : SameBut(m[g], frames[g])
    BY <1>2, MarkedFacts DEF SameBut
  <2> HIDE DEF m, x
  <2> QED BY <1>1, <1>3, <2>1, AddedFacts
<1>5. x = CompleteFrame(d, origin)
  OBVIOUS
<1> HIDE DEF x, m
<1>6. CASE NoWait(d)
  <2>1. UNCHANGED <<lanes, drain>> /\ AdapterCompleted(d)
    BY <1>6 DEF RouteComplete
  <2>2. /\ OrderInv' /\ LaneInv' /\ SameFrames /\ drain' \in {0} \cup Routed'
        /\ lanes' \in [Ids -> [tail : {0} \cup Routed', pending : 0..Len(frames'), current : {0} \cup Routed']]
    BY <1>1, <1>4, <1>6, <2>1, CompletePasses
  <2> QED BY <1>4, <1>6, <2>1, <2>2 DEF CompleteRouted, x, m
<1>7. CASE ~NoWait(d)
  <2>1. UNCHANGED adapterVars /\ drain' = IF origin = "client" THEN n ELSE drain
    BY <1>7 DEF RouteComplete
  <2>2. /\ OrderInv' /\ LaneInv' /\ SameFrames /\ drain' \in {0} \cup Routed'
        /\ lanes' \in [Ids -> [tail : {0} \cup Routed', pending : 0..Len(frames'), current : {0} \cup Routed']]
        /\ \A e \in Ids : lanes'[e].current = lanes[e].current
    BY <1>4, <1>5, <1>7, CompleteQueues
  <2> QED BY <1>4, <1>7, <2>1, <2>2 DEF CompleteRouted, x, m
<1> QED BY <1>6, <1>7

\* graphql-ws is told of it at once, or not yet.
LEMMA AdapterTypes ==
  ASSUME TypeOK, NEW d \in Ids, AdapterCompleted(d) \/ UNCHANGED adapterVars
  PROVE  /\ entry' \in [Ids -> [kind : {"absent", "null", "iterator"}, op : {0} \cup Routed]]
         /\ operations' \in [Ids -> {0} \cup Routed] /\ variables' \subseteq Ids
         /\ \A e \in Ids : entry'[e] \in {entry[e], Absent} /\ operations'[e] \in {0, operations[e]}
         /\ \A e \in Ids : e # d => entry'[e] = entry[e]
<1>1. /\ entry \in [Ids -> [kind : {"absent", "null", "iterator"}, op : {0} \cup Routed]]
      /\ operations \in [Ids -> {0} \cup Routed] /\ variables \subseteq Ids
  BY TypeParts
<1>2. CASE UNCHANGED adapterVars
  BY <1>1, <1>2 DEF adapterVars
<1>3. CASE AdapterCompleted(d)
  <2>1. entry' = [entry EXCEPT ![d] = Absent] /\ Absent \in [kind : {"absent", "null", "iterator"}, op : {0} \cup Routed]
    BY <1>3 DEF AdapterCompleted, Absent
  <2>2. \/ operations' = [operations EXCEPT ![d] = 0] /\ variables' = variables \ {d}
        \/ operations' = operations /\ variables' = variables
    BY <1>3 DEF AdapterCompleted
  <2> QED BY <1>1, <2>1, <2>2
<1> QED BY <1>2, <1>3

\* A complete of the client is on its way, or delivered when nothing waits.
LEMMA ClientCompleteRetire ==
  ASSUME TypeOK, OrderInv, LaneInv, StageInv, RetireInv, drain = 0, NEW d \in Ids, NEW n \in FrameId,
         CompleteRouted(d, "client", n),
         \A j \in FrameId : /\ ops'[j].stage = ops[j].stage /\ ops'[j].retired = ops[j].retired
                            /\ ~ops'[j].closed => ~ops[j].closed
                            /\ ops'[j].chan = "open" => ops[j].chan = "open"
  PROVE  RetireInv'
<1> DEFINE p == Predecessor(d)
<1>1. /\ p \in {0} \cup Routed /\ p = lanes[d].current /\ (p # 0 => Unsettled(p) /\ IdOf(p) = d)
  BY PredecessorFacts
<1>2. /\ Added(n, CompleteFrame(d, "client"), Marked(p))
      /\ NoWait(d) => AdapterCompleted(d)
      /\ ~NoWait(d) => UNCHANGED adapterVars /\ drain' = n
  BY DEF CompleteRouted
<1> HIDE DEF p
<1>3. /\ frames'[n].type = "complete" /\ frames'[n].origin = "client" /\ frames'[n].id = d
  BY <1>2, CompleteFrameFacts DEF Added
<1>4. /\ Routed' = Routed \cup {n} /\ n \notin Routed /\ n # 0
      /\ \A g \in Routed : /\ frames'[g].id = frames[g].id /\ frames'[g].type = frames[g].type
                           /\ frames'[g].origin = frames[g].origin
                           /\ frames'[g].state = frames[g].state /\ frames'[g].duplicate = frames[g].duplicate
  BY DEF Added, SameBut, CompleteRouted
<1>5. \A g \in Routed : g \in FrameId /\ g # 0 /\ frames[g].id \in Ids /\ (frames'[g].completed <=> frames[g].completed \/ g = p)
  BY <1>1, <1>2, MarkedFacts, FrameRecord DEF Added, IdOf
<1>6. /\ \A e \in Ids : entry'[e] \in {entry[e], Absent} /\ (e # d => entry'[e] = entry[e])
      /\ ~NoWait(d) => entry' = entry
  BY <1>2, AdapterTypes DEF adapterVars
<1>7. \A j \in Routed : Served(j)' => Served(j)
  <2> SUFFICES ASSUME NEW j \in Routed, Served(j)' PROVE Served(j)
    OBVIOUS
  <2>1. CASE Live(j)'
    BY <1>5, <2>1 DEF Live, Served
  <2>2. CASE ops'[j].stage = "starting" /\ entry'[frames'[j].id].kind = "null"
    <3>1. entry'[frames[j].id] # Absent
      BY <1>4, <2>2 DEF Absent
    <3> QED BY <1>4, <1>5, <1>6, <2>2, <3>1 DEF Served, IdOf
  <2> QED BY <2>1, <2>2 DEF Served, IdOf
<1>8. \A j \in Routed : CompletedBy(j) => CompletedBy(j)'
  <2> SUFFICES ASSUME NEW j \in Routed, CompletedBy(j) PROVE CompletedBy(j)'
    OBVIOUS
  <2>1. PICK f \in Routed : Waiting(f) /\ frames[f].origin = "retire" /\ IdOf(f) = IdOf(j)
    BY DEF CompletedBy
  <2>2. ops[j].stage = "pulling"
    BY DEF CompletedBy
  <2>3. f \in Routed' /\ frames'[f].state = "waiting" /\ frames'[f].origin = "retire" /\ frames'[f].id = frames'[j].id
        /\ ops'[j].stage = "pulling"
    BY <1>4, <1>5, <2>1, <2>2 DEF Waiting, IdOf
  <2> QED BY <2>3 DEF CompletedBy, IdOf, Waiting
<1>9. \A j \in Routed' : Served(j)' /\ frames'[j].completed => CompletedBy(j)'
  <2> SUFFICES ASSUME NEW j \in Routed', Served(j)', frames'[j].completed PROVE CompletedBy(j)'
    OBVIOUS
  <2>1. CASE j \in Routed /\ frames[j].completed
    BY <1>7, <1>8, <2>1 DEF RetireInv
  <2>2. CASE j = p
    <3>1. ~NoWait(d) /\ frames[j].id = d /\ j \in Routed
      <4>1. p # 0
        BY <1>4, <2>2, FrameRecord
      <4> QED BY <1>1, <2>2, <4>1 DEF NoWait, NoLane, IdOf
    <3>2. drain' = n /\ n # 0 /\ frames'[n].type = "complete" /\ frames'[n].id = frames'[j].id
      BY <1>2, <1>3, <1>4, <3>1
    <3> QED BY <3>2 DEF CompletedBy, IdOf
  <2>3. CASE j = n
    <3>1. ops[n].stage = "none"
      BY <1>4 DEF StageInv
    <3> QED BY <2>3, <3>1 DEF Served, Live
  <2> QED BY <1>4, <1>5, <2>1, <2>2, <2>3
<1>10. \A g \in Routed' : Generation(g)' => g \in Routed /\ Generation(g) /\ (Waiting(g)' <=> Waiting(g))
  BY <1>3, <1>4 DEF Generation, Waiting
<1>11. \A g \in Routed' : Generation(g)' /\ Waiting(g)' => ~frames'[g].completed
  <2>1. p # 0 => ~Waiting(p)
    BY <1>1, Drained DEF Unsettled, Generation, Waiting
  <2> QED BY <1>5, <1>10, <2>1 DEF RetireInv
<1>12. \A f \in Routed' : Waiting(f)' /\ frames'[f].origin = "retire" =>
         f \in Routed /\ Waiting(f) /\ frames[f].origin = "retire"
  BY <1>3, <1>4 DEF Waiting
<1>13. \A f, g \in Routed' : Waiting(f)' /\ frames'[f].origin = "retire" /\ Waiting(g)'
                             /\ Generation(g)' /\ frames'[f].id = frames'[g].id => f < g
  BY <1>4, <1>10, <1>12 DEF RetireInv, IdOf
<1>14. \A f \in Routed' : Waiting(f)' /\ frames'[f].origin = "retire" =>
       \/ entry'[frames'[f].id].kind = "absent"
       \/ entry'[frames'[f].id].kind = "iterator" /\ ops'[entry'[frames'[f].id].op].retired
  <2> SUFFICES ASSUME NEW f \in Routed, Waiting(f), frames[f].origin = "retire"
               PROVE  \/ entry'[frames[f].id].kind = "absent"
                      \/ entry'[frames[f].id].kind = "iterator" /\ ops'[entry'[frames[f].id].op].retired
    BY <1>4, <1>12
  <2>1. \/ entry[frames[f].id].kind = "absent"
        \/ entry[frames[f].id].kind = "iterator" /\ ops[entry[frames[f].id].op].retired
    BY DEF RetireInv, IdOf
  <2>2. entry'[frames[f].id] = entry[frames[f].id]
    <3>1. CASE NoWait(d)
      <4>1. WaitingOf(d) = {}
        BY <3>1, WaitingCount DEF NoWait, NoLane
      <4>2. frames[f].id # d
        BY <4>1 DEF WaitingOf, IdOf
      <4> QED BY <1>5, <1>6, <4>2
    <3>2. CASE ~NoWait(d)
      BY <1>6, <3>2
    <3> QED BY <3>1, <3>2
  <2>3. entry[frames[f].id].kind = "iterator" => entry[frames[f].id].op \in FrameId
    <3>1. entry[frames[f].id].op \in {0} \cup Routed /\ (entry[frames[f].id].kind = "iterator" => entry[frames[f].id].op # 0)
      BY <1>5, TypeParts DEF StageInv
    <3> QED BY <1>5, <3>1
  <2> QED BY <2>1, <2>2, <2>3
<1> QED BY <1>9, <1>11, <1>13, <1>14 DEF RetireInv, IdOf

\* The client completes.
LEMMA ClientCompleteKeeps ==
  ASSUME OperationsInv, NEW d \in Ids, socket = "open", drain = 0, clientFrames < MaxFrames,
         clientFrames' = clientFrames + 1, RouteComplete(d, "client"), ops' = OpsRouted(d),
         UNCHANGED <<socket, received, historyVars>>
  PROVE  OperationsInv'
<1>1. /\ TypeOK /\ OrderInv /\ LaneInv /\ GenerationInv /\ StageInv /\ EventsInv /\ CountInv
      /\ untracked \/ AdapterInv
      /\ untracked \/ RetireInv
  BY DEF OperationsInv
<1>2. PICK n : n = Len(frames) + 1
  OBVIOUS
<1>3. n \in FrameId /\ n \in Nat /\ clientFrames + 1 \in 0..MaxFrames /\ Len(frames) \in Nat
  BY <1>1, <1>2, RoomForClient, FrameRecord
<1>4. CompleteRouted(d, "client", n)
  BY <1>1, <1>2, <1>3, RouteCompleteFacts
<1>5. /\ Added(n, CompleteFrame(d, "client"), Marked(Predecessor(d))) /\ Predecessor(d) \in {0} \cup Routed
      /\ OrderInv' /\ LaneInv' /\ SameFrames /\ drain' \in {0} \cup Routed'
      /\ lanes' \in [Ids -> [tail : {0} \cup Routed', pending : 0..Len(frames'), current : {0} \cup Routed']]
      /\ \A e \in Ids : lanes'[e].current = lanes[e].current
      /\ AdapterCompleted(d) \/ UNCHANGED adapterVars
      /\ NoWait(d) => AdapterCompleted(d)
      /\ ~NoWait(d) => UNCHANGED adapterVars
  BY <1>1, <1>4, PredecessorFacts DEF CompleteRouted
<1>6. /\ frames' \in Seq(FrameType) /\ Len(frames') = n /\ Routed' = Routed \cup {n} /\ n \notin Routed
      /\ Routed' \subseteq FrameId /\ Routed \subseteq Routed'
  BY <1>1, <1>3, <1>5, FrameRecord DEF Added
<1>7. UNCHANGED <<received, untracked, pushed, taken, sent>>
  BY DEF historyVars
<1>8. /\ ops' \in [FrameId -> OpType]
      /\ \A i \in FrameId : /\ ops'[i].stage = ops[i].stage /\ ops'[i].retired = ops[i].retired
                            /\ ops'[i].reservation = "active" => ops[i].reservation = "active"
                            /\ ops'[i] = ops[i] \/ ops[i].stage \notin {"none", "starting"}
                            /\ ~ops'[i].closed => ~ops[i].closed
                            /\ ops'[i].chan = "open" => ops[i].chan = "open"
                            /\ \A open : Fades(ops'[i], ops[i], open)
  <2>1. CASE NoWait(d)
    <3>1. ops' = OpsCompleted(d)
      BY <2>1 DEF OpsRouted
    <3>2. \A i \in FrameId : /\ OpsCompleted(d)[i] = ops[i] \/ (OpsCompleted(d)[i].closed /\ OpsCompleted(d)[i].chan = "closed")
      BY <1>1, CompletedFacts
    <3> QED BY <1>1, <3>1, <3>2, CompletedFacts
  <2>2. CASE ~NoWait(d)
    <3>1. ops' = ops
      BY <2>2 DEF OpsRouted
    <3> QED BY <1>1, <3>1, FadesSame, TypeParts
  <2> QED BY <2>1, <2>2
<1>9. TypeOK'
  <2>1. Len(frames') \in 0..(MaxFrames + MaxEvents)
    BY <1>3, <1>6, Bounds DEF FrameId
  <2>2. /\ entry' \in [Ids -> [kind : {"absent", "null", "iterator"}, op : {0} \cup Routed]]
        /\ operations' \in [Ids -> {0} \cup Routed] /\ variables' \subseteq Ids
    BY <1>1, <1>5, AdapterTypes
  <2>3. /\ untracked' \in BOOLEAN /\ socket' \in {"open", "stopping", "closed"} /\ clientFrames' \in 0..MaxFrames
    BY <1>1, <1>3, <1>7, TypeParts
  <2> QED BY <1>1, <1>5, <1>6, <1>7, <1>8, <2>1, <2>2, <2>3, FramesTypes
<1>10. /\ CompleteFrame(d, "client").type = "complete" /\ CompleteFrame(d, "client").awaits = 0
       /\ CompleteFrame(d, "client").origin = "client"
  BY <1>1, CompleteFrameFacts
<1>11. GenerationInv'
  <2>1. \A j \in FrameId : ops[j].stage = "ended" => ops'[j].stage = "ended"
    BY <1>8
  <2> QED BY <1>1, <1>3, <1>5, <1>10, <2>1, CompleteGeneration
<1>12. StageInv'
  <2>1. \A j \in FrameId : ops'[j].stage # "none" <=>
           j \in Routed' /\ frames'[j].type = "subscribe" /\ frames'[j].state = "delivered"
    <3>1. frames'[n].type = "complete" /\ \A g \in Routed : SameBut(frames'[g], frames[g])
      BY <1>5, <1>10 DEF Added
    <3>2. \A j \in FrameId : ops[j].stage # "none" <=>
           j \in Routed /\ frames[j].type = "subscribe" /\ frames[j].state = "delivered"
      BY <1>1 DEF StageInv
    <3> QED BY <1>6, <1>8, <3>1, <3>2 DEF SameBut
  <2>2. \A j \in FrameId : ops'[j] = ops[j] \/ ops'[j].stage \notin {"none", "starting"}
    BY <1>8
  <2>3. \A e \in Ids : entry'[e] \in {entry[e], Absent, [kind |-> "null", op |-> 0]} /\ operations'[e] \in {0, operations[e]}
    BY <1>1, <1>5, AdapterTypes
  <2>4. \A j \in FrameId : ops'[j].reservation = "active" => ops[j].reservation = "active"
    BY <1>8
  <2> QED BY <1>1, <1>5, <1>6, <2>1, <2>2, <2>3, <2>4, FramesStage
<1>13. EventsInv' /\ Hand' \subseteq Hand
  BY <1>1, <1>7, <1>8, AllFade
<1>14. CountInv'
  BY <1>1, <1>2, <1>5, <1>7, <1>10, <1>13, CountClient
<1>15. untracked' \/ AdapterInv'
  <2>1. ops[n].stage = "none" /\ ops[n].reservation # "active"
    BY <1>1, <1>3, <1>6, NoOpType DEF StageInv
  <2>2. \A i \in Routed' : i \notin Routed => Over(ops[i]) /\ ops[i].reservation # "active"
    BY <1>6, <2>1 DEF Over
  <2>3. CASE NoWait(d)
    <3>1. \A i \in FrameId : Goes(ops'[i], OpsCompleted(d)[i])
      BY <2>3, GoesSame DEF OpsRouted
    <3> QED BY <1>1, <1>5, <1>6, <1>7, <2>2, <2>3, <3>1, ReturnKeepsAdapter
  <2>4. CASE ~NoWait(d)
    <3>1. \A i \in FrameId : Goes(ops'[i], ops[i])
      BY <2>4, GoesSame DEF OpsRouted
    <3> QED BY <1>1, <1>5, <1>6, <1>7, <2>2, <2>4, <3>1, GoingKeepsAdapter
  <2> QED BY <2>3, <2>4
<1>16. untracked' \/ socket' # "open" \/ RetireInv'
  BY <1>1, <1>3, <1>4, <1>7, <1>8, ClientCompleteRetire
<1> QED BY <1>5, <1>9, <1>11, <1>12, <1>13, <1>14, <1>15, <1>16 DEF OperationsInv

\* A frame of the client.
LEMMA ClientFrameKeeps ==
  ASSUME OperationsInv, NEW d \in Ids, ClientFrame(d)
  PROVE  OperationsInv'
<1>1. /\ socket = "open" /\ drain = 0 /\ clientFrames < MaxFrames
      /\ clientFrames' = clientFrames + 1 /\ UNCHANGED <<socket, received, historyVars>>
      /\ RouteSubscribe(d) \/ (RouteComplete(d, "client") /\ ops' = OpsRouted(d))
  BY DEF ClientFrame
<1> QED BY <1>1, RouteSubscribeKeeps, ClientCompleteKeeps

-----------------------------------------------------------------------------
\* The generator's own complete frames.

\* The operations when a complete has been routed.
LEMMA RoutedOps ==
  ASSUME TypeOK, StageInv, NEW d \in Ids
  PROVE  /\ OpsRouted(d) \in [FrameId -> OpType]
         /\ \A i \in FrameId : /\ OpsRouted(d)[i].stage = ops[i].stage /\ OpsRouted(d)[i].at = ops[i].at
                               /\ OpsRouted(d)[i].retired = ops[i].retired
                               /\ OpsRouted(d)[i].reservation = "active" => ops[i].reservation = "active"
                               /\ OpsRouted(d)[i].queued \in {0, ops[i].queued}
                               /\ OpsRouted(d)[i] = ops[i] \/ ops[i].stage \notin {"none", "starting"}
                               /\ \A open : Fades(OpsRouted(d)[i], ops[i], open)
         /\ NoWait(d) => OpsRouted(d) = OpsCompleted(d)
         /\ ~NoWait(d) => OpsRouted(d) = ops
<1>1. ops \in [FrameId -> OpType]
  BY FrameRecord
<1>2. CASE NoWait(d)
  <2>1. OpsRouted(d) = OpsCompleted(d)
    BY <1>2 DEF OpsRouted
  <2>2. PICK q : q = OpsCompleted(d)
    OBVIOUS
  <2>3. /\ q \in [FrameId -> OpType]
        /\ \A i \in FrameId : /\ q[i].stage = ops[i].stage /\ q[i].at = ops[i].at
                              /\ q[i].retired = ops[i].retired
                              /\ q[i].reservation = "active" => ops[i].reservation = "active"
                              /\ q[i].queued \in {0, ops[i].queued}
                              /\ q[i] = ops[i] \/ ops[i].stage \notin {"none", "starting"}
                              /\ \A open : Fades(q[i], ops[i], open)
    BY <2>2, CompletedFacts
  <2> QED BY <1>2, <2>1, <2>2, <2>3
<1>3. CASE ~NoWait(d)
  <2>1. OpsRouted(d) = ops
    BY <1>3 DEF OpsRouted
  <2> QED BY <1>1, <1>3, <2>1, FadesSame
<1> QED BY <1>2, <1>3

\* The generator's operation, when it has routed the frame and pulled again.
LEMMA RetireOps ==
  ASSUME TypeOK, StageInv, EventsInv, NEW i \in Routed, Retire(i), NEW d, d = IdOf(i)
  PROVE  /\ d \in Ids /\ i \in FrameId /\ ops' \in [FrameId -> OpType]
         /\ ops[i].stage = "reading" /\ ~ops[i].closed
         /\ ops'[i].stage \in {"pulling", "reading", "ending"} /\ ops'[i].retired
         /\ Goes(ops'[i], OpsRouted(d)[i])
         /\ \A j \in FrameId : j # i => ops'[j] = OpsRouted(d)[j]
         /\ EventsInv'
         /\ \A e \in Nat \ {0} : InHand(ops'[i], e) => ops[i].queued = e
         /\ Live(i) /\ socket = "open" /\ ~NoWait(d) => ops'[i].stage = "pulling"
<1> DEFINE a == OpsRouted(d)[i]
           o == [a EXCEPT !.retired = TRUE]
           x == Pull(o)
           t2 == IF x.stage = "reading" THEN Append(taken[i], x.at) ELSE taken[i]
           open == socket = "open"
<1>1. /\ d \in Ids /\ i \in FrameId /\ ops \in [FrameId -> OpType] /\ ops[i].stage = "reading" /\ ~ops[i].closed
      /\ received \in Nat
  BY FrameRecord, Bounds DEF Retire, TypeOK
<1>2. /\ OpsRouted(d) \in [FrameId -> OpType] /\ a \in OpType
      /\ a.stage = "reading" /\ a.at = ops[i].at /\ a.queued \in {0, ops[i].queued}
      /\ Fades(a, ops[i], open)
      /\ ~NoWait(d) => a = ops[i]
  BY <1>1, RoutedOps
<1>3. /\ ops' = [OpsRouted(d) EXCEPT ![i] = x]
      /\ taken' = (IF x.stage = "reading" THEN [taken EXCEPT ![i] = Append(@, x.at)] ELSE taken)
      /\ UNCHANGED <<socket, received, untracked, pushed, sent>>
  BY DEF Retire, TakenBy
<1> HIDE DEF a
<1>4. /\ o \in OpType /\ o.stage = "reading" /\ o.at = a.at /\ o.queued = a.queued /\ o.retired
      /\ o.closed = a.closed /\ o.chan = a.chan /\ o.ack = a.ack /\ o.delivered = a.delivered
      /\ o.reservation = a.reservation
  BY <1>2 DEF OpType
<1> HIDE DEF o
<1>5. Fades(o, ops[i], open)
  BY <1>2, <1>4 DEF Fades
<1>6. /\ x \in OpType /\ x.closed = o.closed /\ x.retired /\ x.chan = o.chan /\ x.reservation = o.reservation
      /\ \/ /\ x.stage = "ending" /\ x.at = 0 /\ x.queued \in {0, o.queued}
         \/ /\ x.stage = "reading" /\ x.at = o.queued /\ o.queued # 0 /\ x.queued = 0
         \/ /\ x.stage = "pulling" /\ x.at = 0 /\ x.queued = 0
      /\ o.chan = "open" /\ o.queued = 0 => x.stage = "pulling"
  BY <1>4, PullFacts
<1>7. Goes(x, o)
  BY <1>4, PullGoes
<1> HIDE DEF x
<1>8. Goes(x, a)
  <2>1. a.stage = o.stage /\ o.closed = a.closed /\ o.chan = a.chan /\ o.reservation = a.reservation
    BY <1>2, <1>4
  <2> QED BY <1>7, <2>1 DEF Goes, Active, Over
<1>9. ops'[i] = x /\ (\A j \in FrameId : j # i => ops'[j] = OpsRouted(d)[j]) /\ ops' \in [FrameId -> OpType]
  BY <1>1, <1>2, <1>3, <1>6
<1>10. /\ \A j \in FrameId : EventInv(ops[j], pushed[j], taken[j], sent[j], received, open)
       /\ pushed \in [FrameId -> SUBSET Event]
       /\ taken \in [FrameId -> Seq(Event)] /\ sent \in [FrameId -> Seq(Event)]
       /\ open \in BOOLEAN
  BY DEF EventsInv
<1>11. EventInv(x, pushed[i], t2, sent[i], received, open)
  <2>1. EventInv(ops[i], pushed[i], taken[i], sent[i], received, open)
    BY <1>1, <1>10
  <2>2. received >= received
    BY <1>1
  <2>3. t2 = (IF x.stage = "reading" THEN Append(taken[i], x.at) ELSE taken[i]) /\ sent[i] \in {sent[i], Append(sent[i], o.at)}
    OBVIOUS
  <2> HIDE DEF open, t2
  <2>4. EventInv(o, pushed[i], taken[i], sent[i], received, open)
    BY <1>1, <1>5, <1>10, <2>1, <2>2, FadesKeepsEvents
  <2> QED BY <1>1, <1>4, <1>10, <2>3, <2>4, PullKeepsEvents DEF x
<1>12. taken' = [taken EXCEPT ![i] = t2]
  BY <1>1, <1>3, <1>10
<1> HIDE DEF t2
<1>13. \A j \in FrameId : EventInv(ops'[j], pushed'[j], taken'[j], sent'[j], received', socket' = "open")
  <2> SUFFICES ASSUME NEW j \in FrameId
               PROVE  EventInv(ops'[j], pushed[j], taken'[j], sent[j], received, open)
    BY <1>3
  <2>1. CASE j = i
    BY <1>1, <1>9, <1>10, <1>11, <1>12, <2>1
  <2>2. CASE j # i
    <3>1. EventInv(ops[j], pushed[j], taken[j], sent[j], received, open) /\ received >= received
      BY <1>1, <1>10
    <3>2. Fades(OpsRouted(d)[j], ops[j], open)
      BY <1>1, RoutedOps
    <3> HIDE DEF open
    <3>3. EventInv(OpsRouted(d)[j], pushed[j], taken[j], sent[j], received, open)
      BY <1>1, <1>10, <3>1, <3>2, FadesKeepsEvents
    <3>4. taken'[j] = taken[j]
      BY <1>10, <1>12, <2>2
    <3> QED BY <1>9, <2>2, <3>3, <3>4
  <2> QED BY <2>1, <2>2
<1>14. EventsInv'
  <2>1. t2 \in Seq(Event)
    BY <1>11 DEF EventInv
  <2>2. taken' \in [FrameId -> Seq(Event)]
    BY <1>10, <1>12, <2>1
  <2> QED BY <1>3, <1>10, <1>13, <2>2 DEF EventsInv
<1>15. \A e \in Nat \ {0} : InHand(ops'[i], e) => ops[i].queued = e
  BY <1>2, <1>4, <1>6, <1>9 DEF InHand
<1>16. ASSUME Live(i), open, ~NoWait(d) PROVE ops'[i].stage = "pulling"
  <2>1. ops[i].queued = 0 /\ ops[i].chan = "open"
    BY <1>1, <1>10, <1>16 DEF EventInv, Live
  <2> QED BY <1>2, <1>4, <1>6, <1>9, <1>16, <2>1
<1> QED BY <1>1, <1>6, <1>8, <1>9, <1>14, <1>15, <1>16 DEF a

\* An event in hand was pushed to the operation.
LEMMA InHandPushed ==
  ASSUME NEW o, NEW p, NEW t, NEW s, NEW r, NEW open, EventInv(o, p, t, s, r, open), NEW e \in Nat \ {0}, InHand(o, e)
  PROVE  e \in p
<1>1. /\ t \in Seq(Event) /\ \A j \in DOMAIN t : t[j] \in p
      /\ o.stage = "reading" => Len(t) > 0 /\ o.at = t[Len(t)]
      /\ o.queued # 0 => o.queued \in p
  BY DEF EventInv
<1>2. CASE o.queued = e
  BY <1>1, <1>2
<1>3. CASE o.stage = "reading" /\ o.at = e
  BY <1>1, <1>3
<1> QED BY <1>2, <1>3 DEF InHand

\* The event that is read is in hand, so a frame more has its place.
LEMMA RetireRoom ==
  ASSUME TypeOK, EventsInv, CountInv, NEW i \in FrameId, ops[i].stage = "reading"
  PROVE  Len(frames) + 1 \in FrameId /\ ops[i].at \in Hand /\ ops[i].at \in Nat \ {0}
<1>1. received \in Nat /\ received <= MaxEvents /\ MaxEvents \in Nat /\ MaxFrames \in Nat
      /\ clientFrames \in Nat /\ clientFrames <= MaxFrames
  BY Bounds DEF TypeOK
<1>2. /\ pushed[i] \subseteq 1..received /\ taken[i] \in Seq(Event) /\ \A j \in DOMAIN taken[i] : taken[i][j] \in pushed[i]
      /\ Len(taken[i]) > 0 /\ ops[i].at = taken[i][Len(taken[i])]
  BY DEF EventsInv, EventInv
<1>3. ops[i].at \in 1..received
  <2>1. Len(taken[i]) \in DOMAIN taken[i]
    BY <1>2
  <2> QED BY <1>2, <2>1
<1>4. ops[i].at \in Hand
  BY <1>3 DEF Hand, InHand
<1>5. /\ IsFiniteSet(Hand) /\ Cardinality(Hand) \in Nat /\ Cardinality(Retires) \in Nat
  BY CountFinite
<1>6. Cardinality(Hand) # 0
  BY <1>4, <1>5, FS_EmptySet
<1>7. Len(frames) = clientFrames + Cardinality(Retires) /\ Cardinality(Retires) + Cardinality(Hand) <= received
  BY DEF CountInv
<1>8. Len(frames) + 1 \in FrameId
  BY <1>1, <1>5, <1>6, <1>7 DEF FrameId
<1> QED BY <1>1, <1>3, <1>4, <1>8

\* A frame of the generator more, an event in hand less.
LEMMA RetireCount ==
  ASSUME TypeOK, EventsInv, CountInv, NEW i \in FrameId, ops[i].stage = "reading",
         NEW x, NEW m, NEW n \in FrameId, Added(n, x, m), x.origin = "retire",
         UNCHANGED <<clientFrames, received, pushed>>,
         \A e \in Nat \ {0} : InHand(ops'[i], e) => ops[i].queued = e,
         \A j \in FrameId : j # i => Fades(ops'[j], ops[j], socket = "open")
  PROVE  CountInv'
<1> DEFINE at == ops[i].at
<1>1. at \in Hand /\ at \in Nat \ {0} /\ InHand(ops[i], at)
  BY RetireRoom DEF InHand
<1>2. \A j \in FrameId : EventInv(ops[j], pushed[j], taken[j], sent[j], received, socket = "open")
  BY DEF EventsInv
<1>3. at \in pushed[i]
  BY <1>1, <1>2, InHandPushed
<1>4. received \in Nat /\ clientFrames \in Nat
  BY Bounds DEF TypeOK
<1>5. ops[i].queued # 0 => ops[i].queued # at
  <2>1. /\ taken[i] \in Seq(Event) /\ Len(taken[i]) > 0 /\ at = taken[i][Len(taken[i])] /\ at \in Nat
        /\ ops[i].queued # 0 => \A j \in DOMAIN taken[i] : taken[i][j] < ops[i].queued
    BY <1>1, <1>2 DEF EventInv
  <2>2. Len(taken[i]) \in DOMAIN taken[i]
    BY <2>1
  <2> QED BY <2>1, <2>2
<1> HIDE DEF at
<1>6. Hand' \subseteq Hand \ {at}
  <2> SUFFICES ASSUME NEW e \in 1..received, NEW j \in FrameId, InHand(ops'[j], e)
               PROVE  e \in Hand /\ e # at
    BY DEF Hand
  <2>0. e \in Nat \ {0}
    BY <1>4
  <2>1. CASE j = i
    <3>1. ops[i].queued = e
      BY <2>0, <2>1
    <3> QED BY <1>5, <2>0, <3>1 DEF Hand, InHand
  <2>2. CASE j # i
    <3>1. InHand(ops[j], e)
      BY <2>0, <2>2, FadesInHand
    <3>2. e \in pushed[j]
      BY <1>2, <2>0, <3>1, InHandPushed
    <3>3. pushed[i] \cap pushed[j] = {}
      BY <2>2 DEF CountInv
    <3> QED BY <1>3, <3>1, <3>2, <3>3 DEF Hand
  <2> QED BY <2>1, <2>2
<1>7. /\ IsFiniteSet(Hand) /\ Cardinality(Hand) \in Nat /\ IsFiniteSet(Retires) /\ Cardinality(Retires) \in Nat
  BY CountFinite
<1>8. Cardinality(Hand \ {at}) = Cardinality(Hand) - 1 /\ IsFiniteSet(Hand \ {at})
  BY <1>1, <1>7, FS_RemoveElement
<1>9. Cardinality(Hand') <= Cardinality(Hand) - 1 /\ Cardinality(Hand') \in Nat
  BY <1>6, <1>8, FS_Subset, FS_CardinalityType
<1>10. /\ Routed' = Routed \cup {n} /\ n \notin Routed /\ Len(frames') = n /\ n = Len(frames) + 1
       /\ frames'[n].origin = "retire"
       /\ \A g \in Routed : frames'[g].origin = frames[g].origin
  BY DEF Added, SameBut
<1>11. Retires' = Retires \cup {n} /\ n \notin Retires
  BY <1>10 DEF Retires
<1>12. Cardinality(Retires \cup {n}) = Cardinality(Retires) + 1
  BY <1>7, <1>11, FS_AddElement
<1>13. Cardinality(Retires)' = Cardinality(Retires \cup {n}) /\ Cardinality(Hand)' = Cardinality(Hand')
  BY <1>11
<1>14. Len(frames) = clientFrames + Cardinality(Retires) /\ Cardinality(Retires) + Cardinality(Hand) <= received
       /\ Len(frames) \in Nat
  BY FrameRecord DEF CountInv
<1>15. Len(frames') = clientFrames' + Cardinality(Retires)'
  BY <1>4, <1>7, <1>10, <1>12, <1>13, <1>14
<1>16. Cardinality(Retires)' + Cardinality(Hand)' <= received'
  BY <1>4, <1>7, <1>9, <1>12, <1>13, <1>14
<1> QED BY <1>15, <1>16 DEF CountInv

\* A generator that is told to go on holds the id's entry and its lane.
LEMMA RetireIsCurrent ==
  ASSUME TypeOK, OrderInv, LaneInv, GenerationInv, StageInv, AdapterInv, RetireInv, socket = "open",
         NEW i \in Routed, ops[i].stage = "reading", ~ops[i].closed, NEW d, d = IdOf(i)
  PROVE  /\ Live(i) /\ entry[d] = [kind |-> "iterator", op |-> i] /\ ~NoWait(d) /\ Predecessor(d) = i
         /\ ~Waiting(i) /\ \A g \in Routed : Generation(g) /\ Waiting(g) => IdOf(g) # d
<1>1. i \in FrameId /\ d \in Ids /\ ops[i] \in OpType /\ Routed \subseteq Nat /\ i # 0
  BY FrameRecord DEF IdOf
<1>2. Live(i) /\ Running(i)
  BY <1>1 DEF AdapterInv, Live, Running, OpType
<1>3. entry[d] = [kind |-> "iterator", op |-> i]
  BY <1>2 DEF AdapterInv
<1>4. Unsettled(i) /\ frames[i].state = "delivered" /\ ~Waiting(i)
  BY <1>2, OneRuns DEF Waiting
<1> DEFINE p == lanes[d].current
<1>5. p >= i /\ p \in {0} \cup Routed
  BY <1>1, <1>4, TypeParts DEF GenerationInv
<1>6. p # 0 /\ p \in Routed /\ Unsettled(p) /\ IdOf(p) = d
  <2>1. p # 0
    BY <1>1, <1>5
  <2> QED BY <1>1, <1>5, <2>1 DEF LaneInv
<1> HIDE DEF p
<1>7. p = i
  <2> SUFFICES ASSUME i < p PROVE FALSE
    BY <1>1, <1>5, <1>6
  <2>1. Waiting(p) /\ frames[p].awaits = i
    BY <1>4, <1>6 DEF GenerationInv
  <2>2. frames[i].completed
    BY <1>1, <1>6, <2>1 DEF GenerationInv
  <2>3. CompletedBy(i)
    BY <1>2, <2>2 DEF RetireInv, Served
  <2>4. frames[drain].type = "complete"
    BY <2>3 DEF CompletedBy
  <2>5. frames[p].type = "subscribe"
    BY <1>6 DEF Unsettled, Generation
  <2>6. drain = p
    BY <1>6, <2>1, <2>5, FrameRecord DEF OrderInv, FrameType
  <2> QED BY <2>4, <2>5, <2>6
<1>8. Predecessor(d) = i /\ ~NoWait(d)
  BY <1>1, <1>6, <1>7, PredecessorFacts DEF NoWait, NoLane, p
<1>9. ASSUME NEW g \in Routed, Generation(g), Waiting(g), IdOf(g) = d PROVE FALSE
  <2>1. Unsettled(g)
    BY <1>9 DEF GenerationInv, Unsettled, Waiting
  <2>2. i >= g
    BY <1>7, <1>9, <2>1 DEF GenerationInv, p
  <2>3. g < i
    BY <1>1, <1>4, <1>9, <2>2
  <2> QED BY <1>4, <1>9, <2>3 DEF OrderInv
<1> QED BY <1>2, <1>3, <1>4, <1>8, <1>9

\* A generator's complete frame is routed while it holds its id.
LEMMA RetireKeepsRetire ==
  ASSUME TypeOK, OrderInv, LaneInv, GenerationInv, StageInv, AdapterInv, RetireInv, socket = "open",
         NEW i \in Routed, ops[i].stage = "reading", ~ops[i].closed, NEW d, d = IdOf(i),
         NEW n \in FrameId, CompleteRouted(d, "retire", n),
         ops'[i].stage = "pulling", ops'[i].retired, \A j \in FrameId : j # i => ops'[j] = ops[j]
  PROVE  RetireInv'
<1>1. /\ Live(i) /\ entry[d] = [kind |-> "iterator", op |-> i] /\ ~NoWait(d) /\ Predecessor(d) = i
      /\ ~Waiting(i) /\ \A g \in Routed : Generation(g) /\ Waiting(g) => IdOf(g) # d
  BY RetireIsCurrent
<1>2. d \in Ids /\ i \in FrameId /\ Routed \subseteq FrameId /\ \A g \in Routed : frames[g].id \in Ids
  BY FrameRecord DEF IdOf
<1>3. /\ Added(n, CompleteFrame(d, "retire"), Marked(i)) /\ entry' = entry /\ drain' = drain
  BY <1>1 DEF CompleteRouted, adapterVars
<1>4. /\ frames'[n].type = "complete" /\ frames'[n].origin = "retire" /\ frames'[n].id = d
      /\ frames'[n].state = "waiting"
  BY <1>1, <1>2, <1>3, CompleteFrameFacts DEF Added
<1>5. /\ Routed' = Routed \cup {n} /\ n \notin Routed /\ n # 0
      /\ \A g \in Routed : /\ frames'[g].id = frames[g].id /\ frames'[g].type = frames[g].type
                           /\ frames'[g].origin = frames[g].origin
                           /\ frames'[g].state = frames[g].state /\ frames'[g].duplicate = frames[g].duplicate
  BY <1>3 DEF Added, SameBut
<1>6. \A g \in Routed : frames'[g].completed <=> frames[g].completed \/ g = i
  BY <1>3, MarkedFacts DEF Added
<1>7. drain \in {0} \cup Routed /\ ops[n].stage = "none" /\ n # i
  BY <1>5, TypeParts DEF StageInv
<1>8. \A j \in Routed : Served(j)' => Served(j)
  BY <1>1, <1>2, <1>3, <1>5 DEF Served, Live, IdOf
<1>9. ASSUME NEW j \in Routed, j # i, CompletedBy(j) PROVE CompletedBy(j)'
  <2>1. CASE drain # 0 /\ frames[drain].type = "complete" /\ IdOf(drain) = IdOf(j)
    <3>1. drain' # 0 /\ frames'[drain'].type = "complete" /\ frames'[drain'].id = frames'[j].id
      BY <1>3, <1>5, <1>7, <2>1 DEF IdOf
    <3> QED BY <3>1 DEF CompletedBy, IdOf
  <2>2. CASE /\ ops[j].stage = "pulling"
             /\ \E f \in Routed : Waiting(f) /\ frames[f].origin = "retire" /\ IdOf(f) = IdOf(j)
    <3>1. PICK f \in Routed : Waiting(f) /\ frames[f].origin = "retire" /\ IdOf(f) = IdOf(j)
      BY <2>2
    <3>2. f \in Routed' /\ frames'[f].state = "waiting" /\ frames'[f].origin = "retire" /\ frames'[f].id = frames'[j].id
          /\ ops'[j].stage = "pulling"
      BY <1>2, <1>5, <1>9, <2>2, <3>1 DEF Waiting, IdOf
    <3> QED BY <3>2 DEF CompletedBy, IdOf, Waiting
  <2> QED BY <1>9, <2>1, <2>2 DEF CompletedBy
<1>10. \A j \in Routed' : Served(j)' /\ frames'[j].completed => CompletedBy(j)'
  <2> SUFFICES ASSUME NEW j \in Routed', Served(j)', frames'[j].completed PROVE CompletedBy(j)'
    OBVIOUS
  <2>1. CASE j = i
    <3>1. n \in Routed' /\ frames'[n].id = frames'[j].id
      BY <1>4, <1>5, <2>1 DEF IdOf
    <3> QED BY <1>4, <2>1, <3>1 DEF CompletedBy, IdOf, Waiting
  <2>2. CASE j \in Routed /\ j # i
    <3>1. Served(j) /\ frames[j].completed
      BY <1>6, <1>8, <2>2
    <3> QED BY <1>9, <2>2, <3>1 DEF RetireInv
  <2>3. CASE j = n
    BY <1>7, <2>3 DEF Served, Live
  <2> QED BY <1>5, <2>1, <2>2, <2>3
<1>11. \A g \in Routed' : Generation(g)' => g \in Routed /\ Generation(g) /\ (Waiting(g)' <=> Waiting(g))
  BY <1>4, <1>5 DEF Generation, Waiting
<1>12. \A g \in Routed' : Generation(g)' /\ Waiting(g)' => ~frames'[g].completed
  BY <1>1, <1>6, <1>11 DEF RetireInv
<1>13. \A f, g \in Routed' : Waiting(f)' /\ frames'[f].origin = "retire" /\ Waiting(g)'
                             /\ Generation(g)' /\ frames'[f].id = frames'[g].id => f < g
  <2> SUFFICES ASSUME NEW f \in Routed', NEW g \in Routed', Waiting(f)', frames'[f].origin = "retire", Waiting(g)',
                      Generation(g)', frames'[f].id = frames'[g].id
               PROVE  f < g
    OBVIOUS
  <2>1. g \in Routed /\ Generation(g) /\ Waiting(g)
    BY <1>11
  <2>2. f # n
    BY <1>1, <1>4, <1>5, <2>1 DEF IdOf
  <2>3. f \in Routed /\ Waiting(f) /\ frames[f].origin = "retire" /\ IdOf(f) = IdOf(g)
    BY <1>5, <2>1, <2>2 DEF IdOf, Waiting
  <2> QED BY <2>1, <2>3 DEF RetireInv
<1>14. \A f \in Routed' : Waiting(f)' /\ frames'[f].origin = "retire" =>
       \/ entry'[frames'[f].id].kind = "absent"
       \/ entry'[frames'[f].id].kind = "iterator" /\ ops'[entry'[frames'[f].id].op].retired
  <2> SUFFICES ASSUME NEW f \in Routed', Waiting(f)', frames'[f].origin = "retire"
               PROVE  \/ entry[frames'[f].id].kind = "absent"
                      \/ entry[frames'[f].id].kind = "iterator" /\ ops'[entry[frames'[f].id].op].retired
    BY <1>3
  <2>1. CASE f = n
    BY <1>1, <1>4, <2>1
  <2>2. CASE f \in Routed
    <3>1. Waiting(f) /\ frames[f].origin = "retire" /\ frames'[f].id = frames[f].id /\ frames[f].id \in Ids
      BY <1>2, <1>5, <2>2 DEF Waiting
    <3>2. \/ entry[frames[f].id].kind = "absent"
          \/ entry[frames[f].id].kind = "iterator" /\ ops[entry[frames[f].id].op].retired
      BY <2>2, <3>1 DEF RetireInv, IdOf
    <3>3. entry[frames[f].id].kind = "iterator" => entry[frames[f].id].op \in FrameId
      <4>1. entry[frames[f].id].op \in {0} \cup Routed /\ (entry[frames[f].id].kind = "iterator" => entry[frames[f].id].op # 0)
        BY <3>1, TypeParts DEF StageInv
      <4> QED BY <1>2, <4>1
    <3> QED BY <3>1, <3>2, <3>3
  <2> QED BY <1>5, <2>1, <2>2
<1> QED BY <1>10, <1>12, <1>13, <1>14 DEF RetireInv, IdOf

\* A generator retires its operation.
LEMMA RetireKeeps ==
  ASSUME OperationsInv, NEW i \in Routed, Retire(i)
  PROVE  OperationsInv'
<1>1. /\ TypeOK /\ OrderInv /\ LaneInv /\ GenerationInv /\ StageInv /\ EventsInv /\ CountInv
      /\ untracked \/ AdapterInv
      /\ untracked \/ socket # "open" \/ RetireInv
  BY DEF OperationsInv
<1>2. PICK d : d = IdOf(i)
  OBVIOUS
<1>3. /\ d \in Ids /\ i \in FrameId /\ ops' \in [FrameId -> OpType]
      /\ ops[i].stage = "reading" /\ ~ops[i].closed
      /\ ops'[i].stage \in {"pulling", "reading", "ending"} /\ ops'[i].retired
      /\ Goes(ops'[i], OpsRouted(d)[i])
      /\ \A j \in FrameId : j # i => ops'[j] = OpsRouted(d)[j]
      /\ EventsInv'
      /\ \A e \in Nat \ {0} : InHand(ops'[i], e) => ops[i].queued = e
      /\ Live(i) /\ socket = "open" /\ ~NoWait(d) => ops'[i].stage = "pulling"
  BY <1>1, <1>2, RetireOps
<1>4. PICK n : n = Len(frames) + 1
  OBVIOUS
<1>5. n \in FrameId /\ n \in Nat /\ Len(frames) \in Nat
  BY <1>1, <1>3, <1>4, RetireRoom, FrameRecord
<1>6. RouteComplete(d, "retire") /\ UNCHANGED <<socket, clientFrames, received, untracked, pushed, sent>>
  BY <1>2 DEF Retire
<1>7. CompleteRouted(d, "retire", n)
  BY <1>1, <1>3, <1>4, <1>5, <1>6, RouteCompleteFacts
<1>8. /\ Added(n, CompleteFrame(d, "retire"), Marked(Predecessor(d))) /\ Predecessor(d) \in {0} \cup Routed
      /\ OrderInv' /\ LaneInv' /\ SameFrames /\ drain' \in {0} \cup Routed'
      /\ lanes' \in [Ids -> [tail : {0} \cup Routed', pending : 0..Len(frames'), current : {0} \cup Routed']]
      /\ \A e \in Ids : lanes'[e].current = lanes[e].current
      /\ AdapterCompleted(d) \/ UNCHANGED adapterVars
      /\ NoWait(d) => AdapterCompleted(d)
      /\ ~NoWait(d) => UNCHANGED adapterVars
  BY <1>1, <1>3, <1>7, PredecessorFacts DEF CompleteRouted
<1>9. /\ frames' \in Seq(FrameType) /\ Len(frames') = n /\ Routed' = Routed \cup {n} /\ n \notin Routed
      /\ Routed' \subseteq FrameId /\ Routed \subseteq Routed'
  BY <1>1, <1>5, <1>8, FrameRecord DEF Added
<1>10. \A j \in FrameId : /\ OpsRouted(d)[j].stage = ops[j].stage
                          /\ OpsRouted(d)[j].reservation = "active" => ops[j].reservation = "active"
                          /\ OpsRouted(d)[j] = ops[j] \/ ops[j].stage \notin {"none", "starting"}
                          /\ \A open : Fades(OpsRouted(d)[j], ops[j], open)
  BY <1>1, <1>3, RoutedOps
<1>11. \A j \in FrameId : /\ ops'[j].stage = "none" <=> ops[j].stage = "none"
                          /\ ops[j].stage = "ended" => ops'[j].stage = "ended"
                          /\ ops'[j].reservation = "active" => ops[j].reservation = "active"
                          /\ ops'[j] = ops[j] \/ ops'[j].stage \notin {"none", "starting"}
  BY <1>3, <1>10 DEF Goes
<1>12. TypeOK'
  <2>1. Len(frames') \in 0..(MaxFrames + MaxEvents)
    BY <1>5, <1>9, Bounds DEF FrameId
  <2>2. /\ entry' \in [Ids -> [kind : {"absent", "null", "iterator"}, op : {0} \cup Routed]]
        /\ operations' \in [Ids -> {0} \cup Routed] /\ variables' \subseteq Ids
    BY <1>1, <1>3, <1>8, AdapterTypes
  <2>3. /\ untracked' \in BOOLEAN /\ socket' \in {"open", "stopping", "closed"} /\ clientFrames' \in 0..MaxFrames
    BY <1>1, <1>6, TypeParts
  <2> QED BY <1>1, <1>3, <1>6, <1>8, <1>9, <2>1, <2>2, <2>3, FramesTypes
<1>13. /\ CompleteFrame(d, "retire").type = "complete" /\ CompleteFrame(d, "retire").awaits = 0
       /\ CompleteFrame(d, "retire").origin = "retire"
  BY <1>1, <1>3, CompleteFrameFacts
<1>14. GenerationInv'
  <2>1. \A j \in FrameId : ops[j].stage = "ended" => ops'[j].stage = "ended"
    BY <1>11
  <2> QED BY <1>1, <1>5, <1>6, <1>8, <1>13, <2>1, CompleteGeneration
<1>15. StageInv'
  <2>1. \A j \in FrameId : ops'[j].stage # "none" <=>
           j \in Routed' /\ frames'[j].type = "subscribe" /\ frames'[j].state = "delivered"
    <3>1. frames'[n].type = "complete" /\ \A g \in Routed : SameBut(frames'[g], frames[g])
      BY <1>8, <1>13 DEF Added
    <3>2. \A j \in FrameId : ops[j].stage # "none" <=>
           j \in Routed /\ frames[j].type = "subscribe" /\ frames[j].state = "delivered"
      BY <1>1 DEF StageInv
    <3> QED BY <1>9, <1>11, <3>1, <3>2 DEF SameBut
  <2>2. \A j \in FrameId : ops'[j] = ops[j] \/ ops'[j].stage \notin {"none", "starting"}
    BY <1>11
  <2>3. \A e \in Ids : entry'[e] \in {entry[e], Absent, [kind |-> "null", op |-> 0]} /\ operations'[e] \in {0, operations[e]}
    BY <1>1, <1>3, <1>8, AdapterTypes
  <2>4. \A j \in FrameId : ops'[j].reservation = "active" => ops[j].reservation = "active"
    BY <1>11
  <2> QED BY <1>1, <1>6, <1>8, <1>9, <2>1, <2>2, <2>3, <2>4, FramesStage
<1>16. CountInv'
  <2>1. \A j \in FrameId : j # i => Fades(ops'[j], ops[j], socket = "open")
    BY <1>3, <1>10
  <2> QED BY <1>1, <1>3, <1>5, <1>6, <1>8, <1>13, <2>1, RetireCount
<1>17. \A j \in FrameId : Goes(ops'[j], OpsRouted(d)[j])
  BY <1>3, GoesSame
<1>18. untracked' \/ AdapterInv'
  <2>1. ops[n].stage = "none" /\ ops[n].reservation # "active"
    BY <1>1, <1>5, <1>9, NoOpType DEF StageInv
  <2>2. \A j \in Routed' : j \notin Routed => Over(ops[j]) /\ ops[j].reservation # "active"
    BY <1>9, <2>1 DEF Over
  <2>3. CASE NoWait(d)
    <3>1. \A j \in FrameId : Goes(ops'[j], OpsCompleted(d)[j])
      BY <1>1, <1>3, <1>17, <2>3, RoutedOps
    <3> QED BY <1>1, <1>3, <1>6, <1>8, <1>9, <2>2, <2>3, <3>1, ReturnKeepsAdapter
  <2>4. CASE ~NoWait(d)
    <3>1. \A j \in FrameId : Goes(ops'[j], ops[j])
      BY <1>1, <1>3, <1>17, <2>4, RoutedOps
    <3> QED BY <1>1, <1>6, <1>8, <1>9, <2>2, <2>4, <3>1, GoingKeepsAdapter
  <2> QED BY <2>3, <2>4
<1>19. untracked' \/ socket' # "open" \/ RetireInv'
  <2> SUFFICES ASSUME ~untracked, socket = "open" PROVE RetireInv'
    BY <1>6
  <2>1. AdapterInv /\ RetireInv
    BY <1>1
  <2>2. Live(i) /\ ~NoWait(d)
    BY <1>1, <1>2, <1>3, <2>1, RetireIsCurrent
  <2>3. OpsRouted(d) = ops /\ ops'[i].stage = "pulling"
    BY <1>1, <1>3, <2>2, RoutedOps
  <2>4. \A j \in FrameId : j # i => ops'[j] = ops[j]
    BY <1>3, <2>3
  <2> QED BY <1>1, <1>2, <1>3, <1>5, <1>7, <2>1, <2>3, <2>4, RetireKeepsRetire
<1> QED BY <1>3, <1>8, <1>12, <1>14, <1>15, <1>16, <1>18, <1>19 DEF OperationsInv

-----------------------------------------------------------------------------
\* A frame f is handed off, dropped or settled: it becomes x, its lane y.

Handed(f, x) ==
  /\ frames' \in Seq(FrameType) /\ Len(frames') = Len(frames) /\ Routed' = Routed
  /\ frames'[f] = x /\ \A g \in Routed : g # f => frames'[g] = frames[g]
  /\ x.id = frames[f].id /\ x.type = frames[f].type /\ x.origin = frames[f].origin
  /\ x.follows = frames[f].follows /\ x.awaits = frames[f].awaits
  /\ x.completed = frames[f].completed /\ x.duplicate = frames[f].duplicate

\* A frame changes its state or settles.
LEMMA HandedFacts ==
  ASSUME TypeOK, NEW f \in Routed, NEW s \in {"waiting", "delivered", "dropped"}, NEW b \in BOOLEAN,
         NEW x, x = [frames[f] EXCEPT !.state = s, !.settled = b], frames' = [frames EXCEPT ![f] = x]
  PROVE  Handed(f, x) /\ x.state = s /\ x.settled = b /\ frames[f] \in FrameType
<1>1. frames[f] \in FrameType
  BY FrameRecord
<1>2. /\ x \in FrameType /\ x.state = s /\ x.settled = b
      /\ x.id = frames[f].id /\ x.type = frames[f].type /\ x.origin = frames[f].origin
      /\ x.follows = frames[f].follows /\ x.awaits = frames[f].awaits
      /\ x.completed = frames[f].completed /\ x.duplicate = frames[f].duplicate
  BY <1>1 DEF FrameType
<1>3. /\ frames' \in Seq(FrameType) /\ Len(frames') = Len(frames) /\ Routed' = Routed
      /\ frames'[f] = x /\ \A g \in Routed : g # f => frames'[g] = frames[g]
  BY <1>2, OneFrame
<1> QED BY <1>1, <1>2, <1>3 DEF Handed

\* What handing off leaves as it is.
LEMMA HandedSame ==
  ASSUME TypeOK, NEW f \in Routed, NEW x, Handed(f, x)
  PROVE  /\ SameFrames /\ Retires' = Retires /\ Routed' = Routed
         /\ \A g \in Routed : /\ frames'[g].id = frames[g].id /\ frames'[g].type = frames[g].type
                              /\ frames'[g].origin = frames[g].origin
                              /\ frames'[g].follows = frames[g].follows /\ frames'[g].awaits = frames[g].awaits
                              /\ frames'[g].completed = frames[g].completed
                              /\ frames'[g].duplicate = frames[g].duplicate
                              /\ g # f => frames'[g].state = frames[g].state /\ frames'[g].settled = frames[g].settled
         /\ \A g \in Routed : Generation(g)' <=> Generation(g)
<1>1. Routed' = Routed
  BY DEF Handed
<1>2. \A g \in Routed : /\ frames'[g].id = frames[g].id /\ frames'[g].type = frames[g].type
                        /\ frames'[g].origin = frames[g].origin
                        /\ frames'[g].follows = frames[g].follows /\ frames'[g].awaits = frames[g].awaits
                        /\ frames'[g].completed = frames[g].completed
                        /\ frames'[g].duplicate = frames[g].duplicate
                        /\ g # f => frames'[g].state = frames[g].state /\ frames'[g].settled = frames[g].settled
  <2> SUFFICES ASSUME NEW g \in Routed
               PROVE  /\ frames'[g].id = frames[g].id /\ frames'[g].type = frames[g].type
                      /\ frames'[g].origin = frames[g].origin
                      /\ frames'[g].follows = frames[g].follows /\ frames'[g].awaits = frames[g].awaits
                      /\ frames'[g].completed = frames[g].completed
                      /\ frames'[g].duplicate = frames[g].duplicate
                      /\ g # f => frames'[g].state = frames[g].state /\ frames'[g].settled = frames[g].settled
    OBVIOUS
  <2>1. CASE g = f
    BY <2>1 DEF Handed
  <2>2. CASE g # f
    BY <2>2 DEF Handed
  <2> QED BY <2>1, <2>2
<1>3. SameFrames
  BY <1>1, <1>2 DEF SameFrames
<1>4. Retires' = Retires
  BY <1>1, <1>3, SameRetires
<1>5. \A g \in Routed : Generation(g)' <=> Generation(g)
  BY <1>2 DEF Generation
<1> QED BY <1>1, <1>2, <1>3, <1>4, <1>5

LaneBecomes(d, y, k, c) ==
  /\ y \in LaneType /\ lanes' = [lanes EXCEPT ![d] = y]
  /\ y.pending = lanes[d].pending - k /\ y.current = c
  /\ y.pending > 0 => y.tail = lanes[d].tail
  /\ y.pending = 0 /\ y.current = 0 => y = NoLane

\* The lane of one id changes.
LEMMA LaneBecomesFacts ==
  ASSUME TypeOK, NEW d \in Ids, NEW k \in {0, 1}, k <= lanes[d].pending, NEW c \in {0, lanes[d].current},
         NEW l, l.tail = lanes[d].tail, l.pending = lanes[d].pending - k, l.current = c,
         l = [tail |-> l.tail, pending |-> l.pending, current |-> l.current],
         lanes' = [lanes EXCEPT ![d] = Reaped(l)]
  PROVE  LaneBecomes(d, Reaped(l), k, c)
<1>1. lanes[d] \in LaneType /\ Len(frames) \in Nat
  BY TypeParts, FrameRecord DEF LaneType
<1>2. l \in LaneType
  BY <1>1 DEF LaneType
<1>3. /\ Reaped(l) \in LaneType
      /\ Reaped(l).pending = l.pending /\ Reaped(l).current = l.current
      /\ l.pending > 0 => Reaped(l).tail = l.tail
      /\ Reaped(l).pending = 0 /\ Reaped(l).current = 0 => Reaped(l) = NoLane
  <2>1. PICK S, n : S = Routed /\ n = Len(frames)
    OBVIOUS
  <2>2. n \in Nat /\ l \in [tail : {0} \cup S, pending : 0..n, current : {0} \cup S]
    BY <1>1, <1>2, <2>1 DEF LaneType
  <2>3. /\ Reaped(l) \in [tail : {0} \cup S, pending : 0..n, current : {0} \cup S]
        /\ Reaped(l).pending = l.pending /\ Reaped(l).current = l.current
        /\ l.pending > 0 => Reaped(l).tail = l.tail
        /\ Reaped(l).pending = 0 /\ Reaped(l).current = 0 => Reaped(l) = NoLane
    BY <2>2, ReapedFacts
  <2> QED BY <2>1, <2>3 DEF LaneType
<1> QED BY <1>1, <1>3 DEF LaneBecomes

\* It keeps its type.
LEMMA LaneBecomesTypes ==
  ASSUME TypeOK, NEW f \in Routed, NEW x, Handed(f, x), NEW d \in Ids, NEW y, NEW k, NEW c, LaneBecomes(d, y, k, c)
  PROVE  /\ lanes' \in [Ids -> [tail : {0} \cup Routed', pending : 0..Len(frames'), current : {0} \cup Routed']]
         /\ lanes'[d] = y /\ (\A e \in Ids : e # d => lanes'[e] = lanes[e])
         /\ \A e \in Ids : lanes[e] \in LaneType
<1>1. lanes \in [Ids -> LaneType]
  BY TypeParts DEF LaneType
<1>2. lanes' \in [Ids -> LaneType]
  BY <1>1 DEF LaneBecomes
<1>3. Routed' = Routed /\ Len(frames') = Len(frames)
  BY DEF Handed
<1>4. lanes'[d] = y /\ \A e \in Ids : e # d => lanes'[e] = lanes[e]
  BY <1>1 DEF LaneBecomes
<1> QED BY <1>1, <1>2, <1>3, <1>4 DEF LaneType

\* Of an open connection the first waiting frame of an id is handed off first.
LEMMA NoneBefore ==
  ASSUME TypeOK, OrderInv, socket = "open", NEW f \in Routed, Ready(f)
  PROVE  \A g \in Routed : Waiting(g) /\ IdOf(g) = IdOf(f) => g >= f
<1> SUFFICES ASSUME NEW g \in Routed, Waiting(g), IdOf(g) = IdOf(f), g < f PROVE FALSE
  BY FrameRecord
<1>1. Waiting(f) /\ \A h \in {frames[f].follows} \ {0} : frames[h].state # "waiting"
  BY DEF Ready, Waiting
<1>2. frames[f].follows >= g /\ Waiting(frames[f].follows)
  BY <1>1 DEF OrderInv
<1>3. frames[f].follows # 0
  BY <1>2, FrameRecord
<1> QED BY <1>1, <1>2, <1>3 DEF Waiting

\* The waiting frame f is handed off or dropped.
LEMMA StartedOrder ==
  ASSUME TypeOK, OrderInv, LaneInv, NEW f \in Routed, NEW x, Handed(f, x), frames[f].state = "waiting",
         NEW d \in Ids, d = IdOf(f), NEW y, NEW c, LaneBecomes(d, y, 1, c),
         drain' = (IF drain = f THEN 0 ELSE drain),
         \/ /\ x.state = "delivered" /\ socket = "open"
            /\ \A g \in Routed : Waiting(g) /\ IdOf(g) = d => g >= f
         \/ x.state = "dropped" /\ socket' # "open"
  PROVE  OrderInv' /\ drain' \in {0} \cup Routed'
<1>1. /\ Routed' = Routed /\ frames'[f] = x /\ frames[f].id = d
      /\ \A g \in Routed : /\ frames'[g].id = frames[g].id /\ frames'[g].type = frames[g].type
                           /\ frames'[g].origin = frames[g].origin /\ frames'[g].follows = frames[g].follows
                           /\ g # f => frames'[g].state = frames[g].state
  BY HandedSame DEF Handed, IdOf
<1>2. Routed = 1..Len(frames) /\ Len(frames) \in Nat /\ \A g \in Routed : g \in Nat /\ frames[g].id \in Ids
  BY FrameRecord DEF IdOf
<1>3. /\ lanes'[d] = y /\ (\A e \in Ids : e # d => lanes'[e] = lanes[e])
      /\ \A e \in Ids : lanes[e] \in LaneType
  BY LaneBecomesTypes
<1>4. x.state # "waiting" /\ (x.state = "delivered" \/ socket' # "open")
  OBVIOUS
<1>5. \A g \in Routed : frames'[g].state = "waiting" => g # f /\ frames[g].state = "waiting"
  BY <1>1, <1>4
<1>6. drain \in {0} \cup Routed
  BY TypeParts
<1>7. \A g \in Routed : frames'[g].state = "waiting" /\ frames'[g].origin = "client" => drain' = g
  BY <1>1, <1>5 DEF OrderInv, Waiting
<1>8. drain' # 0 => frames'[drain'].state = "waiting"
  BY <1>1, <1>6 DEF OrderInv, Waiting
<1>9. \A g \in Routed : frames'[g].origin = "retire" => frames'[g].type = "complete"
  BY <1>1 DEF OrderInv
<1>10. ASSUME NEW g \in Routed, frames[g].state = "waiting", g # f, frames[g].id = d PROVE y.tail = lanes[d].tail
  <2>1. f \in WaitingOf(d) /\ g \in WaitingOf(d)
    BY <1>1, <1>10 DEF WaitingOf, Waiting, IdOf
  <2>2. IsFiniteSet(WaitingOf(d)) /\ lanes[d].pending = Cardinality(WaitingOf(d)) /\ lanes[d].pending \in Nat
    BY WaitingCount
  <2>3. Cardinality(WaitingOf(d) \ {f}) = Cardinality(WaitingOf(d)) - 1 /\ IsFiniteSet(WaitingOf(d) \ {f})
    BY <2>1, <2>2, FS_RemoveElement
  <2>4. Cardinality(WaitingOf(d) \ {f}) # 0 /\ Cardinality(WaitingOf(d) \ {f}) \in Nat
    <3>1. PICK rest : rest = WaitingOf(d) \ {f}
      OBVIOUS
    <3>2. IsFiniteSet(rest) /\ g \in rest
      BY <1>10, <2>1, <2>3, <3>1
    <3>3. Cardinality(rest) \in Nat /\ Cardinality(rest) # 0
      BY <3>2, FS_EmptySet, FS_CardinalityType
    <3> QED BY <3>1, <3>3
  <2> QED BY <2>2, <2>3, <2>4 DEF LaneBecomes
<1>11. \A g \in Routed : frames'[g].state = "waiting" =>
          /\ lanes'[frames'[g].id].tail >= g
          /\ frames'[lanes'[frames'[g].id].tail].id = frames'[g].id
          /\ socket' = "open" => frames'[lanes'[frames'[g].id].tail].state = "waiting"
  <2> SUFFICES ASSUME NEW g \in Routed, frames'[g].state = "waiting"
               PROVE  /\ lanes'[frames[g].id].tail >= g
                      /\ frames'[lanes'[frames[g].id].tail].id = frames[g].id
                      /\ socket' = "open" => frames'[lanes'[frames[g].id].tail].state = "waiting"
    BY <1>1
  <2>1. g # f /\ frames[g].state = "waiting" /\ frames[g].id \in Ids
    BY <1>2, <1>5
  <2>2. PICK t : t = lanes[frames[g].id].tail
    OBVIOUS
  <2>3. t >= g /\ frames[t].id = frames[g].id /\ (socket = "open" => frames[t].state = "waiting")
    BY <2>1, <2>2 DEF OrderInv, Waiting, IdOf
  <2>4. t \in Routed
    BY <1>2, <1>3, <2>1, <2>2, <2>3 DEF LaneType
  <2>5. lanes'[frames[g].id].tail = t
    BY <1>3, <1>10, <2>1, <2>2
  <2>6. socket' = "open" => frames'[t].state = "waiting"
    <3> SUFFICES ASSUME socket' = "open" PROVE frames'[t].state = "waiting"
      OBVIOUS
    <3>1. socket = "open" /\ \A h \in Routed : Waiting(h) /\ IdOf(h) = d => h >= f
      OBVIOUS
    <3>2. t # f
      BY <1>1, <1>2, <2>1, <2>3, <2>4, <3>1 DEF Waiting, IdOf
    <3> QED BY <1>1, <2>3, <2>4, <3>1, <3>2
  <2> QED BY <1>1, <2>3, <2>4, <2>5, <2>6
<1>12. \A g, h \in Routed : g < h /\ frames'[g].id = frames'[h].id /\ frames'[g].state = "waiting" =>
          /\ frames'[h].state # "delivered"
          /\ frames'[h].state = "waiting" =>
               /\ frames'[h].follows >= g /\ frames'[h].follows < h
               /\ frames'[frames'[h].follows].id = frames'[h].id
               /\ socket' = "open" => frames'[frames'[h].follows].state = "waiting"
  <2> SUFFICES ASSUME NEW g \in Routed, NEW h \in Routed, g < h, frames[g].id = frames[h].id, frames'[g].state = "waiting"
               PROVE  /\ frames'[h].state # "delivered"
                      /\ frames'[h].state = "waiting" =>
                           /\ frames[h].follows >= g /\ frames[h].follows < h
                           /\ frames'[frames[h].follows].id = frames[h].id
                           /\ socket' = "open" => frames'[frames[h].follows].state = "waiting"
    BY <1>1
  <2>1. g # f /\ frames[g].state = "waiting"
    BY <1>5
  <2>2. PICK t : t = frames[h].follows
    OBVIOUS
  <2>3. /\ frames[h].state # "delivered"
        /\ frames[h].state = "waiting" => /\ t >= g /\ t < h /\ frames[t].id = frames[h].id
                                          /\ socket = "open" => frames[t].state = "waiting"
    <3>1. g < h /\ IdOf(g) = IdOf(h) /\ Waiting(g)
      BY <2>1 DEF IdOf, Waiting
    <3>2. /\ frames[h].state # "delivered"
          /\ Waiting(h) => /\ frames[h].follows >= g /\ frames[h].follows < h
                           /\ IdOf(frames[h].follows) = IdOf(h)
                           /\ socket = "open" => Waiting(frames[h].follows)
      BY <3>1 DEF OrderInv
    <3> QED BY <2>2, <3>2 DEF Waiting, IdOf
  <2>4. frames'[h].state # "delivered"
    <3>1. CASE h # f
      BY <1>1, <2>3, <3>1
    <3>2. CASE h = f
      <4>1. x.state # "delivered"
        BY <1>1, <1>2, <2>1, <3>2 DEF Waiting, IdOf
      <4> QED BY <1>1, <3>2, <4>1
    <3> QED BY <3>1, <3>2
  <2>5. ASSUME frames'[h].state = "waiting"
        PROVE  /\ t >= g /\ t < h /\ frames'[t].id = frames[h].id
               /\ socket' = "open" => frames'[t].state = "waiting"
    <3>1. frames[h].state = "waiting" /\ t >= g /\ t < h /\ frames[t].id = frames[h].id
          /\ (socket = "open" => frames[t].state = "waiting")
      BY <1>5, <2>3, <2>5
    <3>2. t \in Routed
      <4>1. t \in FrameId \cup {0}
        BY <2>2, FrameRecord DEF FrameType
      <4> QED BY <1>2, <3>1, <4>1, Bounds DEF FrameId
    <3>3. socket' = "open" => frames'[t].state = "waiting"
      <4> SUFFICES ASSUME socket' = "open" PROVE frames'[t].state = "waiting"
        OBVIOUS
      <4>1. socket = "open" /\ \A e \in Routed : Waiting(e) /\ IdOf(e) = d => e >= f
        OBVIOUS
      <4>2. t # f
        <5> SUFFICES ASSUME t = f PROVE FALSE
          OBVIOUS
        <5>1. g >= f /\ g # f
          BY <1>1, <2>1, <3>1, <4>1 DEF Waiting, IdOf
        <5> QED BY <1>2, <3>1, <5>1
      <4> QED BY <1>1, <3>1, <3>2, <4>1, <4>2
    <3> QED BY <1>1, <3>1, <3>2, <3>3
  <2> QED BY <2>2, <2>4, <2>5
<1>13. drain' \in {0} \cup Routed'
  BY <1>1, <1>6
<1> QED BY <1>1, <1>7, <1>8, <1>9, <1>11, <1>12, <1>13 DEF OrderInv, Waiting, IdOf

\* Its lane counts one frame less, and may have no generation any more.
LEMMA HandedLane ==
  ASSUME TypeOK, LaneInv, NEW f \in Routed, NEW x, Handed(f, x),
         NEW d \in Ids, d = IdOf(f), NEW y, NEW k \in {0, 1}, NEW c, LaneBecomes(d, y, k, c),
         k = 0 => x.state = frames[f].state,
         k = 1 => frames[f].state = "waiting" /\ x.state # "waiting",
         c \in {0, lanes[d].current}, c = f => x.settled = frames[f].settled
  PROVE  LaneInv'
<1>1. /\ Routed' = Routed /\ frames'[f] = x /\ frames[f].id = d
      /\ \A g \in Routed : /\ frames'[g].id = frames[g].id /\ frames'[g].type = frames[g].type
                           /\ frames'[g].duplicate = frames[g].duplicate
                           /\ g # f => frames'[g].state = frames[g].state /\ frames'[g].settled = frames[g].settled
  BY HandedSame DEF Handed, IdOf
<1>2. /\ lanes'[d] = y /\ (\A e \in Ids : e # d => lanes'[e] = lanes[e])
      /\ \A e \in Ids : lanes[e] \in LaneType
  BY LaneBecomesTypes
<1>3. \A e \in Ids : WaitingOf(e)' = IF k = 1 /\ e = d THEN WaitingOf(e) \ {f} ELSE WaitingOf(e)
  <2>1. CASE k = 0
    <3>1. \A g \in Routed : frames'[g].state = frames[g].state
      BY <1>1, <2>1
    <3> QED BY <1>1, <2>1, <3>1 DEF WaitingOf, Waiting, IdOf
  <2>2. CASE k = 1
    BY <1>1, <2>2 DEF WaitingOf, Waiting, IdOf
  <2> QED BY <2>1, <2>2
<1>4. IsFiniteSet(WaitingOf(d)) /\ lanes[d].pending = Cardinality(WaitingOf(d)) /\ lanes[d].pending \in Nat
  BY WaitingCount
<1>5. \A e \in Ids : lanes'[e].pending = Cardinality(WaitingOf(e)')
  <2> SUFFICES ASSUME NEW e \in Ids PROVE lanes'[e].pending = Cardinality(WaitingOf(e)')
    OBVIOUS
  <2>1. CASE e = d /\ k = 1
    <3>1. f \in WaitingOf(d)
      BY <1>1, <2>1 DEF WaitingOf, Waiting, IdOf
    <3>2. Cardinality(WaitingOf(d) \ {f}) = Cardinality(WaitingOf(d)) - 1
      BY <1>4, <3>1, FS_RemoveElement
    <3>3. WaitingOf(e)' = WaitingOf(d) \ {f}
      BY <1>3, <2>1
    <3>4. lanes'[e].pending = Cardinality(WaitingOf(d)) - 1
      BY <1>2, <1>4, <2>1 DEF LaneBecomes
    <3> QED BY <3>2, <3>3, <3>4
  <2>2. CASE e = d /\ k = 0
    <3>1. WaitingOf(e)' = WaitingOf(d)
      BY <1>3, <2>2
    <3>2. lanes'[e].pending = lanes[d].pending
      BY <1>2, <1>4, <2>2 DEF LaneBecomes
    <3> QED BY <1>4, <3>1, <3>2
  <2>3. CASE e # d
    <3>1. WaitingOf(e)' = WaitingOf(e)
      BY <1>3, <2>3
    <3> QED BY <1>2, <2>3, <3>1 DEF LaneInv
  <2> QED BY <2>1, <2>2, <2>3
<1>6. \A e \in Ids : lanes'[e].pending = 0 /\ lanes'[e].current = 0 => lanes'[e] = NoLane
  BY <1>2 DEF LaneInv, LaneBecomes
<1>7. \A e \in Ids : lanes'[e].current # 0 =>
        /\ frames'[lanes'[e].current].type = "subscribe" /\ ~frames'[lanes'[e].current].duplicate
        /\ ~frames'[lanes'[e].current].settled /\ frames'[lanes'[e].current].id = e
  <2> SUFFICES ASSUME NEW e \in Ids, lanes'[e].current # 0, NEW p, p = lanes'[e].current
               PROVE  /\ frames'[p].type = "subscribe" /\ ~frames'[p].duplicate
                      /\ ~frames'[p].settled /\ frames'[p].id = e
    OBVIOUS
  <2>1. p = lanes[e].current /\ (e = d => p = c)
    BY <1>2 DEF LaneBecomes
  <2>2. p \in Routed
    BY <1>2, <2>1 DEF LaneType
  <2>3. Unsettled(p) /\ IdOf(p) = e
    BY <2>1 DEF LaneInv
  <2>4. p = f => e = d /\ x.settled = frames[f].settled
    BY <1>1, <2>1, <2>3 DEF IdOf
  <2> QED BY <1>1, <2>2, <2>3, <2>4 DEF Unsettled, Generation, IdOf
<1> QED BY <1>5, <1>6, <1>7 DEF LaneInv, Unsettled, Generation, IdOf

\* The frame f settles: the order of the frames stays.
LEMMA SettledOrder ==
  ASSUME TypeOK, OrderInv, LaneInv, NEW f \in Routed, NEW x, Handed(f, x), x.state = frames[f].state,
         NEW d \in Ids, d = IdOf(f), NEW y, NEW c, LaneBecomes(d, y, 0, c), UNCHANGED <<socket, drain>>
  PROVE  OrderInv' /\ drain' \in {0} \cup Routed'
<1>1. /\ Routed' = Routed /\ frames[f].id = d
      /\ \A g \in Routed : /\ frames'[g].id = frames[g].id /\ frames'[g].type = frames[g].type
                           /\ frames'[g].origin = frames[g].origin /\ frames'[g].follows = frames[g].follows
                           /\ frames'[g].state = frames[g].state
  BY HandedSame DEF Handed, IdOf
<1>2. Routed = 1..Len(frames) /\ Len(frames) \in Nat /\ \A g \in Routed : g \in Nat /\ frames[g].id \in Ids
  BY FrameRecord DEF IdOf
<1>3. /\ lanes'[d] = y /\ (\A e \in Ids : e # d => lanes'[e] = lanes[e])
      /\ \A e \in Ids : lanes[e] \in LaneType
  BY LaneBecomesTypes
<1>4. drain \in {0} \cup Routed
  BY TypeParts
<1>5. \A g \in Routed : frames'[g].state = "waiting" /\ frames'[g].origin = "client" => drain' = g
  BY <1>1 DEF OrderInv, Waiting
<1>6. drain' # 0 => frames'[drain'].state = "waiting"
  BY <1>1, <1>4 DEF OrderInv, Waiting
<1>7. \A g \in Routed : frames'[g].origin = "retire" => frames'[g].type = "complete"
  BY <1>1 DEF OrderInv
<1>8. ASSUME NEW g \in Routed, frames[g].state = "waiting", frames[g].id = d PROVE y.tail = lanes[d].tail
  <2>1. g \in WaitingOf(d)
    BY <1>8 DEF WaitingOf, Waiting, IdOf
  <2>2. lanes[d].pending >= 1 /\ lanes[d].pending \in Nat
    BY <2>1, WaitingCount
  <2> QED BY <2>2 DEF LaneBecomes
<1>9. \A g \in Routed : frames'[g].state = "waiting" =>
          /\ lanes'[frames'[g].id].tail >= g
          /\ frames'[lanes'[frames'[g].id].tail].id = frames'[g].id
          /\ socket' = "open" => frames'[lanes'[frames'[g].id].tail].state = "waiting"
  <2> SUFFICES ASSUME NEW g \in Routed, frames[g].state = "waiting"
               PROVE  /\ lanes'[frames[g].id].tail >= g
                      /\ frames'[lanes'[frames[g].id].tail].id = frames[g].id
                      /\ socket = "open" => frames'[lanes'[frames[g].id].tail].state = "waiting"
    BY <1>1
  <2>1. frames[g].id \in Ids
    BY <1>2
  <2>2. PICK t : t = lanes[frames[g].id].tail
    OBVIOUS
  <2>3. t >= g /\ frames[t].id = frames[g].id /\ (socket = "open" => frames[t].state = "waiting")
    BY <2>1, <2>2 DEF OrderInv, Waiting, IdOf
  <2>4. t \in Routed
    BY <1>2, <1>3, <2>1, <2>2, <2>3 DEF LaneType
  <2>5. lanes'[frames[g].id].tail = t
    BY <1>3, <1>8, <2>1, <2>2
  <2> QED BY <1>1, <2>3, <2>4, <2>5
<1>10. \A g, h \in Routed : g < h /\ frames'[g].id = frames'[h].id /\ frames'[g].state = "waiting" =>
          /\ frames'[h].state # "delivered"
          /\ frames'[h].state = "waiting" =>
               /\ frames'[h].follows >= g /\ frames'[h].follows < h
               /\ frames'[frames'[h].follows].id = frames'[h].id
               /\ socket' = "open" => frames'[frames'[h].follows].state = "waiting"
  <2> SUFFICES ASSUME NEW g \in Routed, NEW h \in Routed, g < h, frames[g].id = frames[h].id, frames[g].state = "waiting"
               PROVE  /\ frames[h].state # "delivered"
                      /\ frames[h].state = "waiting" =>
                           /\ frames[h].follows >= g /\ frames[h].follows < h
                           /\ frames'[frames[h].follows].id = frames[h].id
                           /\ socket = "open" => frames'[frames[h].follows].state = "waiting"
    BY <1>1
  <2>1. PICK t : t = frames[h].follows
    OBVIOUS
  <2>2. /\ frames[h].state # "delivered"
        /\ frames[h].state = "waiting" => /\ t >= g /\ t < h /\ frames[t].id = frames[h].id
                                          /\ socket = "open" => frames[t].state = "waiting"
    <3>1. g < h /\ IdOf(g) = IdOf(h) /\ Waiting(g)
      BY DEF IdOf, Waiting
    <3>2. /\ frames[h].state # "delivered"
          /\ Waiting(h) => /\ frames[h].follows >= g /\ frames[h].follows < h
                           /\ IdOf(frames[h].follows) = IdOf(h)
                           /\ socket = "open" => Waiting(frames[h].follows)
      BY <3>1 DEF OrderInv
    <3> QED BY <2>1, <3>2 DEF Waiting, IdOf
  <2>3. frames[h].state = "waiting" => t \in Routed
    <3>1. t \in FrameId \cup {0}
      BY <2>1, FrameRecord DEF FrameType
    <3> QED BY <1>2, <2>2, <3>1, Bounds DEF FrameId
  <2> QED BY <1>1, <2>1, <2>2, <2>3
<1> QED BY <1>1, <1>4, <1>5, <1>6, <1>7, <1>9, <1>10 DEF OrderInv, Waiting, IdOf

\* The generation of f, if it has one, goes on or settles.
LEMMA HandedGeneration ==
  ASSUME TypeOK, GenerationInv, NEW f \in Routed, NEW x, Handed(f, x),
         Generation(f) /\ frames[f].settled => x.settled,
         socket' = "open" => \A g \in Routed : Unsettled(g)' => lanes'[frames[g].id].current >= g,
         \/ x.state = frames[f].state
         \/ Generation(f) /\ ~x.settled =>
              \A e \in Routed : e < f /\ IdOf(e) = IdOf(f) => ~Unsettled(e),
         Generation(f) => /\ x.state = "dropped" => x.settled
                          /\ x.settled => x.state # "waiting"
                          /\ x.settled /\ x.state = "delivered" => ops'[f].stage = "ended",
         \A j \in FrameId : ops[j].stage = "ended" => ops'[j].stage = "ended"
  PROVE  GenerationInv'
<1>1. /\ Routed' = Routed /\ frames'[f] = x
      /\ \A g \in Routed : /\ frames'[g].id = frames[g].id /\ frames'[g].type = frames[g].type
                           /\ frames'[g].awaits = frames[g].awaits
                           /\ frames'[g].completed = frames[g].completed
                           /\ frames'[g].duplicate = frames[g].duplicate
                           /\ g # f => frames'[g].state = frames[g].state /\ frames'[g].settled = frames[g].settled
  BY HandedSame DEF Handed
<1>2. \A g \in Routed : Generation(g)' <=> Generation(g)
  BY HandedSame
<1>3. Routed \subseteq FrameId
  BY FrameRecord
<1>4. \A g \in Routed : Unsettled(g)' <=> Generation(g) /\ ~frames'[g].settled
  BY <1>2 DEF Unsettled
<1>5. \A g \in Routed : Unsettled(g)' => Unsettled(g)
  BY <1>1, <1>4 DEF Unsettled
<1>6. socket' = "open" => \A g \in Routed : Unsettled(g)' => lanes'[frames'[g].id].current >= g
  BY <1>1
<1>7. \A e, g \in Routed : e < g /\ frames'[e].id = frames'[g].id /\ Unsettled(e)' /\ Unsettled(g)' =>
        frames'[g].state = "waiting" /\ frames'[g].awaits = e
  <2> SUFFICES ASSUME NEW e \in Routed, NEW g \in Routed, e < g, frames'[e].id = frames'[g].id,
                      Unsettled(e)', Unsettled(g)'
               PROVE  frames'[g].state = "waiting" /\ frames'[g].awaits = e
    OBVIOUS
  <2>1. Unsettled(e) /\ Unsettled(g) /\ IdOf(e) = IdOf(g)
    BY <1>1, <1>5 DEF IdOf
  <2>2. Waiting(g) /\ frames[g].awaits = e
    BY <2>1 DEF GenerationInv
  <2>3. frames'[g].state = frames[g].state
    <3>1. CASE g # f
      BY <1>1, <3>1
    <3>2. CASE g = f
      <4>1. Generation(f) /\ ~x.settled
        BY <1>1, <1>4, <3>2
      <4> QED BY <1>1, <2>1, <3>2, <4>1
    <3> QED BY <3>1, <3>2
  <2> QED BY <1>1, <2>2, <2>3 DEF Waiting
<1>8. \A g \in Routed : frames'[g].awaits # 0 => /\ frames'[g].awaits \in Routed
                                                 /\ frames'[frames'[g].awaits].completed
  BY <1>1 DEF GenerationInv
<1>9. \A g \in Routed : Generation(g)' => /\ frames'[g].state = "dropped" => frames'[g].settled
                                          /\ frames'[g].settled => frames'[g].state # "waiting"
                                          /\ frames'[g].settled /\ frames'[g].state = "delivered"
                                               => ops'[g].stage = "ended"
  <2> SUFFICES ASSUME NEW g \in Routed, Generation(g)
               PROVE  /\ frames'[g].state = "dropped" => frames'[g].settled
                      /\ frames'[g].settled => frames'[g].state # "waiting"
                      /\ frames'[g].settled /\ frames'[g].state = "delivered" => ops'[g].stage = "ended"
    BY <1>2
  <2>1. CASE g = f
    BY <1>1, <2>1
  <2>2. CASE g # f
    <3>1. /\ frames[g].state = "dropped" => frames[g].settled
          /\ frames[g].settled => frames[g].state # "waiting"
          /\ frames[g].settled /\ frames[g].state = "delivered" => ops[g].stage = "ended"
      BY DEF GenerationInv
    <3> QED BY <1>1, <1>3, <2>2, <3>1
  <2> QED BY <2>1, <2>2
<1> QED BY <1>1, <1>6, <1>7, <1>8, <1>9 DEF GenerationInv, Waiting, IdOf

\* Nothing but the frame and the lanes changes.
LEMMA HandedQuiet ==
  ASSUME OperationsInv, NEW f \in Routed, NEW x, Handed(f, x),
         UNCHANGED <<socket, clientFrames, adapterVars, ops, received, historyVars>>,
         drain' \in {0} \cup Routed',
         lanes' \in [Ids -> [tail : {0} \cup Routed', pending : 0..Len(frames'), current : {0} \cup Routed']],
         x.state = frames[f].state \/ (frames[f].state = "waiting" /\ x.state = "dropped")
  PROVE  TypeOK' /\ StageInv' /\ EventsInv' /\ CountInv' /\ (untracked' \/ AdapterInv')
<1>1. TypeOK /\ StageInv /\ EventsInv /\ CountInv /\ (untracked \/ AdapterInv)
  BY DEF OperationsInv
<1>2. UNCHANGED <<entry, operations, variables, untracked, pushed, taken, sent>>
  BY DEF adapterVars, historyVars
<1>3. /\ SameFrames /\ Retires' = Retires /\ Routed' = Routed /\ Routed \subseteq FrameId
      /\ frames' \in Seq(FrameType) /\ Len(frames') = Len(frames)
  BY <1>1, HandedSame, FrameRecord DEF Handed
<1>4. \A g \in Routed : frames'[g].type = frames[g].type /\ (g # f => frames'[g].state = frames[g].state)
  BY <1>1, HandedSame
<1>5. frames'[f].state = x.state
  BY DEF Handed
<1>6. TypeOK'
  <2>1. /\ socket \in {"open", "stopping", "closed"} /\ Len(frames) \in 0..(MaxFrames + MaxEvents)
        /\ clientFrames \in 0..MaxFrames
        /\ entry \in [Ids -> [kind : {"absent", "null", "iterator"}, op : {0} \cup Routed]]
        /\ operations \in [Ids -> {0} \cup Routed] /\ variables \subseteq Ids
        /\ ops \in [FrameId -> OpType] /\ untracked \in BOOLEAN
    BY <1>1, TypeParts
  <2> QED BY <1>1, <1>2, <1>3, <2>1, FramesTypes
<1>7. StageInv'
  <2>1. \A j \in FrameId : ops[j].stage # "none" <=>
           j \in Routed /\ frames[j].type = "subscribe" /\ frames[j].state = "delivered"
    BY <1>1 DEF StageInv
  <2>2. \A j \in FrameId : ops'[j].stage # "none" <=>
           j \in Routed' /\ frames'[j].type = "subscribe" /\ frames'[j].state = "delivered"
    BY <1>3, <1>4, <1>5, <2>1
  <2> QED BY <1>1, <1>2, <1>3, <2>2, FramesStage
<1>8. EventsInv' /\ Hand' \subseteq Hand
  BY <1>1, <1>2, FadesSame, AllFade
<1>9. CountInv'
  <2>1. Len(frames) \in Nat /\ clientFrames \in Nat
    BY <1>1, FrameRecord, Bounds DEF TypeOK
  <2> QED BY <1>1, <1>2, <1>3, <1>8, <2>1, CountKeeps
<1>10. untracked' \/ AdapterInv'
  <2>1. \A j \in FrameId : Goes(ops'[j], ops[j])
    BY GoesSame
  <2> QED BY <1>1, <1>2, <1>3, <2>1, GoingKeepsAdapter
<1> QED BY <1>6, <1>7, <1>8, <1>9, <1>10

\* Settling a generation changes nothing a completed operation waits for.
LEMMA SettledRetire ==
  ASSUME TypeOK, RetireInv, NEW f \in Routed, NEW x, Handed(f, x), x.state = frames[f].state,
         UNCHANGED <<drain, entry, ops>>
  PROVE  RetireInv'
<1>1. /\ Routed' = Routed
      /\ \A g \in Routed : /\ frames'[g].id = frames[g].id /\ frames'[g].type = frames[g].type
                           /\ frames'[g].origin = frames[g].origin /\ frames'[g].completed = frames[g].completed
                           /\ frames'[g].state = frames[g].state
  BY HandedSame DEF Handed
<1>2. \A g \in Routed : Generation(g)' <=> Generation(g)
  BY HandedSame
<1>3. drain \in {0} \cup Routed
  BY TypeParts
<1>4. \A j \in Routed : Served(j)' <=> Served(j)
  BY <1>1 DEF Served, Live, IdOf
<1>5. ASSUME NEW j \in Routed, CompletedBy(j) PROVE CompletedBy(j)'
  <2>1. CASE drain # 0 /\ frames[drain].type = "complete" /\ IdOf(drain) = IdOf(j)
    <3>1. drain' # 0 /\ frames'[drain'].type = "complete" /\ frames'[drain'].id = frames'[j].id
      BY <1>1, <1>3, <2>1 DEF IdOf
    <3> QED BY <3>1 DEF CompletedBy, IdOf
  <2>2. CASE /\ ops[j].stage = "pulling"
             /\ \E g \in Routed : Waiting(g) /\ frames[g].origin = "retire" /\ IdOf(g) = IdOf(j)
    <3>1. PICK g \in Routed : Waiting(g) /\ frames[g].origin = "retire" /\ IdOf(g) = IdOf(j)
      BY <2>2
    <3>2. g \in Routed' /\ frames'[g].state = "waiting" /\ frames'[g].origin = "retire" /\ frames'[g].id = frames'[j].id
          /\ ops'[j].stage = "pulling"
      BY <1>1, <2>2, <3>1 DEF Waiting, IdOf
    <3> QED BY <3>2 DEF CompletedBy, IdOf, Waiting
  <2> QED BY <1>5, <2>1, <2>2 DEF CompletedBy
<1>6. \A j \in Routed' : Served(j)' /\ frames'[j].completed => CompletedBy(j)'
  BY <1>1, <1>4, <1>5 DEF RetireInv
<1>7. \A g \in Routed' : Generation(g)' /\ Waiting(g)' => ~frames'[g].completed
  BY <1>1, <1>2 DEF RetireInv, Waiting
<1>8. \A e, g \in Routed' : Waiting(e)' /\ frames'[e].origin = "retire" /\ Waiting(g)'
                            /\ Generation(g)' /\ frames'[e].id = frames'[g].id => e < g
  BY <1>1, <1>2 DEF RetireInv, Waiting, IdOf
<1>9. \A e \in Routed' : Waiting(e)' /\ frames'[e].origin = "retire" =>
       \/ entry'[frames'[e].id].kind = "absent"
       \/ entry'[frames'[e].id].kind = "iterator" /\ ops'[entry'[frames'[e].id].op].retired
  BY <1>1 DEF RetireInv, Waiting, IdOf
<1> QED BY <1>6, <1>7, <1>8, <1>9 DEF RetireInv, IdOf

\* The lifetime of an operation settles its generation.
LEMMA SettleKeeps ==
  ASSUME OperationsInv, NEW f \in Routed, Settle(f)
  PROVE  OperationsInv'
<1>1. /\ TypeOK /\ OrderInv /\ LaneInv /\ GenerationInv /\ StageInv /\ EventsInv /\ CountInv
      /\ untracked \/ AdapterInv
      /\ untracked \/ socket # "open" \/ RetireInv
  BY DEF OperationsInv
<1>2. PICK d : d = IdOf(f)
  OBVIOUS
<1>3. PICK x : x = [frames[f] EXCEPT !.settled = TRUE]
  OBVIOUS
<1>4. f \in FrameId /\ d \in Ids /\ frames[f] \in FrameType /\ Routed \subseteq Nat /\ f # 0
      /\ \A g \in Routed : frames[g].id \in Ids
  BY <1>1, <1>2, FrameRecord DEF IdOf
<1>5. /\ ops[f].stage = "ended" /\ frames' = [frames EXCEPT ![f] = x]
      /\ UNCHANGED <<socket, clientFrames, drain, adapterVars, ops, received, historyVars>>
  BY <1>3 DEF Settle
<1>6. frames[f].type = "subscribe" /\ frames[f].state = "delivered" /\ Generation(f) /\ ~Waiting(f)
  BY <1>1, <1>4, <1>5 DEF Settle, StageInv, Generation, Waiting
<1>7. Handed(f, x) /\ x.state = frames[f].state /\ x.settled
  <2>1. x = [frames[f] EXCEPT !.state = "delivered", !.settled = TRUE]
    <3>1. PICK z : z = frames[f]
      OBVIOUS
    <3>2. z \in FrameType /\ z.state = "delivered"
      BY <1>4, <1>6, <3>1
    <3>3. [z EXCEPT !.settled = TRUE] = [z EXCEPT !.state = "delivered", !.settled = TRUE]
      BY <3>2 DEF FrameType
    <3> QED BY <1>3, <3>1, <3>3
  <2> QED BY <1>1, <1>5, <1>6, <2>1, HandedFacts
<1>8. PICK c : c = IF lanes[d].current = f THEN 0 ELSE lanes[d].current
  OBVIOUS
<1>9. PICK y : LaneBecomes(d, y, 0, c)
  <2>1. PICK l : l = IF lanes[d].current = f THEN [lanes[d] EXCEPT !.current = 0] ELSE lanes[d]
    OBVIOUS
  <2>2. lanes' = [lanes EXCEPT ![d] = Reaped(l)]
    BY <1>2, <2>1 DEF Settle
  <2>3. lanes[d] \in LaneType
    BY <1>1, <1>4, WaitingCount
  <2>4. /\ l.tail = lanes[d].tail /\ l.pending = lanes[d].pending - 0 /\ l.current = c
        /\ l = [tail |-> l.tail, pending |-> l.pending, current |-> l.current]
    <3>1. CASE lanes[d].current = f
      BY <1>8, <2>1, <2>3, <3>1 DEF LaneType
    <3>2. CASE lanes[d].current # f
      BY <1>8, <2>1, <2>3, <3>2 DEF LaneType
    <3> QED BY <3>1, <3>2
  <2>5. 0 <= lanes[d].pending /\ c \in {0, lanes[d].current}
    BY <1>1, <1>4, <1>8, WaitingCount
  <2>6. LaneBecomes(d, Reaped(l), 0, c)
    BY <1>1, <1>4, <2>2, <2>4, <2>5, LaneBecomesFacts
  <2> QED BY <2>6
<1>10. OrderInv' /\ drain' \in {0} \cup Routed'
  BY <1>1, <1>2, <1>4, <1>5, <1>7, <1>9, SettledOrder
<1>11. LaneInv'
  <2>1. c \in {0, lanes[d].current} /\ c # f
    BY <1>4, <1>8
  <2> QED BY <1>1, <1>2, <1>4, <1>7, <1>9, <2>1, HandedLane
<1>12. /\ lanes' \in [Ids -> [tail : {0} \cup Routed', pending : 0..Len(frames'), current : {0} \cup Routed']]
       /\ lanes'[d].current = c /\ \A e \in Ids : e # d => lanes'[e] = lanes[e]
  BY <1>1, <1>4, <1>7, <1>9, LaneBecomesTypes DEF LaneBecomes
<1>13. TypeOK' /\ StageInv' /\ EventsInv' /\ CountInv' /\ (untracked' \/ AdapterInv')
  BY <1>5, <1>7, <1>10, <1>12, HandedQuiet
<1>14. GenerationInv'
  <2>1. ASSUME socket' = "open", NEW g \in Routed, Unsettled(g)' PROVE lanes'[frames[g].id].current >= g
    <3>1. g # f /\ Unsettled(g)
      <4>1. g # f
        BY <1>7, <2>1 DEF Handed, Unsettled
      <4> QED BY <2>1, <4>1, <1>7 DEF Handed, Unsettled, Generation
    <3>2. socket = "open" /\ lanes[frames[g].id].current >= g
      BY <1>1, <1>5, <2>1, <3>1 DEF GenerationInv, IdOf
    <3>3. CASE frames[g].id # d
      BY <1>4, <1>12, <3>2, <3>3
    <3>4. CASE frames[g].id = d
      <4>1. lanes[d].current # f
        <5> SUFFICES ASSUME lanes[d].current = f PROVE FALSE
          OBVIOUS
        <5>1. g < f /\ IdOf(g) = IdOf(f)
          BY <1>2, <1>4, <3>1, <3>2, <3>4 DEF IdOf
        <5>2. Unsettled(f)
          BY <1>1, <1>4, <1>6 DEF LaneInv
        <5> QED BY <1>1, <1>6, <3>1, <5>1, <5>2 DEF GenerationInv
      <4> QED BY <1>8, <1>12, <3>2, <3>4, <4>1
    <3> QED BY <3>3, <3>4
  <2>2. x.settled => x.state # "waiting" /\ ops'[f].stage = "ended"
    BY <1>5, <1>6, <1>7
  <2> QED BY <1>1, <1>5, <1>7, <2>1, <2>2, HandedGeneration
<1>15. untracked' \/ socket' # "open" \/ RetireInv'
  <2>1. UNCHANGED <<entry, drain, ops, untracked>>
    BY <1>5 DEF adapterVars, historyVars
  <2> QED BY <1>1, <1>5, <1>7, <2>1, SettledRetire
<1> QED BY <1>10, <1>11, <1>13, <1>14, <1>15 DEF OperationsInv

\* A stopped connection drops a waiting frame.
LEMMA DropKeeps ==
  ASSUME OperationsInv, NEW f \in Routed, Drop(f)
  PROVE  OperationsInv'
<1>1. /\ TypeOK /\ OrderInv /\ LaneInv /\ GenerationInv /\ StageInv /\ EventsInv /\ CountInv
      /\ untracked \/ AdapterInv
  BY DEF OperationsInv
<1>2. PICK d : d = IdOf(f)
  OBVIOUS
<1>3. PICK b : b = (frames[f].type = "subscribe" /\ ~frames[f].duplicate)
  OBVIOUS
<1>4. PICK x : x = [frames[f] EXCEPT !.state = "dropped", !.settled = b]
  OBVIOUS
<1>5. f \in FrameId /\ d \in Ids /\ frames[f] \in FrameType /\ f # 0
  BY <1>1, <1>2, FrameRecord
<1>6. /\ frames[f].state = "waiting" /\ socket # "open" /\ frames' = [frames EXCEPT ![f] = x]
      /\ drain' = (IF drain = f THEN 0 ELSE drain)
      /\ UNCHANGED <<socket, clientFrames, adapterVars, ops, received, historyVars>>
  <2>1. frames' = [frames EXCEPT ![f].state = "dropped", ![f].settled = b]
    BY <1>3 DEF Drop
  <2>2. frames' = [frames EXCEPT ![f] = x]
    BY <1>4, <2>1
  <2> QED BY <2>2 DEF Drop, Ready
<1>7. Handed(f, x) /\ x.state = "dropped" /\ x.settled = b
  BY ZenonT(40), <1>1, <1>3, <1>4, <1>6, HandedFacts
<1>8. PICK c : c = IF b /\ lanes[d].current = f THEN 0 ELSE lanes[d].current
  OBVIOUS
<1>9. PICK y : LaneBecomes(d, y, 1, c)
  <2>1. PICK l : l = IF b /\ lanes[d].current = f
                     THEN [[lanes[d] EXCEPT !.pending = @ - 1] EXCEPT !.current = 0]
                     ELSE [lanes[d] EXCEPT !.pending = @ - 1]
    OBVIOUS
  <2>2. lanes' = [lanes EXCEPT ![d] = Reaped(l)]
    BY <1>2, <1>3, <2>1 DEF Drop
  <2>3. lanes[d] \in LaneType
    BY <1>1, <1>5, WaitingCount
  <2>4. /\ l.tail = lanes[d].tail /\ l.pending = lanes[d].pending - 1 /\ l.current = c
        /\ l = [tail |-> l.tail, pending |-> l.pending, current |-> l.current]
    <3>1. CASE b /\ lanes[d].current = f
      BY <1>8, <2>1, <2>3, <3>1 DEF LaneType
    <3>2. CASE ~(b /\ lanes[d].current = f)
      BY <1>8, <2>1, <2>3, <3>2 DEF LaneType
    <3> QED BY <3>1, <3>2
  <2>5. 1 <= lanes[d].pending /\ c \in {0, lanes[d].current}
    <3>1. f \in WaitingOf(d)
      BY <1>2, <1>6 DEF WaitingOf, Waiting
    <3> QED BY <1>1, <1>5, <1>8, <3>1, WaitingCount
  <2>6. LaneBecomes(d, Reaped(l), 1, c)
    BY <1>1, <1>5, <2>2, <2>4, <2>5, LaneBecomesFacts
  <2> QED BY <2>6
<1>10. OrderInv' /\ drain' \in {0} \cup Routed'
  BY <1>1, <1>2, <1>5, <1>6, <1>7, <1>9, StartedOrder
<1>11. LaneInv'
  <2>1. c \in {0, lanes[d].current}
    BY <1>8
  <2>2. c # f
    <3> SUFFICES ASSUME c = f PROVE FALSE
      OBVIOUS
    <3>1. lanes[d].current = f /\ ~b
      BY <1>5, <1>8
    <3>2. Generation(f)
      BY <1>1, <1>5, <3>1 DEF LaneInv, Unsettled
    <3> QED BY <1>3, <3>1, <3>2 DEF Generation
  <2> QED BY <1>1, <1>2, <1>5, <1>6, <1>7, <1>9, <2>1, <2>2, HandedLane
<1>12. lanes' \in [Ids -> [tail : {0} \cup Routed', pending : 0..Len(frames'), current : {0} \cup Routed']]
  BY <1>1, <1>5, <1>7, <1>9, LaneBecomesTypes
<1>13. TypeOK' /\ StageInv' /\ EventsInv' /\ CountInv' /\ (untracked' \/ AdapterInv')
  BY <1>6, <1>7, <1>10, <1>12, HandedQuiet
<1>14. GenerationInv'
  <2>1. Generation(f) => x.settled
    BY <1>3, <1>7 DEF Generation
  <2>2. socket' # "open"
    BY <1>6
  <2>3. ops' = ops /\ x.state = "dropped"
    BY <1>6, <1>7
  <2> QED BY <1>1, <1>7, <2>1, <2>2, <2>3, HandedGeneration
<1> QED BY <1>6, <1>10, <1>11, <1>13, <1>14 DEF OperationsInv

-----------------------------------------------------------------------------
\* A frame is handed off to graphql-ws.

Delivered(f, x) ==
  /\ Handed(f, x) /\ x.state = "delivered" /\ frames[f].state = "waiting"
  /\ drain' = IF drain = f THEN 0 ELSE drain
  /\ OrderInv' /\ LaneInv' /\ GenerationInv' /\ drain' \in {0} \cup Routed'
  /\ lanes' \in [Ids -> [tail : {0} \cup Routed', pending : 0..Len(frames'), current : {0} \cup Routed']]

\* A waiting frame is handed to graphql-ws.
LEMMA DeliveredFacts ==
  ASSUME OperationsInv, NEW f \in Routed, Deliver(f),
         \A j \in FrameId : ops[j].stage = "ended" => ops'[j].stage = "ended"
  PROVE  /\ \E x : Delivered(f, x)
         /\ f \in FrameId /\ IdOf(f) \in Ids /\ ops[f] = NoOp /\ ops[f].stage = "none"
         /\ socket = "open" /\ UNCHANGED <<clientFrames, received, pushed, taken, sent>>
         /\ \A g \in Routed : Waiting(g) /\ IdOf(g) = IdOf(f) => g >= f
         /\ Generation(f) => /\ Unsettled(f)
                             /\ \A e \in Routed : e < f /\ IdOf(e) = IdOf(f) => ~Unsettled(e)
<1>1. /\ TypeOK /\ OrderInv /\ LaneInv /\ GenerationInv /\ StageInv
  BY DEF OperationsInv
<1>2. PICK d : d = IdOf(f)
  OBVIOUS
<1>3. /\ Ready(f) /\ socket = "open" /\ frames[f].state = "waiting" /\ Waiting(f)
      /\ UNCHANGED <<clientFrames, received, pushed, taken, sent>>
      /\ drain' = (IF drain = f THEN 0 ELSE drain)
  BY DEF Deliver, Ready, Waiting, Start
<1>4. f \in FrameId /\ d \in Ids /\ frames[f] \in FrameType /\ f # 0
      /\ \A g \in Routed : frames[g].id \in Ids /\ g # 0
  BY <1>1, <1>2, FrameRecord DEF IdOf
<1>5. ops[f] = NoOp /\ ops[f].stage = "none"
  <2>1. ops[f].stage = "none"
    BY <1>1, <1>3, <1>4 DEF StageInv
  <2> QED BY <1>1, <1>4, <2>1 DEF StageInv
<1>6. \A g \in Routed : Waiting(g) /\ IdOf(g) = d => g >= f
  BY <1>1, <1>2, <1>3, NoneBefore
<1>7. Generation(f) => ~frames[f].settled
  BY <1>1, <1>3 DEF GenerationInv
<1>8. ASSUME Generation(f), NEW e \in Routed, e < f, IdOf(e) = d, Unsettled(e) PROVE FALSE
  <2>1. Unsettled(f)
    BY <1>7, <1>8 DEF Unsettled
  <2>2. frames[f].awaits = e
    BY <1>1, <1>2, <1>8, <2>1 DEF GenerationInv
  <2>3. frames[e].settled
    BY <1>3, <1>4, <2>2 DEF Ready
  <2> QED BY <1>8, <2>3 DEF Unsettled
<1>9. PICK x : x = [frames[f] EXCEPT !.state = "delivered"]
  OBVIOUS
<1>10. Handed(f, x) /\ x.state = "delivered" /\ x.settled = frames[f].settled
  <2>1. PICK b : b = frames[f].settled
    OBVIOUS
  <2>2. x = [frames[f] EXCEPT !.state = "delivered", !.settled = b] /\ b \in BOOLEAN
    <3>1. PICK z : z = frames[f]
      OBVIOUS
    <3>2. z \in FrameType /\ z.settled = b
      BY <1>4, <2>1, <3>1
    <3>3. [z EXCEPT !.state = "delivered"] = [z EXCEPT !.state = "delivered", !.settled = b] /\ b \in BOOLEAN
      BY <3>2 DEF FrameType
    <3> QED BY <1>9, <3>1, <3>3
  <2>3. frames' = [frames EXCEPT ![f] = x]
    BY <1>9 DEF Deliver
  <2> QED BY ZenonT(40), <1>1, <2>1, <2>2, <2>3, HandedFacts
<1>11. PICK c : c = lanes[d].current
  OBVIOUS
<1>12. PICK y : LaneBecomes(d, y, 1, c)
  <2>1. PICK l : l = [lanes[d] EXCEPT !.pending = @ - 1]
    OBVIOUS
  <2>2. lanes' = [lanes EXCEPT ![d] = Reaped(l)]
    <3>1. Start(f)
      BY DEF Deliver
    <3>2. lanes' = [lanes EXCEPT ![IdOf(f)] = Reaped([lanes[IdOf(f)] EXCEPT !.pending = lanes[IdOf(f)].pending - 1])]
      BY <3>1 DEF Start
    <3> QED BY <1>2, <2>1, <3>2
  <2>3. lanes[d] \in LaneType
    BY <1>1, <1>4, WaitingCount
  <2>4. /\ l.tail = lanes[d].tail /\ l.pending = lanes[d].pending - 1 /\ l.current = c
        /\ l = [tail |-> l.tail, pending |-> l.pending, current |-> l.current]
    BY <1>11, <2>1, <2>3 DEF LaneType
  <2>5. 1 <= lanes[d].pending
    <3>1. f \in WaitingOf(d)
      BY <1>2, <1>3 DEF WaitingOf
    <3> QED BY <1>1, <1>4, <3>1, WaitingCount
  <2>6. LaneBecomes(d, Reaped(l), 1, c)
    BY <1>1, <1>4, <1>11, <2>2, <2>4, <2>5, LaneBecomesFacts
  <2> QED BY <2>6
<1>13. OrderInv' /\ drain' \in {0} \cup Routed'
  BY <1>1, <1>2, <1>3, <1>4, <1>6, <1>10, <1>12, StartedOrder
<1>14. LaneInv'
  BY <1>1, <1>2, <1>3, <1>4, <1>10, <1>11, <1>12, HandedLane
<1>15. /\ lanes' \in [Ids -> [tail : {0} \cup Routed', pending : 0..Len(frames'), current : {0} \cup Routed']]
       /\ lanes'[d].current = c /\ \A e \in Ids : e # d => lanes'[e] = lanes[e]
  BY ZenonT(40), <1>1, <1>4, <1>10, <1>12, LaneBecomesTypes DEF LaneBecomes
<1>16. GenerationInv'
  <2>1. ASSUME NEW g \in Routed, Unsettled(g)' PROVE lanes'[frames[g].id].current >= g
    <3>1. frames'[g].settled = frames[g].settled /\ (Generation(g)' <=> Generation(g))
      BY <1>1, <1>10, HandedSame DEF Handed
    <3>2. Unsettled(g)
      BY <2>1, <3>1 DEF Unsettled
    <3>3. lanes[frames[g].id].current >= g
      BY <1>1, <1>3, <3>2 DEF GenerationInv, IdOf
    <3> QED BY <1>4, <1>11, <1>15, <3>3
  <2>2. Generation(f) /\ ~x.settled => \A e \in Routed : e < f /\ IdOf(e) = IdOf(f) => ~Unsettled(e)
    BY <1>2, <1>8
  <2>3. Generation(f) => ~x.settled
    BY <1>7, <1>10
  <2> QED BY <1>1, <1>7, <1>10, <2>1, <2>2, <2>3, HandedGeneration
<1>17. Delivered(f, x)
  BY <1>3, <1>10, <1>13, <1>14, <1>15, <1>16 DEF Delivered
<1> QED BY <1>2, <1>3, <1>4, <1>5, <1>6, <1>7, <1>8, <1>17 DEF Unsettled

\* The complete frames on their way, when one frame of the id d has been handed off.
LEMMA DeliveredRetire ==
  ASSUME TypeOK, StageInv, RetireInv, NEW f \in Routed, NEW x, Delivered(f, x), NEW d \in Ids, d = IdOf(f),
         \A e \in Ids : e # d => entry'[e] = entry[e],
         \A j \in FrameId : j # f => /\ ops'[j].stage = ops[j].stage /\ ops'[j].retired = ops[j].retired
                                     /\ ~ops'[j].closed => ~ops[j].closed
                                     /\ ops'[j].chan = "open" => ops[j].chan = "open",
         \A j \in Routed : Served(j)' /\ IdOf(j) = d => ~frames[j].completed,
         \A g \in Routed : g # f /\ Waiting(g) /\ frames[g].origin = "retire" /\ IdOf(g) = d => entry'[d].kind = "absent"
  PROVE  RetireInv'
<1>1. Handed(f, x) /\ x.state = "delivered" /\ drain' = (IF drain = f THEN 0 ELSE drain)
  BY DEF Delivered
<1>2. /\ Routed' = Routed
      /\ \A g \in Routed : /\ frames'[g].id = frames[g].id /\ frames'[g].type = frames[g].type
                           /\ frames'[g].origin = frames[g].origin /\ frames'[g].completed = frames[g].completed
                           /\ g # f => frames'[g].state = frames[g].state
  BY <1>1, HandedSame
<1>3. \A g \in Routed : Generation(g)' <=> Generation(g)
  BY <1>1, HandedSame
<1>4. frames'[f].state = "delivered" /\ frames[f].id = d
  BY <1>1 DEF Handed, IdOf
<1>5. \A g \in Routed : Waiting(g)' => g # f /\ Waiting(g)
  BY <1>2, <1>4 DEF Waiting
<1>6. drain \in {0} \cup Routed /\ \A g \in Routed : g \in FrameId /\ frames[g].id \in Ids
  BY TypeParts, FrameRecord DEF IdOf
<1>7. ASSUME NEW j \in Routed, Served(j)', frames'[j].completed PROVE CompletedBy(j)'
  <2>1. frames[j].completed /\ frames[j].id # d
    BY <1>2, <1>7 DEF IdOf
  <2>2. j # f /\ j \in FrameId /\ entry'[frames[j].id] = entry[frames[j].id]
    BY <1>4, <1>6, <2>1
  <2>3. Served(j)
    BY <1>2, <1>7, <2>2 DEF Served, Live, IdOf
  <2>4. CompletedBy(j)
    BY <2>1, <2>3 DEF RetireInv
  <2>5. CASE drain # 0 /\ frames[drain].type = "complete" /\ IdOf(drain) = IdOf(j)
    <3>1. drain # f /\ drain \in Routed
      BY <1>4, <1>6, <2>1, <2>5 DEF IdOf
    <3>2. drain' # 0 /\ frames'[drain'].type = "complete" /\ frames'[drain'].id = frames'[j].id
      BY <1>1, <1>2, <2>5, <3>1 DEF IdOf
    <3> QED BY <3>2 DEF CompletedBy, IdOf
  <2>6. CASE /\ ops[j].stage = "pulling"
             /\ \E g \in Routed : Waiting(g) /\ frames[g].origin = "retire" /\ IdOf(g) = IdOf(j)
    <3>1. PICK g \in Routed : Waiting(g) /\ frames[g].origin = "retire" /\ IdOf(g) = IdOf(j)
      BY <2>6
    <3>2. g # f
      BY <1>4, <2>1, <3>1 DEF IdOf
    <3>3. g \in Routed' /\ frames'[g].state = "waiting" /\ frames'[g].origin = "retire" /\ frames'[g].id = frames'[j].id
          /\ ops'[j].stage = "pulling"
      BY <1>2, <2>2, <2>6, <3>1, <3>2 DEF Waiting, IdOf
    <3> QED BY <3>3 DEF CompletedBy, IdOf, Waiting
  <2> QED BY <2>4, <2>5, <2>6 DEF CompletedBy
<1>8. \A g \in Routed : Generation(g)' /\ Waiting(g)' => ~frames'[g].completed
  BY <1>2, <1>3, <1>5 DEF RetireInv
<1>9. \A e, g \in Routed : Waiting(e)' /\ frames'[e].origin = "retire" /\ Waiting(g)'
                           /\ Generation(g)' /\ frames'[e].id = frames'[g].id => e < g
  BY <1>2, <1>3, <1>5 DEF RetireInv, IdOf
<1>10. ASSUME NEW g \in Routed, Waiting(g)', frames'[g].origin = "retire"
       PROVE  \/ entry'[frames'[g].id].kind = "absent"
              \/ entry'[frames'[g].id].kind = "iterator" /\ ops'[entry'[frames'[g].id].op].retired
  <2>1. g # f /\ Waiting(g) /\ frames[g].origin = "retire" /\ frames'[g].id = frames[g].id
    BY <1>2, <1>5, <1>10
  <2>2. CASE frames[g].id = d
    BY <2>1, <2>2 DEF IdOf
  <2>3. CASE frames[g].id # d
    <3>1. PICK e \in Ids : e = frames[g].id
      BY <1>6
    <3>2. entry[e].kind = "absent" \/ (entry[e].kind = "iterator" /\ ops[entry[e].op].retired)
      BY <2>1, <3>1 DEF RetireInv, IdOf
    <3>3. entry[e].kind = "iterator" => entry[e].op \in FrameId /\ entry[e].op # f
      <4>1. entry[e].op \in {0} \cup Routed
        BY TypeParts
      <4>2. entry[e].kind = "iterator" => entry[e].op # 0 /\ frames[entry[e].op].id = e
        BY DEF StageInv, IdOf
      <4> QED BY <1>4, <1>6, <2>3, <3>1, <4>1, <4>2
    <3>4. entry'[e] = entry[e]
      BY <2>3, <3>1
    <3> QED BY <2>1, <3>1, <3>2, <3>3, <3>4
  <2> QED BY <2>2, <2>3
<1> QED BY <1>2, <1>7, <1>8, <1>9, <1>10 DEF RetireInv, IdOf

\* The parts that the three outcomes share.
LEMMA DeliveredParts ==
  ASSUME TypeOK, StageInv, EventsInv, CountInv, NEW f \in Routed, NEW x, Delivered(f, x),
         socket' \in {socket, "stopping"}, UNCHANGED <<clientFrames, received, pushed, taken, sent>>,
         entry' \in [Ids -> [kind : {"absent", "null", "iterator"}, op : {0} \cup Routed]],
         operations' \in [Ids -> {0} \cup Routed], variables' \subseteq Ids, untracked' \in BOOLEAN,
         ops' \in [FrameId -> OpType],
         \A j \in FrameId : \/ ops'[j] = ops[j]
                            \/ ops'[j].stage \notin {"none", "starting"}
                            \/ ops[j].stage = "none" /\ ops'[j] = [NoOp EXCEPT !.stage = "starting"],
         \A j \in FrameId : ops'[j].reservation = "active" => ops[j].reservation = "active",
         \A j \in FrameId : j # f => ops'[j].stage = ops[j].stage,
         ops'[f].stage # "none" <=> frames[f].type = "subscribe",
         \A j \in FrameId : Fades(ops'[j], ops[j], socket' = "open"),
         \A e \in Ids : /\ entry'[e] \in {entry[e], Absent, [kind |-> "null", op |-> 0]}
                        /\ operations'[e] \in {0, operations[e]}
  PROVE  TypeOK' /\ StageInv' /\ EventsInv' /\ CountInv'
<1>1. /\ Handed(f, x) /\ x.state = "delivered" /\ drain' \in {0} \cup Routed'
      /\ lanes' \in [Ids -> [tail : {0} \cup Routed', pending : 0..Len(frames'), current : {0} \cup Routed']]
  BY DEF Delivered
<1>2. /\ SameFrames /\ Retires' = Retires /\ Routed' = Routed /\ Routed \subseteq FrameId
      /\ frames' \in Seq(FrameType) /\ Len(frames') = Len(frames)
  BY ZenonT(40), <1>1, HandedSame, FrameRecord DEF Handed
<1>3. \A g \in Routed : frames'[g].type = frames[g].type /\ (g # f => frames'[g].state = frames[g].state)
  BY <1>1, HandedSame
<1>4. frames'[f].state = "delivered"
  BY <1>1 DEF Handed
<1>5. TypeOK'
  <2>1. /\ socket' \in {"open", "stopping", "closed"} /\ Len(frames) \in 0..(MaxFrames + MaxEvents)
        /\ clientFrames \in 0..MaxFrames
    BY TypeParts
  <2> QED BY <1>1, <1>2, <2>1, FramesTypes
<1>6. StageInv'
  <2>1. \A j \in FrameId : ops[j].stage # "none" <=>
           j \in Routed /\ frames[j].type = "subscribe" /\ frames[j].state = "delivered"
    BY DEF StageInv
  <2>2. \A j \in FrameId : ops'[j].stage # "none" <=>
           j \in Routed' /\ frames'[j].type = "subscribe" /\ frames'[j].state = "delivered"
    <3> SUFFICES ASSUME NEW j \in FrameId
                 PROVE  ops'[j].stage # "none" <=>
                          j \in Routed' /\ frames'[j].type = "subscribe" /\ frames'[j].state = "delivered"
      OBVIOUS
    <3>1. CASE j = f
      BY <1>2, <1>3, <1>4, <3>1
    <3>2. CASE j # f
      BY <1>2, <1>3, <2>1, <3>2
    <3> QED BY <3>1, <3>2
  <2>3. socket' = "closed" => socket = "closed"
    OBVIOUS
  <2> QED BY <1>2, <2>2, <2>3, FramesStage
<1>7. EventsInv' /\ Hand' \subseteq Hand
  <2>1. socket' = "open" => socket = "open"
    OBVIOUS
  <2> QED BY <2>1, AllFade
<1>8. CountInv'
  <2>1. Len(frames) \in Nat /\ clientFrames \in Nat
    BY FrameRecord, Bounds DEF TypeOK
  <2> QED BY <1>2, <1>7, <2>1, CountKeeps
<1> QED BY <1>5, <1>6, <1>7, <1>8

\* It is a complete frame.
LEMMA DeliverCompleteKeeps ==
  ASSUME OperationsInv, NEW f \in Routed, Deliver(f), frames[f].type = "complete",
         AdapterCompleted(IdOf(f)), ops' = OpsCompleted(IdOf(f)), UNCHANGED <<socket, untracked>>
  PROVE  OperationsInv'
<1>1. /\ TypeOK /\ OrderInv /\ LaneInv /\ GenerationInv /\ StageInv /\ EventsInv /\ CountInv
      /\ untracked \/ AdapterInv
      /\ untracked \/ socket # "open" \/ RetireInv
  BY DEF OperationsInv
<1>2. PICK d : d = IdOf(f)
  OBVIOUS
<1>3. d \in Ids
  BY <1>1, <1>2, FrameRecord
<1>4. /\ ops' \in [FrameId -> OpType]
      /\ \A j \in FrameId : /\ ops'[j].stage = ops[j].stage /\ ops'[j].retired = ops[j].retired
                            /\ ops'[j].reservation = "active" => ops[j].reservation = "active"
                            /\ ops'[j] = ops[j] \/ ops[j].stage \notin {"none", "starting"}
                            /\ ops[j].closed => ops'[j].closed
                            /\ ~(entry[d].kind = "iterator" /\ j = entry[d].op) => ops'[j] = ops[j]
                            /\ entry[d].kind = "iterator" /\ j = entry[d].op => ops'[j].closed /\ ops'[j].chan = "closed"
                            /\ \A open : Fades(ops'[j], ops[j], open)
  <2>1. PICK q : q = OpsCompleted(d)
    OBVIOUS
  <2>2. /\ q \in [FrameId -> OpType]
        /\ \A j \in FrameId : /\ q[j].stage = ops[j].stage /\ q[j].retired = ops[j].retired
                              /\ q[j].reservation = "active" => ops[j].reservation = "active"
                              /\ q[j] = ops[j] \/ ops[j].stage \notin {"none", "starting"}
                              /\ ops[j].closed => q[j].closed
                              /\ ~(entry[d].kind = "iterator" /\ j = entry[d].op) => q[j] = ops[j]
                              /\ entry[d].kind = "iterator" /\ j = entry[d].op => q[j].closed /\ q[j].chan = "closed"
                              /\ \A open : Fades(q[j], ops[j], open)
    BY <1>1, <1>3, <2>1, CompletedFacts
  <2>3. ops' = q
    BY <1>2, <2>1
  <2> QED BY <2>2, <2>3
<1>5. \A j \in FrameId : ops[j].stage = "ended" => ops'[j].stage = "ended"
  BY <1>4
<1>6. PICK x : Delivered(f, x)
  BY <1>5, DeliveredFacts
<1>7. /\ f \in FrameId /\ ops[f].stage = "none" /\ socket = "open"
      /\ UNCHANGED <<clientFrames, received, pushed, taken, sent>>
  BY <1>5, DeliveredFacts
<1>8. /\ entry' \in [Ids -> [kind : {"absent", "null", "iterator"}, op : {0} \cup Routed]]
      /\ operations' \in [Ids -> {0} \cup Routed] /\ variables' \subseteq Ids
      /\ \A e \in Ids : entry'[e] \in {entry[e], Absent} /\ operations'[e] \in {0, operations[e]}
      /\ \A e \in Ids : e # d => entry'[e] = entry[e]
  BY <1>1, <1>2, <1>3, AdapterTypes
<1>9. TypeOK' /\ StageInv' /\ EventsInv' /\ CountInv'
  <2>1. untracked' \in BOOLEAN /\ socket' \in {socket, "stopping"}
    BY <1>1, TypeParts
  <2>2. ops'[f].stage # "none" <=> frames[f].type = "subscribe"
    BY <1>4, <1>7
  <2>3. \A j \in FrameId : ops'[j] = ops[j] \/ ops'[j].stage \notin {"none", "starting"}
    BY <1>4
  <2>4. \A j \in FrameId : /\ ops'[j].reservation = "active" => ops[j].reservation = "active"
                           /\ ops'[j].stage = ops[j].stage /\ Fades(ops'[j], ops[j], socket' = "open")
    BY <1>4
  <2>5. \A e \in Ids : entry'[e] \in {entry[e], Absent, [kind |-> "null", op |-> 0]} /\ operations'[e] \in {0, operations[e]}
    BY <1>8
  <2> QED BY <1>1, <1>4, <1>6, <1>7, <1>8, <2>1, <2>2, <2>3, <2>4, <2>5, DeliveredParts
<1>10. SameFrames /\ Routed' = Routed /\ Routed \subseteq FrameId
  BY <1>1, <1>6, HandedSame, FrameRecord DEF Delivered
<1>11. untracked' \/ AdapterInv'
  <2>1. \A j \in FrameId : Goes(ops'[j], OpsCompleted(d)[j])
    BY <1>2, GoesSame
  <2> QED BY <1>1, <1>2, <1>3, <1>10, <2>1, ReturnKeepsAdapter
<1>12. untracked' \/ RetireInv'
  <2> SUFFICES ASSUME ~untracked PROVE RetireInv'
    OBVIOUS
  <2>1. AdapterInv /\ RetireInv
    BY <1>1, <1>7
  <2>2. entry'[d].kind = "absent"
    BY <1>1, <1>2, <1>3, TypeParts DEF AdapterCompleted, Absent
  <2>3. \A j \in FrameId : /\ ~ops'[j].closed => ~ops[j].closed
                           /\ ops'[j].chan = "open" => ops[j].chan = "open"
    BY <1>4
  <2>4. ASSUME NEW j \in Routed, Served(j)', IdOf(j) = d PROVE FALSE
    <3>1. IdOf(j)' = d /\ j \in FrameId
      BY <1>10, <2>4 DEF SameFrames, IdOf
    <3>2. Live(j)'
      BY <2>2, <2>4, <3>1 DEF Served
    <3>3. Live(j)
      BY <1>4, <2>3, <3>1, <3>2 DEF Live
    <3>4. entry[d] = [kind |-> "iterator", op |-> j]
      BY <2>1, <2>4, <3>3 DEF AdapterInv
    <3>5. ops'[j].closed
      BY <1>4, <3>1, <3>4
    <3> QED BY <3>2, <3>5 DEF Live
  <2> QED BY <1>1, <1>2, <1>3, <1>4, <1>6, <1>8, <2>1, <2>2, <2>3, <2>4, DeliveredRetire
<1>13. OrderInv' /\ LaneInv' /\ GenerationInv'
  BY <1>6 DEF Delivered
<1> QED BY <1>9, <1>11, <1>12, <1>13 DEF OperationsInv

\* It subscribes to an id that has an entry.
LEMMA DeliverRefusedKeeps ==
  ASSUME OperationsInv, NEW f \in Routed, Deliver(f), frames[f].type = "subscribe",
         socket' = "stopping", ops' = [ops EXCEPT ![f].stage = "ended"], UNCHANGED <<adapterVars, untracked>>
  PROVE  OperationsInv'
<1>1. /\ TypeOK /\ OrderInv /\ LaneInv /\ GenerationInv /\ StageInv /\ EventsInv /\ CountInv
      /\ untracked \/ AdapterInv
  BY DEF OperationsInv
<1>2. ops \in [FrameId -> OpType] /\ Routed \subseteq FrameId /\ f \in FrameId
  BY <1>1, FrameRecord
<1>3. \A j \in FrameId : ops[j].stage = "ended" => ops'[j].stage = "ended"
  BY <1>2
<1>4. PICK x : Delivered(f, x)
  BY <1>3, DeliveredFacts
<1>5. /\ ops[f] = NoOp /\ UNCHANGED <<clientFrames, received, pushed, taken, sent>>
  BY <1>3, DeliveredFacts
<1>6. PICK o : o = [NoOp EXCEPT !.stage = "ended"]
  OBVIOUS
<1>7. /\ o \in OpType /\ o.stage = "ended" /\ o.reservation = "none" /\ o.queued = 0
      /\ o.closed = NoOp.closed /\ o.chan = NoOp.chan
  BY <1>6, NoOpType DEF OpType
<1>8. ops' = [ops EXCEPT ![f] = o]
  BY <1>2, <1>5, <1>6
<1>9. ops'[f] = o /\ (\A j \in FrameId : j # f => ops'[j] = ops[j]) /\ ops' \in [FrameId -> OpType]
  BY <1>2, <1>7, <1>8
<1>10. \A j \in FrameId : Fades(ops'[j], ops[j], socket' = "open")
  <2>1. Fades(o, NoOp, FALSE)
    BY <1>7 DEF Fades
  <2>2. Fades(ops'[f], ops[f], socket' = "open")
    BY <1>5, <1>9, <2>1
  <2> QED BY <1>9, <2>2, FadesSame
<1>11. TypeOK' /\ StageInv' /\ EventsInv' /\ CountInv'
  <2>1. /\ entry' \in [Ids -> [kind : {"absent", "null", "iterator"}, op : {0} \cup Routed]]
        /\ operations' \in [Ids -> {0} \cup Routed] /\ variables' \subseteq Ids /\ untracked' \in BOOLEAN
        /\ entry' = entry /\ operations' = operations
    BY <1>1, TypeParts DEF adapterVars
  <2>2. ops'[f].stage # "none" <=> frames[f].type = "subscribe"
    BY <1>7, <1>9
  <2>3. \A j \in FrameId : ops'[j] = ops[j] \/ ops'[j].stage \notin {"none", "starting"}
    BY <1>7, <1>9
  <2>4. \A j \in FrameId : /\ ops'[j].reservation = "active" => ops[j].reservation = "active"
                           /\ j # f => ops'[j].stage = ops[j].stage
    BY <1>7, <1>9
  <2> QED BY <1>1, <1>4, <1>5, <1>9, <1>10, <2>1, <2>2, <2>3, <2>4, DeliveredParts
<1>12. SameFrames /\ Routed' = Routed
  BY <1>1, <1>4, HandedSame DEF Delivered
<1>13. untracked' \/ AdapterInv'
  <2>1. Goes(o, NoOp)
    BY <1>7, NoOpType DEF Goes, Active, Over
  <2>2. \A j \in FrameId : Goes(ops'[j], ops[j])
    BY <1>5, <1>9, <2>1, GoesSame
  <2> QED BY <1>1, <1>2, <1>12, <2>2, GoingKeepsAdapter
<1>14. OrderInv' /\ LaneInv' /\ GenerationInv'
  BY <1>4 DEF Delivered
<1> QED BY <1>11, <1>13, <1>14 DEF OperationsInv

\* It starts an operation.
LEMMA DeliverStartsKeeps ==
  ASSUME OperationsInv, NEW f \in Routed, Deliver(f), frames[f].type = "subscribe",
         entry[IdOf(f)].kind = "absent", entry' = [entry EXCEPT ![IdOf(f)] = [kind |-> "null", op |-> 0]],
         variables' = variables \cup {IdOf(f)}, ops' = [ops EXCEPT ![f].stage = "starting"],
         untracked' = (untracked \/ frames[f].duplicate), UNCHANGED <<socket, operations>>
  PROVE  OperationsInv'
<1>1. /\ TypeOK /\ OrderInv /\ LaneInv /\ GenerationInv /\ StageInv /\ EventsInv /\ CountInv
      /\ untracked \/ AdapterInv
      /\ untracked \/ socket # "open" \/ RetireInv
  BY DEF OperationsInv
<1>2. ops \in [FrameId -> OpType] /\ Routed \subseteq FrameId /\ f \in FrameId
      /\ frames[f].duplicate \in BOOLEAN /\ \A g \in Routed : g \in Nat
  BY <1>1, FrameRecord DEF FrameType
<1>3. PICK d : d = IdOf(f)
  OBVIOUS
<1>4. \A j \in FrameId : ops[j].stage = "ended" => ops'[j].stage = "ended"
  <2>1. ops[f].stage # "ended"
    BY <1>1, <1>2 DEF Deliver, Ready, StageInv
  <2> QED BY <1>2, <2>1
<1>5. PICK x : Delivered(f, x)
  BY <1>4, DeliveredFacts
<1>6. /\ d \in Ids /\ ops[f] = NoOp /\ ops[f].stage = "none" /\ socket = "open"
      /\ UNCHANGED <<clientFrames, received, pushed, taken, sent>>
      /\ \A g \in Routed : Waiting(g) /\ IdOf(g) = d => g >= f
      /\ Generation(f) => /\ Unsettled(f)
                          /\ \A e \in Routed : e < f /\ IdOf(e) = d => ~Unsettled(e)
  BY <1>3, <1>4, DeliveredFacts
<1>7. Waiting(f)
  BY <1>5 DEF Delivered, Waiting
<1>8. PICK o : o = [NoOp EXCEPT !.stage = "starting"]
  OBVIOUS
<1>9. /\ o \in OpType /\ o.stage = "starting" /\ o.reservation = "none" /\ o.queued = 0
      /\ o.closed = NoOp.closed /\ o.chan = NoOp.chan
  BY <1>8, NoOpType DEF OpType
<1>10. ops' = [ops EXCEPT ![f] = o]
  BY <1>2, <1>6, <1>8
<1>11. ops'[f] = o /\ (\A j \in FrameId : j # f => ops'[j] = ops[j]) /\ ops' \in [FrameId -> OpType]
  BY <1>2, <1>9, <1>10
<1>12. \A j \in FrameId : Fades(ops'[j], ops[j], socket' = "open")
  <2>1. \A open : Fades(o, NoOp, open)
    BY <1>9, NoOpType DEF Fades
  <2>2. Fades(ops'[f], ops[f], socket' = "open")
    BY <1>6, <1>11, <2>1
  <2> QED BY <1>11, <2>2, FadesSame
<1>13. /\ entry' \in [Ids -> [kind : {"absent", "null", "iterator"}, op : {0} \cup Routed]]
       /\ entry'[d] = [kind |-> "null", op |-> 0] /\ \A e \in Ids : e # d => entry'[e] = entry[e]
  <2>1. entry \in [Ids -> [kind : {"absent", "null", "iterator"}, op : {0} \cup Routed]]
    BY <1>1, TypeParts
  <2> QED BY <1>3, <1>6, <2>1
<1>14. TypeOK' /\ StageInv' /\ EventsInv' /\ CountInv'
  <2>1. /\ operations' \in [Ids -> {0} \cup Routed] /\ variables' \subseteq Ids /\ untracked' \in BOOLEAN
        /\ socket' \in {socket, "stopping"}
    BY <1>1, <1>2, <1>3, <1>6, TypeParts
  <2>2. ops'[f].stage # "none" <=> frames[f].type = "subscribe"
    BY <1>9, <1>11
  <2>3. \A j \in FrameId : ops'[j] = ops[j] \/ (ops[j].stage = "none" /\ ops'[j] = [NoOp EXCEPT !.stage = "starting"])
    BY <1>6, <1>8, <1>11
  <2>4. \A j \in FrameId : /\ ops'[j].reservation = "active" => ops[j].reservation = "active"
                           /\ j # f => ops'[j].stage = ops[j].stage
    BY <1>9, <1>11
  <2>5. \A e \in Ids : entry'[e] \in {entry[e], Absent, [kind |-> "null", op |-> 0]} /\ operations'[e] \in {0, operations[e]}
    BY <1>13
  <2> QED BY <1>1, <1>5, <1>6, <1>11, <1>12, <1>13, <2>1, <2>2, <2>3, <2>4, <2>5, DeliveredParts
<1>15. SameFrames /\ Routed' = Routed /\ frames'[f].id = d /\ \A g \in Routed : frames'[g].id = frames[g].id
  BY <1>1, <1>3, <1>5, HandedSame DEF Delivered, IdOf
<1>16. ASSUME ~untracked' PROVE AdapterInv /\ RetireInv /\ Generation(f) /\ \A i \in Routed : IdOf(i) = d => ~Running(i)
  <2>1. AdapterInv /\ RetireInv /\ Generation(f)
    BY <1>1, <1>6, <1>16 DEF Generation
  <2>2. ASSUME NEW i \in Routed, IdOf(i) = d, Running(i) PROVE FALSE
    <3>1. Unsettled(i) /\ frames[i].state = "delivered"
      BY <1>1, <2>1, <2>2, OneRuns
    <3>2. i # f /\ ~(i < f)
      BY <1>6, <1>7, <2>1, <2>2, <3>1 DEF Waiting
    <3>3. f < i
      BY <1>2, <3>2
    <3> QED BY <1>1, <1>3, <1>7, <2>2, <3>1, <3>3 DEF OrderInv
  <2> QED BY <2>1, <2>2
<1>17. untracked' \/ AdapterInv'
  BY <1>1, <1>3, <1>6, <1>15, <1>16, StartKeepsAdapter
<1>18. untracked' \/ RetireInv'
  <2> SUFFICES ASSUME ~untracked' PROVE RetireInv'
    OBVIOUS
  <2>1. \A j \in FrameId : j # f => /\ ops'[j].stage = ops[j].stage /\ ops'[j].retired = ops[j].retired
                                    /\ ~ops'[j].closed => ~ops[j].closed
                                    /\ ops'[j].chan = "open" => ops[j].chan = "open"
    BY <1>11
  <2>2. ASSUME NEW j \in Routed, Served(j)', IdOf(j) = d PROVE ~frames[j].completed
    <3>1. CASE j = f
      BY <1>7, <1>16, <3>1 DEF RetireInv
    <3>2. CASE j # f
      <4>1. ops[j].stage \in {"pulling", "reading", "starting"}
        BY <1>2, <1>11, <2>2, <3>2 DEF Served, Live
      <4>2. Running(j)
        BY <4>1 DEF Running
      <4> QED BY <1>16, <2>2, <4>2
    <3> QED BY <3>1, <3>2
  <2>3. ASSUME NEW g \in Routed, g # f, Waiting(g), frames[g].origin = "retire", IdOf(g) = d
        PROVE  entry'[d].kind = "absent"
    <3>1. g < f
      BY <1>3, <1>7, <1>16, <2>3 DEF RetireInv
    <3>2. g >= f
      BY <1>6, <2>3
    <3> QED BY <1>2, <3>1, <3>2
  <2> QED BY <1>1, <1>3, <1>5, <1>6, <1>13, <1>16, <2>1, <2>2, <2>3, DeliveredRetire
<1>19. OrderInv' /\ LaneInv' /\ GenerationInv'
  BY <1>5 DEF Delivered
<1> QED BY <1>14, <1>17, <1>18, <1>19 DEF OperationsInv

\* Any frame that is handed to graphql-ws.
LEMMA DeliverKeeps ==
  ASSUME OperationsInv, NEW f \in Routed, Deliver(f)
  PROVE  OperationsInv'
<1>1. PICK d : d = IdOf(f)
  OBVIOUS
<1>2. \/ /\ frames[f].type = "complete"
         /\ AdapterCompleted(d)
         /\ ops' = OpsCompleted(d)
         /\ UNCHANGED <<socket, untracked>>
      \/ /\ frames[f].type = "subscribe"
         /\ socket' = "stopping"
         /\ ops' = [ops EXCEPT ![f].stage = "ended"]
         /\ UNCHANGED <<adapterVars, untracked>>
      \/ /\ frames[f].type = "subscribe" /\ entry[d].kind = "absent"
         /\ entry' = [entry EXCEPT ![d] = [kind |-> "null", op |-> 0]]
         /\ variables' = variables \cup {d}
         /\ ops' = [ops EXCEPT ![f].stage = "starting"]
         /\ untracked' = (untracked \/ frames[f].duplicate)
         /\ UNCHANGED <<socket, operations>>
  BY <1>1 DEF Deliver
<1> QED BY <1>1, <1>2, DeliverCompleteKeeps, DeliverRefusedKeeps, DeliverStartsKeeps

-----------------------------------------------------------------------------
\* The invariant holds in every state.

\* The first state.
LEMMA InitInv == Init => OperationsInv
<1> SUFFICES ASSUME Init PROVE OperationsInv
  OBVIOUS
<1>1. /\ socket = "open" /\ frames = <<>> /\ clientFrames = 0 /\ drain = 0
      /\ lanes = [d \in Ids |-> NoLane] /\ entry = [d \in Ids |-> Absent]
      /\ operations = [d \in Ids |-> 0] /\ variables = {}
      /\ ops = [i \in FrameId |-> NoOp] /\ received = 0 /\ untracked = FALSE
      /\ pushed = [i \in FrameId |-> {}] /\ taken = [i \in FrameId |-> <<>>]
      /\ sent = [i \in FrameId |-> <<>>]
  BY DEF Init
<1>2. frames \in Seq(FrameType) /\ Len(frames) = 0 /\ Routed = {}
  BY <1>1 DEF Routed
<1>3. TypeOK
  <2>1. 0 \in 0..(MaxFrames + MaxEvents) /\ 0 \in 0..MaxFrames /\ 0 \in 0..MaxEvents /\ 0 \in 0..0
    BY Bounds
  <2>2. lanes \in [Ids -> [tail : {0} \cup Routed, pending : 0..Len(frames), current : {0} \cup Routed]]
    BY <1>1, <1>2, <2>1 DEF NoLane
  <2>3. entry \in [Ids -> [kind : {"absent", "null", "iterator"}, op : {0} \cup Routed]]
        /\ operations \in [Ids -> {0} \cup Routed] /\ ops \in [FrameId -> OpType]
    BY <1>1, NoOpType DEF Absent
  <2> QED BY <1>1, <1>2, <2>1, <2>2, <2>3, TypeParts
<1>4. OrderInv /\ GenerationInv
  BY <1>1, <1>2 DEF OrderInv, GenerationInv
<1>5. LaneInv
  <2>1. \A d \in Ids : Cardinality(WaitingOf(d)) = 0
    BY <1>2, FS_EmptySet DEF WaitingOf
  <2> QED BY <1>1, <2>1 DEF LaneInv, NoLane
<1>6. StageInv
  BY <1>1, <1>2, NoOpType DEF StageInv, Absent
<1>7. EventsInv
  <2>1. \A i \in FrameId : ops[i].stage = "none" /\ ops[i].queued = 0
    BY <1>1, NoOpType
  <2>2. \A i \in FrameId : EventInv(ops[i], {}, <<>>, <<>>, 0, socket = "open")
    BY <2>1 DEF EventInv, Increasing
  <2> QED BY <1>1, <2>2 DEF EventsInv
<1>8. CountInv
  <2>1. Retires = {} /\ Hand = {}
    BY <1>1, <1>2 DEF Retires, Hand
  <2> QED BY <1>1, <1>2, <2>1, FS_EmptySet DEF CountInv
<1>9. AdapterInv
  BY <1>1, <1>2 DEF AdapterInv, Absent
<1>10. RetireInv
  BY <1>2 DEF RetireInv
<1> QED BY <1>3, <1>4, <1>5, <1>6, <1>7, <1>8, <1>9, <1>10 DEF OperationsInv

\* No change.
LEMMA StutterKeeps ==
  ASSUME OperationsInv, UNCHANGED vars
  PROVE  OperationsInv'
<1>1. UNCHANGED <<socket, laneVars, adapterVars, ops, received, untracked, pushed, taken, sent>>
  BY DEF vars, historyVars
<1>2. UNCHANGED <<frames, clientFrames, entry, operations, variables>> /\ Routed' = Routed
  BY <1>1 DEF laneVars, adapterVars, Routed
<1>3. TypeOK /\ StageInv /\ EventsInv /\ CountInv
  BY DEF OperationsInv
<1>4. TypeOK'
  BY <1>1, <1>2, <1>3, OpsTypes, TypeParts
<1>5. StageInv'
  BY <1>1, <1>2, <1>3 DEF StageInv, IdOf
<1>6. EventsInv' /\ Hand' \subseteq Hand
  BY <1>1, <1>3, FadesSame, AllFade
<1>7. CountInv'
  <2>1. Retires' = Retires /\ Len(frames) \in Nat /\ clientFrames \in Nat
    BY <1>2, <1>3, UnchangedFrames, SameRetires, FrameRecord, Bounds DEF TypeOK
  <2> QED BY <1>1, <1>2, <1>3, <1>6, <2>1, CountKeeps
<1>8. AdapterInv => AdapterInv'
  BY <1>1, <1>2 DEF AdapterInv, Running, Live, Generation, IdOf
<1>9. RetireInv => RetireInv'
  BY <1>1, <1>2 DEF RetireInv, Served, Live, CompletedBy, Waiting, Generation, IdOf, laneVars
<1> QED BY <1>1, <1>4, <1>5, <1>6, <1>7, <1>8, <1>9, OpsStep

\* Every step keeps the invariant.
LEMMA NextKeeps == OperationsInv /\ [Next]_vars => OperationsInv'
<1> SUFFICES ASSUME OperationsInv, [Next]_vars PROVE OperationsInv'
  OBVIOUS
<1>1. CASE \E d \in Ids : ClientFrame(d)
  BY <1>1, ClientFrameKeeps
<1>2. ASSUME NEW f \in FrameId, FrameStep(f) PROVE OperationsInv'
  BY <1>2, SettleKeeps, DropKeeps, DeliverKeeps DEF FrameStep
<1>3. ASSUME NEW i \in FrameId, OperationStep(i) PROVE OperationsInv'
  <2>1. i \in Routed /\ (SubscribeEnds(i) \/ LoopEnds(i) \/ ReadEnds(i))
    BY <1>3 DEF OperationStep
  <2>2. CASE SubscribeEnds(i)
    BY <2>1, <2>2, SubscribeFailsKeeps, SubscribedKeeps DEF SubscribeEnds
  <2>3. CASE LoopEnds(i)
    BY <2>1, <2>3, LoopEndsKeeps
  <2>4. CASE ReadEnds(i)
    BY <2>1, <2>4, PullKeeps, ReadFailsKeeps, RetireKeeps DEF ReadEnds
  <2> QED BY <2>1, <2>2, <2>3, <2>4
<1>4. ASSUME NEW i \in FrameId, Push(i) PROVE OperationsInv'
  BY <1>4, PushKeeps
<1>5. CASE Stop
  BY <1>5, StopKeeps
<1>6. CASE Close
  BY <1>6, CloseKeeps
<1>7. CASE UNCHANGED vars
  BY <1>7, StutterKeeps
<1> QED BY <1>1, <1>2, <1>3, <1>4, <1>5, <1>6, <1>7 DEF Next

\* The inductive invariant: what ties the frames, lanes and generations of the
\* sequencer to the entries, operations and events of graphql-ws and the
\* controller, whatever the ids, the frames and the events.  A subscribe that throws
\* leaves its variables, so they belong to running operations only while the socket
\* is open.
THEOREM OperationsInvariant == Spec => []OperationsInv
<1>1. Init => OperationsInv
  BY InitInv
<1>2. OperationsInv /\ [Next]_vars => OperationsInv'
  BY NextKeeps
<1> QED BY <1>1, <1>2, PTL DEF Spec

\* The variables of a connection keep their types: a frame number of a lane, an
\* entry or adapter.operations is that of a frame that was routed.
THEOREM OperationTypes == Spec => []TypeOK
<1>1. OperationsInv => TypeOK
  BY DEF OperationsInv
<1> QED BY <1>1, OperationsInvariant, PTL

-----------------------------------------------------------------------------
\* What the invariant says of operations.

\* Operations of an id do not meet.
LEMMA SerialHolds == ASSUME OperationsInv, ~untracked PROVE Serial
<1>1. TypeOK /\ OrderInv /\ GenerationInv /\ StageInv /\ AdapterInv
  BY DEF OperationsInv
<1>2. \A i, j \in Routed : Running(i) /\ Running(j) /\ IdOf(i) = IdOf(j) => i = j
  BY <1>1, OneRuns
<1>3. \A i \in Routed : Live(i) => /\ entry[IdOf(i)] = [kind |-> "iterator", op |-> i]
                                   /\ operations[IdOf(i)] = i
  BY <1>1 DEF AdapterInv
<1>4. ASSUME NEW d \in Ids, entry[d].kind # "absent" PROVE \E i \in Routed : Running(i) /\ IdOf(i) = d
  <2>1. entry[d].kind \in {"absent", "null", "iterator"} /\ entry[d].op \in {0} \cup Routed
    BY <1>1, TypeParts
  <2>2. CASE entry[d].kind = "null"
    BY <1>1, <2>2 DEF AdapterInv, Running
  <2>3. CASE entry[d].kind = "iterator"
    <3>1. entry[d].op # 0 /\ IdOf(entry[d].op) = d /\ Running(entry[d].op)
      BY <1>1, <2>3 DEF StageInv, AdapterInv
    <3> QED BY <2>1, <3>1
  <2> QED BY <1>4, <2>1, <2>2, <2>3
<1>5. \A f, g \in Routed : f < g /\ IdOf(f) = IdOf(g) /\ frames[g].state = "delivered"
                             => frames[f].state # "waiting"
  BY <1>1 DEF OrderInv, Waiting
<1> QED BY <1>2, <1>3, <1>4, <1>5 DEF Serial

\* With nothing waiting or running, no lane has a generation and no id an owner.
LEMMA NothingLeftHolds == ASSUME OperationsInv, ~untracked PROVE NothingLeft
<1>1. TypeOK /\ OrderInv /\ LaneInv /\ GenerationInv /\ StageInv /\ AdapterInv
  BY DEF OperationsInv
<1>2. \A i \in Routed : ops[i].reservation = "active" => Running(i)
  BY <1>1 DEF AdapterInv, Live, Running
<1>3. ASSUME Quiet
      PROVE  /\ lanes = [d \in Ids |-> NoLane] /\ drain = 0 /\ entry = [d \in Ids |-> Absent]
             /\ operations = [d \in Ids |-> 0] /\ (socket = "open" => variables = {})
  <2>1. \A f \in Routed : ~Waiting(f)
    BY <1>3 DEF Quiet, Waiting
  <2>2. \A i \in Routed : ~Running(i)
    BY <1>3 DEF Quiet
  <2>3. \A i \in Routed : ~Unsettled(i)
    <3> SUFFICES ASSUME NEW i \in Routed, Unsettled(i) PROVE FALSE
      OBVIOUS
    <3>1. i \in FrameId /\ frames[i].state \in {"waiting", "delivered", "dropped"}
      BY <1>1, FrameRecord DEF FrameType
    <3>2. frames[i].type = "subscribe" /\ ~frames[i].duplicate /\ ~frames[i].settled
      BY DEF Unsettled, Generation
    <3>3. frames[i].state = "delivered"
      BY <1>1, <2>1, <3>1, <3>2 DEF GenerationInv, Generation, Waiting
    <3>4. ops[i].stage # "none"
      BY <1>1, <3>1, <3>2, <3>3 DEF StageInv
    <3> QED BY <1>3, <2>2, <3>2, <3>4 DEF Quiet, Running
  <2>4. lanes = [d \in Ids |-> NoLane]
    <3>1. ASSUME NEW d \in Ids PROVE lanes[d] = NoLane
      <4>1. lanes[d].current = 0
        BY <1>1, <2>3, TypeParts DEF LaneInv
      <4>2. WaitingOf(d) = {}
        BY <2>1 DEF WaitingOf
      <4>3. lanes[d].pending = 0
        BY <1>1, <4>2, FS_EmptySet DEF LaneInv
      <4> QED BY <1>1, <4>1, <4>3 DEF LaneInv
    <3>2. lanes \in [Ids -> [tail : {0} \cup Routed, pending : 0..Len(frames), current : {0} \cup Routed]]
      BY <1>1, TypeParts
    <3> QED BY <3>1, <3>2
  <2>5. drain = 0
    BY <1>1, <2>1, TypeParts DEF OrderInv
  <2>6. entry = [d \in Ids |-> Absent]
    <3>1. ASSUME NEW d \in Ids PROVE entry[d] = Absent
      <4>1. entry[d] \in [kind : {"absent", "null", "iterator"}, op : {0} \cup Routed]
        BY <1>1, TypeParts
      <4>2. entry[d].kind = "absent"
        BY <2>2, <4>1, SerialHolds DEF Serial
      <4>3. entry[d].op = 0
        BY <1>1, <4>2 DEF StageInv
      <4> QED BY <4>1, <4>2, <4>3 DEF Absent
    <3>2. entry \in [Ids -> [kind : {"absent", "null", "iterator"}, op : {0} \cup Routed]]
      BY <1>1, TypeParts
    <3> QED BY <3>1, <3>2
  <2>7. operations = [d \in Ids |-> 0]
    <3>1. operations \in [Ids -> {0} \cup Routed]
      BY <1>1, TypeParts
    <3>2. \A d \in Ids : operations[d] = 0
      BY <1>1, <2>2, <3>1 DEF AdapterInv
    <3> QED BY <3>1, <3>2
  <2>8. socket = "open" => variables = {}
    <3>1. variables \subseteq Ids
      BY <1>1, TypeParts
    <3> QED BY <1>1, <2>2, <3>1 DEF AdapterInv
  <2> QED BY <2>4, <2>5, <2>6, <2>7, <2>8
<1> QED BY <1>2, <1>3 DEF NothingLeft

\* Events once and in order.
LEMMA EventsHold == ASSUME OperationsInv PROVE EventsInOrder
<1>1. TypeOK /\ EventsInv /\ Routed \subseteq FrameId
  BY FrameRecord DEF OperationsInv
<1> SUFFICES ASSUME NEW i \in Routed
             PROVE  /\ Increasing(taken[i]) /\ Increasing(sent[i])
                    /\ \A j \in DOMAIN sent[i] : sent[i][j] \in Seen(i)
                    /\ Live(i) /\ socket = "open" =>
                         /\ pushed[i] = Seen(i) \cup ({ops[i].queued} \ {0})
                         /\ ops[i].stage = "reading" => ops[i].ack = ops[i].at
                         /\ ops[i].stage = "pulling" => ops[i].ack = 0
  BY DEF EventsInOrder
<1>2. EventInv(ops[i], pushed[i], taken[i], sent[i], received, socket = "open")
  BY <1>1 DEF EventsInv
<1>3. Increasing(taken[i]) /\ Increasing(sent[i])
  BY <1>2 DEF EventInv
<1>4. \A j \in DOMAIN sent[i] : sent[i][j] \in Seen(i)
  BY <1>2 DEF EventInv, Seen
<1>5. ASSUME Live(i), socket = "open"
      PROVE  /\ pushed[i] = Seen(i) /\ ops[i].queued = 0
             /\ ops[i].stage = "reading" => ops[i].ack = ops[i].at
             /\ ops[i].stage = "pulling" => ops[i].ack = 0
  BY <1>2, <1>5 DEF EventInv, Live, Seen
<1> QED BY <1>3, <1>4, <1>5

\* Operations of an id do not meet, leave nothing behind (but the variables of a
\* subscribe that threw, and then the connection is stopped) and take and send
\* their events once and in order, for any ids, frames and events.
THEOREM OperationsAreRight == Spec => []OperationRules
<1>1. OperationsInv => Isolated
  <2> SUFFICES ASSUME OperationsInv PROVE Isolated
    OBVIOUS
  <2>1. untracked \/ (Serial /\ NothingLeft)
    BY SerialHolds, NothingLeftHolds
  <2>2. \A i \in Routed : socket = "closed" => ops[i].reservation # "active"
    BY FrameRecord DEF OperationsInv, StageInv
  <2> QED BY <2>1, <2>2 DEF Isolated
<1>2. OperationsInv => OperationRules
  BY <1>1, EventsHold DEF OperationRules
<1> QED BY <1>2, OperationsInvariant, PTL

-----------------------------------------------------------------------------
\* Sending and completing.

\* A next frame is sent by the loop of the operation alone.
LEMMA SentByYield ==
  ASSUME TypeOK, EventsInv, [Next]_vars, NEW i \in Routed, sent'[i] # sent[i]
  PROVE  Yield(i)
<1>1. sent \in [FrameId -> Seq(Event)] /\ i \in FrameId
  BY FrameRecord DEF EventsInv
<1>2. CASE \E d \in Ids : ClientFrame(d)
  BY <1>2 DEF ClientFrame, historyVars
<1>3. ASSUME NEW f \in FrameId, FrameStep(f) PROVE Yield(i)
  BY <1>3 DEF FrameStep, Drop, Deliver, Settle, historyVars
<1>4. ASSUME NEW k \in FrameId, OperationStep(k) PROVE Yield(i)
  <2>1. CASE SubscribeEnds(k)
    BY <2>1 DEF SubscribeEnds, SubscribeFails, SubscribeThrows, SubscribeErrors, Subscribed, historyVars
  <2>2. CASE LoopEnds(k)
    BY <2>2 DEF LoopEnds, historyVars
  <2>3. CASE ReadNothing(k) \/ ReadFails(k) \/ Retire(k)
    BY <2>3 DEF ReadNothing, ReadFails, Retire, historyVars
  <2>4. CASE Yield(k)
    <3>1. sent' = [sent EXCEPT ![k] = Append(@, ops[k].at)]
      BY <2>4 DEF Yield
    <3>2. k = i
      BY <1>1, <3>1
    <3> QED BY <2>4, <3>2
  <2> QED BY <1>4, <2>1, <2>2, <2>3, <2>4 DEF OperationStep, ReadEnds
<1>5. ASSUME NEW k \in FrameId, Push(k) PROVE Yield(i)
  BY <1>5 DEF Push
<1>6. CASE Stop \/ Close
  BY <1>6 DEF Stop, Close, historyVars
<1>7. CASE UNCHANGED vars
  BY <1>7 DEF vars, historyVars
<1> QED BY <1>2, <1>3, <1>4, <1>5, <1>6, <1>7 DEF Next

\* Routing a frame hands off no other.
LEMMA RoutingKeepsStates ==
  ASSUME TypeOK, LaneInv, NEW d \in Ids, NEW origin \in {"client", "retire"},
         RouteSubscribe(d) \/ RouteComplete(d, origin), NEW f \in Routed
  PROVE  frames'[f].state = frames[f].state
<1>1. frames \in Seq(FrameType) /\ f \in 1..Len(frames)
  BY FrameRecord
<1>2. CASE RouteSubscribe(d)
  <2>1. SubscribeFrame(d) \in FrameType
    BY SubscribeFrameFacts
  <2>2. frames' = Append(frames, SubscribeFrame(d))
    BY <1>2 DEF RouteSubscribe
  <2>3. frames'[f] = frames[f]
    BY <1>1, <2>1, <2>2, AppendFacts
  <2> QED BY <2>3
<1>3. CASE RouteComplete(d, origin)
  <2> DEFINE m == Marked(Predecessor(d))
  <2>1. Predecessor(d) \in {0} \cup Routed
    BY PredecessorFacts
  <2>2. m \in Seq(FrameType) /\ Len(m) = Len(frames) /\ m[f].state = frames[f].state
    BY <2>1, MarkedFacts
  <2>3. m = IF Predecessor(d) = 0 THEN frames ELSE [frames EXCEPT ![Predecessor(d)].completed = TRUE]
    BY DEF Marked
  <2> HIDE DEF m
  <2>4. \E x \in FrameType : frames' = Append(m, x)
    <3>1. /\ CompleteFrame(d, origin) \in FrameType
          /\ NoWait(d) => CompleteFrame(d, origin) = [Frame(d, "complete", origin) EXCEPT !.state = "delivered"]
          /\ ~NoWait(d) => CompleteFrame(d, origin) = Frame(d, "complete", origin)
      BY CompleteFrameFacts
    <3>2. frames' = Append(m, CompleteFrame(d, origin))
      <4>1. CASE NoWait(d)
        BY <1>3, <2>3, <3>1, <4>1 DEF RouteComplete
      <4>2. CASE ~NoWait(d)
        BY <1>3, <2>3, <3>1, <4>2 DEF RouteComplete
      <4> QED BY <4>1, <4>2
    <3> QED BY <3>1, <3>2
  <2>5. PICK x \in FrameType : frames' = Append(m, x)
    BY <2>4
  <2>6. frames'[f] = m[f]
    BY <1>1, <2>2, <2>5, AppendFacts
  <2> QED BY <2>2, <2>6
<1> QED BY <1>2, <1>3

\* A waiting frame becomes a delivered one by its delivery alone.
LEMMA DeliveredByDeliver ==
  ASSUME TypeOK, LaneInv, [Next]_vars, NEW f \in Routed,
         frames[f].state = "waiting", frames'[f].state = "delivered"
  PROVE  Deliver(f)
<1>1. frames' # frames
  OBVIOUS
<1>2. CASE \E d \in Ids : ClientFrame(d)
  <2>1. PICK d \in Ids : ClientFrame(d)
    BY <1>2
  <2>2. RouteSubscribe(d) \/ RouteComplete(d, "client")
    BY <2>1 DEF ClientFrame
  <2>3. frames'[f].state = frames[f].state
    BY <2>2, RoutingKeepsStates
  <2> QED BY <2>3
<1>3. ASSUME NEW k \in FrameId, FrameStep(k) PROVE Deliver(f)
  <2>1. k \in Routed /\ (Drop(k) \/ Deliver(k) \/ Settle(k)) /\ frames \in Seq(FrameType)
    BY <1>3, FrameRecord DEF FrameStep
  <2>2. CASE Drop(k)
    <3>1. frames'[f].state \in {frames[f].state, "dropped"}
      BY <2>1, <2>2, FrameRecord DEF Drop, FrameType
    <3> QED BY <3>1
  <2>3. CASE Settle(k)
    <3>1. frames'[f].state = frames[f].state
      BY <2>1, <2>3, FrameRecord DEF Settle, FrameType
    <3> QED BY <3>1
  <2>4. CASE Deliver(k)
    <3>1. frames' = [frames EXCEPT ![k].state = "delivered"]
      BY <2>4 DEF Deliver
    <3>2. k # f => frames'[f] = frames[f]
      BY <2>1, <3>1
    <3>3. k = f
      BY <3>2
    <3> QED BY <2>4, <3>3
  <2> QED BY <2>1, <2>2, <2>3, <2>4
<1>4. ASSUME NEW i \in FrameId, OperationStep(i) PROVE Deliver(f)
  <2>1. i \in Routed /\ IdOf(i) \in Ids
    BY <1>4, FrameRecord DEF OperationStep
  <2>2. CASE SubscribeEnds(i) \/ LoopEnds(i)
    BY <1>1, <2>2 DEF SubscribeEnds, SubscribeFails, SubscribeThrows, SubscribeErrors, Subscribed, LoopEnds, laneVars
  <2>3. CASE ReadNothing(i) \/ Yield(i) \/ ReadFails(i)
    BY <1>1, <2>3 DEF ReadNothing, Yield, ReadFails, laneVars
  <2>4. CASE Retire(i)
    <3>1. RouteComplete(IdOf(i), "retire")
      BY <2>4 DEF Retire
    <3>2. frames'[f].state = frames[f].state
      BY <2>1, <3>1, RoutingKeepsStates
    <3> QED BY <3>2
  <2> QED BY <1>4, <2>2, <2>3, <2>4 DEF OperationStep, ReadEnds
<1>5. ASSUME NEW i \in FrameId, Push(i) PROVE Deliver(f)
  BY <1>1, <1>5 DEF Push, laneVars
<1>6. CASE Stop \/ Close
  BY <1>1, <1>6 DEF Stop, Close, laneVars
<1>7. CASE UNCHANGED vars
  BY <1>1, <1>7 DEF vars, laneVars
<1> QED BY <1>2, <1>3, <1>4, <1>5, <1>6, <1>7 DEF Next

\* One step of CompleteSteps.
LEMMA CompleteStep ==
  ASSUME OperationsInv, [Next]_vars, ~untracked
  PROVE  /\ \A i \in Routed : sent'[i] # sent[i] => entry[IdOf(i)] = [kind |-> "iterator", op |-> i]
         /\ \A f \in Routed : /\ frames[f].type = "complete" /\ frames[f].origin = "retire"
                              /\ frames[f].state = "waiting" /\ frames'[f].state = "delivered"
              => entry[IdOf(f)].kind = "absent" \/ ops[entry[IdOf(f)].op].retired
<1>1. TypeOK /\ LaneInv /\ EventsInv /\ AdapterInv
  BY DEF OperationsInv
<1>2. ASSUME NEW i \in Routed, sent'[i] # sent[i] PROVE entry[IdOf(i)] = [kind |-> "iterator", op |-> i]
  <2>1. ops[i].stage = "reading" /\ ~ops[i].closed
    BY <1>1, <1>2, SentByYield DEF Yield
  <2>2. ops[i].chan \in {"open", "closed"}
    BY <1>1, FrameRecord DEF OpType
  <2>3. Live(i)
    BY <1>1, <2>1, <2>2 DEF Live, AdapterInv
  <2> QED BY <1>1, <2>3 DEF AdapterInv
<1>3. ASSUME NEW f \in Routed, frames[f].origin = "retire", frames[f].state = "waiting",
             frames'[f].state = "delivered"
      PROVE  entry[IdOf(f)].kind = "absent" \/ ops[entry[IdOf(f)].op].retired
  <2>1. socket = "open"
    BY <1>1, <1>3, DeliveredByDeliver DEF Deliver
  <2> QED BY <1>3, <2>1 DEF OperationsInv, RetireInv, Waiting
<1> QED BY <1>2, <1>3

\* Nothing is sent for a subscription once graphql-ws has its complete frame, and
\* the complete frame a generator routes ends no operation but its own, for any
\* ids, frames and events.
THEOREM CompleteStepsAreRight == Spec => CompleteSteps
<1> DEFINE A == /\ \A i \in Routed : sent'[i] # sent[i] => entry[IdOf(i)] = [kind |-> "iterator", op |-> i]
                /\ \A f \in Routed : /\ frames[f].type = "complete" /\ frames[f].origin = "retire"
                                     /\ frames[f].state = "waiting" /\ frames'[f].state = "delivered"
                     => entry[IdOf(f)].kind = "absent" \/ ops[entry[IdOf(f)].op].retired
<1>1. OperationsInv /\ [Next]_vars => [untracked \/ A]_vars
  BY CompleteStep
<1> QED BY <1>1, OperationsInvariant, PTL DEF Spec, CompleteSteps
=============================================================================
