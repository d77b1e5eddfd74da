-------------------------------- MODULE Messenger --------------------------------
(***************************************************************************)
(* api/src/messenger.ts: MessengerRedis, one API instance's end of the     *)
(* cross-instance publish/subscribe bus.  It holds two Redis connections,  *)
(* restores its subscriptions on the one and the publisher's health on the *)
(* other after every drop, stall or refusal, and reports through getStatus *)
(* whether other instances' changes reach this one.                        *)
(*                                                                         *)
(* Every step is one turn of the event loop; an await is a step boundary.  *)
(* Only a channel's first and last callback reach Redis, so callbacks are  *)
(* left out, and so are the warnings logged when the status changes.  The  *)
(* generation counters become a flag on each command in flight: stale,     *)
(* when its connection's generation has moved on since it was sent.        *)
(* A definition X_Variant is a faulty X, used to see a property fail.      *)
(***************************************************************************)
EXTENDS Naturals, Sequences, SequencesExt

CONSTANTS Channels,
          Deniable,    \* what a Redis ACL may forbid: channels (to subscribe),
                       \* "publish", "probe", "unsubscribe"
          MaxCalls,    \* bound: subscribe, unsubscribe and publish calls
          MaxFaults    \* bound: dropped connections and stalled commands

ASSUME MessengerAssumption ==
  /\ MaxCalls \in Nat /\ MaxFaults \in Nat
  /\ \A c \in Channels : c \notin {"publish", "probe", "unsubscribe"}

VARIABLES
  link,         \* per connection: the socket
  ready,        \* subReady, pubReady
  inflight,     \* per connection: commands awaiting their outcome
  desired,      \* channels with a callback
  acked,
  pendingUnsub,
  pubHealthy,
  status,       \* status is 'available'
  recovery,     \* what attemptRecovery is waiting for
  timer,        \* recoveryTimer is set
  destroyed,
  subscribed,   \* Redis: the subscriptions of the subscriber's connection
  denied,       \* Redis: what its ACL forbids
  calls, faults

socketVars == <<link, ready>>
redisVars == <<subscribed, denied>>
vars == <<link, ready, inflight, desired, acked, pendingUnsub, pubHealthy, status, recovery,
          timer, destroyed, subscribed, denied, calls, faults>>

Kind == {"sub", "pub"}

\* "closing": disconnect was called; "closed": the close event is due.
Link == {"down", "up", "closing", "closed"}

\* by: the public call, or attemptRecovery.  what: the channel, for a
\* subscriber's command.
Command == [op : {"subscribe", "unsubscribe"}, what : Channels, by : {"call", "recovery"},
            stale : BOOLEAN, lost : BOOLEAN]
      \cup [op : {"publish", "probe"}, by : {"call", "recovery"}, stale : BOOLEAN, lost : BOOLEAN]

\* todo: the snapshot of pendingUnsub left to do; seen: channels its loop over
\* desired has passed.
Recovery == [at : {"idle", "unsubscribe", "subscribe", "probe"},
             todo : SUBSET Channels, seen : SUBSET Channels]
Resting == [at |-> "idle", todo |-> {}, seen |-> {}]
recovering == recovery.at # "idle"

Init == /\ link = [k \in Kind |-> "down"]
        /\ ready = [k \in Kind |-> FALSE]
        /\ inflight = [k \in Kind |-> <<>>]
        /\ desired = {} /\ acked = {} /\ pendingUnsub = {}
        /\ pubHealthy = FALSE /\ status = FALSE
        /\ recovery = Resting /\ timer = FALSE
        /\ destroyed = FALSE
        /\ subscribed = {}
        /\ denied \in SUBSET Deniable
        /\ calls = 0 /\ faults = 0

Call == calls < MaxCalls /\ calls' = calls + 1
Fault == faults < MaxFaults /\ faults' = faults + 1

-----------------------------------------------------------------------------
\* Health, and the recovery it asks for.

SubscriberHealthy == ready["sub"] /\ pendingUnsub = {} /\ desired \subseteq acked
PublisherHealthy == ready["pub"] /\ pubHealthy
NeedsWork == (ready["sub"] /\ ~SubscriberHealthy) \/ (ready["pub"] /\ ~PublisherHealthy)

\* scheduleRecovery's reasons to arm the timer.
Wanted_Never == FALSE
Wanted_PublisherOnly == ready["pub"] /\ ~PublisherHealthy /\ ~recovering /\ ~destroyed
Wanted == NeedsWork /\ ~recovering /\ ~destroyed

\* updateStatus, on the state a step leaves behind; armed: the timer by then.
UpdateStatus(armed) ==
  /\ status' = IF destroyed' THEN status ELSE (SubscriberHealthy /\ PublisherHealthy)'
  /\ timer' = IF destroyed' THEN armed ELSE ~status' /\ (armed \/ Wanted')

-----------------------------------------------------------------------------
\* Commands.  q stands for inflight once the turn's own outcome is taken off.

\* ioredis refuses a command at once when its connection is not ready.
Sent(q, k, c) == [q EXCEPT ![k] = Append(@, [c EXCEPT !.lost = link'[k] # "up"])]
OnSub(op, channel, by) == [op |-> op, what |-> channel, by |-> by, stale |-> FALSE, lost |-> FALSE]
OnPub(op, by) == [op |-> op, by |-> by, stale |-> FALSE, lost |-> FALSE]

\* The generation moves on, for every command sent so far.
Outdated_Not(cs) == cs
Outdated(cs) == [i \in DOMAIN cs |-> [cs[i] EXCEPT !.stale = TRUE]]

Settle(armed) == recovery' = Resting /\ UpdateStatus(armed)
Wait(r, armed) == recovery' = r /\ timer' = armed /\ UNCHANGED status

\* attemptRecovery after the subscriber: probePublisher, or the end.
ProbeOrSettle(q, armed) ==
  IF ready'["pub"] /\ ~pubHealthy'
  THEN /\ inflight' = Sent(q, "pub", OnPub("probe", "recovery"))
       /\ Wait([Resting EXCEPT !.at = "probe"], armed)
  ELSE /\ inflight' = q
       /\ Settle(armed)

\* reconcileSubscriber's loop over desired, a Map that may change under it:
\* channels passed over are acknowledged, and a channel added again comes up
\* again.
SubscribeNext(q, seen, armed) ==
  LET missing == desired \ (seen \cup acked') IN
  \/ \E c \in missing, passed \in SUBSET ((desired \cap acked') \ seen) :
        /\ inflight' = Sent(q, "sub", OnSub("subscribe", c, "recovery"))
        /\ Wait([at |-> "subscribe", todo |-> {}, seen |-> seen \cup passed \cup {c}], armed)
  \/ missing = {} /\ ProbeOrSettle(q, armed)

\* Its loop over the snapshot of pendingUnsub, less what was subscribed since.
UnsubscribeNext(q, todo, pending, armed) ==
  /\ UNCHANGED acked
  /\ \/ \E c \in todo \ desired, superseded \in SUBSET (todo \cap desired) :
           /\ pendingUnsub' = pending \ superseded
           /\ inflight' = Sent(q, "sub", OnSub("unsubscribe", c, "recovery"))
           /\ Wait([at |-> "unsubscribe", todo |-> todo \ (superseded \cup {c}), seen |-> {}], armed)
     \/ /\ todo \subseteq desired
        /\ pendingUnsub' = pending \ todo
        /\ SubscribeNext(q, {}, armed)

\* attemptRecovery, single-flight; its caller has cleared the timer.
Refuses_Unlocked == destroyed
Refuses == destroyed \/ recovering

AttemptRecovery ==
  IF Refuses
  THEN /\ timer' = FALSE
       /\ UNCHANGED <<inflight, acked, pendingUnsub, status, recovery>>
  ELSE IF ready'["sub"]
       THEN UnsubscribeNext(inflight, pendingUnsub, pendingUnsub, FALSE)
       ELSE UNCHANGED <<acked, pendingUnsub>> /\ ProbeOrSettle(inflight, FALSE)

-----------------------------------------------------------------------------
\* The public calls.

Subscribe(c) ==
  /\ c \notin desired
  /\ Call
  /\ desired' = desired \cup {c}
  /\ pendingUnsub' = pendingUnsub \ {c}
  /\ acked' = acked \ {c}
  /\ UNCHANGED <<socketVars, redisVars, pubHealthy, recovery, destroyed, faults>>
  /\ inflight' = IF ready["sub"]
                 THEN Sent(inflight, "sub", OnSub("subscribe", c, "call"))
                 ELSE inflight
  /\ UpdateStatus(timer)

Unsubscribe(c) ==
  /\ c \in desired
  /\ Call
  /\ desired' = desired \ {c}
  /\ acked' = acked \ {c}
  /\ recovery' = [recovery EXCEPT !.seen = @ \ {c}]
  /\ UNCHANGED <<socketVars, redisVars, pendingUnsub, pubHealthy, destroyed, faults>>
  /\ inflight' = IF ready["sub"]
                 THEN Sent(inflight, "sub", OnSub("unsubscribe", c, "call"))
                 ELSE inflight
  /\ UpdateStatus(timer)

Publish ==
  /\ Call
  /\ UNCHANGED <<socketVars, redisVars, desired, acked, pendingUnsub, pubHealthy, status,
                 recovery, timer, destroyed, faults>>
  /\ inflight' = Sent(inflight, "pub", OnPub("publish", "call"))

Destroy ==
  /\ ~destroyed
  /\ destroyed' = TRUE
  /\ link' = [k \in Kind |-> IF link[k] = "up" THEN "closing" ELSE link[k]]
  /\ inflight' = [k \in Kind |-> Outdated(inflight[k])]
  /\ timer' = FALSE
  /\ UNCHANGED <<ready, redisVars, desired, acked, pendingUnsub, pubHealthy, status, recovery,
                 calls, faults>>

-----------------------------------------------------------------------------
\* Outcomes of commands: the continuations of runOn.

Quiet(q) == /\ inflight' = q
            /\ UNCHANGED <<acked, pendingUnsub, pubHealthy, status, recovery, timer>>

Current_Ignored(c) == TRUE
Current(c) == ~c.stale

Accepted(c, q) ==
  \/ /\ c.op = "subscribe" /\ c.by = "call"
     /\ IF Current(c) /\ c.what \in desired
        THEN /\ acked' = acked \cup {c.what}
             /\ inflight' = q
             /\ UNCHANGED <<pendingUnsub, pubHealthy, recovery>>
             /\ UpdateStatus(timer)
        ELSE Quiet(q)
  \/ c.op = "unsubscribe" /\ c.by = "call" /\ Quiet(q)
  \/ /\ c.op = "publish"
     /\ IF Current(c)
        THEN /\ pubHealthy' = TRUE
             /\ inflight' = q
             /\ UNCHANGED <<acked, pendingUnsub, recovery>>
             /\ UpdateStatus(timer)
        ELSE Quiet(q)
  \/ /\ c.op = "unsubscribe" /\ c.by = "recovery"
     /\ UNCHANGED pubHealthy
     /\ UnsubscribeNext(q, recovery.todo, pendingUnsub \ {c.what}, timer)
  \/ /\ c.op = "subscribe" /\ c.by = "recovery"
     /\ acked' = IF Current(c) THEN acked \cup {c.what} ELSE acked
     /\ UNCHANGED <<pendingUnsub, pubHealthy>>
     /\ SubscribeNext(q, recovery.seen, timer)
  \/ /\ c.op = "probe"
     /\ pubHealthy' = (pubHealthy \/ Current(c))
     /\ inflight' = q
     /\ UNCHANGED <<acked, pendingUnsub>>
     /\ Settle(timer)

\* A removal Redis refused stays to be done, under the channel's full name.
Unremoved_BareName(c) == {"flows"}
Unremoved(c) == {c.what}

Rejected(c, q) ==
  \/ /\ c.by = "recovery"
     /\ inflight' = q
     /\ UNCHANGED <<acked, pendingUnsub, pubHealthy>>
     /\ Settle(timer)
  \/ /\ c.by = "call" /\ c.op = "publish"
     /\ pubHealthy' = FALSE
     /\ inflight' = q
     /\ UNCHANGED <<acked, pendingUnsub, recovery>>
     /\ UpdateStatus(timer)
  \/ /\ c.by = "call" /\ c.op \in {"subscribe", "unsubscribe"}
     /\ IF Current(c)
        THEN /\ pendingUnsub' = pendingUnsub \cup (IF c.op = "unsubscribe" THEN Unremoved(c) ELSE {})
             /\ inflight' = q
             /\ UNCHANGED <<acked, pubHealthy, recovery>>
             /\ UpdateStatus(timer)
        ELSE Quiet(q)

Refused(c) == (IF c.op = "subscribe" THEN c.what ELSE c.op) \in denied

\* The oldest command is answered, in order.
Answer(k) ==
  /\ link[k] \in {"up", "closing"}
  /\ inflight[k] # <<>> /\ ~Head(inflight[k]).lost
  /\ UNCHANGED <<socketVars, desired, destroyed, denied, calls, faults>>
  /\ LET c == Head(inflight[k])
         q == [inflight EXCEPT ![k] = Tail(@)]
     IN IF Refused(c)
        THEN Rejected(c, q) /\ UNCHANGED subscribed
        ELSE /\ subscribed' = CASE c.op = "subscribe" -> subscribed \cup {c.what}
                                [] c.op = "unsubscribe" -> subscribed \ {c.what}
                                [] OTHER -> subscribed
             /\ Accepted(c, q)

\* A command that was flushed or refused by the client fails.
Flush(k) ==
  /\ \E i \in DOMAIN inflight[k] :
        /\ inflight[k][i].lost
        /\ UNCHANGED <<socketVars, redisVars, desired, destroyed, calls, faults>>
        /\ Rejected(inflight[k][i], [inflight EXCEPT ![k] = RemoveAt(@, i)])

\* COMMAND_DEADLINE_MS passes: recycle, then the command's own failure.
Timeout(k) ==
  /\ link[k] = "up" /\ inflight[k] # <<>> /\ ~Head(inflight[k]).lost
  /\ ~destroyed
  /\ Fault
  /\ link' = [link EXCEPT ![k] = "closing"]
  /\ ready' = [ready EXCEPT ![k] = FALSE]
  /\ acked' = IF k = "sub" THEN {} ELSE acked
  /\ pubHealthy' = (pubHealthy /\ k # "pub")
  /\ inflight' = [inflight EXCEPT ![k] = Outdated(Tail(@))]
  /\ recovery' = IF Head(inflight[k]).by = "recovery" THEN Resting ELSE recovery
  /\ UNCHANGED <<redisVars, desired, pendingUnsub, destroyed, calls>>
  /\ UpdateStatus(timer)

-----------------------------------------------------------------------------
\* Connection events.

OnReady(k) ==
  /\ link[k] = "down" /\ ~destroyed
  /\ link' = [link EXCEPT ![k] = "up"]
  /\ ready' = [ready EXCEPT ![k] = TRUE]
  /\ UNCHANGED <<redisVars, desired, pubHealthy, destroyed, calls, faults>>
  /\ AttemptRecovery

\* The socket is gone, before its close event: ioredis flushes the commands.
SocketLost(k) ==
  /\ \/ link[k] = "closing" /\ UNCHANGED faults
     \/ link[k] = "up" /\ Fault
  /\ link' = [link EXCEPT ![k] = "closed"]
  /\ inflight' = [inflight EXCEPT ![k] = [i \in DOMAIN @ |-> [@[i] EXCEPT !.lost = TRUE]]]
  /\ subscribed' = IF k = "sub" THEN {} ELSE subscribed
  /\ UNCHANGED <<ready, desired, acked, pendingUnsub, pubHealthy, status, recovery, timer,
                 destroyed, denied, calls>>

Acknowledged_Kept(k) == acked
Acknowledged(k) == IF k = "sub" THEN {} ELSE acked

OnDown(k) ==
  /\ link[k] = "closed"
  /\ link' = [link EXCEPT ![k] = "down"]
  /\ UNCHANGED <<redisVars, desired, pendingUnsub, recovery, destroyed, calls, faults>>
  /\ IF ready[k]
     THEN /\ ready' = [ready EXCEPT ![k] = FALSE]
          /\ acked' = Acknowledged(k)
          /\ pubHealthy' = (pubHealthy /\ k # "pub")
          /\ inflight' = [inflight EXCEPT ![k] = Outdated(@)]
     ELSE UNCHANGED <<ready, acked, pubHealthy, inflight>>
  /\ UpdateStatus(timer)

RecoveryTimer ==
  /\ timer
  /\ UNCHANGED <<socketVars, redisVars, desired, pubHealthy, destroyed, calls, faults>>
  /\ AttemptRecovery

-----------------------------------------------------------------------------
Next == \/ \E c \in Channels : Subscribe(c) \/ Unsubscribe(c)
        \/ Publish \/ Destroy \/ RecoveryTimer
        \/ \E k \in Kind : \/ Answer(k) \/ Flush(k) \/ Timeout(k)
                           \/ OnReady(k) \/ SocketLost(k) \/ OnDown(k)

Spec == Init /\ [][Next]_vars

\* Redis is reachable and answers, up to MaxFaults faults; timers fire.  Nothing
\* makes the instance call, or the connections fail.
FairSpec == /\ Spec
            /\ WF_vars(RecoveryTimer)
            /\ \A k \in Kind : /\ WF_vars(Answer(k)) /\ WF_vars(Flush(k))
                               /\ WF_vars(OnReady(k)) /\ WF_vars(OnDown(k))
                               /\ WF_vars(link[k] = "closing" /\ SocketLost(k))

-----------------------------------------------------------------------------
\* Properties.

\* Type invariant.
TypeOK ==
  /\ link \in [Kind -> Link]
  /\ ready \in [Kind -> BOOLEAN]
  /\ DOMAIN inflight = Kind
  /\ \A k \in Kind : inflight[k] \in Seq({c \in Command : (c.op \in {"publish", "probe"}) = (k = "pub")})
  /\ {desired, acked, pendingUnsub, subscribed} \subseteq SUBSET Channels
  /\ recovery \in Recovery
  /\ {pubHealthy, status, timer, destroyed} \subseteq BOOLEAN
  /\ denied \subseteq Deniable
  /\ calls \in 0..MaxCalls /\ faults \in 0..MaxFaults

\* While the status is available and no command about a channel is under way,
\* Redis delivers the channel exactly when a callback wants it: no subscription
\* is missing after a reconnect, a stall or a race of calls with recovery, and
\* none that Redis refused to end is left behind unnoticed.
AvailableDelivers ==
  status /\ ~destroyed /\ link["sub"] = "up" =>
    \A c \in Channels :
       (\A i \in DOMAIN inflight["sub"] : inflight["sub"][i].what # c)
         => (c \in subscribed <=> c \in desired)

\* A connection that is ready but not healthy has a recovery or its timer under
\* way: no refusal, early return or race leaves it waiting for nothing
\* (scheduleRecovery refuses while a recovery runs).
NoLostRecovery == ~destroyed /\ NeedsWork => timer \/ recovering

\* attemptRecovery's lock is held exactly while one of its commands is under
\* way, so it neither sticks nor lets two recoveries run.
Awaited(cs) == {i \in DOMAIN cs : cs[i].by = "recovery"}

RecoveryLock ==
  /\ recovering <=> \E k \in Kind : Awaited(inflight[k]) # {}
  /\ \A k, m \in Kind : \A i \in Awaited(inflight[k]), j \in Awaited(inflight[m]) : k = m /\ i = j

\* Health is a fact about the connection that is ready now: no answer of an
\* earlier one counts (the generation checks).
HealthIsCurrent ==
  /\ pubHealthy => ready["pub"]
  /\ acked # {} => ready["sub"]

\* The recovery protocol, under every interleaving of calls, answers, drops,
\* timeouts and the timer.
RecoveryProtocol == NoLostRecovery /\ RecoveryLock /\ HealthIsCurrent

\* Unless Redis forbids something, the messenger becomes available by itself
\* once calls and faults cease.
Recovers == denied = {} => <>[](status \/ destroyed)
=============================================================================
