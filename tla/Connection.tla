-------------------------------- MODULE Connection --------------------------------
(***************************************************************************)
(* One WebSocket transport of an API process, item protocol:               *)
(* api/src/websocket/controllers/base.ts and rest.ts (SocketController)    *)
(* with the identity of each connection (authenticate.ts: ConnectionAuth)  *)
(* and its admission lease (module Admission).                             *)
(*                                                                         *)
(* A connection is upgraded, may authenticate, sends frames that are       *)
(* handled one at a time, has its identity reloaded before each command    *)
(* and delivery, and ends by expiry, refusal, its peer or shutdown.  Every *)
(* step is one turn of the event loop; an await is a step boundary.        *)
(*                                                                         *)
(* identityEpoch is only ever compared with the value captured before an   *)
(* await, so it becomes a mark on the operation that captured it: stale.   *)
(* closed of ConnectionAuth is closed of its lease.  A frame's contents    *)
(* are a choice made when it is parsed.  Permissions, events and frame     *)
(* texts are left out, and invalidationFired, whose handler always moves   *)
(* the epoch on.  A definition X_Variant is a faulty X, used to see a      *)
(* property fail.                                                          *)
(***************************************************************************)
EXTENDS Admission, FiniteSets

CONSTANTS Modes,          \* the authentication modes considered
          PendingLimit,   \* PENDING_COMMAND_LIMIT
          MaxFrames,      \* bound: frames received
          MaxDeliveries,  \* bound: deliveries that ask for an accountability
          Revocable       \* bound: users whose static token may be revoked

ASSUME ConnectionAssumption ==
  /\ Modes \subseteq {"public", "handshake", "strict"}
  /\ PendingLimit \in Nat \ {0} /\ MaxFrames \in Nat /\ MaxDeliveries \in Nat
  /\ Revocable \subseteq Users

VARIABLES
  mode,        \* authMode
  conn,        \* per connection: ConnectionAuth, SocketClient and its drain
  books,       \* Admission
  shutdown,    \* how far terminate has come
  awaited,     \* the promises of its current allSettled
  revoked,     \* users whose static token is no longer valid
  frames, deliveries

shutdownVars == <<shutdown, awaited>>
bounds == <<frames, deliveries>>
vars == <<mode, conn, books, shutdownVars, revoked, bounds>>

\* refreshPermissions or snapshotAccountability under way: reloading the static
\* identity, then the permissions; granted: its result is in use.  as, ok: the
\* identity at its start, and whether that was still valid.
Reading == [at : {"idle", "reval", "perms", "granted"}, as : Users \cup {Anonymous},
            ok : BOOLEAN, stale : BOOLEAN]
NoReading == [at |-> "idle", as |-> Anonymous, ok |-> TRUE, stale |-> FALSE]

Upgrading == {"limits", "lookup", "schema"}

\* phase "client": in the controller's clients.  lookup: authenticate, and
\* seen: the revocations it may miss.  drain: what the current frame awaits.
Connection ==
  [phase : {"new", "gone", "client"} \cup Upgrading,
   open : BOOLEAN, started : BOOLEAN, stopping : BOOLEAN, finalHold : BOOLEAN,
   user : Users \cup {Anonymous}, exp : {"never", "ahead", "past"}, static : BOOLEAN,
   pin : Users \cup {Anonymous},
   lookup : {"none", "live", "stale"}, seen : SUBSET Users,
   expiryTimer : BOOLEAN, handshakeTimer : BOOLEAN,
   waiting : 0..PendingLimit,
   drain : {"idle", "limits", "auth", "greet", "notify", "prepare", "refresh", "handler"},
   refresh : Reading, snap : Reading]

NewConnection ==
  [phase |-> "new", open |-> FALSE, started |-> FALSE, stopping |-> FALSE, finalHold |-> FALSE,
   user |-> Anonymous, exp |-> "never", static |-> FALSE, pin |-> Anonymous,
   lookup |-> "none", seen |-> {}, expiryTimer |-> FALSE, handshakeTimer |-> FALSE,
   waiting |-> 0, drain |-> "idle", refresh |-> NoReading, snap |-> NoReading]

Init == /\ mode \in Modes
        /\ conn = [c \in Conns |-> NewConnection]
        /\ books = EmptyBooks
        /\ shutdown = "serving" /\ awaited = {}
        /\ revoked = {}
        /\ frames = 0 /\ deliveries = 0

\* A turn works on s = [x |-> the connection, b |-> the books].
Turn(c) == [x |-> conn[c], b |-> books]
Ends(c, s) == conn' = [conn EXCEPT ![c] = s.x] /\ books' = s.b
Elsewhere == UNCHANGED <<mode, shutdownVars, revoked, bounds>>

-----------------------------------------------------------------------------
\* Identity.

Outdated(r) == IF r.at = "idle" THEN r ELSE [r EXCEPT !.stale = TRUE]

\* identityEpoch moves on.
Supersede(x) == [x EXCEPT !.lookup = IF @ = "live" THEN "stale" ELSE @,
                          !.refresh = Outdated(@), !.snap = Outdated(@)]

AuthClose(s, c) == [x |-> Supersede(s.x), b |-> Close(s.b, c)]

\* The socket is asked to close; admission is kept until it has.
Stop(s, c) ==
  IF s.x.stopping THEN s
  ELSE AuthClose([x |-> [s.x EXCEPT !.stopping = TRUE, !.open = FALSE, !.finalHold = TRUE,
                                    !.expiryTimer = FALSE, !.handshakeTimer = FALSE, !.waiting = 0],
                  b |-> Hold(s.b, c)], c)

\* revertToAnonymous and supersedeToAnonymous, or the close for capacity.
Revert(s, c) ==
  IF CanBeAnonymous(s.b, c)
  THEN [x |-> Supersede([s.x EXCEPT !.user = Anonymous, !.exp = "never", !.static = FALSE]),
        b |-> ToAnonymous(s.b, c)]
  ELSE Stop(s, c)

\* handleExpiry
Expire_NoticeOnly(s, c) == IF mode = "public" THEN s ELSE Stop(s, c)
Expire(s, c) == IF mode = "public" THEN Revert(s, c) ELSE Stop(s, c)

ArmExpiryTimer(s, c) ==
  LET set == [s EXCEPT !.x.expiryTimer = (s.x.exp = "ahead")]
  IN IF s.x.exp = "past" THEN Expire(set, c) ELSE set

\* The identity authenticate commits.
Install(s, c, u, exp, static) ==
  [x |-> Supersede([s.x EXCEPT !.user = u, !.exp = exp, !.static = static, !.pin = u]),
   b |-> ToUser(s.b, c, u)]

-----------------------------------------------------------------------------
\* Frames, one at a time.

\* drain's loop: the next frame, under a work hold of its own.
NextFrame_Unheld(s, c) ==
  [s EXCEPT !.x.waiting = IF @ = 0 THEN 0 ELSE @ - 1,
            !.x.drain = IF s.x.waiting > 0 THEN "limits" ELSE "idle"]
NextFrame(s, c) ==
  IF s.x.waiting > 0 /\ ~s.x.stopping /\ ~s.b.lease[c].closed
  THEN [x |-> [s.x EXCEPT !.waiting = @ - 1, !.drain = "limits"], b |-> Hold(s.b, c)]
  ELSE [s EXCEPT !.x.drain = "idle"]

FrameDone_Single(s, c) == [x |-> [s.x EXCEPT !.drain = "idle"], b |-> Clear(s.b, c)]
FrameDone(s, c) == NextFrame([s EXCEPT !.b = Clear(s.b, c)], c)

Await(s, stage) == [s EXCEPT !.x.drain = stage]

\* admit
Receive(c) ==
  /\ conn[c].phase = "client" /\ conn[c].open
  /\ frames < MaxFrames /\ frames' = frames + 1
  /\ UNCHANGED <<mode, shutdownVars, revoked, deliveries>>
  /\ LET s == Turn(c)
         queued == [s EXCEPT !.x.waiting = @ + 1]
     IN Ends(c, IF s.x.stopping \/ shutdown # "serving" THEN s
                ELSE IF s.x.waiting >= PendingLimit THEN Stop(s, c)
                ELSE IF s.x.drain = "idle" THEN NextFrame(queued, c) ELSE queued)

\* authenticate, up to its await; a second one while it lasts is busy, and ignored.
StartAuth(s, c) ==
  IF s.x.lookup # "none" THEN FrameDone(s, c)
  ELSE [x |-> [s.x EXCEPT !.lookup = "live", !.seen = revoked, !.drain = "auth"],
        b |-> Hold(s.b, c)]

\* applyAuthReject; on success an event is awaited.
RejectAuth_AnyMode(s, c) ==
  IF ~s.x.started \/ ~CanBeAnonymous(s.b, c) THEN FrameDone(Stop(s, c), c)
  ELSE Await([Revert(s, c) EXCEPT !.x.expiryTimer = FALSE], "notify")
RejectAuth_TimerKept(s, c) ==
  IF ~s.x.started \/ mode # "public" \/ ~CanBeAnonymous(s.b, c) THEN FrameDone(Stop(s, c), c)
  ELSE Await(Revert(s, c), "notify")
RejectAuth(s, c) ==
  IF ~s.x.started \/ mode # "public" \/ ~CanBeAnonymous(s.b, c) THEN FrameDone(Stop(s, c), c)
  ELSE Await([Revert(s, c) EXCEPT !.x.expiryTimer = FALSE], "notify")

\* processFrame after the rate limiters: refused, malformed, or routed.
FrameLimits(c) ==
  /\ conn[c].drain = "limits"
  /\ Elsewhere
  /\ LET s == Turn(c) IN
     \/ Ends(c, FrameDone(s, c))                      \* a limiter refused, or failed
     \/ ~s.x.started /\ Ends(c, FrameDone(Stop(s, c), c))
     \/ /\ ~s.x.stopping
        /\ \/ Ends(c, RejectAuth(s, c))               \* an auth message without a token
           \/ Ends(c, StartAuth(s, c))
           \/ s.x.started /\ Ends(c, Await(s, "prepare"))

\* authenticateWithDeadline gives up: applyAuthTimeout.
AuthDeadline(c) ==
  /\ conn[c].drain = "auth"
  /\ Elsewhere
  /\ LET s == Turn(c)
     IN Ends(c, FrameDone(IF s.x.stopping THEN s
                          ELSE IF ~s.x.started \/ mode # "public" THEN Stop(s, c)
                          ELSE [Revert(s, c) EXCEPT !.x.expiryTimer = FALSE], c))

\* applyAuthSuccess after its frame is sent, or not.
Acknowledge(s, c) ==
  IF s.x.started THEN Await(ArmExpiryTimer(s, c), "notify")
  ELSE LET started == ArmExpiryTimer([s EXCEPT !.x.started = TRUE], c)
       IN FrameDone([x |-> [started.x EXCEPT !.handshakeTimer = FALSE], b |-> Clear(started.b, c)], c)

\* The frame is over without an acknowledgement: safeSend refused it.
Unacknowledged(s, c) ==
  LET closed == IF s.x.open THEN Stop(s, c) ELSE s
  IN FrameDone(IF s.x.started THEN closed ELSE [closed EXCEPT !.b = Clear(@, c)], c)

\* The drain goes on with authenticate's result; so does authorizeStrict.
Resume(s, c, result) ==
  \/ /\ s.x.phase = "lookup"
     /\ Ends(c, IF result = "authenticated" THEN [s EXCEPT !.x.phase = "schema"]
                ELSE AuthClose([s EXCEPT !.x.phase = "gone"], c))
  \/ s.x.phase # "lookup" /\ s.x.drain # "auth" /\ Ends(c, s)
  \/ /\ s.x.drain = "auth"
     /\ \/ (s.x.stopping \/ result = "superseded") /\ Ends(c, FrameDone(s, c))
        \/ /\ ~s.x.stopping
           /\ \/ result = "refused" /\ Ends(c, FrameDone(Stop(s, c), c))
              \/ result = "rejected" /\ Ends(c, RejectAuth(s, c))
              \/ /\ result = "authenticated"
                 /\ \/ /\ ~s.x.started
                       /\ Ends(c, Await([s EXCEPT !.b = Hold(s.b, c)], "greet"))
                    \/ s.x.started /\ s.x.open /\ Ends(c, Acknowledge(s, c))
                    \/ s.x.started /\ Ends(c, Unacknowledged(s, c))

\* The connection was closed, or its epoch moved on, before the answer.
LateLookup_Ignored(x) == FALSE
LateLookup(x) == x.lookup = "stale"

\* The user a connection is tied to by its first authentication.
Pinned_Current(x) == x.user
Pinned(x) == x.pin

\* authenticate's lookup settles.  A different user and a full user bucket both
\* end the connection: "refused".
AuthAnswer(c) ==
  /\ conn[c].lookup # "none"
  /\ Elsewhere
  /\ LET s == [x |-> [conn[c] EXCEPT !.lookup = "none", !.seen = {}], b |-> Clear(books, c)]
         late == LateLookup(conn[c])
     IN \/ late /\ Resume(s, c, "superseded")
        \/ ~late /\ Resume(s, c, "rejected")
        \/ /\ ~late
           /\ \E u \in Users :
                 IF Pinned(s.x) \notin {u, Anonymous} \/ ~CanBeUser(s.b, c, u)
                 THEN Resume(s, c, "refused")
                 ELSE \/ \E exp \in {"ahead", "past"} :
                           Resume(Install(s, c, u, exp, FALSE), c, "authenticated")
                      \/ /\ u \notin conn[c].seen
                         /\ Resume(Install(s, c, u, "never", TRUE), c, "authenticated")

\* applyAuthSuccess before the connection started: its schema arrives, or fails.
Greet(c) ==
  /\ conn[c].drain = "greet"
  /\ Elsewhere
  /\ LET s == Turn(c) IN
     \/ Ends(c, FrameDone([s EXCEPT !.b = Clear(books, c)], c))
     \/ ~s.x.stopping /\ s.x.open /\ Ends(c, Acknowledge(s, c))
     \/ ~s.x.stopping /\ Ends(c, Unacknowledged(s, c))

-----------------------------------------------------------------------------
\* Commands and deliveries under the identity of the moment.

StartReading(x) ==
  [at |-> IF x.static THEN "reval" ELSE "perms", as |-> x.user,
   ok |-> ~x.static \/ x.user \notin revoked, stale |-> FALSE]

\* runCommand: the filter and the schema are awaited, then the refresh begins.
Prepared(c) ==
  /\ conn[c].drain = "prepare"
  /\ Elsewhere
  /\ LET s == Turn(c) IN
     \/ Ends(c, FrameDone(s, c))
     \/ /\ ~s.x.stopping
        /\ Ends(c, [x |-> [s.x EXCEPT !.drain = "refresh", !.refresh = StartReading(s.x)],
                    b |-> Hold(s.b, c)])

\* A delivery of the dispatcher asks for a snapshot.
Deliver(c) ==
  /\ conn[c].phase = "client" /\ conn[c].started /\ ~books.lease[c].closed
  /\ conn[c].snap = NoReading
  /\ deliveries < MaxDeliveries /\ deliveries' = deliveries + 1
  /\ UNCHANGED <<mode, shutdownVars, revoked, frames>>
  /\ Ends(c, [x |-> [conn[c] EXCEPT !.snap = StartReading(conn[c])], b |-> Hold(books, c)])

LateReading_Ignored(r) == FALSE
LateReading(r) == r.stale

\* No result: the command is dropped, or the delivery skipped.
Withheld(s, c, k) ==
  LET s1 == [x |-> [s.x EXCEPT ![k] = NoReading], b |-> Clear(s.b, c)]
  IN IF k = "refresh" THEN FrameDone(s1, c) ELSE s1

\* The static user's row arrives; it was read at some time since the start.
Revalidated(c, k) ==
  /\ conn[c][k].at = "reval"
  /\ Elsewhere
  /\ LET s == Turn(c)
         r == conn[c][k] IN
     \/ Ends(c, Withheld(s, c, k))
     \/ /\ ~LateReading(r)
        /\ \/ r.ok /\ Ends(c, [s EXCEPT !.x[k].at = "perms"])
           \/ r.as \in revoked /\ Ends(c, Withheld(Expire(s, c), c, k))

\* The permissions arrive: the result is installed and the handler runs, or it
\* is handed to the delivery.
Permitted(c, k) ==
  /\ conn[c][k].at = "perms"
  /\ Elsewhere
  /\ LET s == Turn(c)
         r == conn[c][k]
         granted == [x |-> [s.x EXCEPT ![k].at = "granted",
                                       !.user = IF k = "refresh" THEN r.as ELSE @],
                     b |-> Clear(s.b, c)]
     IN \/ Ends(c, Withheld(s, c, k))
        \/ /\ ~LateReading(r)
           /\ Ends(c, IF k = "snap" THEN granted
                      ELSE IF s.x.stopping
                           THEN FrameDone([granted EXCEPT !.x.refresh = NoReading], c)
                           ELSE Await(granted, "handler"))

\* The handler settles; an event is awaited after a success.
HandlerDone(c) ==
  /\ conn[c].drain = "handler"
  /\ Elsewhere
  /\ LET s == [Turn(c) EXCEPT !.x.refresh = NoReading]
     IN \/ Ends(c, FrameDone(s, c))
        \/ ~s.x.stopping /\ Ends(c, Await(s, "notify"))

Notified(c) ==
  /\ conn[c].drain = "notify"
  /\ Elsewhere
  /\ Ends(c, FrameDone(Turn(c), c))

Delivered(c) ==
  /\ conn[c].snap.at = "granted"
  /\ Elsewhere
  /\ Ends(c, [Turn(c) EXCEPT !.x.snap = NoReading])

-----------------------------------------------------------------------------
\* Upgrades.

Gone(s, c) == AuthClose([s EXCEPT !.x.phase = "gone"], c)

\* ws completes the handshake and the client is created.
Joins_Always == TRUE
Joins == shutdown = "serving"

Establish(s, c) ==
  IF ~Joins THEN Gone(s, c)
  ELSE IF mode = "handshake"
       THEN [s EXCEPT !.x.phase = "client", !.x.open = TRUE, !.x.handshakeTimer = TRUE]
       ELSE ArmExpiryTimer([s EXCEPT !.x.phase = "client", !.x.open = TRUE, !.x.started = TRUE], c)

\* handleUpgrade
Arrive(c) ==
  /\ conn[c].phase = "new"
  /\ Elsewhere
  /\ Ends(c, [Turn(c) EXCEPT !.x.phase = IF shutdown = "serving" THEN "limits" ELSE "gone"])

\* runUpgrade after the rate limiters: the checks, admission, and authorize.
UpgradeLimits(c) ==
  /\ conn[c].phase = "limits"
  /\ Elsewhere
  /\ LET s == Turn(c)
         leased == [s EXCEPT !.b = Reserve(books, c)]
     IN \/ Ends(c, [s EXCEPT !.x.phase = "gone"])
        \/ /\ Admits(books, c)
           /\ \/ mode = "public" /\ Ends(c, [leased EXCEPT !.x.phase = "schema"])
              \/ mode = "handshake" /\ Ends(c, Establish(leased, c))
              \/ mode = "strict" /\ Ends(c, [x |-> [s.x EXCEPT !.phase = "lookup", !.lookup = "live",
                                                               !.seen = revoked],
                                             b |-> Hold(leased.b, c)])
              \/ mode # "public" /\ Ends(c, Gone(leased, c))    \* no token, or ws refuses

\* authorizeStrict: the deadline passes or the peer leaves before the answer.
AbandonLookup(c) ==
  /\ conn[c].phase = "lookup"
  /\ Elsewhere
  /\ Ends(c, Gone(Turn(c), c))

\* establishAndConnect: the schema arrives, or fails, or the peer is gone.
UpgradeSchema(c) ==
  /\ conn[c].phase = "schema"
  /\ Elsewhere
  /\ LET s == Turn(c)
     IN \/ Ends(c, Gone(s, c))
        \/ s.x.exp # "past" /\ Ends(c, Establish(s, c))

-----------------------------------------------------------------------------
\* Ends.

\* Any other reason to stop: no pong, a send that overflows or fails, a handler
\* or the dispatcher closing the connection.
ClientStops(c) ==
  /\ conn[c].phase = "client" /\ ~conn[c].stopping
  /\ Elsewhere
  /\ Ends(c, Stop(Turn(c), c))

PeerCloses(c) ==
  /\ conn[c].phase = "client" /\ conn[c].open
  /\ Elsewhere
  /\ Ends(c, [Turn(c) EXCEPT !.x.open = FALSE])

\* The socket's close event: finalizeClient.
SocketCloses(c) ==
  /\ conn[c].phase = "client" /\ ~conn[c].open
  /\ Elsewhere
  /\ LET s == AuthClose([x |-> [conn[c] EXCEPT !.phase = "gone", !.stopping = TRUE, !.waiting = 0,
                                  !.expiryTimer = FALSE, !.handshakeTimer = FALSE],
                         b |-> books], c)
     IN Ends(c, IF s.x.finalHold
                THEN [x |-> [s.x EXCEPT !.finalHold = FALSE], b |-> Clear(s.b, c)]
                ELSE s)

HandshakeDeadline(c) ==
  /\ conn[c].handshakeTimer
  /\ Elsewhere
  /\ Ends(c, Stop([Turn(c) EXCEPT !.x.handshakeTimer = FALSE], c))

ExpiryTimer(c) ==
  /\ conn[c].expiryTimer /\ conn[c].exp = "past"
  /\ Elsewhere
  /\ Ends(c, Expire([Turn(c) EXCEPT !.x.expiryTimer = FALSE], c))

\* Time passes the expiry of the identity's token.
TokenExpires(c) ==
  /\ conn[c].exp = "ahead" /\ conn[c].phase # "gone"
  /\ Elsewhere
  /\ Ends(c, [Turn(c) EXCEPT !.x.exp = "past"])

\* A user's static token is replaced, or the user is suspended or deleted.
Revoke(u) ==
  /\ u \in Revocable \ revoked
  /\ revoked' = revoked \cup {u}
  /\ UNCHANGED <<mode, conn, books, shutdownVars, bounds>>

InUpgrade == {c \in Conns : conn[c].phase \in Upgrading}
Clients == {c \in Conns : conn[c].phase = "client"}
InDrain_None == {}
InDrain == {c \in Conns : conn[c].drain # "idle"}
InLookup == {c \in Conns : conn[c].lookup # "none"}

\* terminate: every client is stopped, under its final hold, in one turn.
Terminate ==
  /\ shutdown = "serving"
  /\ shutdown' = "upgrades" /\ awaited' = InUpgrade
  /\ conn' = [c \in Conns |-> IF c \in Clients THEN Stop(Turn(c), c).x ELSE conn[c]]
  /\ books' = [books EXCEPT !.lease =
                 [c \in Conns |-> IF c \in Clients THEN Stop(Turn(c), c).b.lease[c] ELSE @[c]]]
  /\ UNCHANGED <<mode, revoked, bounds>>

\* Its later turns: what it awaited has settled.
TerminateNext ==
  /\ UNCHANGED <<mode, conn, books, revoked, bounds>>
  /\ \/ /\ shutdown = "upgrades" /\ awaited \cap InUpgrade = {}
        /\ shutdown' = "clients" /\ awaited' = {}
     \/ /\ shutdown = "clients" /\ Clients = {}
        /\ shutdown' = "drains" /\ awaited' = InDrain
     \/ /\ shutdown = "drains" /\ awaited \cap InDrain = {}
        /\ shutdown' = "lookups" /\ awaited' = InLookup
     \/ /\ shutdown = "lookups" /\ awaited \cap InLookup = {}
        /\ shutdown' = "closed" /\ awaited' = {}

-----------------------------------------------------------------------------
Step(c) ==
  \/ Arrive(c) \/ UpgradeLimits(c) \/ AbandonLookup(c) \/ UpgradeSchema(c)
  \/ Receive(c) \/ FrameLimits(c) \/ AuthAnswer(c) \/ AuthDeadline(c) \/ Greet(c)
  \/ Prepared(c) \/ HandlerDone(c) \/ Notified(c) \/ Deliver(c) \/ Delivered(c)
  \/ \E k \in {"refresh", "snap"} : Revalidated(c, k) \/ Permitted(c, k)
  \/ ClientStops(c) \/ PeerCloses(c) \/ SocketCloses(c)
  \/ HandshakeDeadline(c) \/ ExpiryTimer(c) \/ TokenExpires(c)

Next == \/ \E c \in Conns : Step(c)
        \/ \E u \in Users : Revoke(u)
        \/ Terminate \/ TerminateNext

Spec == Init /\ [][Next]_vars

\* Limiters, lookups, schema reads and handlers settle, timers fire, and a
\* socket that was asked to close does.  Nobody has to connect, send or leave,
\* and no deadline of a lookup is relied on.
FairSpec ==
  /\ Spec
  /\ WF_vars(TerminateNext)
  /\ \A c \in Conns :
       /\ WF_vars(UpgradeLimits(c)) /\ WF_vars(UpgradeSchema(c))
       /\ WF_vars(FrameLimits(c)) /\ WF_vars(AuthAnswer(c)) /\ WF_vars(Greet(c))
       /\ WF_vars(Prepared(c)) /\ WF_vars(HandlerDone(c)) /\ WF_vars(Notified(c))
       /\ \A k \in {"refresh", "snap"} : WF_vars(Revalidated(c, k) \/ Permitted(c, k))
       /\ WF_vars(SocketCloses(c)) /\ WF_vars(HandshakeDeadline(c)) /\ WF_vars(ExpiryTimer(c))

-----------------------------------------------------------------------------
\* Properties.

\* Type invariant.
TypeOK ==
  /\ mode \in Modes
  /\ conn \in [Conns -> Connection]
  /\ books \in Books
  /\ shutdown \in {"serving", "upgrades", "clients", "drains", "lookups", "closed"}
  /\ awaited \subseteq Conns
  /\ revoked \subseteq Revocable
  /\ frames \in 0..MaxFrames /\ deliveries \in 0..MaxDeliveries

Held(P(_)) == {c \in Conns : books.lease[c].held /\ P(c)}

\* The counters are exact: each counts the unreleased leases it stands for,
\* whatever transitions, refusals, holds and double closes came before.
CountsExact ==
  /\ books.process = Cardinality(Held(LAMBDA c : TRUE))
  /\ books.transport = books.process
  /\ \A i \in Ips : books.ip[i] =
        Cardinality(Held(LAMBDA c : books.lease[c].user = Anonymous /\ IpOf[c] = i))
  /\ \A u \in Users : books.user[u] = Cardinality(Held(LAMBDA c : books.lease[c].user = u))

WorkUnderway(c) ==
  \/ conn[c].drain # "idle" \/ conn[c].lookup # "none"
  \/ conn[c].refresh.at \in {"reval", "perms"} \/ conn[c].snap.at \in {"reval", "perms"}

\* Admission is kept exactly as long as a connection has its socket or any of
\* its work is under way ("Retain admission until the socket actually closes",
\* base.ts:488): not given up early, not leaked by any way of ending.
AdmissionFollowsWork ==
  \A c \in Conns :
    books.lease[c].held <=> conn[c].phase \in {"lookup", "schema", "client"} \/ WorkUnderway(c)

\* Admission is exact, in number and in time.
AdmissionExact == CountsExact /\ AdmissionFollowsWork

\* docs/manage/configuration.md:324: connections acting as one user, anonymous
\* connections of one IP, and all connections stay within their limits.
DocumentedLimits ==
  LET Acting(u) == {c \in Clients : conn[c].user = u} IN
  /\ \A u \in Users : Cardinality(Acting(u)) <= UserLimit
  /\ \A i \in Ips : Cardinality({c \in Acting(Anonymous) : IpOf[c] = i}) <= IpLimit
  /\ Cardinality(Clients) <= ProcessLimit

\* Once terminate is done nothing of the transport is left running: no upgrade
\* that arrived before it, no drain and no lookup that outlived its deadline.
TerminateIsQuiet ==
  shutdown = "closed" =>
    \A c \in Conns : /\ conn[c].phase \in {"new", "gone"}
                     /\ conn[c].drain = "idle" /\ conn[c].lookup = "none"

\* The books tell the truth at every moment, keep to the documented limits, and
\* leave nobody running when the transport is closed (admission.ts, terminate).
AdmissionRules == AdmissionExact /\ DocumentedLimits /\ TerminateIsQuiet

\* A connection takes on an identity only while it waits for the answer: a
\* lookup that was given up by its deadline, outlived the identity it began
\* under, or lost its connection changes nothing when it is answered.
AbandonedLookupsInert ==
  [][\A c \in Conns :
       conn'[c].user \notin {conn[c].user, Anonymous} =>
         /\ conn[c].lookup = "live" /\ ~conn[c].stopping
         /\ conn[c].phase = "lookup" \/ conn[c].drain = "auth"]_vars

\* A command runs, and a delivery proceeds, only under the identity the
\* connection has at that moment, and never under a static one that was
\* revoked before its reload began (docs/api/realtime/authentication.md:72).
GrantsCurrent ==
  [][\A c \in Conns, k \in {"refresh", "snap"} :
       conn[c][k].at # "granted" /\ conn'[c][k].at = "granted" =>
         conn[c].user = conn'[c][k].as /\ conn'[c][k].ok /\ ~conn'[c].stopping]_vars

\* A connection acts for one user in its life, returning from anonymous access
\* included (docs/api/realtime/authentication.md:58).
OneUser ==
  [][\A c \in Conns : conn'[c].user # Anonymous /\ conn[c].pin # Anonymous =>
                        conn'[c].user = conn[c].pin]_vars

\* What was asked under an earlier state of the connection takes no effect in a
\* later one, and no order of answers makes it act for somebody else (the
\* epochs, deadlines and the pinned user of authenticate.ts).
IdentitySteps == AbandonedLookupsInert /\ GrantsCurrent /\ OneUser

\* On a connection in use the expiry timer runs exactly while its identity can
\* expire: no identity outlives its token for want of a timer, and no timer of
\* an earlier identity ends a later one.
TimerTracksIdentity ==
  \A c \in Clients : conn[c].started /\ conn[c].open =>
                       (conn[c].expiryTimer <=> conn[c].exp # "never")

\* Outside public mode a connection in use is authenticated, and no frame of one
\* that is not reaches a handler.
AuthenticatedModes ==
  \A c \in Conns : /\ mode # "public" /\ conn[c].started => conn[c].user # Anonymous
                   /\ conn[c].drain \in {"prepare", "refresh", "handler"} => conn[c].started

\* The identity in use is one its mode allows, and lasts no longer than it may
\* (authenticate.ts, base.ts's expiry and rejection).
IdentityRules == TimerTracksIdentity /\ AuthenticatedModes

\* A frame that was taken in is processed or dropped with its connection.
FramesDrained == \A c \in Conns : conn[c].waiting > 0 ~> conn[c].waiting = 0

\* No connection keeps an identity past its expiry.
ExpiredIdentityEnds ==
  \A c \in Conns : (c \in Clients /\ conn[c].exp = "past") ~> ~(c \in Clients /\ conn[c].exp = "past")

\* Shutdown completes, whatever was under way.
TerminateEnds == shutdown # "serving" ~> shutdown = "closed"

\* Nothing a lookup, a handler or a peer does keeps frames, expired identities
\* or the shutdown waiting.
ConnectionProgress == FramesDrained /\ ExpiredIdentityEnds /\ TerminateEnds
=============================================================================
