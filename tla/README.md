# CairnCMS in TLA+

CairnCMS is a headless CMS: a Node API server over a SQL database, with a
realtime WebSocket server, flows (small automations), extensions that run in
confined child processes, optional Redis for what several API instances share,
and an SDK whose realtime client keeps a WebSocket alive. This directory models
the parts whose correctness depends on the order of asynchronous events or of
concurrent requests, checks them with TLC on small instances and proves the
most important results with TLAPS for every instance.

## How to read the modules

A JavaScript turn, from one `await`, timer or socket event to the next, is one
action. A module is named for its component, its variables and actions for
the members and functions of the source. `X_Variant` next to a definition `X`
is a faulty form of it; it belongs to no specification and documents which
mistake a property catches. `PROJECT.json` maps every definition to its source
lines. Names that begin with `Max` and the few other constants commented
`bound` limit behaviours, and nothing in the code corresponds to them.
Variables commented `history` are read by properties only.

## The system

| Component | State it keeps | Operations | Hard behaviours | What makes it correct |
|---|---|---|---|---|
| Schedule coordination (`schedule-coordination.ts`) | ready state, connection, recovery lock and timer, probes, Redis scores | init, probe, claim, recover, destroy | claims that time out and are still executed, stalls, drops, restarts | an occurrence runs at most once; scheduling resumes by itself |
| Messenger (`messenger.ts`) | wanted and acknowledged channels, health of two connections, recovery | publish, subscribe, unsubscribe, recover | calls during recovery, answers of an earlier connection, refusals | an available status is true; no recovery is forgotten |
| Confined supervisor (`extensions/confined/supervisor.ts`) | active slots, queue, children, cgroups; per session the channel and its host calls | invoke, probe load, serve host calls, settle | untrusted child, timeouts racing results, exit racing settlement | slots exact, limits kept, every session settles once |
| WebSocket subscriptions and dispatch (`websocket/subscriptions.ts`, `dispatch.ts`, `handlers/subscribe.ts`) | reservations, event queues, workers, permits, overload | subscribe, unsubscribe, admit an event, fan out, overload, stop | events during the initial read, removal during a delivery, full queue | a connected subscriber misses nothing and sees events in order |
| WebSocket connections and identity (`websocket/controllers/base.ts`, `admission.ts`, `authenticate.ts`) | leases and counts, identity epoch, command queue, timers | upgrade, authenticate, expire, stop | lookups racing deadlines, expiry and close | counts exact; no superseded identity is installed |
| GraphQL over WebSocket (`controllers/graphql.ts`, `operation-sequencer.ts`, `services/graphql/subscription.ts`) | a lane per operation id, a rendezvous per subscription | subscribe, complete, push, pull | complete overtaking subscribe, reused ids | per id in order; every hand-off resolves |
| Flows (`flows.ts`, `utils/job-queue.ts`) | loaded flows, reload queue | load, reload, unload | reloads during loads, lost messages, restarts | an idle instance runs the stored flows |
| Caches (`cache.ts`, `utils/get-schema.ts`, `utils/get-permissions.ts`) | system and schema caches, lock, shared hash | get, set, clear | a value computed before a clear and stored after it | what is served is as new as the writes that had finished |
| Sessions (`services/authentication.ts`, `services/shares.ts`) | session rows | login, refresh, logout | two requests with one token, lapses between statements | a token handed out is honoured, one logged out is not |
| Administrators (`services/roles.ts`, `services/users.ts`, `database/bound-transaction.ts`) | roles, users, transaction context | create, update, delete | two requests removing the last two; roles written within other items | an administrator role remains, unless a nested write takes it |
| Configuration as code (`utils/apply-engine.ts`, `utils/compute-config-plan.ts`) | plan, state token, transaction, post-commit effects | plan, apply | state changed since the plan, failure after commit | all or nothing, reported as what it is |
| SDK realtime client (`sdk/src/realtime`) | connection attempt, recovery loop, subscriptions and channels, token in refresh | connect, disconnect, subscribe, unsubscribe | late closes, reconnects, calls during recovery | one attempt at a time; subscriptions survive a reconnect; disconnect stays |
| Items, fields, collections, authorization, storage, CLI, app, rest of the SDK | the database | requests | left to the database | not modelled |

They interact as follows. `server.ts` starts scheduling, extensions and flows
in that order. The messenger carries flow reloads, cache messages and
change events between instances; it and schedule coordination each own Redis
connections with the same fail-closed options. Services emit actions through
the emitter; one of its listeners publishes WebSocket events that reach
`DispatchCoordinator.admit` on each instance, directly or over the messenger.
The dispatch asks the connection for its accountability and the registry for
its reservations; on a GraphQL connection it hands an event to the rendezvous
of the subscription and waits for its acknowledgement. Flows and hooks run
confined extensions through the supervisor. A cron job fires on every instance
and asks schedule coordination whether to run. The configuration engine writes
roles through the same services as requests do. The SDK's client is the peer
of a WebSocket connection.

## Modules

| Module | Models | Composes |
|---|---|---|
| `OccurrenceLedger` | what coordination promises: an occurrence is open, then lost, or won and run once | |
| `ScheduleCoordination` | the coordination client of several replicas and the Redis set they share | refines `OccurrenceLedger` |
| `ConfinedSlots` | capacity gate, children and cgroups of the supervisor | a session appears as its settlement |
| `ConfinedSession` | one session: channel, host calls, timers, settlement | the child is external |
| `SubscriptionDispatch` | registry, dispatch workers, semaphore, overload, the subscribe command, a connection's end | registry + dispatch + handler + connection |
| `Messenger` | one instance's two Redis connections and their recovery | Redis and ioredis external |
| `Admission` | the counters and leases of `admission.ts`, as operators on a record | |
| `Connection` | a transport's connections: upgrade, identity, frames, expiry, shutdown | `Admission`'s operators inside its actions; a delivery of `SubscriptionDispatch` appears as a snapshot |
| `GraphQLOperations` | one GraphQL connection: sequencer, controller maps, rendezvous, generator | graphql-ws external; dispatch appears as a push |
| `Deployment` | the constants the next five share: nodes, users, requests | |
| `FlowReload` | flow managers and their job queues on several instances | the messenger as a lossy bus |
| `SystemCaches` | schema cache, shared hash, permissions in the system cache, its lock | Redis external |
| `Sessions` | session rows under concurrent logins, refreshes and logouts | |
| `Administration` | roles and users under role writes, configuration plans and user writes | the database's isolation external |
| `Instances` | the four above, side by side over one database | `FlowReload`, `SystemCaches`, `Sessions`, `Administration` |
| `RealtimeClient` | the SDK's realtime client | the server is what the client sent it |

`MCx` modules instantiate them; `xProofs` modules hold the lemmas and theorems
(`ConfinedProofs` those of both `Confined` modules, which is why the gate's
specification is named `SlotsSpec` and its types `SlotsTypeOK`).

### ScheduleCoordination

Each replica has the module state of `schedule-coordination.ts` (`state`,
`connected`, `recovering`, `timer`, generations). `probes` and `pending` are
commands whose continuation is due, `wire` is what Redis may still execute
after the client gave up on it. `Newer` and `RedisExecutes` are Redis's
`ZADD GT CH`. A fault is a drop, a stall, a rejected command, a restart or a
bad configuration. `destroyScheduleCoordination` and a crash both allow a new
life with the same identity. History variables (`won`, `lost`, `starts`) serve
the properties.

`MCScheduleCoordination.cfg`: two replicas, one schedule, two occurrences, one
fault. Two replicas and two occurrences give every race of claims, a stale
claim included; a fault suffices for a claim that is executed after its timeout
or after a restart, and for a recovery. That a second fault may strike during
the recovery from the first is covered by the proof of `RecoveryProtocol`. The
run checks `AtMostOnce`, the refinement `LedgerSpec`, the lock and the
wake-ups, and `Recovery`.

Fairness: answers arrive or the command's deadline fires, timers fire, a closed
client reconnects (ioredis's retry strategy never gives up). Nothing forces a
claim or a fault.

### ConfinedSlots and ConfinedSession

`ConfinedSlots` has one phase per invocation between `acquire` and the
`finally` of `invoke`; `waiters` and `active` are the supervisor's. The child's
exit is its own step, before or after settlement, as the exit event is. Four
invocations, two slots (three calls may queue until their acquire timeout, one
fails at once when the slots are taken) give queues of two, time-outs racing
releases, and releases with and without a waiter.
Fairness: continuations run, timers fire and a killed child exits. It is not
assumed that a running session ends by the guest's will: settlement is fair
because of the wall clock, which `ConfinedSession` checks.

`ConfinedSession` abstracts frames to host call, result, junk and unknown
frame. The child writes any of them while it lives. Four call frames against a
limit of three calls and two in flight reach each limit and pass it by one.

`MCConfined.cfg` checks both under one specification. Neither reads the other's
state, so the calls come once the session is over; each part is explored whole.

The documented limit on child processes does not hold of processes, only of
sessions: see the run `confined_process_limit`.

### SubscriptionDispatch

A reservation is named by its generation. `queues` and `worker` are the
per-collection state of the coordinator; `permits` and `waiters` the
semaphore. Filters, failing payload reads and unauthorized items are one
nondeterministic skip. The GraphQL sink is a delivery that ends in one of the
same ways. Recipients of an event are taken in any order.

`MCSubscriptionDispatch.cfg`: one client, two collections whose two workers
compete for one permit, two reservations, two events and a queue of two. Two
reservations let one be made, replaced or removed while the other's delivery
is under way; two events fill the queue, and overload follows. More clients,
events and longer queues are covered by the proofs.

Fairness: workers go on, initial reads and deliveries settle (their database
reads do), a stopped socket closes. Nobody has to subscribe, and no event has
to arrive.

### Messenger

`inflight` holds the commands of each connection in order. A generation
counter is only ever compared for equality with the current one, so it is a
flag on the command. `link` separates the socket from what the object
believes (`ready`). The ACL (`denied`) is chosen once and does not change: the
code acknowledges a channel on the answer to an earlier SUBSCRIBE of the same
channel, so a permission taken away between two of them could be missed.

`MCMessengerCalls.cfg`: two channels, three calls, two faults, an ACL that may
forbid publishing or unsubscribing. Three calls have a call race recovery's own
commands on both channels, and the second fault strikes during the recovery
from the first. Checks that an available status is truthful, the recovery
protocol, and `Recovers`.

Fairness is as for schedule coordination.

### Connection and Admission

`Admission` holds no state: every operation of `admission.ts` is synchronous,
so it is an operator on the record `books` and part of the action that calls
it. `Connection` keeps one record per connection. `phase` says whether the
upgrade, the client set or nobody owns it; `drain` which await of
`processFrame` the current frame has reached; `lookup` the running
`authenticate`; `refresh` and `snap` a command's `refreshPermissions` and a
delivery's `snapshotAccountability`. A turn is built as a composition of
operators on the pair of connection and books (`Stop`, `Revert`, `Install`,
`FrameDone`), as the code's methods call one another.

`identityEpoch` is only ever compared with a value captured before an await.
It is therefore modelled as the mark `stale` on the operations that captured
it, which every increment of the epoch sets. A static identity is reloaded
before it is used; `ok` records whether it was still valid when the reload
began. `authenticate` outlives its deadline, its frame and its connection, as
it does in the code, and settles in any later state.

* `MCConnectionSession.cfg`: one connection in each authentication mode, two
  users (one revocable), four frames, a queue of two, one delivery. Two users
  are needed for a connection to be tied to the first; three frames to
  authenticate, lose the identity and authenticate again; a fourth overflows
  the queue.
* `MCConnectionBooks.cfg`: three connections (symmetric) from one IP compete
  for two places in the process, one of the IP and one of the user, with two
  frames and one delivery between them. A place is refused, handed on, and kept
  by work that outlives its connection. It checks `AdmissionRules`.

Fairness: limiters, lookups, schema reads and handlers settle, timers fire and a
socket that was asked to close does close (ws terminates it after its own
timeout). Nobody has to connect, send or leave. The deadlines that cut a lookup
short are not fair: progress does not depend on them.

### GraphQLOperations

Frames are numbered as they are routed, and a generation of the sequencer and
the operation it starts bear the number of the subscribe frame. `lanes` is the
sequencer's map, `entry` graphql-ws's `ctx.subscriptions`, `operations` and
`variables` the adapter's maps. An operation has the generator's await
(`stage`), the rendezvous (`chan`, `queued`, `delivered`, `ack`) and its
reservation. A complete frame is the client's or the one a generator routes
for itself when it retires.

`handleSubscribe` may throw after it kept the operation's variables
(`graphql.ts:239`): the client is stopped and the variables stay
(`SubscribeThrows`); they go with the client, the key of their `WeakMap`.
`OperationRules` has two parts: operations of an id do not meet and leave
nothing behind (`Isolated`), but for the variables of a stopped connection, and
each takes its events once and in order (`EventsInOrder`). `untracked` records the one way around the first: a
duplicate subscribe routed in the microtasks after graphql-ws dropped the
entry of its predecessor and before the predecessor's generation settled is
delivered as a duplicate, although graphql-ws starts it; it then runs without
a generation, so a later subscribe of the id does not wait for it. The
properties say so instead of leaving the case out.

`MCGraphQLOperations.cfg`: one id, four frames of the client, two events. Ids
share nothing but `drain`, the frame whose hand-off the connection's queue
waits for; four frames give subscribe, complete, a subscribe that reuses the id
and a complete that may belong to either. Fairness: continuations run, database
reads settle, a stopped socket closes. Nothing makes the client send, an event
arrive or a connection stop.

### Instances: FlowReload, SystemCaches, Sessions, Administration

What several instances of one database keep has no state in common, so each of
the four is a module with its own variables, and `Instances` runs them side by
side under one specification.

`FlowReload`: `load` reads flows and then operations, both as of the first
read; installing their handlers is a second step, so that a write and its
reload can come between. A reload is a job; a job that throws is an unhandled
rejection (`job-queue.ts:26`), which ends the process. The messenger delivers to
processes that are up and may lose messages. `flows.ts:196` drops a reload that
arrives during the first load with a warning. Not every change is announced at
all (`WriteUnannounced`): `deleteMany` unlinks operations before it may fail
(`services/flows.ts:51`), a cache may fail to clear after the commit
(`items.ts:946`), and `upsertMany` and nested writes go through a plain
`ItemsService`. `missed` records each, and `FlowsCurrent` has it as its
exception.

`SystemCaches`: a writer goes through the statements of `clearSystemCache`
(lock, clear, unlock, hash, local), a reader through those of `getSchema` or
`getPermissions`. Any store operation may fail, and the lock may expire.
`CachesFresh` states "invalidated on schema or permission writes"
(`docs/manage/configuration.md:270`) with the two exceptions the code has: a
version stored after a later one was committed (`late`), and permissions whose
clear was left to another writer that held the lock (`skipped`,
`cache.ts:91`). Both last until the next clear.

`Sessions`: a request is a sequence of single statements that nothing
serializes with those of another. A login inserts and then purges; a refresh
looks up and then rotates, or deletes for a user who is not active; a logout
finds and then deletes. `Fail` ends any of them. `SessionRules` keeps
sessions apart (`OneSession`), unused tokens good (`Honoured`) and logged-out
logins ended (`LoggedOut`). The exceptions are a session that lapsed and a
token that two requests presented at once: the second refresh is answered with
a token of no session.

`Administration`: a serializable transaction is its beginning, which takes the
snapshot, and its end, which commits or fails by `Isolated`. That is the
conflict rule of the database at its weakest use here: what was read was not
written by another serializable commit, what is written was not written since.
A user write counts administrators first and writes later, in a transaction of
its own. The order in which a plan is applied, creations and grants before
revocations, is in `BeforeRevokes`. `RolesService` in a plain transaction of its
caller refuses to take administrator access away (`RoleWriteInTransaction`). A
role nested in an item of another collection never reaches `RolesService`:
`PayloadService` writes it with a plain `ItemsService` (`NestedRoleWrite`), and
so it does the role that comes as an object with a user, after the check of
`users.ts:268` has read it as stored (`WriteWithRole`). `demoted` records that
such a write took administrator access from a role. `AdminRoleRemains` holds up
to then; `LastRoleGoes` says that only such a write, or a role write it
overlapped, takes the last one; `last_admin_role` shows that it does.

`MCInstances.cfg`: two instances; two writes of flows; two writes of metadata;
two users, one share and three tokens; two roles and two requests.
Two of each is what a race needs, three tokens a login, its rotation, and one
that is contested or purged. `MCSpec` restricts `Spec` in ways that lose
nothing:

* one of the four parts moves while the others have not begun; no property
  speaks of two and no action reads two;
* the readers of one behaviour read one kind, since reads of schema and of
  permissions fill and serve different places; where schemas
  are read the writers go one after the other, since they meet at the lock,
  which is for permissions (`OneKind`);
* sessions are of one user or one share, and one expires (`OneOwner`): sessions
  of two owners meet in the purge only, as those of one owner do;
* nodes and requests are interchangeable.

The theorems hold without these restrictions and for every bound.
`last_administrator` and `last_admin_role` check `AdminSpec`, the fourth part
alone.

### RealtimeClient

`socks` holds each socket's network state and how far its setup is, `conn` the
client's `state` with the socket it is about, `loop` the recovery loop.
A socket or timer event begins a turn (`Turn`); continuations that are due run
before the next event (`Microtask`, `Due`). Socket 0 is one that could not be
constructed. The application may call in a handler too: `CloseBegins` runs the
close handlers and `CloseEnds` is the rest of `onClose`. The server is what
the client sent it: the subscriptions it will hold (`server`) and all it was
ever sent (`sent`), so that it may refuse any of them late.

`ClientRules`: one attempt is set up, the current one, and every open socket is
the one the client knows (`AttemptRules`); a subscription the client holds with
nothing under way is held by the server, and the reverse, and every channel
that is open is one that something will end (`SubscriptionRules`); a token
re-authenticates a socket once (`TokensOnce`). `DisconnectStays`: the close
that a disconnect causes begins no recovery. `ClientProgress`: every attempt,
recovery and subscribe call ends.

The model found three situations the code does not handle, and the properties
name them by history variables instead of leaving them out:

* `stranded`: a subscription made while the loop recovers, or during a
  handshake, is not among the targets the loop replays; if that socket drops
  too, nothing replays it and its iterator waits. (The comment at
  `composable.ts:178` says recovery "replays every active subscription".)
* `untied`: an exhausted loop, or a receive buffer that overflows, fails the
  channel of a subscribe call that still waits for its connection, and the call
  then sends the subscription all the same; and a late refusal of a
  subscription finds the next one with its uid.
* `clobbered`: a close handler of the application that calls `connect` begins
  an attempt which the rest of `onClose` overwrites
  (`composable.ts:597-606`), although "late events may mutate state only for
  the current connection attempt" (`:96`). Nothing is claimed after it.

`MCRealtimeClient.cfg`: two subscriptions with one uid, two tries of recovery,
three sockets, two tokens. Two subscriptions and one uid give replacement and
the late refusal; three sockets a loss, a failed try and a successful one.
`OneConcern` explores re-authentication and subscriptions in different
behaviours (their variables meet only where both are cleared), stops at
`clobbered`, and lets `s1` subscribe first, since subscriptions are alike.

Fairness: handlers return, continuations run, the backoff timer and the connect
deadline fire. The deadline is `config.connect`, on by default; a client that
turns it off may wait for ever, and is not modelled. `getToken` need not answer
and a peer need not close: progress does not depend on them.

## What is checked, what it shows

`PROJECT.json` lists each run with its properties, and for each property the
faulty variant that breaks it. Nine runs pass:

| Run | Distinct states | Shows |
|---|---|---|
| `schedule_coordination` | 642 651 | an occurrence runs at most once, coordination implements its ledger and recovers |
| `confined_supervisor` | 104 033 | slots and cgroups follow the calls, waiters are served; host calls limited and answered once, settlement complete and final |
| `subscription_dispatch` | 178 553 | no gap, repetition or inversion; permits and reservations exact; dispatch goes on |
| `messenger_calls` | 710 533 | an available status is true, no recovery is lost, it recovers |
| `connection_session` | 115 256 | identities are current, one user per connection, shutdown and expiry end |
| `connection_books` | 459 028 | admission exact and within the documented limits |
| `graphql_operations` | 100 366 | operations kept apart, events once and in order, everything that waits is let go |
| `instances` | 2 806 888 | flows current, metadata fresh, sessions kept, an administrator role remains but for nested writes, checks hold |
| `realtime_client` | 401 701 | what client and server hold agrees, disconnect stays, attempts end |

Three runs show a disagreement between code and documentation:

* `confined_process_limit`: `EXTENSIONS_SANDBOX_MAX_PROCESSES` bounds sessions;
  a killed child whose session has settled may still exist beside a new one.
* `last_administrator`: two deletions of users each count the administrator the
  other is about to delete, although the check is there to "make sure there's at
  least one admin user left after this deletion is done" (`users.ts:111`).
* `last_admin_role`: a role nested in another item is written without
  the guards of `RolesService` (`payload.ts:505`, `:587`, `:674`), although "the last
  remaining admin role cannot be deleted, and you cannot turn off its
  `admin_access` flag" (`docs/guides/permissions.md:29`) and "there is no override"
  (`docs/api/system-collections/access-control.md:128`).

Met while modelling, in words only:

* A denied probe: `docs/manage/configuration.md:304` says health then reports the
  messenger as degraded, but any other successful publish makes the publisher
  healthy (`messenger.ts:179`).
* `docs/api/authentication.md:101` says the second refresh with one token fails;
  when the two overlap it is answered with a token no session holds. A logout
  does not find the session of a share (inner join of users,
  `authentication.ts:431`) and leaves it.
* `shares.ts:166` admits one use more than `max_uses`, and `times_used`
  (`shares.ts:179`) is read before and written after, so concurrent uses count
  once (`docs/api/system-collections/access-control.md:250`).
* A deletion of users that is refused has already cleared the sender of their
  notifications (`users.ts:343`). Taking a role away from a user is not counted,
  changing one counts administrators of any status, and demoting a role looks at
  roles, not users.
* Changes of flows that no instance is told of: see `WriteUnannounced`.
* With `MESSENGER_STORE=redis` and `CACHE_STORE=memory`, the schemaChanged
  handler (`cache.ts:26`) clears only response caches.
* `supervisor.ts:440`: when spawn throws after the delegated cgroup was created,
  its directory stays.

## What is proved

For every value of the constants that meets the modules' named assumptions:

* `ScheduleCoordinationProofs`: type correctness, `AtMostOnce`, the recovery
  properties, and that every step is a step of `OccurrenceLedger` or a
  stutter. `AtMostOnce` is not inductive. `ClaimInv` adds that claims in flight
  were fired (`ClaimsIssued`), that Redis only ever moves a score forward and
  granted what it passed (`GrantsForward`), that an occurrence is granted once
  (`GrantsUnique`) and that a start spends a grant (`StartsSpent`). The score's
  monotonicity is what makes a late or repeated claim harmless. `ProbeInv` ties
  the recovery lock to the one current probe.
* `ConfinedProofs`, of the gate: type correctness and `SlotRules`, that is
  `PoolExact` (slot count and queue) and `CgroupRules`. `GateInv` is inductive
  only with all four parts: a release to a waiter keeps the count because queue
  entries are exactly the queued calls (`QueueExact`). Of a session: type
  correctness, `CallRules`, that is `HostCallRules` (the limits, one reply per
  call) and `SettlementComplete` (settlement aborts and loses nothing), and the
  action property `SettlementFinal` (the outcome stands). `SessionInv` relates
  frames read to calls counted (`PipeInv`), awaited calls to replies
  (`WaitInv`) and settlement to the kill (`ResultInv`).
* `SubscriptionDispatchProofs`: type correctness, `ResourcesExact`,
  `Deliveries` and `NoFrameAfterRemoval`. `BaseInv` ties workers to their
  queues (`WorkerInv`), a cancellation to the loss of every subscriber's
  connection (`ModeInv`) and a subscribe command to its reservation
  (`CommandInv`). `PermitInv` counts permits with the waiters distinct.
  `DeliveryInv` is the argument for `NoSilentGap`: an event's recipients are
  the reservations made before it was captured (`ReachInv`), each entry of a
  queue still reaches those its fan-out has not passed (`EntryInv`), and what
  a reservation was sent precedes everything still ahead of it (`HistoryInv`,
  `Behind`).
* `MessengerProofs`: type correctness, `RecoveryProtocol` and
  `AvailableDelivers`. `MessengerInv` holds the lock (`Locks`), what a live
  command implies about its connection (`LinkInv`) and which commands can be
  queued (`Queued`). The delivery argument is `SubInv`: of a wanted channel
  the last live command is a subscribe and its acknowledgement is what Redis
  promised; of an unwanted one a call's command ends it or it is in
  `pendingUnsub`; and an available status has none of those (`StatusTrue`).
* `ConnectionProofs`: type correctness, `AdmissionRules`, `IdentityRules` and the
  action property `IdentitySteps`. None of them is inductive. `ConnectionInv`
  says of every connection
  - what holds its place: its lease's `work` is the number of operations under
    way (`HoldsMatch`: the frame, a lookup, a reading of the permissions, a
    delivery, the final hold of a socket's close), and a lease is held until it
    is closed and its work is over (`Reserved`), which each phase refines
    (`PhaseInv`);
  - whom it acts for: a reading that is not stale is one of the identity in use
    (`Current`), outside public mode a connection that started has an identity,
    and that is the pinned one (`IdentityInv`);
  - what its frame awaits (`FrameInv`), when its timer runs (`TimerInv`) and
    what shutdown has still to stop (`ShutdownInv`);

  and of the books that each counter is the cardinality of the leases it stands
  for and within its limit (`BooksInv`). A turn of the event loop is a
  composition of operators on s = [connection, books]; each has a lemma that it
  keeps what a turn has built up (`Mid`) or leaves a connection that may await
  its next event (`Settled`).
* `GraphQLOperationsProofs`: type correctness, `OperationRules` and the action
  property `CompleteSteps`. The part of `OperationsInv` that holds always says
  - of the sequencer that the client's waiting frame holds the drain, every
    waiting frame follows the waiting frame of its id before it (`OrderInv`), a
    lane counts its waiting frames and knows the last unsettled generation
    (`LaneInv`), and of two unsettled generations of an id the later one still
    waits for the earlier (`GenerationInv`), which is why operations of an id
    cannot meet;
  - of the rendezvous what is pushed, taken, queued and acknowledged at each
    stage of an operation (`StageInv`, `EventsInv`), and that the frames the
    generators route do not outnumber the events they had (`CountInv`).

  While no duplicate has started untracked, a running operation made a
  generation, a live one owns its entry and its place in `adapter.operations`,
  and what an id still has belongs to one that runs or, its variables, to a
  stopped connection (`AdapterInv`). While the
  connection is open as well, a completed operation that graphql-ws still serves
  has a complete frame on its way, and a generator's complete frame finds its
  own operation or none (`RetireInv`): a generator retires only the current
  generation of its id, and a subscribe that would replace it is routed behind
  that frame.
* `InstancesProofs`: all six properties of the run `instances`.
  - Flows: reloads on their way are counted against the writes
    (`ReloadsCounted`), and a manager behind the database has a reload, a job
    or a read to come, or is recorded as one that a change was not announced to
    (`Informed`).
  - Caches: each place holds a version not before the last finished clear or
    one recorded as an exception, and a reader only what it could have read
    (`VersionsInv`, `ClearedInv`, `ReaderInv`); the exceptions only grow.
  - Sessions: a request's token is its own until it is handed out, and two
    sessions never share a login (`CallInv`, `Apart`, `LapsesRecorded`).
  - Administrators: `AdminInv`. Administrator roles get fewer only by
    serializable commits and by nested writes; a snapshot is true of the
    administrator roles a transaction read until one of them overlaps it: a
    commit fails it, a nested write is recorded in `overlap` and in `demoted`
    (`MarksTrue`, `RoleGoes`); what was counted holds while nothing else is
    written.
* `RealtimeClientProofs`: type correctness, `ClientRules` and the action
  property `DisconnectStays`. Some of `ClientInv` holds whatever the
  application's handlers do (`AlwaysInv`): one channel, one uid and one call per
  subscription, nothing at the server without a connection, and a token that
  re-authenticated this connection is not after the last one retried. The rest
  holds until a close handler's attempt is overwritten:
  - a socket in setup is the pending one, an opening or open one is the client's,
    and both are the current attempt's (`SocketInv`); the close whose handlers
    run is the current attempt's, so that of a superseded one changes nothing
    (`HandlerInv`); a disconnect is in force while its socket's close is to
    come (`LeftInv`), which is why no recovery follows it;
  - a subscribe call that waits for a socket that gets established still has its
    subscription, or is recorded in `untied`, and sends on the client's socket
    (`CallsInv`); what was sent, or will be replayed, is of calls that returned
    (`SentInv`), so no call sends twice;
  - every subscription waits, is a target of the loop, is recorded as
    `stranded`, or is on the server (`HeldInv`): of these only the last is left
    once nothing is under way, which is `Kept`.

The proofs rest on the modules' ASSUMEs, all of which TLC evaluates, and on the
external actions as modelled: Redis's `ZADD GT CH`, its order of answers on one
connection, and the isolation of serializable transactions.

Only model-checked: liveness (`Recovery`, `Recovers`, `WaitersServed`,
`SessionCompletes`, `DispatchProgress`, `ConnectionProgress`,
`OperationsProgress`, `ClientProgress`), which is out of the prover's reach.
Every invariant and every action property that a passing run checks is a
theorem.

## Not modelled

* Items, fields, collections, relations, schema snapshots: each request is
  one transaction of sequential statements, and most of the code builds queries
  or converts payloads. Authorization and the merging of permissions evaluate
  rules over data; they keep no state.
* Flow execution, the event emitter, extension loading, host services, storage,
  rate limiting and pressure, migrations, the command line: sequential, I/O, or
  thin wrappers of components that are modelled. `PROJECT.json` has the reason
  of each.
* The web app and the HTTP part of the SDK.
* Of the components marked `partly`: the response cache and the memory and
  memcache stores; entries' expiry (a miss); providers, passwords and one-time
  codes of a login; a share's count of uses; batch writes of roles, and users
  written within a role;
  kinds of configuration other than roles; the frames a client's channel holds
  for its reader.

Most of the repository's lines are of these kinds (views, query building,
drivers, documents and their conversion), so the models map a small share of
them; what they map is the code whose order of events matters.

Abstractions that limit what the results say: the messenger's ACL does not
change; a store's `clear` is one step; `SystemCaches` has a reader and a writer
per instance; a load's operations are those of its flows' version.

## Plan

Done, in this order: schedule coordination, the confined supervisor,
subscriptions and dispatch, the messenger, connections with their admission,
GraphQL operations, flows, caches, sessions, administrators with the
configuration engine, the SDK's realtime client; the proofs of all their
invariants and action properties. Next:

1. `Sessions`: the count of a share's uses. `Administration`: `updateBatch` and
   the `users` alias of a role.
2. `SystemCaches`: the response cache with its purge, and memory stores with
   the messages that clear them.
