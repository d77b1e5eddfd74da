------------------------ MODULE ScheduleCoordination ------------------------
(***************************************************************************)
(* api/src/schedule-coordination.ts: the API replicas of one deployment    *)
(* agree through a shared Redis sorted set on which replica runs each      *)
(* occurrence of a cron schedule.  A replica first proves with a probe     *)
(* that it can write the claim key, then claims each occurrence with       *)
(* ZADD GT CH, and fails closed whenever the connection is in doubt.       *)
(*                                                                         *)
(* One process is a replica n \in Nodes.  Each JavaScript turn is one      *)
(* action; a promise continuation is an action of its own, so that socket  *)
(* events, timers and other turns come between a command and its answer.   *)
(* Coordination is enabled (MESSENGER_STORE = redis) in every replica.     *)
(* A definition X_Variant is a faulty X, used to see a property fail.      *)
(***************************************************************************)
EXTENDS Naturals, FiniteSets

CONSTANTS Nodes,          \* API replicas
          Schedules,      \* schedule ids
          MaxOccurrence,  \* bound: occurrences are 1..MaxOccurrence
          MaxFaults       \* bound: environment faults in one behaviour

ASSUME BoundsAssumption == MaxOccurrence \in Nat /\ MaxFaults \in Nat

VARIABLES
  state,       \* module variable `state`, per replica
  live,        \* `client` is defined
  connected,   \* `connected`
  recycling,   \* disconnect(true) was called on the client, its close event is due
  recovering,  \* `recovering`, the single-flight lock of attemptProbe
  timer,       \* `recoveryTimer` is armed
  probeGen,    \* `probeGeneration`
  initGen,     \* `initGeneration`
  waiting,     \* runInit's promise is unsettled (its readiness deadline is armed)
  probes,      \* probe commands awaiting their outcome
  fired,       \* newest occurrence node-cron fired, per replica and schedule
  pending,     \* claims whose shouldRun has not returned, per replica
  wire,        \* claims sent to Redis that Redis has not executed
  score,       \* Redis: the claim set's score per schedule, 0 for no member
  won,         \* claims for which ZADD answered 1
  lost,        \* claims for which ZADD answered 0
  starts,      \* starts[s][o]: how often some replica started the task body
  faults       \* environment faults so far

proc == <<state, live, connected, recycling, recovering, timer, probeGen,
          initGen, waiting, probes>>
claimVars == <<fired, pending, wire, score, won, lost, starts>>
vars == <<state, live, connected, recycling, recovering, timer, probeGen,
          initGen, waiting, probes, fired, pending, wire, score, won, lost,
          starts, faults>>

Status == {"uninitialized", "ready", "unavailable"}
Occurrence == 1..MaxOccurrence
Epoch == 0..MaxFaults
Probe == [gen : Epoch, init : Epoch]

\* conn names the connection the command was written to, so that two claims
\* of one occurrence by two lives of a process are different claims.
Claim == [node : Nodes, sched : Schedules, occ : Occurrence, conn : Epoch]

-----------------------------------------------------------------------------
Init ==
  /\ state = [n \in Nodes |-> "uninitialized"]
  /\ live = [n \in Nodes |-> FALSE]
  /\ connected = [n \in Nodes |-> FALSE]
  /\ recycling = [n \in Nodes |-> FALSE]
  /\ recovering = [n \in Nodes |-> FALSE]
  /\ timer = [n \in Nodes |-> FALSE]
  /\ probeGen = [n \in Nodes |-> 0]
  /\ initGen = [n \in Nodes |-> 0]
  /\ waiting = [n \in Nodes |-> FALSE]
  /\ probes = [n \in Nodes |-> {}]
  /\ fired = [n \in Nodes |-> [s \in Schedules |-> 0]]
  /\ pending = [n \in Nodes |-> {}]
  /\ wire = {}
  /\ score = [s \in Schedules |-> 0]
  /\ won = {}
  /\ lost = {}
  /\ starts = [s \in Schedules |-> [o \in Occurrence |-> 0]]
  /\ faults = 0

\* A fault of the environment; MaxFaults of them in one behaviour.
Fault == faults < MaxFaults /\ faults' = faults + 1

\* The client accepts and transmits commands.
SocketUp(n) == connected[n] /\ ~recycling[n]

\* A command written to a connection that is gone: ioredis flushes it with an
\* error (FAIL_CLOSED_OPTIONS: autoResendUnfulfilledCommands is off).
Flushed(n, gen) == gen # probeGen[n] \/ ~SocketUp(n)

-----------------------------------------------------------------------------
\* Initialization.

\* initScheduleCoordination -> runInit, up to the wait for the first verdict.
StartInit(n) ==
  /\ state[n] = "uninitialized"
  /\ ~live[n]
  /\ live' = [live EXCEPT ![n] = TRUE]
  /\ waiting' = [waiting EXCEPT ![n] = TRUE]
  /\ UNCHANGED <<state, connected, recycling, recovering, timer, probeGen,
                 initGen, probes, claimVars, faults>>

\* buildClient throws: the configuration is invalid and cannot recover here.
InitMisconfigured(n) ==
  /\ state[n] = "uninitialized"
  /\ ~live[n]
  /\ Fault
  /\ state' = [state EXCEPT ![n] = "unavailable"]
  /\ UNCHANGED <<live, connected, recycling, recovering, timer, probeGen,
                 initGen, waiting, probes, claimVars>>

\* READINESS_DEADLINE_MS passes before a probe or a close settled the wait.
Overdue_Ignored(s) == s
Overdue(s) == IF s = "uninitialized" THEN "unavailable" ELSE s

InitDeadline(n) ==
  /\ waiting[n]
  /\ waiting' = [waiting EXCEPT ![n] = FALSE]
  /\ state' = [state EXCEPT ![n] = Overdue(@)]
  /\ UNCHANGED <<live, connected, recycling, recovering, timer, probeGen,
                 initGen, probes, claimVars, faults>>

-----------------------------------------------------------------------------
\* Probing and recovery.

\* The generations a probe remembers across its await.
Remembered_Next(n) == [gen |-> probeGen[n] + 1, init |-> initGen[n]]
Remembered(n) == [gen |-> probeGen[n], init |-> initGen[n]]

\* attemptProbe up to its await: takes the lock and sends the probe.  (A free
\* lock means no probe of this generation is in flight: ProbeLock, below.)
AttemptProbe(n) ==
  IF recovering[n]
  THEN UNCHANGED <<recovering, probes>>
  ELSE /\ recovering' = [recovering EXCEPT ![n] = TRUE]
       /\ probes' = [probes EXCEPT ![n] = @ \cup {Remembered(n)}]

\* The socket becomes ready: onReady.
OnReady(n) ==
  /\ live[n]
  /\ ~connected[n]
  /\ connected' = [connected EXCEPT ![n] = TRUE]
  /\ timer' = [timer EXCEPT ![n] = FALSE]
  /\ AttemptProbe(n)
  /\ UNCHANGED <<state, live, recycling, probeGen, initGen, waiting, claimVars, faults>>

\* The socket closes, or a connection attempt fails: onDown.  The close that a
\* recycle asked for is no further fault.
OnDown(n) ==
  /\ live[n]
  /\ IF recycling[n] THEN UNCHANGED faults ELSE Fault
  /\ connected' = [connected EXCEPT ![n] = FALSE]
  /\ recycling' = [recycling EXCEPT ![n] = FALSE]
  /\ recovering' = [recovering EXCEPT ![n] = FALSE]
  /\ probeGen' = [probeGen EXCEPT ![n] = @ + 1]
  /\ timer' = [timer EXCEPT ![n] = FALSE]
  /\ state' = [state EXCEPT ![n] = "unavailable"]
  /\ waiting' = [waiting EXCEPT ![n] = FALSE]
  /\ UNCHANGED <<live, initGen, probes, claimVars>>

\* The recovery timer fires.
RecoveryTimer(n) ==
  /\ timer[n]
  /\ timer' = [timer EXCEPT ![n] = FALSE]
  /\ IF connected[n] THEN AttemptProbe(n) ELSE UNCHANGED <<recovering, probes>>
  /\ UNCHANGED <<state, live, connected, recycling, probeGen, initGen, waiting,
                 claimVars, faults>>

\* The probe was sent on the connection the process still has.
Current_Unchecked(n, p) == TRUE
Current(n, p) == p.gen = probeGen[n]

\* scheduleRecovery after a probe that did not make the replica ready.
Rearmed_Never(n, ok) == FALSE
Rearmed(n, ok) == ~ok /\ (timer[n] \/ connected[n])

\* attemptProbe after its await.  A probe of an older generation settles only
\* its own initialization: it neither decides the state nor releases the lock.
SettleProbe(n, p, ok) ==
  /\ probes' = [probes EXCEPT ![n] = @ \ {p}]
  /\ waiting' = [waiting EXCEPT ![n] = @ /\ p.init # initGen[n]]
  /\ IF Current(n, p)
     THEN /\ state' = [state EXCEPT ![n] = IF ok THEN "ready" ELSE "unavailable"]
          /\ recovering' = [recovering EXCEPT ![n] = FALSE]
          /\ timer' = [timer EXCEPT ![n] = Rearmed(n, ok)]
     ELSE UNCHANGED <<state, recovering, timer>>
  /\ UNCHANGED <<live, connected, probeGen, initGen, claimVars>>

\* Redis accepted the probe.  The answer may be read just as the socket closes.
ProbeAccepted(n) ==
  \E p \in probes[n] :
     /\ SettleProbe(n, p, TRUE)
     /\ UNCHANGED <<recycling, faults>>

\* The probe is refused (missing capability, ACL) or flushed with its connection.
ProbeRejected(n) ==
  \E p \in probes[n] :
     /\ IF Flushed(n, p.gen) THEN UNCHANGED faults ELSE Fault
     /\ SettleProbe(n, p, FALSE)
     /\ UNCHANGED recycling

\* CLAIM_DEADLINE_MS passes on a stalled probe: the connection is recycled.
ProbeTimeout(n) ==
  \E p \in probes[n] :
     /\ ~Flushed(n, p.gen)
     /\ Fault
     /\ SettleProbe(n, p, FALSE)
     /\ recycling' = [recycling EXCEPT ![n] = TRUE]

-----------------------------------------------------------------------------
\* Claims.

\* shouldRun's catch: the occurrence does not run, and the current connection
\* is distrusted until a probe succeeds.
Distrust_NoRecovery(n) ==
  IF connected[n]
  THEN state' = [state EXCEPT ![n] = "unavailable"] /\ UNCHANGED timer
  ELSE UNCHANGED <<state, timer>>
Distrust(n) ==
  IF connected[n]
  THEN /\ state' = [state EXCEPT ![n] = "unavailable"]
       /\ timer' = [timer EXCEPT ![n] = @ \/ ~recovering[n]]
  ELSE UNCHANGED <<state, timer>>

\* node-cron fires occurrence o of s: shouldRun up to its await.  An
\* unavailable replica answers false and one without a client throws; otherwise
\* ZADD GT CH is written to the socket, or refused at once by the client when
\* the socket is down (enableOfflineQueue is off).
FireOccurrence(n, s, o) ==
  LET c == [node |-> n, sched |-> s, occ |-> o, conn |-> probeGen[n]]
      claims == live[n] /\ state[n] # "unavailable"
  IN /\ o > fired[n][s]
     /\ fired' = [fired EXCEPT ![n][s] = o]
     /\ IF claims /\ SocketUp(n)
        THEN /\ pending' = [pending EXCEPT ![n] = @ \cup {c}]
             /\ wire' = wire \cup {c}
        ELSE UNCHANGED <<pending, wire>>
     /\ IF claims /\ ~SocketUp(n) THEN Distrust(n) ELSE UNCHANGED <<state, timer>>
     /\ UNCHANGED <<live, connected, recycling, recovering, probeGen, initGen,
                    waiting, probes, score, won, lost, starts, faults>>

\* ZADD GT adds a member or raises its score, and CH counts it.
Newer_OrEqual(c) == c.occ >= score[c.sched]
Newer(c) == c.occ > score[c.sched]

\* Redis executes ZADD GT CH: 1 when the member is new or its score grew.  A
\* command already sent may be executed after its sender gave up on it.
RedisExecutes(c) ==
  /\ c \in wire
  /\ wire' = wire \ {c}
  /\ IF Newer(c)
     THEN /\ score' = [score EXCEPT ![c.sched] = c.occ]
          /\ won' = won \cup {c}
          /\ UNCHANGED lost
     ELSE /\ lost' = lost \cup {c}
          /\ UNCHANGED <<score, won>>
  /\ UNCHANGED <<proc, fired, pending, starts, faults>>

Granted_AnyAnswer(c) == TRUE
Granted(c) == c \in won

\* shouldRun returns ZADD's answer; node-cron starts the task body on true.
ClaimAnswered(n) ==
  \E c \in pending[n] \cap (won \cup lost) :
     /\ pending' = [pending EXCEPT ![n] = @ \ {c}]
     /\ starts' = IF Granted(c) THEN [starts EXCEPT ![c.sched][c.occ] = @ + 1] ELSE starts
     /\ UNCHANGED <<proc, fired, wire, score, won, lost, faults>>

\* The claim is rejected: an error answer, or a flush with its connection.
FailClaim(n, c) ==
  /\ pending' = [pending EXCEPT ![n] = @ \ {c}]
  /\ Distrust(n)
  /\ UNCHANGED <<live, connected, recovering, probeGen, initGen, waiting, probes,
                 fired, wire, score, won, lost, starts>>

ClaimRejected(n) ==
  \E c \in pending[n] :
     /\ IF Flushed(n, c.conn) THEN UNCHANGED faults ELSE Fault
     /\ FailClaim(n, c)
     /\ UNCHANGED recycling

\* CLAIM_DEADLINE_MS passes on a stalled claim: the connection is recycled.
ClaimTimeout(n) ==
  \E c \in pending[n] :
     /\ ~Flushed(n, c.conn)
     /\ Fault
     /\ FailClaim(n, c)
     /\ recycling' = [recycling EXCEPT ![n] = TRUE]

-----------------------------------------------------------------------------
\* destroyScheduleCoordination.  Probes and claims in flight outlive it, and
\* the events of the discarded client are ignored (target !== client).
ResetProcess(n) ==
  /\ initGen' = [initGen EXCEPT ![n] = @ + 1]
  /\ probeGen' = [probeGen EXCEPT ![n] = @ + 1]
  /\ connected' = [connected EXCEPT ![n] = FALSE]
  /\ recycling' = [recycling EXCEPT ![n] = FALSE]
  /\ recovering' = [recovering EXCEPT ![n] = FALSE]
  /\ timer' = [timer EXCEPT ![n] = FALSE]
  /\ waiting' = [waiting EXCEPT ![n] = FALSE]
  /\ live' = [live EXCEPT ![n] = FALSE]
  /\ state' = [state EXCEPT ![n] = "uninitialized"]

Destroy(n) ==
  /\ Fault
  /\ ResetProcess(n)
  /\ UNCHANGED <<probes, claimVars>>

\* The process dies and is started again: its promises die with it, and its
\* cron tasks may fire an occurrence again.  Generations keep counting so that
\* the claims of the earlier process stay distinguishable.
Crash(n) ==
  /\ Fault
  /\ ResetProcess(n)
  /\ probes' = [probes EXCEPT ![n] = {}]
  /\ pending' = [pending EXCEPT ![n] = {}]
  /\ fired' = [fired EXCEPT ![n] = [s \in Schedules |-> 0]]
  /\ UNCHANGED <<wire, score, won, lost, starts>>

-----------------------------------------------------------------------------
Lifecycle(n) == \/ StartInit(n) \/ InitMisconfigured(n) \/ InitDeadline(n)
                \/ OnReady(n) \/ OnDown(n) \/ RecoveryTimer(n)
                \/ ProbeAccepted(n) \/ ProbeRejected(n) \/ ProbeTimeout(n)
                \/ Destroy(n) \/ Crash(n)

Claiming(n) == \/ \E s \in Schedules, o \in Occurrence : FireOccurrence(n, s, o)
               \/ ClaimAnswered(n) \/ ClaimRejected(n) \/ ClaimTimeout(n)

Next == \/ \E n \in Nodes : Lifecycle(n) \/ Claiming(n)
        \/ \E c \in wire : RedisExecutes(c)

\* Timers fire, ioredis keeps reconnecting, a closing socket closes, and every
\* probe is answered or flushed, and every flushed claim is rejected.  A claim
\* that Redis never answers is a fault, so claims need no fairness of Redis.
FairSteps(n) ==
  /\ WF_vars(OnReady(n))
  /\ WF_vars(OnDown(n) /\ recycling[n])
  /\ WF_vars(RecoveryTimer(n))
  /\ WF_vars(InitDeadline(n))
  /\ WF_vars(ProbeAccepted(n))
  /\ WF_vars(UNCHANGED faults /\ ProbeRejected(n))
  /\ WF_vars(UNCHANGED faults /\ ClaimRejected(n))

Spec == Init /\ [][Next]_vars
FairSpec == /\ Spec
            /\ \A n \in Nodes : FairSteps(n)
-----------------------------------------------------------------------------
\* Properties.

\* Type invariant of every variable (module state of schedule-coordination.ts).
TypeOK ==
  /\ state \in [Nodes -> Status]
  /\ live \in [Nodes -> BOOLEAN]
  /\ connected \in [Nodes -> BOOLEAN]
  /\ recycling \in [Nodes -> BOOLEAN]
  /\ recovering \in [Nodes -> BOOLEAN]
  /\ timer \in [Nodes -> BOOLEAN]
  /\ probeGen \in [Nodes -> Epoch]
  /\ initGen \in [Nodes -> Epoch]
  /\ waiting \in [Nodes -> BOOLEAN]
  /\ probes \in [Nodes -> SUBSET Probe]
  /\ fired \in [Nodes -> [Schedules -> 0..MaxOccurrence]]
  /\ pending \in [Nodes -> SUBSET Claim]
  /\ wire \in SUBSET Claim
  /\ score \in [Schedules -> 0..MaxOccurrence]
  /\ won \in SUBSET Claim
  /\ lost \in SUBSET Claim
  /\ starts \in [Schedules -> [Occurrence -> Nat]]
  /\ faults \in 0..MaxFaults

\* An occurrence runs on at most one instance, at most once, whatever restarts,
\* timeouts, late executions and re-fired cron tasks come between
\* (createRunCoordinator; docs/manage/configuration.md "Schedule coordination").
AtMostOnce ==
  \A s \in Schedules, o \in Occurrence : starts[s][o] <= 1

\* A replica that is connected but not ready always has a probe in flight or a
\* recovery timer armed: no order of claim failures, probe outcomes and socket
\* events loses the wake-up of scheduleRecovery.
NoLostRecovery ==
  \A n \in Nodes : connected[n] /\ state[n] # "ready" => recovering[n] \/ timer[n]

\* The single-flight lock is held exactly while a probe of the current
\* generation is in flight: a superseded probe never releases it, and a
\* dropped connection never leaves it held (attemptProbe, onDown).
ProbeLock ==
  \A n \in Nodes : recovering[n] <=> \E p \in probes[n] : p.gen = probeGen[n]

\* A replica is ready only on a connection that is still the one its probe
\* succeeded on; a probe answered after the drop does not make it ready.
ReadyIsConnected == \A n \in Nodes : state[n] = "ready" => connected[n]

\* initScheduleCoordination never settles with the verdict still open, the case
\* its continuation would report as superseded.
InitDecided == \A n \in Nodes : live[n] /\ ~waiting[n] => state[n] # "uninitialized"

\* The recovery protocol of a replica, in any order of socket events, probe
\* outcomes, claim failures, timers and restarts: no wake-up is lost, the probe
\* lock is exact, ready means connected, and initialization leaves a verdict.
RecoveryProtocol == NoLostRecovery /\ ProbeLock /\ ReadyIsConnected /\ InitDecided

\* Scheduling resumes by itself: once faults stop, every replica with a client
\* becomes ready and stays ready (docs/manage/configuration.md: "CairnCMS
\* resumes scheduling automatically after Redis recovers").
Recovery == \A n \in Nodes : <>[](live[n] => state[n] = "ready")

\* Redis's score is the ledger's last grant, ZADD's 1 is the grant, and it is
\* open while the shouldRun that sent it has not returned.
Open == {<<c.sched, c.occ>> : c \in {d \in won : d \in pending[d.node]}}
Ledger == INSTANCE OccurrenceLedger WITH last <- score, open <- Open

\* Schedule coordination implements the occurrence ledger.
LedgerSpec == Ledger!Spec
=============================================================================
