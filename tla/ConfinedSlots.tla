---------------------------- MODULE ConfinedSlots ----------------------------
(***************************************************************************)
(* api/src/extensions/confined/supervisor.ts: the capacity gate of the     *)
(* confined extension runtime.  An invocation takes one of MaxProcesses    *)
(* slots or queues for one, spawns a child process in a memory cgroup,     *)
(* and gives the slot back when its session has settled.  What happens     *)
(* inside a session (frames, host calls, the wall clock) is ConfinedSession*)
(* and appears here as the one step Settle.                                *)
(*                                                                         *)
(* A definition X_Variant is a faulty X, used to see a property fail.      *)
(***************************************************************************)
EXTENDS Naturals, FiniteSets, Sequences, SequencesExt

CONSTANTS Invocations,   \* calls of invoke or probeLoad
          Patient,       \* those with acquireTimeoutMs > 0
          MaxProcesses   \* limits.maxProcesses

ASSUME SlotsAssumption == /\ IsFiniteSet(Invocations)
                          /\ Patient \subseteq Invocations
                          /\ MaxProcesses \in Nat \ {0}

VARIABLES
  phase,    \* where the call is: see Phase
  active,   \* `active`
  waiters,  \* `waiters`
  process,  \* its child process, as the parent knows it
  cgroup    \* its delegated memory cgroup

slotVars == <<phase, active, waiters, process, cgroup>>

\* "granted": acquire resolved true; "settled": the session has its result and
\* the finally that releases the slot is due.
Phase == {"new", "queued", "granted", "running", "settled", "done"}
Process == {"none", "alive", "exited"}
Cgroup == {"none", "present", "removed"}

SlotsInit == /\ phase = [i \in Invocations |-> "new"]
             /\ active = 0
             /\ waiters = <<>>
             /\ process = [i \in Invocations |-> "none"]
             /\ cgroup = [i \in Invocations |-> "none"]

-----------------------------------------------------------------------------
\* The gate.

\* acquire with a free slot.
TakeSlot(i) ==
  /\ phase[i] = "new"
  /\ active < MaxProcesses
  /\ active' = active + 1
  /\ phase' = [phase EXCEPT ![i] = "granted"]
  /\ UNCHANGED <<waiters, process, cgroup>>

\* acquire without one: reject as busy, or queue.
RejectBusy(i) ==
  /\ phase[i] = "new"
  /\ active >= MaxProcesses
  /\ i \notin Patient
  /\ phase' = [phase EXCEPT ![i] = "done"]
  /\ UNCHANGED <<active, waiters, process, cgroup>>

Enqueue(i) ==
  /\ phase[i] = "new"
  /\ active >= MaxProcesses
  /\ i \in Patient
  /\ phase' = [phase EXCEPT ![i] = "queued"]
  /\ waiters' = Append(waiters, i)
  /\ UNCHANGED <<active, process, cgroup>>

\* acquireTimeoutMs passes: the waiter leaves the queue and the call is busy.
Withdrawn_Kept(i) == waiters
Withdrawn(i) == RemoveFirst(waiters, i)

GiveUp(i) ==
  /\ phase[i] = "queued"
  /\ phase' = [phase EXCEPT ![i] = "done"]
  /\ waiters' = Withdrawn(i)
  /\ UNCHANGED <<active, process, cgroup>>

\* release: the slot goes to the first waiter, in the same turn.
Release_Unserved(i) ==
  /\ phase[i] = "settled"
  /\ phase' = [phase EXCEPT ![i] = "done"]
  /\ active' = active - 1
  /\ UNCHANGED <<waiters, process, cgroup>>

Release(i) ==
  /\ phase[i] = "settled"
  /\ IF waiters = <<>>
     THEN /\ active' = active - 1
          /\ phase' = [phase EXCEPT ![i] = "done"]
          /\ UNCHANGED waiters
     ELSE /\ waiters' = Tail(waiters)
          /\ phase' = [phase EXCEPT ![i] = "done", ![Head(waiters)] = "granted"]
          /\ UNCHANGED active
  /\ UNCHANGED <<process, cgroup>>

-----------------------------------------------------------------------------
\* The child.

\* runChildSession: the cgroup is created (or unavailable), the child spawned.
Spawn(i) ==
  /\ phase[i] = "granted"
  /\ phase' = [phase EXCEPT ![i] = "running"]
  /\ process' = [process EXCEPT ![i] = "alive"]
  /\ \E c \in {"none", "present"} : cgroup' = [cgroup EXCEPT ![i] = c]
  /\ UNCHANGED <<active, waiters>>

\* spawn itself throws, or returns a child without stdio: the session promise
\* rejects, and invoke's finally still runs.
SpawnThrows_NoFinally(i) ==
  /\ phase[i] = "granted"
  /\ phase' = [phase EXCEPT ![i] = "done"]
  /\ UNCHANGED <<active, waiters, process, cgroup>>

SpawnThrows_ReleasesTwice(i) ==
  /\ phase[i] = "granted"
  /\ phase' = [phase EXCEPT ![i] = "settled"]
  /\ active' = active - 1
  /\ UNCHANGED <<waiters, process, cgroup>>

SpawnThrows(i) ==
  /\ phase[i] = "granted"
  /\ phase' = [phase EXCEPT ![i] = "settled"]
  /\ \E c \in {"none", "present"} : cgroup' = [cgroup EXCEPT ![i] = c]
  /\ UNCHANGED <<active, waiters, process>>

\* removeCgroupWhenExited: at once when the exit was already seen, otherwise
\* from the child's exit event.
RemoveCgroup(i) == [cgroup EXCEPT ![i] = IF @ = "present" THEN "removed" ELSE @]
CgroupOnSettle_Eager(i) == RemoveCgroup(i)
CgroupOnSettle_ExitEventOnly(i) == cgroup
CgroupOnSettle(i) == IF process[i] = "exited" THEN RemoveCgroup(i) ELSE cgroup

\* finish: the first of result, crash, error and wall clock settles the session
\* and sends SIGKILL to a child that may still be alive.
Settle(i) ==
  /\ phase[i] = "running"
  /\ phase' = [phase EXCEPT ![i] = "settled"]
  /\ cgroup' = CgroupOnSettle(i)
  /\ UNCHANGED <<active, waiters, process>>

\* The child's exit event: it was killed, crashed, or ended by itself.
ProcessExits(i) ==
  /\ process[i] = "alive"
  /\ process' = [process EXCEPT ![i] = "exited"]
  /\ cgroup' = IF phase[i] = "running" THEN cgroup ELSE RemoveCgroup(i)
  /\ UNCHANGED <<phase, active, waiters>>

-----------------------------------------------------------------------------
SlotsNext ==
  \E i \in Invocations :
     \/ TakeSlot(i) \/ RejectBusy(i) \/ Enqueue(i) \/ GiveUp(i)
     \/ Release(i)
     \/ Spawn(i) \/ SpawnThrows(i) \/ Settle(i) \/ ProcessExits(i)

SlotsSpec == SlotsInit /\ [][SlotsNext]_slotVars

\* The wall clock settles every session, promise continuations run, and a killed
\* process exits.  Nothing makes a call come or a waiter give up.
SlotsFairness ==
  \A i \in Invocations : /\ WF_slotVars(Settle(i))
                         /\ WF_slotVars(Release(i))
                         /\ WF_slotVars(Spawn(i) \/ SpawnThrows(i))
                         /\ WF_slotVars(phase[i] # "running" /\ ProcessExits(i))

FairSlots == SlotsSpec /\ SlotsFairness
-----------------------------------------------------------------------------
\* Properties.

\* Type invariant of the gate and of the children's life cycle.
SlotsTypeOK == /\ phase \in [Invocations -> Phase]
               /\ active \in Nat
               /\ waiters \in Seq(Invocations)
               /\ process \in [Invocations -> Process]
               /\ cgroup \in [Invocations -> Cgroup]

Holders == {i \in Invocations : phase[i] \in {"granted", "running", "settled"}}

\* `active` counts exactly the calls that hold a slot and never exceeds the
\* limit, whatever order releases, hand-overs and acquire timeouts come in: a
\* waiter that gave up is never granted, and no path keeps a slot.
SlotsExact == active = Cardinality(Holders) /\ active <= MaxProcesses

\* No lost wake-up: while someone queues, every slot is taken (acquire, release).
NoIdleSlot == waiters # <<>> => active = MaxProcesses

\* The queue holds exactly the calls that are waiting, each once.
QueueExact == /\ ToSet(waiters) = {i \in Invocations : phase[i] = "queued"}
              /\ \A j, k \in DOMAIN waiters : waiters[j] = waiters[k] => j = k

\* The gate: no slot is lost, doubled, left idle while a call waits, or promised
\* to a call that is gone (acquire, release, invoke's finally).
PoolExact == SlotsExact /\ NoIdleSlot /\ QueueExact

\* The cgroup that caps a child's memory stays until the child is gone, and is
\* not forgotten whichever of the exit and the settlement is seen first
\* (removeCgroupWhenExited).
CgroupOutlivesChild == \A i \in Invocations : cgroup[i] = "removed" => process[i] = "exited"
CgroupReclaimed ==
  \A i \in Invocations :
     process[i] = "exited" /\ phase[i] \in {"settled", "done"} => cgroup[i] # "present"

\* Never removed under a living child, never left behind by a dead one.
CgroupRules == CgroupOutlivesChild /\ CgroupReclaimed

\* What a call takes, a slot and a cgroup, it has as long as it must, and no longer.
SlotRules == PoolExact /\ CgroupRules

\* A call that queued is answered even when its acquire timeout never fires:
\* slots keep coming back, on every path.
WaitersServed == \A i \in Invocations : phase[i] = "queued" ~> phase[i] = "done"

\* docs/manage/configuration.md, EXTENSIONS_SANDBOX_MAX_PROCESSES: "maximum
\* number of concurrent confined child processes".
ProcessLimit == Cardinality({i \in Invocations : process[i] = "alive"}) <= MaxProcesses
=============================================================================
