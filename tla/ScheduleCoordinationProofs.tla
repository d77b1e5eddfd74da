--------------------- MODULE ScheduleCoordinationProofs ---------------------
(***************************************************************************)
(* Theorems about ScheduleCoordination, for any replicas, schedules and    *)
(* bounds: types, at-most-once execution, the safety of the probe and      *)
(* recovery protocol, and the refinement of OccurrenceLedger.              *)
(***************************************************************************)
EXTENDS ScheduleCoordination, TLAPS

-----------------------------------------------------------------------------
\* Types.  A generation is bumped by a fault, or by the close event of a
\* recycle that an earlier fault asked for.

GenBound ==
  \A n \in Nodes : /\ initGen[n] <= faults
                   /\ probeGen[n] + (IF recycling[n] THEN 1 ELSE 0) <= faults

TypeInv == TypeOK /\ GenBound

\* Updating a set-valued table at one replica.
LEMMA UpdateSet ==
  ASSUME NEW S, NEW f \in [Nodes -> SUBSET S], NEW n \in Nodes, NEW T \in SUBSET S
  PROVE  [f EXCEPT ![n] = T] \in [Nodes -> SUBSET S]
  OBVIOUS

\* Counting one more start keeps the table of counts.
LEMMA CountUp ==
  ASSUME NEW s \in Schedules, NEW o \in Occurrence,
         starts \in [Schedules -> [Occurrence -> Nat]]
  PROVE  [starts EXCEPT ![s][o] = @ + 1] \in [Schedules -> [Occurrence -> Nat]]
  OBVIOUS

\* attemptProbe sends a well-formed probe.
LEMMA AttemptProbeType ==
  ASSUME TypeOK, NEW n \in Nodes, AttemptProbe(n)
  PROVE  probes' \in [Nodes -> SUBSET Probe] /\ recovering' \in [Nodes -> BOOLEAN]
<1> DEFINE p == [gen |-> probeGen[n], init |-> initGen[n]]
<1>1. p \in Probe /\ probes[n] \in SUBSET Probe
  BY DEF TypeOK, Probe
<1>2. probes[n] \cup {p} \in SUBSET Probe
  BY <1>1
<1>3. probes \in [Nodes -> SUBSET Probe]
  BY DEF TypeOK
<1>4. [probes EXCEPT ![n] = probes[n] \cup {p}] \in [Nodes -> SUBSET Probe]
  BY <1>2, <1>3, UpdateSet
<1> QED
  BY <1>3, <1>4 DEF AttemptProbe, Remembered, TypeOK

\* The continuation of attemptProbe keeps the types of what it assigns.
LEMMA SettleProbeType ==
  ASSUME TypeOK, NEW n \in Nodes, NEW p, NEW ok \in BOOLEAN, SettleProbe(n, p, ok)
  PROVE  /\ probes' \in [Nodes -> SUBSET Probe]
         /\ waiting' \in [Nodes -> BOOLEAN]
         /\ state' \in [Nodes -> Status]
         /\ recovering' \in [Nodes -> BOOLEAN]
         /\ timer' \in [Nodes -> BOOLEAN]
         /\ UNCHANGED <<live, connected, probeGen, initGen, claimVars>>
<1>1. probes[n] \ {p} \in SUBSET Probe
  BY DEF TypeOK
<1>2. probes' \in [Nodes -> SUBSET Probe]
  BY <1>1, UpdateSet DEF SettleProbe, Current, Rearmed, TypeOK
<1>3. waiting' \in [Nodes -> BOOLEAN]
  BY DEF SettleProbe, Current, Rearmed, TypeOK
<1>4. /\ state' \in [Nodes -> Status]
      /\ recovering' \in [Nodes -> BOOLEAN]
      /\ timer' \in [Nodes -> BOOLEAN]
  BY DEF SettleProbe, Current, Rearmed, TypeOK, Status
<1> QED
  BY <1>2, <1>3, <1>4 DEF SettleProbe, Current, Rearmed

\* The outcome of a claim leaves fewer claims pending.
LEMMA DropClaimType ==
  ASSUME TypeOK, NEW n \in Nodes, NEW c,
         pending' = [pending EXCEPT ![n] = @ \ {c}]
  PROVE  pending' \in [Nodes -> SUBSET Claim]
<1>1. pending[n] \ {c} \in SUBSET Claim
  BY DEF TypeOK
<1> QED
  BY <1>1, UpdateSet DEF TypeOK

\* Distrusting the connection keeps the types of what it assigns.
LEMMA DistrustType ==
  ASSUME TypeOK, NEW n \in Nodes, Distrust(n)
  PROVE  state' \in [Nodes -> Status] /\ timer' \in [Nodes -> BOOLEAN]
  BY DEF Distrust, TypeOK, Status

\* The initial state is well typed (module state at load, lines 32-43).
LEMMA InitTypeInv == Init => TypeInv
  BY BoundsAssumption DEF Init, TypeInv, TypeOK, GenBound, Status, Epoch, Occurrence

\* Every step keeps the types and the generation bound.
LEMMA NextTypeInv == TypeInv /\ [Next]_vars => TypeInv'
<1> SUFFICES ASSUME TypeInv, [Next]_vars PROVE TypeInv'
  OBVIOUS
<1> USE BoundsAssumption DEF TypeInv, TypeOK, GenBound, Epoch
<1>1. ASSUME NEW n \in Nodes, Lifecycle(n) PROVE TypeInv'
  <2>1. CASE StartInit(n)
    BY <2>1 DEF StartInit, claimVars
  <2>2. CASE InitMisconfigured(n)
    BY <2>2 DEF InitMisconfigured, Fault, claimVars, Status
  <2>3. CASE InitDeadline(n)
    BY <2>3 DEF InitDeadline, Overdue, claimVars, Status
  <2>4. CASE OnReady(n)
    BY <2>4, AttemptProbeType DEF OnReady, claimVars
  <2>5. CASE OnDown(n)
    BY <2>5 DEF OnDown, Fault, claimVars, Status
  <2>6. CASE RecoveryTimer(n)
    <3>1. probes' \in [Nodes -> SUBSET Probe] /\ recovering' \in [Nodes -> BOOLEAN]
      BY <2>6, AttemptProbeType DEF RecoveryTimer
    <3> QED
      BY <2>6, <3>1 DEF RecoveryTimer, claimVars
  <2>7. CASE ProbeAccepted(n)
    <3>1. PICK p \in probes[n] : SettleProbe(n, p, TRUE) /\ UNCHANGED <<recycling, faults>>
      BY <2>7 DEF ProbeAccepted
    <3> QED
      BY <3>1, SettleProbeType DEF claimVars
  <2>8. CASE ProbeRejected(n)
    <3>1. PICK p \in probes[n] : /\ UNCHANGED faults \/ Fault
                                 /\ SettleProbe(n, p, FALSE)
                                 /\ UNCHANGED recycling
      BY <2>8 DEF ProbeRejected
    <3>2. faults' \in 0..MaxFaults /\ faults <= faults'
      BY <3>1 DEF Fault
    <3>3. GenBound'
      BY <3>1, <3>2 DEF SettleProbe, Current, Rearmed
    <3>4. UNCHANGED claimVars /\ UNCHANGED <<live, connected, probeGen, initGen>>
      BY <3>1 DEF SettleProbe, Current, Rearmed
    <3>5. /\ probes' \in [Nodes -> SUBSET Probe]
          /\ waiting' \in [Nodes -> BOOLEAN]
          /\ state' \in [Nodes -> Status]
          /\ recovering' \in [Nodes -> BOOLEAN]
          /\ timer' \in [Nodes -> BOOLEAN]
      BY <3>1, SettleProbeType
    <3> QED
      BY <3>1, <3>2, <3>3, <3>4, <3>5 DEF claimVars
  <2>9. CASE ProbeTimeout(n)
    <3>1. PICK p \in probes[n] : /\ ~recycling[n]
                                 /\ Fault
                                 /\ SettleProbe(n, p, FALSE)
                                 /\ recycling' = [recycling EXCEPT ![n] = TRUE]
      BY <2>9 DEF ProbeTimeout, Flushed, SocketUp
    <3>2. GenBound'
      BY <3>1 DEF SettleProbe, Current, Rearmed, Fault
    <3>3. UNCHANGED claimVars /\ UNCHANGED <<live, connected, probeGen, initGen>>
      BY <3>1 DEF SettleProbe, Current, Rearmed
    <3>4. /\ probes' \in [Nodes -> SUBSET Probe]
          /\ waiting' \in [Nodes -> BOOLEAN]
          /\ state' \in [Nodes -> Status]
          /\ recovering' \in [Nodes -> BOOLEAN]
          /\ timer' \in [Nodes -> BOOLEAN]
      BY <3>1, SettleProbeType
    <3>5. recycling' \in [Nodes -> BOOLEAN] /\ faults' \in 0..MaxFaults
      BY <3>1 DEF Fault
    <3> QED
      BY <3>2, <3>3, <3>4, <3>5 DEF claimVars
  <2>10. CASE Destroy(n)
    BY <2>10 DEF Destroy, ResetProcess, Fault, claimVars, Status
  <2>11. CASE Crash(n)
    BY <2>11 DEF Crash, ResetProcess, Fault, Status
  <2> QED
    BY <1>1, <2>1, <2>2, <2>3, <2>4, <2>5, <2>6, <2>7, <2>8, <2>9, <2>10, <2>11
    DEF Lifecycle
<1>2. ASSUME NEW n \in Nodes, Claiming(n) PROVE TypeInv'
  <2>1. ASSUME NEW s \in Schedules, NEW o \in Occurrence, FireOccurrence(n, s, o)
        PROVE TypeInv'
    <3> DEFINE c == [node |-> n, sched |-> s, occ |-> o, conn |-> probeGen[n]]
    <3>1. c \in Claim
      BY DEF Claim
    <3>2. fired' \in [Nodes -> [Schedules -> 0..MaxOccurrence]]
      BY <2>1 DEF FireOccurrence, Occurrence
    <3>3. pending[n] \cup {c} \in SUBSET Claim /\ wire \cup {c} \in SUBSET Claim
      BY <3>1
    <3>4. [pending EXCEPT ![n] = pending[n] \cup {c}] \in [Nodes -> SUBSET Claim]
      BY <3>3, UpdateSet
    <3>5. pending' \in [Nodes -> SUBSET Claim] /\ wire' \in SUBSET Claim
      BY <2>1, <3>3, <3>4 DEF FireOccurrence
    <3>6. state' \in [Nodes -> Status] /\ timer' \in [Nodes -> BOOLEAN]
      BY <2>1, DistrustType DEF FireOccurrence
    <3> QED
      BY <2>1, <3>2, <3>5, <3>6 DEF FireOccurrence
  <2>2. CASE ClaimAnswered(n)
    <3>1. PICK c \in pending[n] :
                 /\ pending' = [pending EXCEPT ![n] = @ \ {c}]
                 /\ starts' \in {starts, [starts EXCEPT ![c.sched][c.occ] = @ + 1]}
                 /\ UNCHANGED <<proc, fired, wire, score, won, lost, faults>>
      BY <2>2 DEF ClaimAnswered, Granted
    <3>2. c.sched \in Schedules /\ c.occ \in Occurrence
      BY DEF Claim
    <3>3. [starts EXCEPT ![c.sched][c.occ] = @ + 1] \in [Schedules -> [Occurrence -> Nat]]
      BY <3>2, CountUp
    <3>4. starts' \in [Schedules -> [Occurrence -> Nat]]
      BY <3>1, <3>3
    <3> QED
      BY <3>1, <3>4, DropClaimType DEF proc
  <2>3. CASE ClaimRejected(n)
    <3>1. PICK c \in pending[n] : /\ UNCHANGED faults \/ Fault
                                  /\ FailClaim(n, c)
                                  /\ UNCHANGED recycling
      BY <2>3 DEF ClaimRejected
    <3>2. faults' \in 0..MaxFaults /\ faults <= faults'
      BY <3>1 DEF Fault
    <3>3. pending' \in [Nodes -> SUBSET Claim]
      BY <3>1, DropClaimType DEF FailClaim
    <3> QED
      BY <3>1, <3>2, <3>3, DistrustType DEF FailClaim
  <2>4. CASE ClaimTimeout(n)
    <3>1. PICK c \in pending[n] : /\ ~recycling[n]
                                  /\ Fault
                                  /\ FailClaim(n, c)
                                  /\ recycling' = [recycling EXCEPT ![n] = TRUE]
      BY <2>4 DEF ClaimTimeout, Flushed, SocketUp
    <3>2. GenBound'
      BY <3>1 DEF FailClaim, Fault
    <3>3. pending' \in [Nodes -> SUBSET Claim]
      BY <3>1, DropClaimType DEF FailClaim
    <3> QED
      BY <3>1, <3>2, <3>3, DistrustType DEF FailClaim, Fault
  <2> QED
    BY <1>2, <2>1, <2>2, <2>3, <2>4 DEF Claiming
<1>3. ASSUME NEW c \in wire, RedisExecutes(c) PROVE TypeInv'
  <2>1. c.sched \in Schedules /\ c.occ \in 0..MaxOccurrence
    BY DEF Claim, Occurrence
  <2>2. score' \in [Schedules -> 0..MaxOccurrence]
    <3>1. score' \in {score, [score EXCEPT ![c.sched] = c.occ]}
      BY <1>3 DEF RedisExecutes, Newer
    <3> QED
      BY <2>1, <3>1
  <2>3. wire' \in SUBSET Claim /\ won' \in SUBSET Claim /\ lost' \in SUBSET Claim
    BY <1>3 DEF RedisExecutes, Newer
  <2> QED
    BY <1>3, <2>2, <2>3 DEF RedisExecutes, Newer, proc
<1>4. CASE UNCHANGED vars
  BY <1>4 DEF vars
<1> QED
  BY <1>1, <1>2, <1>3, <1>4 DEF Next

LEMMA TypeInvariant == Spec => []TypeInv
  BY InitTypeInv, NextTypeInv, PTL DEF Spec

\* Every reachable state is well typed (TypeOK).
THEOREM TypeCorrect == Spec => []TypeOK
<1>1. TypeInv => TypeOK
  BY DEF TypeInv
<1> QED
  BY <1>1, TypeInvariant, PTL

-----------------------------------------------------------------------------
\* At most once.

\* A claim was written by the process and connection it names, and no claim
\* that process writes later is equal to it.
Issued(c) == /\ c.conn <= probeGen[c.node]
             /\ c.conn = probeGen[c.node] => c.occ <= fired[c.node][c.sched]

ClaimsIssued == /\ \A n \in Nodes : \A c \in pending[n] : c.node = n /\ Issued(c)
                /\ \A c \in wire \cup won : Issued(c)

\* Redis's score bounds what it granted, and it granted no occurrence twice.
GrantsForward == \A c \in won : c.occ <= score[c.sched]
GrantsUnique == \A c, d \in won : c.sched = d.sched /\ c.occ = d.occ => c = d

\* A body that was started spent the one claim that won its occurrence.
StartsSpent ==
  \A s \in Schedules, o \in Occurrence :
     \/ starts[s][o] = 0
     \/ /\ starts[s][o] = 1
        /\ \E c \in won : c.sched = s /\ c.occ = o /\ c \notin pending[c.node]

ClaimInv == ClaimsIssued /\ GrantsForward /\ GrantsUnique /\ StartsSpent

LEMMA InitClaimInv == Init => ClaimInv
  BY DEF Init, ClaimInv, ClaimsIssued, GrantsForward, GrantsUnique, StartsSpent

\* Steps that keep Redis and the starts, send nothing, drop some pending
\* claims and keep or bump generations.
LEMMA ClaimInvQuiet ==
  ASSUME TypeInv, ClaimInv,
         UNCHANGED <<wire, won, score, starts>>,
         \A n \in Nodes : pending'[n] \subseteq pending[n],
         \A n \in Nodes : \/ probeGen'[n] = probeGen[n] /\ fired'[n] = fired[n]
                          \/ probeGen'[n] \in Nat /\ probeGen'[n] > probeGen[n]
  PROVE  ClaimInv'
<1>1. ASSUME NEW c \in Claim, Issued(c) PROVE Issued(c)'
  <2>1. c.node \in Nodes /\ c.conn \in Nat /\ probeGen[c.node] \in Nat
    BY BoundsAssumption DEF Claim, Epoch, TypeInv, TypeOK
  <2> QED
    BY <1>1, <2>1 DEF Issued
<1>2. ClaimsIssued'
  <2>1. \A n \in Nodes : pending[n] \subseteq Claim
    BY DEF TypeInv, TypeOK
  <2>2. wire \cup won \subseteq Claim
    BY DEF TypeInv, TypeOK
  <2> QED
    BY <1>1, <2>1, <2>2 DEF ClaimInv, ClaimsIssued
<1>3. GrantsForward' /\ GrantsUnique'
  BY DEF ClaimInv, GrantsForward, GrantsUnique
<1>4. StartsSpent'
  <2>1. \A c \in won : c.node \in Nodes
    BY DEF TypeInv, TypeOK, Claim
  <2> QED
    BY <2>1 DEF ClaimInv, StartsSpent
<1> QED
  BY <1>2, <1>3, <1>4 DEF ClaimInv

\* A claim about to be written is none that was written before.
LEMMA FreshClaim ==
  ASSUME TypeInv, ClaimInv, NEW n \in Nodes, NEW s \in Schedules,
         NEW o \in Occurrence, o > fired[n][s]
  PROVE  LET c == [node |-> n, sched |-> s, occ |-> o, conn |-> probeGen[n]]
         IN  c \notin won /\ c \notin wire /\ c \notin pending[n]
<1> DEFINE c == [node |-> n, sched |-> s, occ |-> o, conn |-> probeGen[n]]
<1>1. ~Issued(c)
  BY DEF Issued, TypeInv, TypeOK, Occurrence
<1> QED
  BY <1>1 DEF ClaimInv, ClaimsIssued

\* The process side of a step leaves Redis alone; connections only get newer.
LEMMA LifecycleQuiet ==
  ASSUME TypeInv, NEW n \in Nodes, Lifecycle(n)
  PROVE  /\ UNCHANGED <<wire, won, score, starts>>
         /\ \A m \in Nodes : pending'[m] \subseteq pending[m]
         /\ \A m \in Nodes : \/ probeGen'[m] = probeGen[m] /\ fired'[m] = fired[m]
                             \/ probeGen'[m] \in Nat /\ probeGen'[m] > probeGen[m]
<1> USE DEF claimVars
<1>1. probeGen \in [Nodes -> Nat]
  BY BoundsAssumption DEF TypeInv, TypeOK, Epoch
<1>2. pending \in [Nodes -> SUBSET Claim]
  BY DEF TypeInv, TypeOK
<1>3. CASE OnDown(n)
  BY <1>1, <1>3 DEF OnDown
<1>4. CASE Destroy(n)
  BY <1>1, <1>4 DEF Destroy, ResetProcess
<1>5. CASE Crash(n)
  BY <1>1, <1>2, <1>5 DEF Crash, ResetProcess
<1>6. ASSUME \/ StartInit(n) \/ InitMisconfigured(n) \/ InitDeadline(n)
             \/ OnReady(n) \/ RecoveryTimer(n)
             \/ ProbeAccepted(n) \/ ProbeRejected(n) \/ ProbeTimeout(n)
      PROVE  UNCHANGED <<claimVars, probeGen>>
  BY <1>6 DEF StartInit, InitMisconfigured, InitDeadline, OnReady, RecoveryTimer,
              ProbeAccepted, ProbeRejected, ProbeTimeout, SettleProbe
<1> QED
  BY <1>3, <1>4, <1>5, <1>6 DEF Lifecycle

\* No claim is pending twice: starting the body spends the claim.
LEMMA AnsweredClaimInv ==
  ASSUME TypeInv, ClaimInv, NEW n \in Nodes, ClaimAnswered(n)
  PROVE  ClaimInv'
<1>1. PICK c \in pending[n] :
             /\ c \in won \cup lost
             /\ pending' = [pending EXCEPT ![n] = @ \ {c}]
             /\ starts' = IF c \in won THEN [starts EXCEPT ![c.sched][c.occ] = @ + 1] ELSE starts
             /\ UNCHANGED <<proc, fired, wire, score, won, lost, faults>>
  BY DEF ClaimAnswered, Granted
<1>2. /\ c \in Claim /\ c.node = n
      /\ c.sched \in Schedules /\ c.occ \in Occurrence
  BY DEF Claim, ClaimInv, ClaimsIssued, TypeInv, TypeOK
<1>3. \A m \in Nodes : pending'[m] = IF m = n THEN pending[n] \ {c} ELSE pending[m]
  BY <1>1 DEF TypeInv, TypeOK
<1>4. UNCHANGED probeGen
  BY <1>1 DEF proc
<1>5. CASE c \notin won
  BY <1>1, <1>3, <1>4, <1>5, ClaimInvQuiet
<1>6. CASE c \in won
  <2>1. starts' = [starts EXCEPT ![c.sched][c.occ] = starts[c.sched][c.occ] + 1]
    BY <1>1, <1>6
  <2>2. starts[c.sched][c.occ] = 0
    <3>1. ASSUME NEW d \in won, d.sched = c.sched, d.occ = c.occ PROVE d \in pending[d.node]
      BY <1>2, <1>6, <3>1 DEF ClaimInv, GrantsUnique
    <3> QED
      BY <1>2, <3>1 DEF ClaimInv, StartsSpent
  <2>3. ASSUME NEW s \in Schedules, NEW o \in Occurrence
        PROVE  starts'[s][o] = IF s = c.sched /\ o = c.occ THEN 1 ELSE starts[s][o]
    BY <1>2, <2>1, <2>2 DEF TypeInv, TypeOK
  <2>4. c \notin pending'[c.node]
    BY <1>2, <1>3
  <2>5. StartsSpent'
    <3> SUFFICES ASSUME NEW s \in Schedules, NEW o \in Occurrence, starts'[s][o] # 0
                 PROVE  /\ starts'[s][o] = 1
                        /\ \E d \in won' : d.sched = s /\ d.occ = o /\ d \notin pending'[d.node]
      BY DEF StartsSpent
    <3>1. CASE s = c.sched /\ o = c.occ
      BY <1>1, <1>6, <2>3, <2>4, <3>1
    <3>2. CASE ~(s = c.sched /\ o = c.occ)
      <4>1. PICK d \in won : d.sched = s /\ d.occ = o /\ d \notin pending[d.node]
        BY <2>3, <3>2 DEF ClaimInv, StartsSpent
      <4>2. d.node \in Nodes
        BY DEF TypeInv, TypeOK, Claim
      <4> QED
        BY <1>1, <1>3, <2>3, <3>2, <4>1, <4>2 DEF ClaimInv, StartsSpent
    <3> QED
      BY <3>1, <3>2
  <2>6. ClaimsIssued'
    BY <1>1, <1>3, <1>4 DEF ClaimInv, ClaimsIssued, Issued
  <2>7. GrantsForward' /\ GrantsUnique'
    BY <1>1 DEF ClaimInv, GrantsForward, GrantsUnique
  <2> QED
    BY <2>5, <2>6, <2>7 DEF ClaimInv
<1> QED
  BY <1>5, <1>6

\* A new claim differs from every earlier one, so it revives no spent claim.
LEMMA FiredClaimInv ==
  ASSUME TypeInv, ClaimInv, NEW n \in Nodes, NEW s \in Schedules,
         NEW o \in Occurrence, FireOccurrence(n, s, o)
  PROVE  ClaimInv'
<1> DEFINE c == [node |-> n, sched |-> s, occ |-> o, conn |-> probeGen[n]]
<1>1. c \notin won
  BY FreshClaim DEF FireOccurrence
<1>2. /\ UNCHANGED <<score, won, starts, probeGen>>
      /\ wire' \subseteq wire \cup {c}
      /\ \A m \in Nodes : pending'[m] \subseteq IF m = n THEN pending[m] \cup {c} ELSE pending[m]
  BY DEF FireOccurrence, TypeInv, TypeOK
<1>3. \A m \in Nodes, r \in Schedules : /\ fired[m][r] <= fired'[m][r]
                                        /\ fired'[n][s] = o
  BY DEF FireOccurrence, TypeInv, TypeOK, Occurrence
<1>4. Issued(c)'
  BY <1>2, <1>3 DEF Issued, TypeInv, TypeOK, Epoch, Occurrence
<1>5. ASSUME NEW d \in Claim, Issued(d) PROVE Issued(d)'
  <2>1. /\ d.node \in Nodes /\ d.sched \in Schedules /\ d.occ \in Nat
        /\ fired[d.node][d.sched] \in Nat /\ fired'[d.node][d.sched] \in Nat
    BY DEF Claim, Occurrence, TypeInv, TypeOK, FireOccurrence
  <2>2. fired[d.node][d.sched] <= fired'[d.node][d.sched]
    BY <1>3, <2>1
  <2> QED
    BY <1>2, <1>5, <2>1, <2>2 DEF Issued
<1>6. ClaimsIssued'
  <2>1. /\ \A m \in Nodes : pending[m] \subseteq Claim
        /\ wire \cup won \subseteq Claim
    BY DEF TypeInv, TypeOK
  <2>2. \A m \in Nodes : \A d \in pending'[m] : d.node = m /\ Issued(d)'
    BY <1>2, <1>4, <1>5, <2>1 DEF ClaimInv, ClaimsIssued
  <2>3. \A d \in wire' \cup won' : Issued(d)'
    BY <1>2, <1>4, <1>5, <2>1 DEF ClaimInv, ClaimsIssued
  <2> QED
    BY <2>2, <2>3 DEF ClaimsIssued
<1>7. GrantsForward' /\ GrantsUnique'
  BY <1>2 DEF ClaimInv, GrantsForward, GrantsUnique
<1>8. StartsSpent'
  <2>1. \A d \in won : d.node \in Nodes
    BY DEF TypeInv, TypeOK, Claim
  <2>2. \A d \in won : d \notin pending[d.node] => d \notin pending'[d.node]
    BY <1>1, <1>2, <2>1
  <2> QED
    BY <1>2, <2>2 DEF ClaimInv, StartsSpent
<1> QED
  BY <1>6, <1>7, <1>8 DEF ClaimInv

\* ZADD GT CH grants only an occurrence above every granted one.
LEMMA ExecutedClaimInv ==
  ASSUME TypeInv, ClaimInv, NEW c \in wire, RedisExecutes(c)
  PROVE  ClaimInv'
<1>1. /\ c \in Claim /\ c.sched \in Schedules /\ c.occ \in Nat
      /\ won \subseteq Claim /\ score \in [Schedules -> Nat]
      /\ UNCHANGED <<proc, fired, pending, starts, faults>>
  BY DEF TypeInv, TypeOK, Claim, Occurrence, RedisExecutes, Newer
<1>2. \A d \in won : d.sched \in Schedules /\ d.occ \in Nat
  BY <1>1 DEF Claim, Occurrence
<1>3. ClaimsIssued'
  <2>1. wire' \cup won' \subseteq wire \cup won
    BY DEF RedisExecutes, Newer
  <2> QED
    BY <1>1, <2>1 DEF ClaimInv, ClaimsIssued, Issued, proc
<1>4. GrantsForward' /\ GrantsUnique' /\ won \subseteq won'
  <2>1. CASE c.occ > score[c.sched]
    <3>1. score' = [score EXCEPT ![c.sched] = c.occ] /\ won' = won \cup {c}
      BY <2>1 DEF RedisExecutes, Newer
    <3>2. \A d \in won : d.sched = c.sched => d.occ < c.occ
      BY <1>1, <1>2, <2>1 DEF ClaimInv, GrantsForward
    <3>3. GrantsForward'
      BY <1>1, <1>2, <3>1, <3>2 DEF ClaimInv, GrantsForward
    <3>4. GrantsUnique'
      BY <1>1, <1>2, <3>1, <3>2 DEF ClaimInv, GrantsUnique
    <3> QED
      BY <3>1, <3>3, <3>4
  <2>2. CASE ~(c.occ > score[c.sched])
    BY <2>2 DEF RedisExecutes, Newer, ClaimInv, GrantsForward, GrantsUnique
  <2> QED
    BY <2>1, <2>2
<1>5. StartsSpent'
  BY <1>1, <1>4 DEF ClaimInv, StartsSpent
<1> QED
  BY <1>3, <1>4, <1>5 DEF ClaimInv

LEMMA NextClaimInv == TypeInv /\ ClaimInv /\ [Next]_vars => ClaimInv'
<1> SUFFICES ASSUME TypeInv, ClaimInv, [Next]_vars PROVE ClaimInv'
  OBVIOUS
<1>1. ASSUME NEW n \in Nodes, Lifecycle(n) PROVE ClaimInv'
  BY <1>1, LifecycleQuiet, ClaimInvQuiet
<1>2. ASSUME NEW n \in Nodes, Claiming(n) PROVE ClaimInv'
  <2>1. CASE \E s \in Schedules, o \in Occurrence : FireOccurrence(n, s, o)
    BY <2>1, FiredClaimInv
  <2>2. CASE ClaimAnswered(n)
    BY <2>2, AnsweredClaimInv
  <2>3. CASE ClaimRejected(n) \/ ClaimTimeout(n)
    <3>1. PICK c \in pending[n] : FailClaim(n, c)
      BY <2>3 DEF ClaimRejected, ClaimTimeout
    <3>2. pending' = [pending EXCEPT ![n] = pending[n] \ {c}]
          /\ UNCHANGED <<wire, won, score, starts, probeGen, fired>>
      BY <3>1 DEF FailClaim
    <3>3. \A m \in Nodes : pending'[m] \subseteq pending[m]
      BY <3>2 DEF TypeInv, TypeOK
    <3> QED
      BY <3>2, <3>3, ClaimInvQuiet
  <2> QED
    BY <1>2, <2>1, <2>2, <2>3 DEF Claiming
<1>3. ASSUME NEW c \in wire, RedisExecutes(c) PROVE ClaimInv'
  BY <1>3, ExecutedClaimInv
<1>4. CASE UNCHANGED vars
  BY <1>4 DEF vars, ClaimInv, ClaimsIssued, Issued, GrantsForward, GrantsUnique, StartsSpent
<1> QED
  BY <1>1, <1>2, <1>3, <1>4 DEF Next

LEMMA ClaimInvariant == Spec => []ClaimInv
  BY InitClaimInv, NextClaimInv, TypeInvariant, PTL DEF Spec

\* An occurrence runs on at most one instance and at most once, for any number
\* of replicas, occurrences, restarts, drops and timeouts.
THEOREM OccurrenceRunsAtMostOnce == Spec => []AtMostOnce
<1>1. ClaimInv => AtMostOnce
  BY DEF ClaimInv, StartsSpent, AtMostOnce
<1> QED
  BY <1>1, ClaimInvariant, PTL

-----------------------------------------------------------------------------
\* Probing and recovery.

\* What holds at one replica.  Probes carry past or present generations, at
\* most one of them the present one, and one that was sent for the present
\* initialization is stale only after a close decided the state.
NodeInv(n) ==
  /\ connected[n] => live[n]
  /\ recovering[n] => connected[n]
  /\ \A p \in probes[n] : p.gen <= probeGen[n] /\ p.init <= initGen[n]
  /\ \A p, q \in probes[n] : p.gen = probeGen[n] /\ q.gen = probeGen[n] => p = q
  /\ recovering[n] <=> \E p \in probes[n] : p.gen = probeGen[n]
  /\ connected[n] /\ state[n] # "ready" => recovering[n] \/ timer[n]
  /\ state[n] = "ready" => connected[n]
  /\ live[n] /\ ~waiting[n] => state[n] # "uninitialized"
  /\ \A p \in probes[n] : p.init = initGen[n] /\ p.gen # probeGen[n]
                            => state[n] # "uninitialized"

ProbeInv == \A n \in Nodes : NodeInv(n)

LEMMA InitProbeInv == Init => ProbeInv
  BY DEF Init, ProbeInv, NodeInv

\* A step of one replica leaves the others alone.
LEMMA OtherReplicas ==
  ASSUME TypeInv, ProbeInv, NEW n \in Nodes, NodeInv(n)',
         \A m \in Nodes \ {n} :
            /\ state'[m] = state[m] /\ live'[m] = live[m] /\ connected'[m] = connected[m]
            /\ recovering'[m] = recovering[m] /\ timer'[m] = timer[m]
            /\ probeGen'[m] = probeGen[m] /\ initGen'[m] = initGen[m]
            /\ waiting'[m] = waiting[m] /\ probes'[m] = probes[m]
  PROVE  ProbeInv'
<1>1. ASSUME NEW m \in Nodes \ {n} PROVE NodeInv(m)'
  BY <1>1 DEF ProbeInv, NodeInv
<1> QED
  BY <1>1 DEF ProbeInv

\* attemptProbe with the lock free and a connection: one probe, of the present
\* generation, and the lock held.
LEMMA AttemptProbeEffect ==
  ASSUME TypeInv, NEW n \in Nodes, AttemptProbe(n)
  PROVE  /\ \A m \in Nodes \ {n} : recovering'[m] = recovering[m] /\ probes'[m] = probes[m]
         /\ recovering'[n]
         /\ \/ recovering[n] /\ probes'[n] = probes[n]
            \/ /\ ~recovering[n]
               /\ \E p : /\ probes'[n] = probes[n] \cup {p}
                         /\ p.gen = probeGen[n] /\ p.init = initGen[n]
<1>1. CASE recovering[n]
  BY <1>1 DEF AttemptProbe, Remembered
<1>2. CASE ~recovering[n]
  <2> DEFINE p == [gen |-> probeGen[n], init |-> initGen[n]]
  <2>1. probes'[n] = probes[n] \cup {p} /\ p.gen = probeGen[n] /\ p.init = initGen[n]
    BY <1>2 DEF AttemptProbe, Remembered, TypeInv, TypeOK
  <2>2. /\ \A m \in Nodes \ {n} : recovering'[m] = recovering[m] /\ probes'[m] = probes[m]
        /\ recovering'[n]
    BY <1>2 DEF AttemptProbe, Remembered, TypeInv, TypeOK
  <2> QED
    BY <1>2, <2>1, <2>2
<1> QED
  BY <1>1, <1>2

LEMMA ReadyProbeInv ==
  ASSUME TypeInv, ProbeInv, NEW n \in Nodes, OnReady(n)
  PROVE  ProbeInv'
<1>1. /\ connected'[n] /\ ~timer'[n] /\ live[n] /\ ~connected[n]
      /\ \A m \in Nodes \ {n} : connected'[m] = connected[m] /\ timer'[m] = timer[m]
      /\ UNCHANGED <<state, live, probeGen, initGen, waiting>>
      /\ AttemptProbe(n)
  BY DEF OnReady, TypeInv, TypeOK
<1>2. probeGen[n] \in Nat /\ initGen[n] \in Nat
  BY BoundsAssumption DEF TypeInv, TypeOK, Epoch
<1>3. ~recovering[n]
  BY <1>1 DEF ProbeInv, NodeInv
<1>4. PICK p : probes'[n] = probes[n] \cup {p} /\ p.gen = probeGen[n] /\ p.init = initGen[n]
  BY <1>1, <1>3, AttemptProbeEffect
<1>5. recovering'[n]
  BY <1>1, AttemptProbeEffect
<1>6. NodeInv(n)'
  BY <1>1, <1>2, <1>3, <1>4, <1>5 DEF ProbeInv, NodeInv
<1> QED
  BY <1>1, <1>6, AttemptProbeEffect, OtherReplicas

LEMMA TimerProbeInv ==
  ASSUME TypeInv, ProbeInv, NEW n \in Nodes, RecoveryTimer(n)
  PROVE  ProbeInv'
<1>1. /\ ~timer'[n]
      /\ \A m \in Nodes \ {n} : timer'[m] = timer[m]
      /\ UNCHANGED <<state, live, connected, probeGen, initGen, waiting>>
  BY DEF RecoveryTimer, TypeInv, TypeOK
<1>2. probeGen[n] \in Nat /\ initGen[n] \in Nat
  BY BoundsAssumption DEF TypeInv, TypeOK, Epoch
<1>3. CASE connected[n]
  <2>1. AttemptProbe(n)
    BY <1>3 DEF RecoveryTimer
  <2>2. NodeInv(n)'
    <3>1. recovering'[n]
      BY <2>1, AttemptProbeEffect
    <3>2. CASE recovering[n]
      <4>1. probes'[n] = probes[n]
        BY <2>1, <3>2, AttemptProbeEffect
      <4> QED
        BY <1>1, <3>1, <3>2, <4>1 DEF ProbeInv, NodeInv
    <3>3. CASE ~recovering[n]
      <4>1. PICK p : /\ probes'[n] = probes[n] \cup {p}
                     /\ p.gen = probeGen[n] /\ p.init = initGen[n]
        BY <2>1, <3>3, AttemptProbeEffect
      <4> QED
        BY <1>1, <1>2, <1>3, <3>1, <3>3, <4>1 DEF ProbeInv, NodeInv
    <3> QED
      BY <3>2, <3>3
  <2> QED
    BY <1>1, <2>1, <2>2, AttemptProbeEffect, OtherReplicas
<1>4. CASE ~connected[n]
  <2>1. UNCHANGED <<recovering, probes>>
    BY <1>4 DEF RecoveryTimer
  <2>2. NodeInv(n)'
    BY <1>1, <1>4, <2>1 DEF ProbeInv, NodeInv
  <2> QED
    BY <1>1, <2>1, <2>2, OtherReplicas
<1> QED
  BY <1>3, <1>4

\* The outcome of a probe, present or stale.
LEMMA SettledProbeInv ==
  ASSUME TypeInv, ProbeInv, NEW n \in Nodes, NEW p \in probes[n],
         NEW ok \in BOOLEAN, SettleProbe(n, p, ok)
  PROVE  ProbeInv'
<1>1. /\ probes'[n] = probes[n] \ {p}
      /\ waiting'[n] = (waiting[n] /\ p.init # initGen[n])
      /\ \A m \in Nodes \ {n} : probes'[m] = probes[m] /\ waiting'[m] = waiting[m]
      /\ UNCHANGED <<live, connected, probeGen, initGen>>
  BY DEF SettleProbe, Current, Rearmed, TypeInv, TypeOK
<1>2. CASE p.gen = probeGen[n]
  <2>1. /\ state'[n] = (IF ok THEN "ready" ELSE "unavailable")
        /\ ~recovering'[n]
        /\ timer'[n] = (~ok /\ (timer[n] \/ connected[n]))
        /\ \A m \in Nodes \ {n} : /\ state'[m] = state[m]
                                  /\ recovering'[m] = recovering[m]
                                  /\ timer'[m] = timer[m]
    BY <1>2 DEF SettleProbe, Current, Rearmed, TypeInv, TypeOK
  <2>2. connected[n]
    BY <1>2 DEF ProbeInv, NodeInv
  <2>3. NodeInv(n)'
    BY <1>1, <1>2, <2>1, <2>2 DEF ProbeInv, NodeInv
  <2> QED
    BY <1>1, <2>1, <2>3, OtherReplicas
<1>3. CASE p.gen # probeGen[n]
  <2>1. UNCHANGED <<state, recovering, timer>>
    BY <1>3 DEF SettleProbe, Current, Rearmed
  <2>2. NodeInv(n)'
    BY <1>1, <1>3, <2>1 DEF ProbeInv, NodeInv
  <2> QED
    BY <1>1, <2>1, <2>2, OtherReplicas
<1> QED
  BY <1>2, <1>3

\* The close event opens a new generation, which no probe carries yet.
LEMMA DownProbeInv ==
  ASSUME TypeInv, ProbeInv, NEW n \in Nodes, OnDown(n)
  PROVE  ProbeInv'
<1>1. /\ ~connected'[n] /\ ~recovering'[n] /\ ~timer'[n] /\ ~waiting'[n]
      /\ state'[n] = "unavailable" /\ probeGen'[n] = probeGen[n] + 1
      /\ \A m \in Nodes \ {n} :
            /\ connected'[m] = connected[m] /\ recovering'[m] = recovering[m]
            /\ timer'[m] = timer[m] /\ waiting'[m] = waiting[m]
            /\ state'[m] = state[m] /\ probeGen'[m] = probeGen[m]
      /\ UNCHANGED <<live, initGen, probes>>
  BY DEF OnDown, TypeInv, TypeOK
<1>2. probeGen[n] \in Nat /\ \A p \in probes[n] : p.gen \in Nat
  BY BoundsAssumption DEF TypeInv, TypeOK, Epoch, Probe
<1>3. \A p \in probes[n] : p.gen <= probeGen'[n] /\ p.gen # probeGen'[n]
  BY <1>1, <1>2 DEF ProbeInv, NodeInv
<1>4. NodeInv(n)'
  BY <1>1, <1>3 DEF ProbeInv, NodeInv
<1> QED
  BY <1>1, <1>4, OtherReplicas

\* destroy, or a new process: nothing survives but stale probes.
LEMMA ResetProbeInv ==
  ASSUME TypeInv, ProbeInv, NEW n \in Nodes, ResetProcess(n),
         probes' \in {probes, [probes EXCEPT ![n] = {}]}
  PROVE  ProbeInv'
<1>1. /\ ~connected'[n] /\ ~recovering'[n] /\ ~live'[n]
      /\ state'[n] = "uninitialized"
      /\ probeGen'[n] = probeGen[n] + 1 /\ initGen'[n] = initGen[n] + 1
      /\ \A m \in Nodes \ {n} :
            /\ connected'[m] = connected[m] /\ recovering'[m] = recovering[m]
            /\ timer'[m] = timer[m] /\ waiting'[m] = waiting[m]
            /\ state'[m] = state[m] /\ probeGen'[m] = probeGen[m]
            /\ initGen'[m] = initGen[m] /\ live'[m] = live[m]
  BY DEF ResetProcess, TypeInv, TypeOK
<1>2. /\ probes'[n] \subseteq probes[n]
      /\ \A m \in Nodes \ {n} : probes'[m] = probes[m]
  BY DEF TypeInv, TypeOK
<1>3. /\ probeGen[n] \in Nat /\ initGen[n] \in Nat
      /\ \A p \in probes[n] : p.gen \in Nat /\ p.init \in Nat
  BY BoundsAssumption DEF TypeInv, TypeOK, Epoch, Probe
<1>4. \A p \in probes'[n] : /\ p.gen <= probeGen'[n] /\ p.gen # probeGen'[n]
                            /\ p.init <= initGen'[n]
  BY <1>1, <1>2, <1>3 DEF ProbeInv, NodeInv
<1>5. \A p \in probes'[n] : p.init # initGen'[n]
  BY <1>1, <1>2, <1>3 DEF ProbeInv, NodeInv
<1>6. NodeInv(n)'
  BY <1>1, <1>4, <1>5 DEF NodeInv
<1> QED
  BY <1>1, <1>2, <1>6, OtherReplicas

\* A failed claim makes a connected replica unavailable, and then either the
\* probe that holds the lock or a timer brings it back.
LEMMA DistrustProbeInv ==
  ASSUME TypeInv, ProbeInv, NEW n \in Nodes, Distrust(n),
         UNCHANGED <<live, connected, recovering, probeGen, initGen, waiting, probes>>
  PROVE  ProbeInv'
<1>1. CASE connected[n]
  <2>1. /\ state'[n] = "unavailable" /\ timer'[n] = (timer[n] \/ ~recovering[n])
        /\ \A m \in Nodes \ {n} : state'[m] = state[m] /\ timer'[m] = timer[m]
    BY <1>1 DEF Distrust, TypeInv, TypeOK
  <2>2. NodeInv(n)'
    BY <1>1, <2>1 DEF ProbeInv, NodeInv
  <2> QED
    BY <2>1, <2>2, OtherReplicas
<1>2. CASE ~connected[n]
  BY <1>2 DEF Distrust, ProbeInv, NodeInv
<1> QED
  BY <1>1, <1>2

LEMMA InitStepProbeInv ==
  ASSUME TypeInv, ProbeInv, NEW n \in Nodes,
         StartInit(n) \/ InitMisconfigured(n) \/ InitDeadline(n)
  PROVE  ProbeInv'
<1>1. CASE StartInit(n)
  <2>1. /\ live'[n] /\ waiting'[n] /\ ~live[n] /\ state[n] = "uninitialized"
        /\ \A m \in Nodes \ {n} : live'[m] = live[m] /\ waiting'[m] = waiting[m]
        /\ UNCHANGED <<state, connected, recovering, timer, probeGen, initGen, probes>>
    BY <1>1 DEF StartInit, TypeInv, TypeOK
  <2>2. NodeInv(n)'
    BY <2>1 DEF ProbeInv, NodeInv
  <2> QED
    BY <2>1, <2>2, OtherReplicas
<1>2. CASE InitMisconfigured(n)
  <2>1. /\ ~live[n] /\ state'[n] = "unavailable"
        /\ \A m \in Nodes \ {n} : state'[m] = state[m]
        /\ UNCHANGED <<live, connected, recovering, timer, probeGen, initGen, waiting, probes>>
    BY <1>2 DEF InitMisconfigured, TypeInv, TypeOK
  <2>2. NodeInv(n)'
    BY <2>1 DEF ProbeInv, NodeInv
  <2> QED
    BY <2>1, <2>2, OtherReplicas
<1>3. CASE InitDeadline(n)
  <2>1. /\ state'[n] = (IF state[n] = "uninitialized" THEN "unavailable" ELSE state[n])
        /\ \A m \in Nodes \ {n} : state'[m] = state[m] /\ waiting'[m] = waiting[m]
        /\ UNCHANGED <<live, connected, recovering, timer, probeGen, initGen, probes>>
    BY <1>3 DEF InitDeadline, Overdue, TypeInv, TypeOK
  <2>2. NodeInv(n)'
    BY <2>1 DEF ProbeInv, NodeInv
  <2> QED
    BY <2>1, <2>2, OtherReplicas
<1> QED
  BY <1>1, <1>2, <1>3

LEMMA NextProbeInv == TypeInv /\ ProbeInv /\ [Next]_vars => ProbeInv'
<1> SUFFICES ASSUME TypeInv, ProbeInv, [Next]_vars PROVE ProbeInv'
  OBVIOUS
<1>1. ASSUME NEW n \in Nodes, Lifecycle(n) PROVE ProbeInv'
  <2>1. CASE StartInit(n) \/ InitMisconfigured(n) \/ InitDeadline(n)
    BY <2>1, InitStepProbeInv
  <2>2. CASE OnReady(n)
    BY <2>2, ReadyProbeInv
  <2>3. CASE OnDown(n)
    BY <2>3, DownProbeInv
  <2>4. CASE RecoveryTimer(n)
    BY <2>4, TimerProbeInv
  <2>5. CASE ProbeAccepted(n) \/ ProbeRejected(n) \/ ProbeTimeout(n)
    <3>1. PICK p \in probes[n], ok \in BOOLEAN : SettleProbe(n, p, ok)
      BY <2>5 DEF ProbeAccepted, ProbeRejected, ProbeTimeout
    <3> QED
      BY <3>1, SettledProbeInv
  <2>6. CASE Destroy(n) \/ Crash(n)
    BY <2>6, ResetProbeInv DEF Destroy, Crash
  <2> QED
    BY <1>1, <2>1, <2>2, <2>3, <2>4, <2>5, <2>6 DEF Lifecycle
<1>2. ASSUME UNCHANGED proc PROVE ProbeInv'
  BY <1>2 DEF proc, ProbeInv, NodeInv
<1>3. ASSUME NEW n \in Nodes, Claiming(n) PROVE ProbeInv'
  <2>1. CASE \E s \in Schedules, o \in Occurrence : FireOccurrence(n, s, o)
    <3>1. /\ Distrust(n) \/ UNCHANGED <<state, timer>>
          /\ UNCHANGED <<live, connected, recovering, probeGen, initGen, waiting, probes>>
      BY <2>1 DEF FireOccurrence
    <3>2. CASE UNCHANGED <<state, timer>>
      BY <3>1, <3>2 DEF ProbeInv, NodeInv
    <3> QED
      BY <3>1, <3>2, DistrustProbeInv
  <2>2. CASE ClaimAnswered(n)
    BY <1>2, <2>2 DEF ClaimAnswered, Granted
  <2>3. CASE ClaimRejected(n) \/ ClaimTimeout(n)
    BY <2>3, DistrustProbeInv DEF ClaimRejected, ClaimTimeout, FailClaim
  <2> QED
    BY <1>3, <2>1, <2>2, <2>3 DEF Claiming
<1>4. ASSUME NEW c \in wire, RedisExecutes(c) PROVE ProbeInv'
  BY <1>2, <1>4 DEF RedisExecutes, Newer
<1>5. CASE UNCHANGED vars
  BY <1>2, <1>5 DEF vars, proc
<1> QED
  BY <1>1, <1>3, <1>4, <1>5 DEF Next

\* A connected replica that is not ready has a probe or a timer on its way,
\* the lock is held exactly by a present probe, a ready replica is connected,
\* and initialization never settles undecided: for every interleaving of
\* socket events, probe outcomes, claim failures, timers and restarts.
THEOREM RecoveryProtocolSafe == Spec => []RecoveryProtocol
<1>1. ProbeInv => RecoveryProtocol
  BY DEF ProbeInv, NodeInv, RecoveryProtocol, NoLostRecovery, ProbeLock, ReadyIsConnected,
         InitDecided
<1>2. Spec => []ProbeInv
  BY InitProbeInv, NextProbeInv, TypeInvariant, PTL DEF Spec
<1> QED
  BY <1>1, <1>2, PTL

-----------------------------------------------------------------------------
\* Refinement.

LEMMA InitLedger == Init => Ledger!Init
  BY DEF Init, Ledger!Init, Open, Occurrence, Ledger!Occurrence

\* A step that grants nothing and starts nothing can only close occurrences.
LEMMA QuietLedger ==
  ASSUME TypeInv, UNCHANGED <<won, score, starts>>,
         \A c \in won : c \in pending'[c.node] => c \in pending[c.node]
  PROVE  Ledger!Next
<1>1. Open' \subseteq Open
  BY DEF Open
<1> QED
  BY <1>1 DEF Ledger!Next, Ledger!Forfeit

LEMMA ExecutedLedger ==
  ASSUME TypeInv, ClaimInv, NEW c \in wire, RedisExecutes(c)
  PROVE  Ledger!Next
<1>1. /\ c \in Claim /\ c.sched \in Schedules /\ c.occ \in Occurrence
      /\ UNCHANGED <<pending, starts>>
  BY DEF TypeInv, TypeOK, Claim, RedisExecutes, Newer
<1>2. CASE c.occ > score[c.sched]
  <2>1. score' = [score EXCEPT ![c.sched] = c.occ] /\ won' = won \cup {c}
    BY <1>2 DEF RedisExecutes, Newer
  <2>2. Open' = IF c \in pending[c.node] THEN Open \cup {<<c.sched, c.occ>>} ELSE Open
    BY <1>1, <2>1 DEF Open
  <2>3. Ledger!Grant(c.sched, c.occ)
    BY <1>1, <1>2, <2>1, <2>2 DEF Ledger!Grant
  <2> QED
    BY <1>1, <2>3 DEF Ledger!Next, Ledger!Occurrence, Occurrence
<1>3. CASE ~(c.occ > score[c.sched])
  <2>1. UNCHANGED <<won, score>>
    BY <1>3 DEF RedisExecutes, Newer
  <2> QED
    BY <1>1, <2>1, QuietLedger
<1> QED
  BY <1>2, <1>3

LEMMA AnsweredLedger ==
  ASSUME TypeInv, ClaimInv, NEW n \in Nodes, ClaimAnswered(n)
  PROVE  Ledger!Next
<1>1. PICK c \in pending[n] :
             /\ pending' = [pending EXCEPT ![n] = @ \ {c}]
             /\ starts' = IF c \in won THEN [starts EXCEPT ![c.sched][c.occ] = @ + 1] ELSE starts
             /\ UNCHANGED <<won, score>>
  BY DEF ClaimAnswered, Granted
<1>2. /\ c \in Claim /\ c.node = n
      /\ c.sched \in Schedules /\ c.occ \in Occurrence
  BY DEF Claim, ClaimInv, ClaimsIssued, TypeInv, TypeOK
<1>3. \A m \in Nodes : pending'[m] = IF m = n THEN pending[n] \ {c} ELSE pending[m]
  BY <1>1 DEF TypeInv, TypeOK
<1>4. \A d \in won : d.node \in Nodes
  BY DEF TypeInv, TypeOK, Claim
<1>5. CASE c \notin won
  BY <1>1, <1>3, <1>4, <1>5, QuietLedger
<1>6. CASE c \in won
  <2>1. \A d \in won : d \in pending'[d.node] <=> d # c /\ d \in pending[d.node]
    BY <1>2, <1>3, <1>4
  <2>2. \A d \in won : <<d.sched, d.occ>> = <<c.sched, c.occ>> => d = c
    BY <1>6 DEF ClaimInv, GrantsUnique
  <2>3. Open' = Open \ {<<c.sched, c.occ>>}
    BY <1>1, <2>1, <2>2 DEF Open
  <2>4. <<c.sched, c.occ>> \in Open
    BY <1>2, <1>6 DEF Open
  <2>5. starts' = [starts EXCEPT ![c.sched][c.occ] = @ + 1]
    BY <1>1, <1>6
  <2>6. Ledger!Start(c.sched, c.occ)
    BY <1>1, <2>3, <2>4, <2>5 DEF Ledger!Start
  <2> QED
    BY <1>2, <2>6 DEF Ledger!Next, Ledger!Occurrence, Occurrence
<1> QED
  BY <1>5, <1>6

LEMMA FiredLedger ==
  ASSUME TypeInv, ClaimInv, NEW n \in Nodes, NEW s \in Schedules,
         NEW o \in Occurrence, FireOccurrence(n, s, o)
  PROVE  Ledger!Next
<1> DEFINE c == [node |-> n, sched |-> s, occ |-> o, conn |-> probeGen[n]]
<1>1. c \notin won
  BY FreshClaim DEF FireOccurrence
<1>2. /\ UNCHANGED <<score, won, starts>>
      /\ \A m \in Nodes : pending'[m] \subseteq IF m = n THEN pending[m] \cup {c} ELSE pending[m]
  BY DEF FireOccurrence, TypeInv, TypeOK
<1>3. \A d \in won : d.node \in Nodes
  BY DEF TypeInv, TypeOK, Claim
<1> QED
  BY <1>1, <1>2, <1>3, QuietLedger

LEMMA NextLedger == TypeInv /\ ClaimInv /\ [Next]_vars => [Ledger!Next]_Ledger!vars
<1> SUFFICES ASSUME TypeInv, ClaimInv, Next PROVE Ledger!Next
  <2>1. UNCHANGED vars => UNCHANGED Ledger!vars
    BY DEF vars, Ledger!vars, Open
  <2> QED
    BY <2>1
<1>1. \A d \in won : d.node \in Nodes
  BY DEF TypeInv, TypeOK, Claim
<1>2. ASSUME NEW n \in Nodes, Lifecycle(n) PROVE Ledger!Next
  BY <1>1, <1>2, LifecycleQuiet, QuietLedger
<1>3. ASSUME NEW n \in Nodes, Claiming(n) PROVE Ledger!Next
  <2>1. CASE \E s \in Schedules, o \in Occurrence : FireOccurrence(n, s, o)
    BY <2>1, FiredLedger
  <2>2. CASE ClaimAnswered(n)
    BY <2>2, AnsweredLedger
  <2>3. CASE ClaimRejected(n) \/ ClaimTimeout(n)
    <3>1. PICK c \in pending[n] : FailClaim(n, c)
      BY <2>3 DEF ClaimRejected, ClaimTimeout
    <3>2. /\ pending' = [pending EXCEPT ![n] = pending[n] \ {c}]
          /\ UNCHANGED <<won, score, starts>>
      BY <3>1 DEF FailClaim
    <3>3. \A m \in Nodes : pending'[m] \subseteq pending[m]
      BY <3>2 DEF TypeInv, TypeOK
    <3> QED
      BY <1>1, <3>2, <3>3, QuietLedger
  <2> QED
    BY <1>3, <2>1, <2>2, <2>3 DEF Claiming
<1>4. ASSUME NEW c \in wire, RedisExecutes(c) PROVE Ledger!Next
  BY <1>4, ExecutedLedger
<1> QED
  BY <1>2, <1>3, <1>4 DEF Next

\* Schedule coordination implements the occurrence ledger: grants of a schedule
\* move forward, and a grant is started once or forfeited for good.
THEOREM ImplementsLedger == Spec => LedgerSpec
  BY InitLedger, NextLedger, TypeInvariant, ClaimInvariant, PTL
  DEF Spec, LedgerSpec, Ledger!Spec
=============================================================================
