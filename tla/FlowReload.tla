------------------------------ MODULE FlowReload ------------------------------
(***************************************************************************)
(* The flows each instance runs: FlowManager (flows.ts) reads them when the*)
(* process starts, and again, in a job of its JobQueue (utils/job-queue.ts)*)
(* for every reload that FlowsService (services/flows.ts) publishes over   *)
(* the messenger after a write.  A set of flows is its version.            *)
(*                                                                         *)
(* The messenger delivers to processes that are up, and may lose messages. *)
(* A job that throws is an unhandled rejection, which ends the process.    *)
(* A definition X_Variant is a faulty X, used to see a property fail.      *)
(***************************************************************************)
EXTENDS Deployment, Naturals

CONSTANT MaxFlowWrites   \* bound: writes of flows

ASSUME FlowWritesAssumption == MaxFlowWrites \in Nat

VARIABLES
  flowsDb,   \* the version in the database
  unsent,    \* nodes whose request wrote flows and has not published yet
  inbox,     \* reloads on their way to each node
  flows,     \* FlowManager of each node, see FlowsInit
  missed     \* history: nodes that a change was not announced to since they last read

flowVars == <<flowsDb, unsent, inbox, flows, missed>>

\* at: "down", "rest" (no load runs), or a load's two halves: the first load
\* ("boot", "booting") and one of a job ("load", "loading").
Manager(at, loaded, ver, read, jobs) ==
  [at |-> at, isLoaded |-> loaded, ver |-> ver, read |-> read, jobs |-> jobs]

FlowsInit ==
  /\ flowsDb = 0
  /\ unsent = {}
  /\ inbox = [n \in Nodes |-> 0]
  /\ flows = [n \in Nodes |-> Manager("down", FALSE, 0, 0, 0)]
  /\ missed = {}

Up == {n \in Nodes : flows[n].at # "down"}

\* The constructor subscribes, then initialize loads.
Boot(n) ==
  /\ flows[n].at = "down"
  /\ flows' = [flows EXCEPT ![n] = Manager("boot", FALSE, 0, 0, 0)]
  /\ UNCHANGED <<flowsDb, unsent, inbox, missed>>

\* load reads the flows...
ReadFlows(n) ==
  /\ flows[n].at \in {"boot", "load"}
  /\ flows' = [flows EXCEPT ![n].read = flowsDb,
                            ![n].at = IF flows[n].at = "boot" THEN "booting" ELSE "loading"]
  /\ missed' = missed \ {n}
  /\ UNCHANGED <<flowsDb, unsent, inbox>>

\* ...and installs their handlers; the queue goes on with its next job, which
\* unloads them.
Queued_Forgotten(n) == FALSE
Queued_Always(n) == TRUE
Queued(n) == flows[n].jobs > 0

Install(n) ==
  /\ flows[n].at \in {"booting", "loading"}
  /\ flows' = [flows EXCEPT ![n] =
                 IF Queued(n) THEN Manager("load", FALSE, 0, 0, @.jobs - 1)
                              ELSE Manager("rest", TRUE, @.read, 0, @.jobs)]
  /\ UNCHANGED <<flowsDb, unsent, inbox, missed>>

\* A process ends: its load throws, or anything else.
Stop(n) ==
  /\ flows[n].at # "down"
  /\ flows' = [flows EXCEPT ![n] = Manager("down", FALSE, 0, 0, 0)]
  /\ inbox' = [inbox EXCEPT ![n] = 0]
  /\ unsent' = unsent \ {n}
  /\ missed' = IF n \in unsent THEN missed \cup Up ELSE missed
  /\ UNCHANGED flowsDb

\* A reload arrives: a job, at once when none runs.  Before the first load is
\* done the job only warns.
Enqueued_Coalesced(n) == flows[n]
Enqueued(n) == [flows[n] EXCEPT !.jobs = @ + 1]

Deliver(n) ==
  /\ inbox[n] > 0
  /\ inbox' = [inbox EXCEPT ![n] = @ - 1]
  /\ \/ /\ flows[n].at \in {"load", "loading"}
        /\ flows' = [flows EXCEPT ![n] = Enqueued(n)]
        /\ UNCHANGED missed
     \/ /\ flows[n].at \notin {"load", "loading"} /\ flows[n].isLoaded
        /\ flows' = [flows EXCEPT ![n] = Manager("load", FALSE, 0, 0, @.jobs)]
        /\ UNCHANGED missed
     \/ /\ flows[n].at \notin {"load", "loading"} /\ ~flows[n].isLoaded
        /\ missed' = missed \cup {n}
        /\ UNCHANGED flows
  /\ UNCHANGED <<flowsDb, unsent>>

\* A request writes flows and then publishes a reload.
WriteFlows(n) ==
  /\ flowsDb < MaxFlowWrites
  /\ flows[n].at \in {"rest", "load", "loading"} /\ n \notin unsent
  /\ flowsDb' = flowsDb + 1
  /\ unsent' = unsent \cup {n}
  /\ UNCHANGED <<inbox, flows, missed>>

\* A request changes flows and publishes nothing: it deletes flows, unlinks their
\* operations and then throws; its caches cannot be cleared once it has committed; it
\* upserts, or writes flows within another item, through a plain ItemsService.
WriteUnannounced(n) ==
  /\ flowsDb < MaxFlowWrites
  /\ flows[n].at \in {"rest", "load", "loading"}
  /\ flowsDb' = flowsDb + 1
  /\ missed' = missed \cup Up
  /\ UNCHANGED <<unsent, inbox, flows>>

Receivers_Others(n) == Up \ {n}
Receivers(n) == Up

Publish(n) ==
  /\ n \in unsent
  /\ unsent' = unsent \ {n}
  /\ inbox' = [m \in Nodes |-> inbox[m] + IF m \in Receivers(n) THEN 1 ELSE 0]
  /\ UNCHANGED <<flowsDb, flows, missed>>

\* The message is lost to a node, or to all of them.
Lose(n) ==
  /\ inbox[n] > 0
  /\ inbox' = [inbox EXCEPT ![n] = @ - 1]
  /\ missed' = missed \cup {n}
  /\ UNCHANGED <<flowsDb, unsent, flows>>

FlowsNext == \E n \in Nodes : \/ Boot(n) \/ ReadFlows(n) \/ Install(n) \/ Stop(n)
                              \/ Deliver(n) \/ Lose(n)
                              \/ WriteFlows(n) \/ WriteUnannounced(n) \/ Publish(n)
-----------------------------------------------------------------------------
\* Types of the flow managers.
FlowsTypeOK ==
  /\ flowsDb \in 0..MaxFlowWrites
  /\ unsent \subseteq Up
  /\ inbox \in [Nodes -> 0..MaxFlowWrites]
  /\ flows \in [Nodes -> [at : {"down", "boot", "booting", "rest", "load", "loading"}, isLoaded : BOOLEAN,
                          ver : 0..MaxFlowWrites, read : 0..MaxFlowWrites, jobs : 0..MaxFlowWrites]]
  /\ missed \subseteq Nodes

\* An instance with nothing left to do runs the current flows, unless a reload was
\* lost to it (docs/manage/configuration.md:302) or reached it before its first load
\* was done (flows.ts:201), or a change was never announced (services/flows.ts:51);
\* no reload is left waiting in its queue.
FlowsCurrent ==
  \A n \in Nodes : flows[n].at = "rest" =>
    /\ flows[n].jobs = 0
    /\ inbox[n] = 0 /\ unsent = {} /\ n \notin missed => flows[n].ver = flowsDb
=============================================================================
