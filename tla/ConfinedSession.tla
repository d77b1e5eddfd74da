--------------------------- MODULE ConfinedSession ---------------------------
(***************************************************************************)
(* api/src/extensions/confined/supervisor.ts: one session of a confined    *)
(* child, from the spawned process to its result.  The child runs          *)
(* untrusted code: it writes any frames in any order and dies at any time. *)
(* The parent reads frames from the channel, serves host calls through an  *)
(* asynchronous dispatcher, and settles the session once, on the first of  *)
(* result, protocol violation, channel close, error and wall clock.        *)
(*                                                                         *)
(* Host calls are numbered by their frames.  A definition X_Variant is a   *)
(* faulty X, used to see a property fail.                                  *)
(***************************************************************************)
EXTENDS Naturals, FiniteSets, Sequences

CONSTANTS CallFrames,    \* bound: host-call frames the child writes
          MaxHostCalls,  \* limits.maxHostCalls
          MaxInFlight,   \* limits.maxInFlightHostCalls
          PipeSize       \* bound: unread frames in the channel

ASSUME SessionAssumption ==
  CallFrames \in Nat /\ MaxHostCalls \in Nat /\ MaxInFlight \in Nat /\ PipeSize \in Nat

VARIABLES
  kind,       \* "run" (runChild) or "probe" (runProbeChild)
  child,      \* "alive", or "exited"
  killed,     \* SIGKILL was sent
  written,    \* frames the child has written: host calls so far, and the result
  pipe,       \* frames written and not yet read
  outcome,    \* what the session resolved with, "open" while it has not
  violated,   \* the parent read a frame that breaks the protocol
  total,      \* hostCallTotal
  inFlight,   \* inFlight.count
  work,       \* per call: the dispatcher's work
  waits,      \* per call: handleHostCall awaits dispatcher or timeout
  aborted,    \* per call: its AbortController was aborted
  replies     \* per call: host-reply frames written

parentVars == <<outcome, violated, killed, total, inFlight, work, waits, aborted, replies>>
childVars == <<kind, child, written>>
vars == <<kind, child, killed, written, pipe, outcome, violated, total, inFlight,
          work, waits, aborted, replies>>

Call == 1..CallFrames
Outcome == {"open", "result", "timeout", "crash", "internal"}
Frame == [type : {"call"}, id : Call] \cup [type : {"done", "junk", "unknown"}]

Init == /\ kind \in {"run", "probe"}
        /\ child = "alive"
        /\ killed = FALSE
        /\ written = [calls |-> 0, done |-> FALSE]
        /\ pipe = <<>>
        /\ outcome = "open"
        /\ violated = FALSE
        /\ total = 0
        /\ inFlight = 0
        /\ work = [k \in Call |-> "none"]
        /\ waits = [k \in Call |-> FALSE]
        /\ aborted = [k \in Call |-> FALSE]
        /\ replies = [k \in Call |-> 0]

Settled == outcome # "open"
Working == {k \in Call : work[k] = "running"}

-----------------------------------------------------------------------------
\* The child, external and untrusted.

ChildWrites ==
  /\ child = "alive"
  /\ Len(pipe) < PipeSize
  /\ \/ /\ written.calls < CallFrames
        /\ written' = [written EXCEPT !.calls = @ + 1]
        /\ pipe' = Append(pipe, [type |-> "call", id |-> written.calls + 1])
     \/ /\ ~written.done
        /\ written' = [written EXCEPT !.done = TRUE]
        /\ pipe' = Append(pipe, [type |-> "done"])
     \/ /\ \E t \in {"junk", "unknown"} : pipe' = Append(pipe, [type |-> t])
        /\ UNCHANGED written
  /\ UNCHANGED <<kind, child, parentVars>>

ChildExits ==
  /\ child = "alive"
  /\ child' = "exited"
  /\ UNCHANGED <<kind, written, pipe, parentVars>>

-----------------------------------------------------------------------------
\* finish.

Kill_Skipped == UNCHANGED killed
Kill == killed' = TRUE

\* onFinish aborts the controllers of every call whose dispatcher still works.
AbortAll_Skipped == UNCHANGED aborted
AbortAll == aborted' = [k \in Call |-> aborted[k] \/ k \in Working]

\* Only the first finish has an effect.
Undecided_Always == TRUE
Undecided == ~Settled

Finish(code) ==
  IF Undecided
  THEN /\ outcome' = code
       /\ Kill
       /\ AbortAll
       /\ UNCHANGED <<total, inFlight, work, waits, replies>>
  ELSE UNCHANGED <<outcome, killed, total, inFlight, work, waits, aborted, replies>>

\* The wall-clock timer, cleared by finish.
WallClock ==
  /\ ~Settled
  /\ Finish("timeout")
  /\ UNCHANGED <<childVars, pipe, violated>>

\* The channel or the child process reports an error, there is no channel, or
\* the job frame cannot be written.
ChannelError ==
  /\ Finish("internal")
  /\ UNCHANGED <<childVars, pipe, violated>>

\* The channel closes when the child is gone and every frame was read.
Drained_ExitOnly == child = "exited"
Drained == child = "exited" /\ pipe = <<>>

ChannelClose ==
  /\ Drained
  /\ Finish("crash")
  /\ UNCHANGED <<childVars, pipe, violated>>

-----------------------------------------------------------------------------
\* Host calls.

Reply(k) == replies' = [replies EXCEPT ![k] = @ + 1]

\* The call is answered in the turn that read it: over a limit, or invalid.
Refuse(k) ==
  /\ Reply(k)
  /\ UNCHANGED <<inFlight, work, waits, aborted>>

\* The dispatcher starts; its timeout is armed.
Dispatch(k) ==
  /\ inFlight' = inFlight + 1
  /\ work' = [work EXCEPT ![k] = "running"]
  /\ waits' = [waits EXCEPT ![k] = TRUE]
  /\ UNCHANGED <<aborted, replies>>

OverTotal_OffByOne == total > MaxHostCalls
OverTotal == total + 1 > MaxHostCalls
Saturated_OffByOne == inFlight > MaxInFlight
Saturated == inFlight >= MaxInFlight

\* runChild's onFrame and handleHostCall up to its await; validateHostCall may
\* refuse any call.
HostCall(k) ==
  /\ total' = total + 1
  /\ \/ Refuse(k)
     \/ ~OverTotal /\ ~Saturated /\ Dispatch(k)

\* The dispatcher resolves or rejects: the count drops now, not at the timeout,
\* and the call is answered unless its timeout was first.
DispatcherSettles(k) ==
  /\ work[k] = "running"
  /\ work' = [work EXCEPT ![k] = "finished"]
  /\ inFlight' = inFlight - 1
  /\ waits' = [waits EXCEPT ![k] = FALSE]
  /\ IF waits[k]
     THEN Reply(k) /\ aborted' = [aborted EXCEPT ![k] = TRUE]
     ELSE UNCHANGED <<replies, aborted>>
  /\ UNCHANGED <<childVars, pipe, outcome, violated, killed, total>>

\* hostCallTimeoutMs passes first: the guest is answered, the dispatcher's work
\* is aborted and keeps its place in inFlight until it settles.
HostCallTimeout_FreesPlace(k) ==
  /\ waits[k]
  /\ waits' = [waits EXCEPT ![k] = FALSE]
  /\ aborted' = [aborted EXCEPT ![k] = TRUE]
  /\ Reply(k)
  /\ inFlight' = inFlight - 1
  /\ UNCHANGED <<childVars, pipe, outcome, violated, killed, total, work>>

HostCallTimeout_StillWaits(k) ==
  /\ waits[k] /\ ~aborted[k]
  /\ aborted' = [aborted EXCEPT ![k] = TRUE]
  /\ Reply(k)
  /\ UNCHANGED <<childVars, pipe, outcome, violated, killed, total, inFlight, work, waits>>

HostCallTimeout_Silent(k) ==
  /\ waits[k] /\ ~aborted[k]
  /\ aborted' = [aborted EXCEPT ![k] = TRUE]
  /\ UNCHANGED <<childVars, pipe, outcome, violated, killed, total, inFlight, work, waits, replies>>

HostCallTimeout(k) ==
  /\ waits[k]
  /\ waits' = [waits EXCEPT ![k] = FALSE]
  /\ aborted' = [aborted EXCEPT ![k] = TRUE]
  /\ Reply(k)
  /\ UNCHANGED <<childVars, pipe, outcome, violated, killed, total, inFlight, work>>

-----------------------------------------------------------------------------
\* One frame is read.  After settlement frames are dropped; a protocol violation
\* (junk, or a host call on the probe path) is a crash.
Dropped_Never == FALSE
Dropped == Settled

ReadFrame ==
  /\ pipe # <<>>
  /\ pipe' = Tail(pipe)
  /\ UNCHANGED childVars
  /\ LET f == Head(pipe)
         breach == f.type = "junk" \/ (f.type = "call" /\ kind = "probe")
     IN IF Dropped
        THEN UNCHANGED parentVars
        ELSE /\ violated' = (violated \/ breach)
             /\ \/ breach /\ Finish("crash")
                \/ ~breach /\ f.type = "done" /\ Finish("result")
                \/ f.type = "unknown" /\ UNCHANGED <<outcome, killed, total, inFlight, work,
                                                     waits, aborted, replies>>
                \/ /\ ~breach /\ f.type = "call"
                   /\ HostCall(f.id)
                   /\ UNCHANGED <<outcome, killed>>

Next == \/ ChildWrites \/ ChildExits
        \/ ReadFrame \/ WallClock \/ ChannelError \/ ChannelClose
        \/ \E k \in Call : DispatcherSettles(k) \/ HostCallTimeout(k)

Spec == Init /\ [][Next]_vars

\* Timers fire, a killed process exits, written frames are read.  Nothing makes
\* a dispatcher settle.
Fairness == /\ WF_vars(WallClock)
            /\ WF_vars(killed /\ ChildExits)
            /\ WF_vars(ReadFrame)
            /\ \A k \in Call : WF_vars(HostCallTimeout(k))

FairSpec == Spec /\ Fairness
-----------------------------------------------------------------------------
\* Properties.

\* Type invariant of the session's variables.
TypeOK == /\ kind \in {"run", "probe"}
          /\ child \in {"alive", "exited"}
          /\ killed \in BOOLEAN
          /\ written \in [calls : 0..CallFrames, done : BOOLEAN]
          /\ pipe \in Seq(Frame)
          /\ outcome \in Outcome
          /\ violated \in BOOLEAN
          /\ total \in Nat
          /\ inFlight \in Nat
          /\ work \in [Call -> {"none", "running", "finished"}]
          /\ waits \in [Call -> BOOLEAN]
          /\ aborted \in [Call -> BOOLEAN]
          /\ replies \in [Call -> Nat]

\* inFlight counts exactly the dispatchers at work, those whose guest was
\* already answered with a timeout included, and stays under its limit
\* (handleHostCall): a guest cannot pile up work by letting calls time out.
InFlightExact == inFlight = Cardinality(Working) /\ inFlight <= MaxInFlight

\* Over a whole session no more than maxHostCalls calls reach the dispatcher.
DispatchBudget == Cardinality({k \in Call : work[k] # "none"}) <= MaxHostCalls

\* A host call is answered at most once, however its dispatcher, its timeout
\* and the settlement race.
OneReply == \A k \in Call : replies[k] <= 1

\* What the supervisor owes its host about any guest's calls (runChild,
\* handleHostCall).
HostCallRules == InFlightExact /\ DispatchBudget /\ OneReply

\* Once the session has settled, work still running for the guest is aborted.
SettledAborts == Settled => \A k \in Working : aborted[k]

\* A result frame the child wrote before it died is not lost to the race of its
\* exit and the data: "crash" means it broke the protocol or wrote none.
ResultNotLost == outcome = "crash" /\ written.done => violated

\* Settlement forgets neither the work it ends nor the result it had.
SettlementComplete == SettledAborts /\ ResultNotLost

\* A session keeps its guest within the limits and ends what it began.
CallRules == HostCallRules /\ SettlementComplete

\* No guest call reaches the dispatcher after its session has settled.
NoLateDispatch ==
  [][\A k \in Call : work'[k] = "running" /\ work[k] = "none" => ~Settled]_vars

\* The first settlement stands: no later frame, timer, error or close replaces
\* the result the caller was given.
OutcomeStands == [][Settled => outcome' = outcome]_vars

\* Nothing read, answered or timed out after settlement undoes it (finish,
\* onFrame).
SettlementFinal == NoLateDispatch /\ OutcomeStands

\* Every session ends, and its child with it, whatever the guest does.
SessionEnds == <>(Settled /\ child = "exited")

\* Every call that was handed to the dispatcher is answered, even by a
\* dispatcher that hangs.
CallsAnswered == \A k \in Call : work[k] # "none" ~> replies[k] > 0

\* Neither a silent guest nor a hanging dispatcher leaves someone waiting.
SessionCompletes == SessionEnds /\ CallsAnswered
=============================================================================
