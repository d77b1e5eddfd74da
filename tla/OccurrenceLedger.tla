-------------------------- MODULE OccurrenceLedger --------------------------
(***************************************************************************)
(* What schedule coordination promises an operator, without Redis, sockets *)
(* or probes: the grants of one schedule move forward in time, and a       *)
(* granted occurrence is started at most once or forfeited.  Nothing       *)
(* re-grants a forfeited one: missed occurrences are not replayed.         *)
(* ScheduleCoordination is checked and proved to implement this ledger.    *)
(***************************************************************************)
EXTENDS Naturals

CONSTANTS Schedules,      \* schedule identities (flow ids, extension hook ids)
          MaxOccurrence   \* occurrences are 1..MaxOccurrence, in time order

VARIABLES last,    \* last[s]: the newest occurrence granted for s, 0 if none
          open,    \* granted occurrences that may still start
          starts   \* starts[s][o]: how often the task body was started

vars == <<last, open, starts>>

Occurrence == 1..MaxOccurrence

Init == /\ last = [s \in Schedules |-> 0]
        /\ open = {}
        /\ starts = [s \in Schedules |-> [o \in Occurrence |-> 0]]

\* The grant may reach a claimant that has given up: it is forfeited at once.
Grant(s, o) == /\ o > last[s]
               /\ last' = [last EXCEPT ![s] = o]
               /\ open' \in {open, open \cup {<<s, o>>}}
               /\ UNCHANGED starts

Start(s, o) == /\ <<s, o>> \in open
               /\ open' = open \ {<<s, o>>}
               /\ starts' = [starts EXCEPT ![s][o] = @ + 1]
               /\ UNCHANGED last

\* Claimants give up or die between the grant and the start.
Forfeit == /\ open' \subseteq open
           /\ UNCHANGED <<last, starts>>

Next == \/ \E s \in Schedules, o \in Occurrence : Grant(s, o) \/ Start(s, o)
        \/ Forfeit

Spec == Init /\ [][Next]_vars
=============================================================================
