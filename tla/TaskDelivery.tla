---------------------------- MODULE TaskDelivery ----------------------------
(* What relayna's task path promises its producers: at-least-once          *)
(* handling.  A submitted task stays open until it has an outcome;         *)
(* outcomes are never withdrawn, and a task that is open although it has   *)
(* an outcome is a duplicate still to be worked off, which may add another *)
(* outcome.                                                                *)
CONSTANT Tasks

VARIABLES
    asked,    \* tasks producers have submitted
    open,     \* tasks some message or worker still stands for
    outcome   \* the outcomes each task has had

Outcomes == {"completed", "dead_lettered", "dropped"}

Init ==
    /\ asked = {}
    /\ open = {}
    /\ outcome = [t \in Tasks |-> {}]

Submit(S) ==
    /\ asked' = asked \cup S
    /\ open' = open \cup S
    /\ UNCHANGED outcome

(* The tasks of S get outcome o; those of C are closed by the same step.   *)
Conclude(S, o, C) ==
    /\ S \subseteq open
    /\ C \subseteq S
    /\ outcome' = [t \in Tasks |-> outcome[t] \cup (IF t \in S THEN {o} ELSE {})]
    /\ open' = open \ C
    /\ UNCHANGED asked

(* The last copy of the tasks of S is gone.                                *)
Close(S) ==
    /\ S \subseteq open
    /\ \A t \in S : outcome[t] # {}
    /\ open' = open \ S
    /\ UNCHANGED <<asked, outcome>>

Next ==
    \/ \E S \in SUBSET Tasks : Submit(S) \/ Close(S)
    \/ \E S \in SUBSET Tasks : \E C \in SUBSET S : \E o \in Outcomes : Conclude(S, o, C)

Spec == Init /\ [][Next]_<<asked, open, outcome>>
=============================================================================
