----------------------------- MODULE PlanBoard -----------------------------
(***************************************************************************)
(* What the coordination layer (internal/coord) promises about a plan: the *)
(* life of its todos as the board shows it.  A todo is taken up only when  *)
(* every todo it depends on has an outcome and fewer than Bound are in     *)
(* progress; it gets one outcome, which stays; and the run ends with an    *)
(* outcome for each of them.                                               *)
(***************************************************************************)
EXTENDS Naturals, FiniteSets

CONSTANTS Todos,   \* the todos of the plan
          Deps,    \* Todo.DependsOn, as a function
          Bound    \* Config.Concurrency

VARIABLES status, over

Outcomes == {"Done", "Failed"}
Statuses == {"Pending", "InProgress"} \union Outcomes

Ended(st, t) == st[t] \in Outcomes
Working(st) == {t \in Todos : st[t] = "InProgress"}

Init ==
    /\ status = [t \in Todos |-> "Pending"]
    /\ over = FALSE

\* At most one todo in progress gets its outcome, and the todos that may start
\* do, as far as the bound allows.
Advance ==
    /\ ~over
    /\ \E ended \in SUBSET Working(status) :
          /\ Cardinality(ended) <= 1
          /\ \A t \in ended : Ended(status', t)
          /\ \A t \in Todos \ ended :
                \/ status'[t] = status[t]
                \/ /\ status[t] = "Pending" /\ status'[t] = "InProgress"
                   /\ \A d \in Deps[t] : Ended(status', d)
    /\ status' \in [Todos -> Statuses]
    /\ Cardinality(Working(status')) <= Bound
    /\ UNCHANGED over

\* The run was cancelled, or its bus closed: what has no outcome has failed.
Abandon ==
    /\ ~over
    /\ status' = [t \in Todos |-> IF Ended(status, t) THEN status[t] ELSE "Failed"]
    /\ UNCHANGED over

\* No outcome changes once Run has returned, and every todo has one, unless
\* the plan was never started.
Close ==
    /\ ~over
    /\ over' = TRUE
    /\ \/ \A t \in Todos : Ended(status, t)
       \/ \A t \in Todos : status[t] = "Pending"
    /\ UNCHANGED status

Next == Advance \/ Abandon \/ Close

Spec == Init /\ [][Next]_<<status, over>>
=============================================================================
