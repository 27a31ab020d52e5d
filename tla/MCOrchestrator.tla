--------------------------- MODULE MCOrchestrator ---------------------------
(***************************************************************************)
(* Instances of Orchestrator for TLC.                                      *)
(***************************************************************************)
EXTENDS Orchestrator

\* The first todo of the plan needs the second.
Backward == [t \in Todos |-> IF t = 1 /\ MaxTodo > 1 THEN {2} ELSE {}]

Apart == [t \in Todos |-> {t}]

\* Todos that write the same artifact: the instance where the merge conflicts.
Shared == [t \in Todos |-> {0}]

\* Constraint: the goroutines alive at once.  With one more than Bound a turn
\* overlaps its successor.
Alive == FoldSet(LAMBDA t, n : n + Len(turns[t]), 0, Todos)
OneLingers == Alive <= Bound + 1

\* Constraint: only the first todo is sent back for rework, and the run meets
\* one interruption.
LittleRework ==
    /\ \A t \in Todos : t > 1 => cycles[t] = 0
    /\ ~(canceled /\ closed)
=============================================================================
