----------------------------- MODULE MCEventBus -----------------------------
(***************************************************************************)
(* Small instances of EventBus for TLC: two topics, of which one           *)
(* subscriber takes both ("tool.>") and another only the first.            *)
(***************************************************************************)
EXTENDS EventBus, TLC

CONSTANTS p1, p2, t1

ToolCall == <<"tool", "call">>
ToolResult == <<"tool", "result">>
MCTopics == {ToolCall, ToolResult}

AllTools == {[segs |-> <<"tool">>, wild |-> TRUE]}
OnlyCalls == {[segs |-> ToolCall, wild |-> FALSE]}
MCPatternSets == {AllTools, OnlyCalls}
RootPatternSets == {{[segs |-> <<>>, wild |-> TRUE]}}
OneTopic == {ToolCall}

\* Constraints.  Each takes choices away from the environment only, to which
\* no fairness condition applies.
SubscribeFirst == nsubs < MaxSubs => nsubs' # nsubs
Attached == ~closed /\ subs = 1 .. nsubs
Uncancelled == \A p \in Publishers : ~ctx[p]
LastStays == unsub[MaxSubs] = "no"

Symmetric == Permutations({p1, p2})
=============================================================================
