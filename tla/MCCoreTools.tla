----------------------------- MODULE MCCoreTools ----------------------------
(***************************************************************************)
(* The runtime core, and beside it the execution engine whose Dispatch it  *)
(* waits for in EXECUTE.  The initial states choose which of the two is    *)
(* under way; the other stays as it begins.                                *)
(***************************************************************************)
EXTENDS MCRuntimeCore, ToolCall

VARIABLE part

\* A command that honours its context and is asked about, and an edit that does
\* not and was approved before.
LiveAsk == [c \in ToolCalls |->
    [known |-> TRUE, args |-> TRUE, admitted |-> TRUE, net |-> TRUE, preApproved |-> c = "edit",
     risk |-> "medium", honours |-> c = "bash", writes |-> {"f"}]]

CoreInit == part \in {"core", "tool"} /\ Init /\ ToolInit

CoreNext ==
    \/ part = "core" /\ Next /\ UNCHANGED <<part, toolVars>>
    \/ part = "tool" /\ ToolNext /\ UNCHANGED <<part, vars>>

\* Both begin with a step that is fairly taken - Submit, and a new call - so
\* fairness is about the part under way.
CorePartFairness ==
    /\ WF_vars(part = "core" /\ Drive)
    /\ \A p \in Procs : WF_vars(part = "core" /\ SessionStep(p))
    /\ \A l \in Loops : WF_vars(part = "core" /\ Loop(l))

ToolPartFairness ==
    \A c \in ToolCalls :
        /\ WF_toolVars(part = "tool" /\ DispatchStep(c))
        /\ WF_toolVars(part = "tool" /\ HonouringReturns(c))

CoreSpec ==
    /\ CoreInit /\ [][CoreNext]_<<part, vars, toolVars>>
    /\ CorePartFairness /\ ToolPartFairness

=============================================================================
