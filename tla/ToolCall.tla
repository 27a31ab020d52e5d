------------------------------ MODULE ToolCall ------------------------------
(***************************************************************************)
(* The execution engine (internal/exec/engine.go): Dispatch with its       *)
(* gates, the human approval and its race with cancellation, and the       *)
(* goroutine every tool runs in.  Calls are dispatched concurrently.  The  *)
(* shell tool's watch over the tree (fschange.go) is part of a run: a      *)
(* snapshot before the command, one after it, and their difference.        *)
(*                                                                         *)
(* What a call asks for is a constant of the call (Ask): whether its gates *)
(* let it through (known, args, admitted, net), its risk, whether it was   *)
(* approved before, the file it writes, and whether its tool honours its   *)
(* context.                                                                *)
(***************************************************************************)
EXTENDS Naturals, FiniteSets

CONSTANTS
    ToolCalls,   \* the calls dispatched, one Dispatch each
    Ask,         \* [ToolCalls -> what the call asks for]
    AutoApprove, \* Config.AutoApprove: the risk classes that are not prompted
    WatchedFiles \* what snapshotTree visits

Risks == {"low", "medium", "high", "critical"}

ASSUME ToolAssumption ==
    /\ AutoApprove \subseteq Risks
    /\ \A c \in ToolCalls :
          /\ {Ask[c].known, Ask[c].args, Ask[c].admitted, Ask[c].net,
              Ask[c].preApproved, Ask[c].honours} \subseteq BOOLEAN
          /\ Ask[c].risk \in Risks
          /\ Ask[c].writes \subseteq WatchedFiles

VARIABLES
    stepOf,    \* where the Dispatch of a call is
    toolState, \* the tool's goroutine: "none", "running", "sent" or "joined"
    toolErr,   \* what the tool returned
    answerOf,  \* result of Dispatch
    ctxOver,   \* the context of the call has ended: cancelled or timed out
    approvals, \* approval.counter
    waiting,   \* approval.pending: id -> call
    decision,  \* the one-slot channel of each call
    fileVersion,   \* the tree: how often a file was written
    lastBy,    \* who wrote it last
    seenBefore, \* the snapshot before the command, per call
    toolOut,    \* ToolOutput.Files of the run, and whether they are unknown
    reported,   \* those of the Observation that Dispatch returns
    said       \* history: the humans' answers per call

toolVars == <<stepOf, toolState, toolErr, answerOf, ctxOver, approvals, waiting,
              decision, fileVersion, lastBy, seenBefore, toolOut, reported, said>>

Partial == [f \in {} |-> 0]
Unknown == [files |-> {}, unknown |-> TRUE]
Nothing == [files |-> {}, unknown |-> FALSE]

ToolInit ==
    /\ stepOf = [c \in ToolCalls |-> "new"]
    /\ toolState = [c \in ToolCalls |-> "none"]
    /\ toolErr = [c \in ToolCalls |-> "none"]
    /\ answerOf = [c \in ToolCalls |-> "none"]
    /\ ctxOver = [c \in ToolCalls |-> FALSE]
    /\ approvals = 0 /\ waiting = [i \in {} |-> CHOOSE c \in ToolCalls : TRUE]
    /\ decision = [c \in ToolCalls |-> "none"]
    /\ fileVersion = [f \in WatchedFiles |-> 0]
    /\ lastBy = [f \in WatchedFiles |-> {}]
    /\ seenBefore = [c \in ToolCalls |-> Partial]
    /\ toolOut = [c \in ToolCalls |-> Nothing]
    /\ reported = [c \in ToolCalls |-> Nothing]
    /\ said = [c \in ToolCalls |-> "none"]

Ends(c, answer) ==
    /\ stepOf' = [stepOf EXCEPT ![c] = "over"]
    /\ answerOf' = [answerOf EXCEPT ![c] = answer]

-----------------------------------------------------------------------------
\* Dispatch, up to the tool

\* The gates before the approval, in their order; each refusal is an answer.
Refusal(c) ==
    IF ~ Ask[c].known THEN "unknown_tool"
    ELSE IF ~ Ask[c].args THEN "bad_args"
    ELSE IF ~ Ask[c].admitted THEN "not_admitted"
    ELSE IF ~ Ask[c].net THEN "network_denied"
    ELSE IF Ask[c].risk = "critical" THEN "critical"
    ELSE "none"

NeedsPrompt(c) ==
    /\ Ask[c].risk \in {"medium", "high"} \ AutoApprove
    /\ ~ Ask[c].preApproved

DispatchRefused(c) ==
    /\ stepOf[c] = "new" /\ Refusal(c) # "none"
    /\ Ends(c, Refusal(c))
    /\ UNCHANGED <<toolState, toolErr, ctxOver, approvals, waiting, decision, fileVersion,
                   lastBy, seenBefore, toolOut, reported, said>>

\* requestApproval: a fresh id, an entry in pending, and the request event.
RequestApproval(c) ==
    /\ stepOf[c] = "new" /\ Refusal(c) = "none" /\ NeedsPrompt(c)
    /\ approvals' = approvals + 1
    /\ waiting' = [i \in DOMAIN waiting \union {approvals'} |->
                      IF i = approvals' THEN c ELSE waiting[i]]
    /\ stepOf' = [stepOf EXCEPT ![c] = "asking"]
    /\ UNCHANGED <<toolState, toolErr, answerOf, ctxOver, decision, fileVersion, lastBy,
                   seenBefore, toolOut, reported, said>>

\* The deferred pending.Delete.
Without(c) == [i \in {j \in DOMAIN waiting : waiting[j] # c} |-> waiting[i]]

\* ResolveApproval: LoadAndDelete, then the send into the one-slot channel.
\* An id that is not pending is a no-op.
ResolveApproval(id, yes) ==
    /\ id \in DOMAIN waiting
    /\ LET c == waiting[id]
       IN  /\ decision' = [decision EXCEPT ![c] = IF yes THEN "yes" ELSE "no"]
           /\ said' = [said EXCEPT ![c] = IF yes THEN "yes" ELSE "no"]
           /\ waiting' = [i \in DOMAIN waiting \ {id} |-> waiting[i]]
    /\ UNCHANGED <<stepOf, toolState, toolErr, answerOf, ctxOver, approvals, fileVersion, lastBy,
                   seenBefore, toolOut, reported>>

\* MUTANT: the select has no Done arm.
NeverGivenUp(c) == FALSE

GivenUp(c) == ctxOver[c]

\* The select of requestApproval; with both arms ready either is taken.
ApprovalRefused(c) ==
    /\ stepOf[c] = "asking"
    /\ \/ decision[c] = "no" /\ Ends(c, "rejected")
       \/ GivenUp(c) /\ Ends(c, "ctx")
    /\ waiting' = Without(c)
    /\ UNCHANGED <<toolState, toolErr, ctxOver, approvals, decision, fileVersion, lastBy,
                   seenBefore, toolOut, reported, said>>

\* runWithTimeout: the goroutine is started. The shell's snapshot comes first;
\* it may run out of its budget, which makes the files unknown.
Start(c) ==
    /\ \/ stepOf[c] = "new" /\ Refusal(c) = "none" /\ ~ NeedsPrompt(c)
       \/ stepOf[c] = "asking" /\ decision[c] = "yes"
    /\ stepOf' = [stepOf EXCEPT ![c] = "running"]
    /\ toolState' = [toolState EXCEPT ![c] = "running"]
    /\ seenBefore' \in {[seenBefore EXCEPT ![c] = fileVersion], seenBefore}
    /\ waiting' = Without(c)
    /\ UNCHANGED <<toolErr, answerOf, ctxOver, approvals, decision, fileVersion, lastBy, toolOut, reported, said>>

-----------------------------------------------------------------------------
\* The tool

ToolWrites(c, f) ==
    /\ toolState[c] = "running" /\ f \in Ask[c].writes /\ c \notin lastBy[f]
    /\ fileVersion' = [fileVersion EXCEPT ![f] = @ + 1]
    /\ lastBy' = [lastBy EXCEPT ![f] = @ \union {c}]
    /\ UNCHANGED <<stepOf, toolState, toolErr, answerOf, ctxOver, approvals, waiting, decision,
                   seenBefore, toolOut, reported, said>>

\* MUTANT: a scan that ran out of budget is taken for one that saw nothing.
DiffOrNothing(b, a) ==
    IF b = Partial \/ a = Partial THEN Nothing
    ELSE [files |-> {f \in WatchedFiles : a[f] # b[f]}, unknown |-> FALSE]

\* diffSnapshots: a partial scan on either side says unknown.
DiffSnapshots(b, a) ==
    IF b = Partial \/ a = Partial THEN Unknown
    ELSE [files |-> {f \in WatchedFiles : a[f] # b[f]}, unknown |-> FALSE]

\* The command ends by itself, or because its context did and it honours it;
\* the second snapshot is taken and the result sent into the one-slot channel.
ToolReturns(c) ==
    /\ toolState[c] = "running"
    /\ toolState' = [toolState EXCEPT ![c] = "sent"]
    /\ toolErr' \in {[toolErr EXCEPT ![c] = e] : e \in {"ok", "failed"}}
    /\ \E after \in {fileVersion, Partial} :
          toolOut' = [toolOut EXCEPT ![c] = DiffSnapshots(seenBefore[c], after)]
    /\ UNCHANGED <<stepOf, answerOf, ctxOver, approvals, waiting, decision, fileVersion, lastBy,
                   seenBefore, reported, said>>

-----------------------------------------------------------------------------
\* Dispatch, after the tool

\* The result arm of the select: the output goes on into the Observation, but not
\* from a tool that returned an error (obsErr names no files).
TakeResult(c) ==
    /\ stepOf[c] = "running" /\ toolState[c] = "sent"
    /\ toolState' = [toolState EXCEPT ![c] = "joined"]
    /\ \/ toolErr[c] = "ok" /\ Ends(c, "observed") /\ reported' = [reported EXCEPT ![c] = toolOut[c]]
       \/ toolErr[c] # "ok" /\ Ends(c, "tool_error") /\ UNCHANGED reported
    /\ UNCHANGED <<toolErr, ctxOver, approvals, waiting, decision, fileVersion, lastBy,
                   seenBefore, toolOut, said>>

\* The Done arm: from here the result is only waited for.
TakeTimeout(c) ==
    /\ stepOf[c] = "running" /\ ctxOver[c]
    /\ stepOf' = [stepOf EXCEPT ![c] = "draining"]
    /\ UNCHANGED <<toolState, toolErr, answerOf, ctxOver, approvals, waiting, decision, fileVersion,
                   lastBy, seenBefore, toolOut, reported, said>>

WorkerDone(c) == toolState[c] = "sent"

\* The result is received and thrown away.
DrainResult(c) ==
    /\ stepOf[c] = "draining" /\ WorkerDone(c)
    /\ toolState' = [toolState EXCEPT ![c] = IF @ = "sent" THEN "joined" ELSE @]
    /\ Ends(c, "ctx")
    /\ UNCHANGED <<toolErr, ctxOver, approvals, waiting, decision, fileVersion, lastBy,
                   seenBefore, toolOut, reported, said>>

\* The caller cancels, or the timeout of the call elapses.
ContextEnds(c) ==
    /\ stepOf[c] # "over" /\ ~ ctxOver[c]
    /\ ctxOver' = [ctxOver EXCEPT ![c] = TRUE]
    /\ UNCHANGED <<stepOf, toolState, toolErr, answerOf, approvals, waiting, decision, fileVersion,
                   lastBy, seenBefore, toolOut, reported, said>>

ToolNext ==
    \/ \E c \in ToolCalls :
          \/ DispatchRefused(c) \/ RequestApproval(c) \/ ApprovalRefused(c) \/ Start(c)
          \/ \E f \in WatchedFiles : ToolWrites(c, f)
          \/ ToolReturns(c) \/ TakeResult(c) \/ TakeTimeout(c) \/ DrainResult(c)
          \/ ContextEnds(c)
    \/ \E id \in DOMAIN waiting, yes \in BOOLEAN : ResolveApproval(id, yes)

\* Dispatch runs on; a tool that honours its context returns once that is over.
DispatchStep(c) ==
    \/ DispatchRefused(c) \/ RequestApproval(c) \/ ApprovalRefused(c)
    \/ Start(c) \/ TakeResult(c) \/ TakeTimeout(c) \/ DrainResult(c)

HonouringReturns(c) == Ask[c].honours /\ ctxOver[c] /\ ToolReturns(c)

ToolFairness == \A c \in ToolCalls : WF_toolVars(DispatchStep(c)) /\ WF_toolVars(HonouringReturns(c))

ToolSpec == ToolInit /\ [][ToolNext]_toolVars /\ ToolFairness

-----------------------------------------------------------------------------
\* Properties

ToolTypeOK ==
    /\ \A c \in ToolCalls :
          /\ stepOf[c] \in {"new", "asking", "running", "draining", "over"}
          /\ toolState[c] \in {"none", "running", "sent", "joined"}
          /\ decision[c] \in {"none", "yes", "no"}
          /\ toolOut[c].files \subseteq WatchedFiles /\ reported[c].files \subseteq WatchedFiles
    /\ \A i \in DOMAIN waiting : i \in 1 .. approvals /\ waiting[i] \in ToolCalls

\* A tool runs only when the gates let it: never a call that is unknown, refused,
\* off the allowlist or critical, and a medium or high call only with the human's
\* yes to this very call, or one given before, or a class that is not prompted.
RanOnlyAllowed ==
    \A c \in ToolCalls : toolState[c] # "none" =>
        /\ Ask[c].known /\ Ask[c].args /\ Ask[c].admitted /\ Ask[c].net
        /\ Ask[c].risk # "critical"
        /\ NeedsPrompt(c) => said[c] = "yes"

\* pending holds one entry for every call that waits unanswered and for no other:
\* a late answer to a call that gave up finds nothing to answer.
PendingIsWaiting ==
    \A c \in ToolCalls :
        Cardinality({i \in DOMAIN waiting : waiting[i] = c})
            = (IF stepOf[c] = "asking" /\ said[c] = "none" THEN 1 ELSE 0)

\* When Dispatch has returned its tool's goroutine has ended, after a timeout too.
NoWorkerLeft == \A c \in ToolCalls : stepOf[c] = "over" => toolState[c] \in {"none", "joined"}

\* The files a command wrote are among those of its Observation, or these are said
\* to be unknown.
Covers(obs, c) ==
    obs.unknown \/ \A f \in WatchedFiles : c \in lastBy[f] => f \in obs.files

\* With several commands at once in one tree, the Observation of a command that
\* Dispatch returns without an error names what it wrote, or says it is unknown.
WritesAreReported ==
    \A c \in ToolCalls : answerOf[c] = "observed" => Covers(reported[c], c)

DispatchSound == RanOnlyAllowed /\ PendingIsWaiting /\ NoWorkerLeft /\ WritesAreReported

\* Once its context is over a dispatch returns, if its tool honours the context:
\* also while a human is asked who never answers.
DispatchReturns ==
    \A c \in ToolCalls : (Ask[c].honours /\ ctxOver[c] /\ stepOf[c] # "new") ~> (stepOf[c] = "over")

\* A property that does not hold (README): that what a command killed mid-flight
\* wrote is told, "exactly the state a verifier needs to see" (bash.go:84-86). The
\* tool's output names it, and Dispatch returns the error without it.
KilledWritesAreReported ==
    \A c \in ToolCalls : answerOf[c] \in {"ctx", "tool_error"} => Covers(reported[c], c)
=============================================================================
