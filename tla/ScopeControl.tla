---------------------------- MODULE ScopeControl ----------------------------
(***************************************************************************)
(* The two advisers of the drive loop.  The scope controller               *)
(* (internal/scope): a level, the stack of levels it came from and the     *)
(* anti-loop memory, moved by the gate in front of a tool call and by      *)
(* every verdict (runtime/core.go).  The workflow engine                   *)
(* (internal/workflow): a machine per type of goal, asked once per turn of *)
(* PLAN, and driven with a state of its own by whoever threads one.        *)
(*                                                                         *)
(* Reasons, notes and hypotheses are abstracted to the verdict they name.  *)
(***************************************************************************)
EXTENDS Integers, Sequences, FiniteSets

CONSTANTS
    ScopeTools,  \* tools of the calls
    GoalTypes,   \* what Classify makes of the goals
    MaxMoves     \* bound: steps of the scope controller

ASSUME ScopeAssumption ==
    MaxMoves \in Nat /\ GoalTypes \subseteq {"bugfix", "feature", "refactor"}

VARIABLES
    level, levels,     \* Controller.current, Controller.history
    ranAt,             \* the last call let through: its tool, the level, whether it moved
    moves,
    goalType, flowPhase,   \* the workflow: its type, State.Phase ("none": empty)
    advised,           \* the last action of it
    sinceFail          \* actions since the last failed verify or the start

scopeVars == <<level, levels, ranAt, moves, goalType, flowPhase, advised, sinceFail>>

LevelTask == 0
LevelRepo == 1
LevelFile == 2
LevelFunction == 3
LevelEdit == 4
LevelVerify == 5

ScopeInit ==
    /\ level = LevelTask /\ levels = <<>>
    /\ ranAt = [tool |-> "none", from |-> LevelTask, at |-> LevelTask]
    /\ moves = 0
    /\ goalType \in GoalTypes /\ flowPhase = "none" /\ advised = "nothing" /\ sinceFail = {}

\* scopePermissions, the W2 table.
AllowedTools ==
    [l \in 0 .. 5 |->
        CASE l = LevelTask     -> {"plan", "decompose"}
          [] l = LevelRepo     -> {"list_files", "grep", "read_file"}
          [] l = LevelFile     -> {"read_file", "grep"}
          [] l = LevelFunction -> {"read_file", "view_function", "call_graph"}
          [] l = LevelEdit     -> {"edit_file", "write_file"}
          [] l = LevelVerify   -> {"run_test", "bash", "git_diff"}]

\* MUTANT: the mirror answers LevelRepo for a tool it does not know.
LevelForToolGuessed(tool) ==
    CASE tool \in {"list_files", "grep", "read_file"} -> {LevelRepo}
      [] tool \in {"view_function", "call_graph"}     -> {LevelFunction}
      [] tool \in {"edit_file", "write_file"}         -> {LevelEdit}
      [] tool \in {"run_test", "bash", "git_diff"}    -> {LevelVerify}
      [] OTHER -> {LevelRepo}

\* scopeLevelForTool, the runtime's mirror of the table: at most one level.
LevelForTool(tool) ==
    CASE tool \in {"list_files", "grep", "read_file"} -> {LevelRepo}
      [] tool \in {"view_function", "call_graph"}     -> {LevelFunction}
      [] tool \in {"edit_file", "write_file"}         -> {LevelEdit}
      [] tool \in {"run_test", "bash", "git_diff"}    -> {LevelVerify}
      [] OTHER -> {}

Enter(l) == level' = l /\ levels' = Append(levels, level)

\* EXECUTE: a tool the level does not allow moves the scope to one that does.
GateTool(tool) ==
    /\ moves < MaxMoves /\ moves' = moves + 1
    /\ IF tool \in AllowedTools[level] \/ LevelForTool(tool) = {} THEN UNCHANGED <<level, levels>>
       ELSE Enter(CHOOSE l \in LevelForTool(tool) : TRUE)
    /\ ranAt' = [tool |-> tool, from |-> level, at |-> level']
    /\ UNCHANGED <<goalType, flowPhase, advised, sinceFail>>

Verdicts == [pass : BOOLEAN, stage : {"compile", "test"}, hint : {"none", "missing_import"}]

\* SuggestTransition, the W3 rules: the moves and the level they lead to.
Suggested(v) ==
    CASE v.pass -> [action |-> "noop", to |-> level]
      [] ~ v.pass /\ v.stage = "test" /\ v.hint = "missing_import" ->
            [action |-> "expand", to |-> LevelRepo]
      [] ~ v.pass /\ v.stage = "compile" -> [action |-> "stay", to |-> level]
      [] OTHER -> [action |-> "contract", to |-> IF level = LevelTask THEN LevelTask ELSE level - 1]

\* VERIFY: the loop enters what is suggested.  The facts and hypotheses both
\* record on the way are read by nothing.
JudgeScope(v) ==
    /\ moves < MaxMoves /\ moves' = moves + 1
    /\ IF Suggested(v).action \in {"noop", "stay"} THEN UNCHANGED <<level, levels>>
       ELSE Enter(Suggested(v).to)
    /\ UNCHANGED <<ranAt, goalType, flowPhase, advised, sinceFail>>

\* Controller.Exit, an operation the loop never calls.
ExitScope ==
    /\ moves < MaxMoves /\ moves' = moves + 1
    /\ levels # <<>>
    /\ level' = levels[Len(levels)] /\ levels' = SubSeq(levels, 1, Len(levels) - 1)
    /\ UNCHANGED <<ranAt, goalType, flowPhase, advised, sinceFail>>

-----------------------------------------------------------------------------
\* The workflows: the action and the phase that answer a phase and an event,
\* or none (ErrNoAction).

Answer(a, p) == {[action |-> a, phase |-> p]}

BugFixNext(p, e) ==
    CASE p = "none"     -> Answer("localize", "LOCALIZE")
      [] p = "LOCALIZE" -> (CASE e \in {"verify_fail", "compile_fail"} -> Answer("repair_loop", "REPAIR")
                              [] e = "context_needed" -> Answer("localize", p)
                              [] e = "timeout"        -> Answer("degrade_model", p)
                              [] OTHER                -> Answer("generate_patch", "REPAIR"))
      [] p = "REPAIR"   -> Answer("verify", "VALIDATE")
      [] p = "VALIDATE" -> (CASE e = "verify_pass"    -> Answer("submit", p)
                              [] e = "compile_fail"   -> Answer("repair_loop", "REPAIR")
                              [] e = "verify_fail"    -> Answer("multi_hypothesis", "REPAIR")
                              [] e = "timeout"        -> Answer("degrade_model", p)
                              [] e = "context_needed" -> Answer("localize", "LOCALIZE"))
      [] OTHER -> {}

\* The last phase of the feature and of the refactor machine.
LastPhase(e, again) ==
    CASE e = "verify_pass" -> Answer("submit", "VERIFY")
      [] e \in {"verify_fail", "compile_fail"} -> Answer("scope_contract", again)
      [] e = "context_needed" -> Answer("localize", "VERIFY")
      [] e = "timeout" -> Answer("degrade_model", "VERIFY")

Ladder(p, e, next, does) ==
    IF e = "context_needed" THEN Answer("localize", p) ELSE Answer(does, next)

FeatureNext(p, e) ==
    CASE p \in {"none", "DESIGN"} -> Ladder("DESIGN", e, "DECOMPOSE", "generate_patch")
      [] p = "DECOMPOSE"      -> Ladder(p, e, "IMPLEMENT", "generate_patch")
      [] p = "IMPLEMENT"      -> Ladder(p, e, "VERIFY", "generate_patch")
      [] p = "VERIFY"         -> LastPhase(e, "IMPLEMENT")
      [] OTHER -> {}

RefactorNext(p, e) ==
    CASE p \in {"none", "ANALYZE"} -> Ladder("ANALYZE", e, "TRANSFORM", "localize")
      [] p = "TRANSFORM"       -> Ladder(p, e, "VERIFY", "generate_patch")
      [] p = "VERIFY"          -> LastPhase(e, "TRANSFORM")
      [] OTHER -> {}

\* Engine.Next: the machine of the goal's type.
WorkflowNext(type, p, e) ==
    CASE type = "bugfix"   -> BugFixNext(p, e)
      [] type = "feature"  -> FeatureNext(p, e)
      [] type = "refactor" -> RefactorNext(p, e)

WFEvents == {"verify_pass", "verify_fail", "compile_fail", "context_needed", "timeout"}

\* A caller that threads its state through Next.
DriveWorkflow(e) ==
    /\ \E r \in WorkflowNext(goalType, flowPhase, e) :
          /\ flowPhase' = r.phase /\ advised' = r.action
          /\ sinceFail' = IF e \in {"verify_fail", "compile_fail"} THEN {r.action}
                          ELSE sinceFail \union {r.action}
    /\ UNCHANGED <<level, levels, ranAt, moves, goalType>>

\* What the loop does in PLAN: a fresh state whose phase is "PLAN", and the
\* answer dropped.
PlanConsults(e) == WorkflowNext(goalType, "PLAN", e)

ScopeNext ==
    \/ \E tool \in ScopeTools : GateTool(tool)
    \/ \E v \in Verdicts : JudgeScope(v)
    \/ ExitScope
    \/ \E e \in WFEvents : DriveWorkflow(e)

ScopeSpec == ScopeInit /\ [][ScopeNext]_scopeVars

-----------------------------------------------------------------------------
\* Properties

ScopeTypeOK ==
    /\ level \in 0 .. 5 /\ levels \in Seq(0 .. 5)
    /\ flowPhase \in {"none", "LOCALIZE", "REPAIR", "VALIDATE", "DESIGN", "DECOMPOSE", "IMPLEMENT", "ANALYZE",
                  "TRANSFORM", "VERIFY"}

\* A call the table knows runs at a level that allows it, and a call no level
\* allows moves the scope nowhere: the hand-kept mirror and the table agree.
GateIsRight ==
    ranAt.tool # "none" =>
        \/ ranAt.tool \in AllowedTools[ranAt.at]
        \/ /\ ranAt.at = ranAt.from
           /\ \A l \in LevelRepo .. LevelVerify : ranAt.tool \notin AllowedTools[l]

\* The way back is intact: leaving every level entered ends at the task.
WayBack == IF levels = <<>> THEN level = LevelTask ELSE levels[1] = LevelTask

\* A workflow submits after a pass and never as the first thing it says after a
\* failure: something was generated, localized or verified in between - for
\* every machine, in any order of events.
SubmitIsEarned ==
    advised = "submit" =>
        /\ flowPhase \in {"VALIDATE", "VERIFY"}
        /\ goalType = "bugfix" => "verify" \in sinceFail
        /\ goalType # "bugfix" => "generate_patch" \in sinceFail

\* The turn of PLAN is never changed by the workflow: no machine knows its phase.
PlanIsUnadvised == \A e \in WFEvents : PlanConsults(e) = {}

AdviceSound == GateIsRight /\ WayBack /\ SubmitIsEarned /\ PlanIsUnadvised
=============================================================================
