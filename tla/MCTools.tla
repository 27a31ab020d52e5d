------------------------------ MODULE MCTools -------------------------------
(***************************************************************************)
(* Small instances of the parts that run one at a time, side by side in    *)
(* one state space: the initial states choose which part is under way, and *)
(* the others stay as they begin.  A part has no step of another, so each  *)
(* is explored as if it were alone.                                        *)
(***************************************************************************)
EXTENDS MCRollback, DurableLog, SessionStore, UndoStack, VerifyPipeline, ShellRisk,
        GoalPlan, PlanRun, Conversation, PromptFit, CostLedger, CostPublisher,
        ScopeControl, ScopeSearch, MemoryListener, ToolCall, TLC

CONSTANTS c1, c2, q1, q2, u1, u2

VARIABLE part

Parts == {"patch", "log", "store", "undo", "verify", "line", "goal", "run", "talk", "fit",
          "cost", "publisher", "scope", "search", "memory", "tool"}

-----------------------------------------------------------------------------
\* Values of the constants

\* Events: a secret two levels down, and a plain text.
Leaf(x) == [leaf |-> x]
MCPayloads == {[keys |-> <<"a">>, kids |-> <<[keys |-> <<"b">>, kids |-> <<Leaf("s")>>]>>], Leaf("p")}

\* The strict policy, and one that runs two stages and only warns about lint.
MCPolicies == {[required |-> StageNames, lint |-> "error"],
               [required |-> {"ast", "tests"}, lint |-> "warning"]}

\* A file that parses and one that does not have one hash; the others differ.
MCHash == [f \in CheckedFiles |-> [c \in Contents |->
    CASE c = "todo" -> 1 [] c = "gone" -> 2 [] c = "locked" -> 3 [] OTHER -> 0]]

Knob(d, t, r, l, f) == [dollars |-> d, time |-> t, rate |-> r, loops |-> l, reflections |-> f]
MCKnobs == {Knob(2, 0, 1, 2, 1), Knob(2, 1, 0, 2, 2), Knob(0, 1, 1, 0, 0), Knob(0, 0, 0, 0, 0)}

MCRates == ("bash" :> 2) @@ ("*" :> 1)

Part(k, s, n) == [kind |-> k, source |-> s, size |-> n]
MCParts == {Part("file", "a.go", 8), Part("file", "b.go", 2), Part("conversation", "history#1", 0),
            Part("conversation", "history#2", 2), Part("conversation", "history#3", 9),
            Part("rag", "", 3), Part("rag", "", 9), Part("preferences", "p", 9),
            Part("preferences", "q", 2), Part("graph", "g", 2), Part("project", "AGENTS.md", 2)}

\* A command that honours its context and an edit that does not; both wait for a
\* yes, at the same time, and write the same file.  The critical call is refused,
\* approved before or not.
ToolAsk(risk, pre, honours) ==
    [known |-> TRUE, args |-> TRUE, admitted |-> TRUE, net |-> TRUE, risk |-> risk,
     preApproved |-> pre, honours |-> honours, writes |-> {"f"}]
MCAsk == [c \in ToolCalls |->
    CASE c = "bash" -> ToolAsk("medium", FALSE, TRUE)
      [] c = "edit" -> ToolAsk("high", FALSE, FALSE)
      [] c = "rm"   -> ToolAsk("critical", TRUE, TRUE)]

-----------------------------------------------------------------------------
\* Where a part begins in several ways, it does so only when it is under way.
ToolsInit ==
    /\ part \in Parts
    /\ Init
    /\ LogInit /\ (part # "log" => redacting = CHOOSE r \in RedactModes : TRUE)
    /\ StoreInit
    /\ UndoInit
    /\ VerifyInit
    /\ part # "verify" => /\ content = [f \in CheckedFiles |-> "fine"]
                          /\ policy = CHOOSE p \in Policies : TRUE
    /\ LineInit
    /\ MemoryInit
    /\ ToolInit
    /\ GoalInit
    /\ RunInit
    /\ TalkInit /\ (part # "talk" => goalNow = CHOOSE g \in TaskGoals : TRUE)
    /\ FitInit
    /\ part # "fit" => /\ window = CHOOSE w \in Windows : TRUE
                       /\ softBudget = CHOOSE b \in SoftBudgets : TRUE
    /\ CostInit /\ (part # "cost" => knobs = CHOOSE k \in Knobs : TRUE)
    /\ PublisherInit /\ (part # "publisher" => hasLog = CHOOSE b \in EventLogs : TRUE)
    /\ ScopeInit /\ (part # "scope" => goalType = CHOOSE t \in GoalTypes : TRUE)
    /\ SearchInit
    /\ part # "search" => /\ nodes[1].level = 0
                          /\ guardUp = CHOOSE g \in Guarded : TRUE

\* The parts other than p stay as they are.
Only(p) ==
    /\ part = p /\ part' = p
    /\ p # "patch" => UNCHANGED vars
    /\ p # "log" => UNCHANGED logVars
    /\ p # "store" => UNCHANGED storeVars
    /\ p # "undo" => UNCHANGED undoVars
    /\ p # "verify" => UNCHANGED verifyVars
    /\ p # "line" => UNCHANGED line
    /\ p # "goal" => UNCHANGED goalVars
    /\ p # "run" => UNCHANGED runVars
    /\ p # "talk" => UNCHANGED talkVars
    /\ p # "fit" => UNCHANGED fitVars
    /\ p # "cost" => UNCHANGED costVars
    /\ p # "publisher" => UNCHANGED publisherVars
    /\ p # "scope" => UNCHANGED scopeVars
    /\ p # "search" => UNCHANGED searchVars
    /\ p # "memory" => UNCHANGED memoryVars
    /\ p # "tool" => UNCHANGED toolVars

ToolsNext ==
    \/ Only("patch") /\ Next
    \/ Only("log") /\ LogNext
    \/ Only("store") /\ StoreNext
    \/ Only("undo") /\ UndoNext
    \/ Only("verify") /\ VerifyNext
    \/ Only("line") /\ LineNext
    \/ Only("goal") /\ GoalNext
    \/ Only("run") /\ RunNext
    \/ Only("talk") /\ TalkNext
    \/ Only("fit") /\ FitNext
    \/ Only("cost") /\ CostNext
    \/ Only("publisher") /\ PublisherNext
    \/ Only("scope") /\ ScopeNext
    \/ Only("search") /\ SearchNext
    \/ Only("memory") /\ MemoryNext
    \/ Only("tool") /\ ToolNext

toolsVars == <<part, vars, logVars, storeVars, undoVars, verifyVars, line, goalVars, runVars,
               talkVars, fitVars, costVars, publisherVars, scopeVars, searchVars,
               memoryVars, toolVars>>

ToolsSpec == ToolsInit /\ [][ToolsNext]_toolsVars

-----------------------------------------------------------------------------
\* Properties

\* A part that is not under way is as it begins, and is not looked at again.
On(p, P) == part = p => P

\* Every variable of every part keeps its type.
TypesOK ==
    /\ On("patch", TypeOK) /\ On("log", LogTypeOK) /\ On("store", StoreTypeOK)
    /\ On("undo", UndoTypeOK) /\ On("verify", VerifyTypeOK) /\ On("line", LineTypeOK)
    /\ On("goal", GoalTypeOK) /\ On("run", RunTypeOK) /\ On("talk", TalkTypeOK)
    /\ On("fit", FitTypeOK) /\ On("cost", CostTypeOK) /\ On("publisher", PublisherTypeOK)
    /\ On("scope", ScopeTypeOK) /\ On("search", SearchTypeOK)
    /\ On("memory", MemoryTypeOK) /\ On("tool", ToolTypeOK)

\* What reaches the disk can be read back: a crash in the middle of a create or of
\* a roll-up costs nothing that was acknowledged, a torn log is answered with an
\* error or lacks a swallowed last record only, no id is given twice, a replay
\* applies an event once, and what the memory has learned is on disk when its
\* Close has returned nil, a preference whose save failed apart
\* (event/log.go, dedup.go; session/store.go, manager.go, resume.go;
\* memory/listener.go, repo.go, store.go).
DiskSound == On("log", LogSound) /\ On("store", StoreSound) /\ On("memory", MemorySound)

\* What a tool is let do: a command is classified at least as high as its worst
\* part, however it is spelt; a call runs only when the gates let it, on an answer
\* that is its own; its worker is gone when it has an answer, and the writes of
\* one that did not end in an error are reported (exec/sandbox.go, engine.go,
\* approval.go, fschange.go).
DispatchesSound == On("tool", DispatchSound) /\ On("line", RiskSound)

\* What vouches for the tree: a verdict was measured on the files it is about, each
\* parsed or known by the hash of a text of it that was, and the undo stack names
\* states the task was in (verify/engine.go, cache.go; session/history.go).
ChecksSound == On("undo", StackSound) /\ On("verify", VerifySound)

\* What goes on around the turns of a model.  A plan's run: what its turns share is
\* built once and outlives them, everything is given back in order on every way
\* out, and what a turn learned is on disk unless its own flush failed.  A task's
\* talk: every call of a reply has its result, under the call it answers and
\* behind the reply that made it, however the transcript is cut
\* (cmd/yolo/plan_runner.go, coord_runner.go; cognitive/core.go).
TurnsSound == On("run", RunnerSound) /\ On("talk", TalkSound)

\* The bill: one entry per task, one warning per threshold, no accrual uncounted
\* (cognitive/cost.go; cmd/yolo/cost_publisher.go).
CostsSound == On("cost", CostSound) /\ On("publisher", PublisherSound)

\* Advice: the level a tool is let through at, what the workflows answer, and
\* what the search for a level counts (scope/controller.go, mcts.go;
\* workflow/workflow.go).
ScopeSound == On("scope", AdviceSound) /\ On("search", SearchSound)

\* What is made of words on their way to a model, each algorithm compared with what
\* it is for: every piece of a goal reaches a todo, and what does not fit a prompt
\* is cut in order and reported (coord/classify.go, cmd/yolo/planner_adapter.go;
\* context and prompt packages).
WordsSound == On("goal", GoalSound) /\ On("fit", FitSound)
=============================================================================
