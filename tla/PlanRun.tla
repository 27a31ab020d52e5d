------------------------------ MODULE PlanRun ------------------------------
(***************************************************************************)
(* A --plan run from start to exit (cmd/yolo/plan_runner.go) and the agent *)
(* turns its runner carries out (cmd/yolo/coord_runner.go), each on a      *)
(* goroutine of its own, over what the runner builds once and shares: the  *)
(* session manager, the memory store, the adapters with their shadow tree. *)
(*                                                                         *)
(* The orchestrator (Orchestrator.tla) is abstracted to what it asks: a    *)
(* turn at a time, any turn abandoned, and at the end every turn cancelled *)
(* and joined.  Events are counted.                                        *)
(***************************************************************************)
EXTENDS Naturals, FiniteSets

CONSTANTS
    Turns,     \* turns of the plan
    TurnRoles  \* the roles that take one

ASSUME PlanRunAssumption == TurnRoles \subseteq {"coder", "reviewer", "tester", "planner"}

VARIABLES
    step,      \* where runPlanCtx is
    failed,    \* it is on its way out with an error
    held,      \* what it has to give back
    built,     \* sessOnce, adaptersOnce, memOnce: "no", "yes", "failed"
    builds,    \* how often each was built
    turn,      \* per turn: [role, at]
    cancelled, \* quiesceAgents has cancelled the turns
    emitted, projected, \* coord events published, and those in the transcript
    learned, flushed,   \* turns whose memories are in the store, and on disk
    flushErrs  \* turns whose flush failed: a line on stderr, and nothing else

runVars == <<step, failed, held, built, builds, turn, cancelled, emitted, projected, learned, flushed, flushErrs>>

Shared == {"sessions", "adapters", "memory"}

RunInit ==
    /\ step = "bus" /\ failed = FALSE /\ held = {}
    /\ built = [s \in Shared |-> "no"] /\ builds = [s \in Shared |-> 0]
    /\ turn = [t \in Turns |-> [role |-> "none", at |-> "none"]]
    /\ cancelled = FALSE /\ emitted = 0 /\ projected = 0 /\ learned = {} /\ flushed = {} /\ flushErrs = {}

TurnsStay == UNCHANGED <<built, builds, turn, cancelled, emitted, projected, learned, flushed, flushErrs>>

Goes(to) == step' = to /\ failed' = failed
Fails(to) == step' = to /\ failed' = TRUE

\* newBus, and infra.Start: an error returns at once, whatever is open.
OpenTheBus ==
    /\ step = "bus"
    /\ \/ Goes("infra") /\ held' = {"bus"}
       \/ Fails("returned") /\ UNCHANGED held
    /\ TurnsStay

StartInfra ==
    /\ step = "infra"
    /\ \/ Goes("observers") /\ held' = held \union {"infra"}
       \/ Fails("returned") /\ UNCHANGED held
    /\ TurnsStay

StartObservers ==
    /\ step = "observers"
    /\ Goes("provider") /\ held' = held \union {"publisher", "transcript"}
    /\ TurnsStay

ResolveProvider ==
    /\ step = "provider"
    /\ Goes("running") \/ Fails("stopPublisher")
    /\ UNCHANGED held /\ TurnsStay

-----------------------------------------------------------------------------
\* The turns

AtStep(t, at) == turn' = [turn EXCEPT ![t].at = at]

Active == {t \in Turns : turn[t].at \notin {"none", "over", "refused"}}

\* The orchestrator assigns; a turn it has given up on may still be running.
StartTurn(t, role) ==
    /\ step = "running" /\ ~ cancelled /\ turn[t].at = "none"
    /\ turn' = [turn EXCEPT ![t] = [role |-> role, at |-> IF role = "planner" THEN "over" ELSE "building"]]
    /\ UNCHANGED <<step, failed, held, built, builds, cancelled, emitted, projected, learned, flushed, flushErrs>>

Needs(role) == IF role = "coder" THEN Shared ELSE {"adapters"}

\* buildRuntimeDeps and buildAdapters: each shared part is built by the first
\* turn that wants it, and its error is every later turn's error too.
BuildPart(t, s) ==
    /\ turn[t].at = "building" /\ s \in Needs(turn[t].role) /\ built[s] = "no"
    /\ \A r \in Needs(turn[t].role) : built[r] # "failed"
    /\ \E outcome \in {"yes", "failed"} :
          /\ built' = [built EXCEPT ![s] = outcome]
          /\ held' = IF s = "adapters" /\ outcome = "yes" THEN held \union {"shadow"} ELSE held
    /\ builds' = [builds EXCEPT ![s] = @ + 1]
    /\ UNCHANGED <<step, failed, turn, cancelled, emitted, projected, learned, flushed, flushErrs>>

PartsReady(t) ==
    /\ turn[t].at = "building"
    /\ \/ /\ \E s \in Needs(turn[t].role) : built[s] = "failed"
          /\ AtStep(t, "refused")
       \/ /\ \A s \in Needs(turn[t].role) : built[s] = "yes"
          /\ AtStep(t, IF turn[t].role = "coder" THEN "driving" ELSE "reporting")
    /\ UNCHANGED <<step, failed, held, built, builds, cancelled, emitted, projected, learned, flushed, flushErrs>>

\* runCoder: OpenSession and Submit over the shared tree, memory and sessions.
\* A call that needs a yes parks: a --plan run has nobody who answers.
Drive(t) ==
    /\ turn[t].at = "driving"
    /\ \/ AtStep(t, "reporting") \/ AtStep(t, "erred") \/ AtStep(t, "parked")
    /\ learned' \in {learned, learned \union {t}}
    /\ UNCHANGED <<step, failed, held, built, builds, cancelled, emitted, projected, flushed, flushErrs>>

\* Submit returns the error of its context.
Unpark(t) ==
    /\ turn[t].at = "parked"
    /\ AtStep(t, "erred")
    /\ UNCHANGED <<step, failed, held, built, builds, cancelled, emitted, projected, learned, flushed, flushErrs>>

\* code.ready, the verdict or the report; a cancelled context or a closed bus
\* is an error.  A coder flushes the memory on every way out; the parts of it
\* that cannot be written stay behind, and the turn ends as it would have.
FlushMemory(t) ==
    IF turn[t].role # "coder" THEN UNCHANGED <<flushed, flushErrs>>
    ELSE \/ flushed' = learned /\ UNCHANGED flushErrs
         \/ /\ flushErrs' = flushErrs \union {t}
            /\ flushed' \in {f \in SUBSET learned : flushed \subseteq f}

ReportTurn(t) ==
    /\ turn[t].at \in {"reporting", "erred"}
    /\ emitted' = IF turn[t].at = "reporting" /\ ~ cancelled /\ "bus" \in held THEN emitted + 1 ELSE emitted
    /\ FlushMemory(t)
    /\ AtStep(t, "over")
    /\ UNCHANGED <<step, failed, held, built, builds, cancelled, projected, learned>>

-----------------------------------------------------------------------------
\* The way out

\* Run's terminal path: cancel the turns, then wait for them.
CancelTurns ==
    /\ step = "running" /\ ~ cancelled /\ cancelled' = TRUE
    /\ UNCHANGED <<step, failed, held, built, builds, turn, emitted, projected, learned, flushed, flushErrs>>

\* MUTANT: Run returns without joining the turns.
JoinedNever == TRUE

Joined == Active = {}

OrchestratorReturns ==
    /\ step = "running" /\ cancelled /\ Joined
    /\ Goes("stopPublisher") \/ Fails("stopPublisher")
    /\ UNCHANGED held /\ TurnsStay

Project ==
    /\ "transcript" \in held /\ projected < emitted
    /\ projected' = projected + 1
    /\ UNCHANGED <<step, failed, held, built, builds, turn, cancelled, emitted, learned, flushed, flushErrs>>

\* shutdown, then the deferred close of the runner and Stop of the observers.
GiveBack(at, what, next) ==
    /\ step = at
    /\ Goes(next) /\ held' = held \ {what}
    /\ TurnsStay

StopThePublisher == GiveBack("stopPublisher", "publisher", "closeBus")
CloseTheBus == GiveBack("closeBus", "bus", "joinTranscript")
JoinTranscript == projected = emitted /\ GiveBack("joinTranscript", "transcript", "closeRunner")
CloseRunner == GiveBack("closeRunner", "shadow", "stopInfra")
StopInfra == GiveBack("stopInfra", "infra", "returned")

RunNext ==
    \/ OpenTheBus \/ StartInfra \/ StartObservers \/ ResolveProvider
    \/ CancelTurns \/ OrchestratorReturns \/ Project
    \/ StopThePublisher \/ CloseTheBus \/ JoinTranscript \/ CloseRunner \/ StopInfra
    \/ \E t \in Turns :
          \/ \E role \in TurnRoles : StartTurn(t, role)
          \/ \E s \in Shared : BuildPart(t, s)
          \/ PartsReady(t) \/ Drive(t) \/ Unpark(t) \/ ReportTurn(t)

RunSpec == RunInit /\ [][RunNext]_runVars

-----------------------------------------------------------------------------
\* Properties

RunTypeOK ==
    /\ held \subseteq {"bus", "infra", "publisher", "transcript", "shadow"}
    /\ \A t \in Turns : turn[t].at \in {"none", "building", "driving", "parked", "reporting", "erred",
                                        "over", "refused"}
    /\ projected \in 0 .. emitted /\ learned \subseteq Turns /\ flushErrs \subseteq Turns

\* Whatever turns run side by side, each shared part is built once at most, and
\* a turn drives only over parts that were built whole.
BuiltOnce ==
    /\ \A s \in Shared : builds[s] <= 1 /\ (built[s] = "no" <=> builds[s] = 0)
    /\ \A t \in Turns : turn[t].at \in {"driving", "parked", "reporting", "erred"} =>
          \A s \in Needs(turn[t].role) : built[s] = "yes"

\* The shadow tree and the bus outlive every turn that can still use them.
TreeOutlivesTurns ==
    Active # {} => "bus" \in held /\ (built["adapters"] = "yes" => "shadow" \in held)

\* When the run has returned nothing is held but the bus of a run whose infra
\* did not start, the transcript holds every event, and what a turn learned is
\* on disk unless that turn's own flush failed and said so on stderr: it is
\* never lost by the order in which the turns report and the run returns.
NothingLeft ==
    step = "returned" =>
        /\ held \subseteq {"bus"} /\ (held # {} => failed /\ builds = [s \in Shared |-> 0])
        /\ projected = emitted
        /\ learned \ flushed \subseteq flushErrs

\* The publisher stops while the bus still takes its accruals.
StopBeforeClose == "publisher" \in held => "bus" \in held

RunnerSound == BuiltOnce /\ TreeOutlivesTurns /\ NothingLeft /\ StopBeforeClose

\* Neither of these holds (README).  A plan keeps what its todos learned; a call that
\* needs a yes gets an answer.
LearnedIsKept == step = "returned" => learned \subseteq flushed
ParkedIsAnswered == \A t \in Turns : turn[t].at # "parked"
=============================================================================
