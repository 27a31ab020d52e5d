---------------------------- MODULE Orchestrator ----------------------------
(***************************************************************************)
(* The coordination layer (internal/coord): the Orchestrator's event loop, *)
(* its scheduler, the goroutine of each agent turn and the terminal path.  *)
(*                                                                         *)
(* Two kinds of process.  The event loop of Run owns the plan; it takes    *)
(* coord.* events from its subscription and failures from the results      *)
(* channel, in either order when both are there.  A turn runs one agent on *)
(* its own goroutine, under a context that the loop cancels when the       *)
(* todo's event arrives and that a deadline may expire.                    *)
(*                                                                         *)
(* A diff is known by the coder turn of its todo that wrote it, 1 for the  *)
(* first; a verdict or a report carries that number as history only.       *)
(***************************************************************************)
EXTENDS Naturals, FiniteSets, Sequences, SequencesExt

CONSTANTS
    MaxTodo,       \* the todos are 1 .. MaxTodo, in plan order
    Deps,          \* Todo.DependsOn
    Artifacts,     \* Todo.Artifacts
    Bound,         \* Config.Concurrency
    MaxRework,     \* Config.MaxReworkCycles
    QueueCap,      \* capacity of the coord.> subscription
    Capped,        \* the roles whose turnTimeout is positive
    Silent,        \* may an agent return without its event?
    LateErrors,    \* may a turn fail after its event was delivered here?
    Interrupts     \* may Run's context be cancelled, or its bus close?

Todos == 1..MaxTodo
Roles == {"coder", "reviewer", "tester"}

ASSUME OrchestratorAssumption ==
    /\ MaxTodo \in Nat
    /\ Deps \in [Todos -> SUBSET Todos]
    /\ \A t \in Todos : IsFiniteSet(Artifacts[t])
    /\ Bound \in Nat \ {0} /\ MaxRework \in Nat \ {0} /\ QueueCap \in Nat \ {0}
    /\ Capped \subseteq Roles
    /\ Silent \in BOOLEAN /\ LateErrors \in BOOLEAN /\ Interrupts \in BOOLEAN

VARIABLES
    pc,        \* of Run: plan, loop, quiesce, returned
    status,    \* Todo.Status
    cycles,    \* Todo.ReworkCycles
    inflight,  \* Scheduler.inflight
    diffs,     \* Orchestrator.diffs, 0 for none
    turns,     \* by todo, its agent goroutines, oldest first
    queue,     \* the coord.> subscription
    canceled,  \* is Run's context done?
    closed,    \* is the bus closed?
    reason,    \* termination: none, complete, canceled, busclosed
    errs,      \* is Orchestrator.runErr non-empty?
    report,    \* the published plan.done: none, done, notdone
    approved, tested  \* history: the diff of the last approval, of the last pass

plan == <<status, cycles, inflight, diffs>>
env == <<canceled, closed>>
outcome == <<reason, errs, report>>
history == <<approved, tested>>
vars == <<pc, plan, turns, queue, env, outcome, history>>

Outcomes == {"Done", "Failed"}
AllDone == \A t \in Todos : status[t] \in Outcomes
FailedTodos == {t \in Todos : status[t] = "Failed"}

Event(k, t, v, ok) == [kind |-> k, todo |-> t, ver |-> v, ok |-> ok]
Report(role, t, v, ok) ==
    Event(CASE role = "coder" -> "code" [] role = "reviewer" -> "verdict"
            [] role = "tester" -> "report", t, v, ok)

\* A turn's pc: assign (to publish task.assign), run (in AgentRunner.Run),
\* published (its event is in the queue, Run has not returned), wait (the
\* watchdog), send (has a failure for the loop).  spoke: it published its event
\* before its context ended.  timeout: its failure is ErrAgentTimeout.
Turn(role, v) ==
    [role |-> role, ver |-> v, ctx |-> IF canceled THEN "canceled" ELSE "live",
     pc |-> IF role = "coder" THEN "assign" ELSE "run",
     spoke |-> FALSE, timeout |-> FALSE]

Init ==
    /\ pc = "plan"
    /\ status = [t \in Todos |-> "Pending"]
    /\ cycles = [t \in Todos |-> 0]
    /\ inflight = {}
    /\ diffs = [t \in Todos |-> 0]
    /\ turns = [t \in Todos |-> <<>>]
    /\ queue = <<>>
    /\ canceled = FALSE /\ closed = FALSE
    /\ reason = "none" /\ errs = FALSE /\ report = "none"
    /\ approved = diffs /\ tested = diffs

----------------------------------------------------------------------------
(* Turns as the loop sees them, and the scheduler.                         *)

\* disarmTurn.  Arming a turn disarms the one before, so cancelling every turn
\* of the todo cancels the one that is armed.
Disarm(ts) ==
    [i \in DOMAIN ts |->
        [ts[i] EXCEPT !.ctx = IF @ = "live" THEN "canceled" ELSE @]]

\* spawnAgent and armTurn.
Armed(ts, turn) == Append(Disarm(ts), turn)
Spawn(t, turn) == turns' = [turns EXCEPT ![t] = Armed(@, turn)]

DepsMet(st, t) == \A d \in Deps[t] : st[d] \in Outcomes

\* DispatchReady: the first todos that are ready, while there is a slot.
Wave(st, inf) ==
    LET ready == {t \in Todos : st[t] = "Pending" /\ t \notin inf /\ DepsMet(st, t)}
    IN {t \in ready :
          Cardinality({u \in ready : u < t}) + Cardinality(inf) < Bound}

Dispatch(st, inf, ts) ==
    LET wave == Wave(st, inf) IN
    /\ status' = [t \in Todos |-> IF t \in wave THEN "InProgress" ELSE st[t]]
    /\ inflight' = inf \union wave
    /\ turns' = [t \in Todos |->
                    IF t \in wave THEN Armed(ts[t], Turn("coder", 1)) ELSE ts[t]]

\* MarkDone, MarkFailed: free the slot, then dispatch.
MarkTerminal(t, outcome_, ts) ==
    Dispatch([status EXCEPT ![t] = outcome_], inflight \ {t},
             [ts EXCEPT ![t] = Disarm(@)])

----------------------------------------------------------------------------
(* Run, up to the loop.                                                    *)

\* The planner may fail, and so may plan.ready.
Plan ==
    /\ pc = "plan"
    /\ \/ /\ pc' = "returned" /\ errs' = TRUE
          /\ UNCHANGED <<plan, turns, queue>>
       \/ /\ ~closed
          /\ pc' = "loop"
          /\ queue' = <<Event("plan", 1, 0, TRUE)>>
          /\ Dispatch(status, inflight, turns)
          /\ UNCHANGED <<cycles, diffs, errs>>
    /\ UNCHANGED <<env, reason, report, history>>

----------------------------------------------------------------------------
(* The handlers.  None of them looks at the todo's status.                 *)

\* reassignCoder, reassignWithTestFail.
OverCapLate(n) == n > MaxRework + 1  \* mutant: one rework too many
OverCap(n) == n > MaxRework

Rework(t) ==
    /\ cycles' = [cycles EXCEPT ![t] = @ + 1]
    /\ \/ /\ OverCap(cycles'[t])
          /\ MarkTerminal(t, "Failed", turns)
       \/ /\ ~OverCap(cycles'[t])
          /\ Spawn(t, Turn("coder", cycles'[t] + 1))
          /\ UNCHANGED <<status, inflight>>

FirstDiff(t, v) == IF diffs[t] = 0 THEN v ELSE diffs[t]  \* mutant: first one wins
NewDiff(t, v) == v

CodeReady(e) ==
    /\ e.kind = "code"
    /\ diffs' = [diffs EXCEPT ![e.todo] = NewDiff(e.todo, e.ver)]
    /\ Spawn(e.todo, Turn("reviewer", e.ver))
    /\ UNCHANGED <<status, cycles, inflight, history>>

Verdict(e) ==
    /\ e.kind = "verdict"
    /\ \/ /\ e.ok
          /\ approved' = [approved EXCEPT ![e.todo] = e.ver]
          /\ Spawn(e.todo, Turn("tester", e.ver))
          /\ UNCHANGED <<status, inflight, cycles>>
       \/ /\ ~e.ok
          /\ Rework(e.todo)
          /\ UNCHANGED approved
    /\ UNCHANGED <<diffs, tested>>

TestReport(e) ==
    /\ e.kind = "report"
    /\ \/ /\ e.ok
          /\ tested' = [tested EXCEPT ![e.todo] = e.ver]
          /\ MarkTerminal(e.todo, "Done", turns)
          /\ UNCHANGED cycles
       \/ /\ ~e.ok
          /\ Rework(e.todo)
          /\ UNCHANGED tested
    /\ UNCHANGED <<diffs, approved>>

\* Its own plan.ready and task.assign come back to the loop too.
OwnEvent(e) ==
    /\ e.kind \in {"plan", "assign"}
    /\ UNCHANGED <<plan, turns, history>>

Handle ==
    /\ pc = "loop" /\ ~AllDone
    /\ queue # <<>>
    /\ queue' = Tail(queue)
    /\ \E e \in {Head(queue)} :
          CodeReady(e) \/ Verdict(e) \/ TestReport(e) \/ OwnEvent(e)
    /\ UNCHANGED <<pc, env, outcome>>

\* applyAgentResult, with the send it receives: the turn is gone after it.
ResultDropped(t, ts) ==     \* mutant: the error is recorded, no more
    turns' = ts /\ UNCHANGED <<status, inflight>>

ApplyResult(t, ts) ==
    \/ /\ status[t] \in Outcomes
       /\ turns' = ts
       /\ UNCHANGED <<status, inflight>>
    \/ /\ status[t] \notin Outcomes
       /\ MarkTerminal(t, "Failed", ts)

Result(t, i) ==
    /\ pc = "loop" /\ ~AllDone
    /\ turns[t][i].pc = "send"
    /\ ApplyResult(t, [turns EXCEPT ![t] = RemoveAt(@, i)])
    /\ errs' = TRUE
    /\ UNCHANGED <<pc, cycles, diffs, queue, env, reason, report, history>>

----------------------------------------------------------------------------
(* finish: the one terminal path.                                          *)

FailNothing == UNCHANGED status  \* mutant: the todos are left in limbo

FailOutstanding ==
    status' = [t \in Todos |->
                  IF status[t] \in Outcomes THEN status[t] ELSE "Failed"]

\* stopAgents reaches every turn.
Leave(why) ==
    /\ reason' = why
    /\ pc' = "quiesce"
    /\ turns' = [t \in Todos |-> Disarm(turns[t])]
    /\ UNCHANGED <<cycles, inflight, diffs, queue, env, errs, report, history>>

Finish ==
    /\ pc = "loop"
    /\ \/ AllDone /\ Leave("complete") /\ UNCHANGED status
       \/ ~AllDone /\ canceled /\ Leave("canceled") /\ FailOutstanding
       \/ ~AllDone /\ closed /\ queue = <<>> /\ Leave("busclosed") /\ FailOutstanding

\* quiesceAgents: events are dropped, failures recorded.
DrainEvent ==
    /\ queue # <<>> /\ queue' = Tail(queue)
    /\ UNCHANGED <<turns, errs>>

ReceiveResult ==
    \E t \in Todos : \E i \in DOMAIN turns[t] :
        /\ turns[t][i].pc = "send"
        /\ turns' = [turns EXCEPT ![t] = RemoveAt(@, i)]
        /\ errs' = TRUE
        /\ UNCHANGED queue

Drain ==
    /\ pc = "quiesce"
    /\ DrainEvent \/ ReceiveResult
    /\ UNCHANGED <<pc, plan, env, reason, report, history>>

Quiet == \A t \in Todos : turns[t] = <<>>

\* Two Done todos share a file.
Conflict ==
    \E t, u \in Todos : t # u /\ status[t] = "Done" /\ status[u] = "Done"
                        /\ Artifacts[t] \intersect Artifacts[u] # {}

\* mergeForReport (ok: the verifier accepted the patch, or had none to see),
\* publishPlanDone and result.  plan.done does not go out on a closed bus.
Done(ok) == reason = "complete" /\ ~Conflict /\ ok /\ FailedTodos = {}

MergeErrorLost(ok) == FALSE      \* mutant: Merge's error is not recorded
MergeError(ok) == Conflict \/ (~ok /\ reason # "canceled")

Return ==
    /\ pc = "quiesce"
    /\ Quiet
    /\ \E ok \in BOOLEAN :
          \/ /\ ~closed
             /\ report' = IF Done(ok) THEN "done" ELSE "notdone"
             /\ errs' = (errs \/ MergeError(ok) \/ reason = "canceled"
                              \/ FailedTodos # {})
          \/ /\ UNCHANGED report
             /\ errs' = TRUE
    /\ pc' = "returned"
    /\ UNCHANGED <<plan, turns, queue, env, reason, history>>

----------------------------------------------------------------------------
(* An agent turn.                                                          *)

Becomes(t, i, new) == turns' = [turns EXCEPT ![t][i] = new]

\* Publish delivers to this subscription; the bus may still be at another's.
Delivers(t, i, e, spoke) ==
    /\ ~closed /\ Len(queue) < QueueCap
    /\ queue' = Append(queue, e)
    /\ Becomes(t, i, [turns[t][i] EXCEPT
          !.pc = IF @ = "assign" THEN "run" ELSE "published", !.spoke = spoke])

Assigns(t, i) ==
    /\ turns[t][i].pc = "assign"
    /\ Delivers(t, i, Event("assign", t, 0, TRUE), FALSE)

Publishes(t, i) ==
    /\ turns[t][i].pc = "run"
    /\ \E ok \in IF turns[t][i].role = "coder" THEN {TRUE} ELSE BOOLEAN :
          Delivers(t, i, Report(turns[t][i].role, t, turns[t][i].ver, ok),
                   turns[t][i].ctx = "live")

\* An error from the publish of task.assign, or an error or a panic in Run
\* before its event.
Fails(t, i) ==
    /\ \/ turns[t][i].pc = "assign" /\ (closed \/ turns[t][i].ctx # "live")
       \/ turns[t][i].pc = "run"
       \/ turns[t][i].pc = "published" /\ LateErrors
    /\ Becomes(t, i, [turns[t][i] EXCEPT !.pc = "send"])
    /\ UNCHANGED queue

\* Run returned nil: the watchdog is next.
Returns(t, i) ==
    /\ \/ turns[t][i].pc = "published"
       \/ turns[t][i].pc = "run" /\ Silent
    /\ Becomes(t, i, [turns[t][i] EXCEPT !.pc = "wait"])
    /\ UNCHANGED queue

WatchdogSilent(t, i) ==     \* mutant: a turn that ended is never reported
    /\ turns[t][i].pc = "wait" /\ turns[t][i].ctx # "live"
    /\ turns' = [turns EXCEPT ![t] = RemoveAt(@, i)]
    /\ UNCHANGED queue

Watchdog(t, i) ==
    /\ turns[t][i].pc = "wait"
    /\ \/ /\ turns[t][i].ctx = "canceled"
          /\ turns' = [turns EXCEPT ![t] = RemoveAt(@, i)]
       \/ /\ turns[t][i].ctx = "expired"
          /\ Becomes(t, i, [turns[t][i] EXCEPT !.pc = "send", !.timeout = TRUE])
    /\ UNCHANGED queue

TurnStep(t) ==
    /\ \E i \in DOMAIN turns[t] :
          \/ Assigns(t, i) \/ Publishes(t, i) \/ Fails(t, i)
          \/ Returns(t, i) \/ Watchdog(t, i)
    /\ UNCHANGED <<pc, plan, env, outcome, history>>

\* The deadline of a turn passes.
Expire(t) ==
    /\ \E i \in DOMAIN turns[t] :
          /\ turns[t][i].role \in Capped /\ turns[t][i].ctx = "live"
          /\ Becomes(t, i, [turns[t][i] EXCEPT !.ctx = "expired"])
    /\ UNCHANGED <<pc, plan, queue, env, outcome, history>>

----------------------------------------------------------------------------
(* The caller.                                                             *)

CancelRun ==
    /\ Interrupts /\ ~canceled /\ pc # "returned"
    /\ canceled' = TRUE
    /\ turns' = [t \in Todos |-> Disarm(turns[t])]
    /\ UNCHANGED <<pc, plan, queue, closed, outcome, history>>

CloseBus ==
    /\ Interrupts /\ ~closed /\ pc # "returned"
    /\ closed' = TRUE
    /\ UNCHANGED <<pc, plan, turns, queue, canceled, outcome, history>>

LoopStep ==
    \/ Plan \/ Handle \/ Finish \/ Drain \/ Return
    \/ \E t \in Todos : \E i \in DOMAIN turns[t] : Result(t, i)

Next ==
    \/ LoopStep
    \/ \E t \in Todos : TurnStep(t) \/ Expire(t)
    \/ CancelRun \/ CloseBus

Spec == Init /\ [][Next]_vars

\* The Go scheduler runs the loop and the turns, a select with a ready case
\* does not wait, time passes, and an agent's Run returns.
Fairness ==
    /\ WF_vars(LoopStep)
    /\ \A t \in Todos : WF_vars(TurnStep(t)) /\ WF_vars(Expire(t))

FairSpec == Spec /\ Fairness

----------------------------------------------------------------------------
(* Properties.                                                             *)

TurnOK(turn) ==
    /\ turn.role \in Roles /\ turn.ver \in 1..(MaxRework + 1)
    /\ turn.ctx \in {"live", "canceled", "expired"}
    /\ turn.pc \in {"assign", "run", "published", "wait", "send"}

\* Type invariant, with the bounds the code promises: the rework cap and the
\* concurrency bound.
TypeOK ==
    /\ pc \in {"plan", "loop", "quiesce", "returned"}
    /\ status \in [Todos -> {"Pending", "InProgress"} \union Outcomes]
    /\ cycles \in [Todos -> 0..(MaxRework + 1)]
    /\ inflight \subseteq Todos /\ Cardinality(inflight) <= Bound
    /\ diffs \in [Todos -> 0..(MaxRework + 1)]
    /\ \A t \in Todos : \A i \in DOMAIN turns[t] : TurnOK(turns[t][i])
    /\ Len(queue) <= QueueCap
    /\ reason \in {"none", "complete", "canceled", "busclosed"}
    /\ report \in {"none", "done", "notdone"}

\* While the loop runs and its context is not done, a todo in progress has a
\* turn or an event that will move it on, whatever fails: the loop waits for
\* nothing that cannot come.
NobodyIsForgotten ==
    \A t \in Todos :
        pc = "loop" /\ ~canceled /\ status[t] = "InProgress" =>
            \/ turns[t] # <<>>
            \/ \E n \in DOMAIN queue :
                  queue[n].todo = t /\ queue[n].kind \in {"code", "verdict", "report"}

\* A green plan.done was earned: the diff merged for each todo is the one the
\* last approval and the last passing test were about.
GreenIsEarned ==
    report = "done" => \A t \in Todos :
        diffs[t] # 0 /\ approved[t] = diffs[t] /\ tested[t] = diffs[t]

\* Run returns nil only over a plan announced as done (Run: "nil ONLY when
\* every todo reached Done and nothing was dropped along the way").
NilMeansGreen == pc = "returned" /\ ~errs => report = "done"

\* The run does what the board promises.
Board == INSTANCE PlanBoard WITH over <- (pc = "returned")
ImplementsBoard == Board!Spec

\* A todo's outcome stays (plan.go: "Pending -> InProgress -> (Done | Failed)").
OutcomeIsFinal ==
    [][\A t \in Todos : status[t] \in Outcomes => status'[t] = status[t]]_vars

AtWork(t) == {i \in DOMAIN turns[t] : turns[t][i].pc \in {"assign", "run", "published"}}
Busy == UNION {{t} \X AtWork(t) : t \in Todos}

\* No more agents are at work at once than Concurrency (seam.go: "With
\* Config.Concurrency == 1 the turns are also serialized").
TurnsAreSerialized == Cardinality(Busy) <= Bound

\* A timeout is reported only of a turn that produced no event in time.
TimeoutMeansSilence ==
    \A t \in Todos : \A i \in DOMAIN turns[t] :
        turns[t][i].pc = "send" /\ turns[t][i].timeout => ~turns[t][i].spoke

\* Every turn returns or is cut off, so Run returns, if the turns are capped
\* and no dependency is circular.
RunReturns == <>(pc = "returned")
=============================================================================
