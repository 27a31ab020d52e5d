# yolo-code in TLA+

yolo-code is a coding agent written in Go. A task runs as a finite state machine
that asks a language model for tool calls, has a human approve the dangerous
ones, dispatches them, verifies the result and undoes what fails; the parts talk
over an in-process event bus; a coordination layer splits a goal into todos and
runs a coder, a reviewer and a tester on each.

This directory holds TLA+ models of that program - its concurrent core and the
parts the core calls or feeds - the TLC instances that check them and the TLAPS
proofs about them. Paths below are relative to the repository.

1. Inventory of the system
2. The modules
3. The runs: what each asks, its bounds, its result
4. Fairness
5. What is proved
6. Where the code and its comments part
7. Hazards without a property
8. Not modelled
9. Plan

## 1. Inventory of the system

| part | code | state | operations | talks to |
|---|---|---|---|---|
| event bus | `internal/event/bus.go` | next Seq, subscriber list, a bounded channel and a ticket gate per subscriber, counters | Publish, TryPublish, Subscribe, Unsubscribe, Close | everything; appends to the log before it delivers |
| durability log | `internal/event/log.go`, `dedup.go`, `codec.go` | one JSON line per envelope, fsynced; the Seqs a subscriber has seen | OpenLog, Append, Replay, Close, Mark | the bus |
| runtime core | `internal/runtime/core.go`, `fsm.go` | per task: FSM state, queue of pending calls, approval prompt, command channel, retries | Submit (drive loop), user-event loop | ports to all layers, bus, session manager |
| session manager | `internal/session/manager.go`, `cancel.go` | maps of sessions and tasks, cancel functions | StartTask, Cancel, CompleteTask, Fail, Pause, Resume | store, bus |
| session store | `internal/session/store.go`, `history.go`, `resume.go` | JSON files | create with O_EXCL, replace by rename, load | disk, other processes |
| patch engine and checkpoints | `internal/patch/engine.go`, `cmd/yolo/checkpointer_adapter.go` | shadow copies by name and path | Apply, checkpoint, restore | working tree |
| undo stack | `internal/session/history.go`, `checkpointer.go` | per task: entries, checkpoint pointer, its copy on disk | RecordEntry, Checkpoint, Restore, Undo, the rollback of Cancel | session manager |
| routing and planning | `internal/coord/classify.go`, `route.go`, `cmd/yolo/planner_adapter.go` | none across calls | Classify, Route, Plan | front ends, coordination |
| coordination | `internal/coord/orchestrator.go`, `scheduler.go`, `plan.go`, `merge.go` | plan and statuses, inflight set, latest diffs, one cancel function per armed turn | Run, one handler per coord event, one goroutine per turn, finish | bus, agent runner |
| coordination runner | `cmd/yolo/plan_runner.go`, `coord_runner.go` | one runtime core per todo; one session manager, memory and set of adapters for all, built lazily | runPlanCtx, runCoder, runReviewer, runTester, flush | runtime core, bus |
| execution engine | `internal/exec/engine.go`, `bash.go`, `fschange.go` | pending approvals, running tools | Dispatch: gates, approval, timeout, run, drain, what the command wrote | bus, file system, shell |
| shell classification | `internal/exec/sandbox.go` | none across calls | Classify | execution engine |
| verification | `internal/verify` | verdict cache | staged pipeline with early exit | shell |
| cognitive core | `internal/cognitive` | transcript, unanswered calls, provider clients | Think, Reflect, RecordToolResult, Reset | language models |
| cost | `internal/cognitive/cost.go`, `cmd/yolo/cost_ledger.go`, `cost_publisher.go` | per task: dollars, tokens, loops, the rungs that were announced; the spend of tool calls | RegisterTask, IncLoop, IncReflection, AddTokens, HardCapExceeded; accrue, Stop | runtime core, bus |
| context and prompt | `internal/context`, `internal/prompt` | none across calls | rank, fit the budget, compress, render | memory |
| memory | `internal/memory` | working, conversation, repository and knowledge stores | drain loop, reindex, flush | bus, disk |
| scope and workflow | `internal/scope`, `internal/workflow` | level, stage | transition, advise | runtime core |
| infrastructure | `internal/infra` | cost totals, metrics | config, permissions, secrets, telemetry | disk, network |
| front ends | `internal/tui`, `cmd/yolo/headless.go` | view folded from events | keys to `user.*` events | bus |

What is hard in it, and where a test would hardly reach:

* *Goroutines that meet without a common lock.* A publisher holds tickets at
  several gates; Close and Unsubscribe close channels under senders; the cancel of
  a task may be written by the drive loop, by the event loop of its core or, when
  todos share one session manager, by the event loop of another core.
* *State that is read long after it was true.* The approval flag, the name of the
  checkpoint to restore, the latest diff of a todo, the "driving" flag.
* *Order.* The orchestrator's `select` takes an event and a failure in either
  order; a timeout races the event it was waiting for; a failing publish leaves
  tickets behind.
* *Background work that must end.* Reindex and save jobs, the cost publisher, the
  turns of a plan, a tool that outlives its timeout: whoever shuts down must join
  them before it gives back what they use.
* *Partial failure.* A failed Append, a failed save after the status changed in
  memory, a half-written file.
* *Limits.* Full channels everywhere: the 64 slots of a subscriber, the 16 of a
  task's command queue, the unbuffered results channel.

What makes each part correct is the list of properties in section 3. The
`hazards` list of PROJECT.json has the line of each of these.

## 2. The modules

| module | models | extended or instantiated by |
|---|---|---|
| `EventBus` | the bus | `EventBusProofs`, `MCEventBus` |
| `EventBusProofs` | theorems about it | |
| `RuntimeCore` | one task: drive loop, user-event loops, the session record | `RuntimeCoreProofs`, `MCRuntimeCore` |
| `RuntimeCoreProofs` | theorems about it | |
| `Rollback` | patches, checkpoints and their undoing | `ToolProofs`, `MCRollback` |
| `PlanBoard` | abstract: what the coordination layer promises about todos | `Orchestrator` |
| `Orchestrator` | the coordination layer, with `PlanBoard` as its specification | `OrchestratorProofs`, `MCOrchestrator` |
| `OrchestratorProofs` | theorems about it, the implementation of `PlanBoard` among them | |
| `DurableLog` | the log's file: records, crashes, reopening, replay, redaction, dedup | `DiskProofs`, `MCTools` |
| `SessionStore` | session and task files under several processes | `DiskProofs`, `MCTools` |
| `UndoStack` | the history of a task and the rollback of its cancellation | `MCTools` |
| `ToolCall` | the execution engine's Dispatch, concurrently | `ToolProofs`, `MCTools`, `MCCoreTools` |
| `ToolProofs` | theorems about `Rollback`, and the lemmas that make `ToolCall` sound | `MCToolsProofs` |
| `ShellRisk` | the classification of a shell line (an algorithm) | `WordsProofs`, `MCTools` |
| `VerifyPipeline` | the stages of a verification over a tree that changes | `MCTools` |
| `Conversation` | the transcript the model sees, driven by the loop | `WordsProofs`, `MCTools` |
| `WordsProofs` | the lemmas that make `ShellRisk`, `Conversation`, `GoalPlan` and `PromptFit` sound, and the inductions over data they need | `MCToolsProofs` |
| `PromptFit` | context packing and prompt trimming (an algorithm) | `WordsProofs`, `MCTools` |
| `Picks` | passes over a sequence that keep some of its elements | `GoalPlan`, `PromptFit` |
| `CostLedger` | caps and the degradation ladder under concurrent counts | `MCTools` |
| `CostPublisher` | the accrual goroutine and its ways to end | `MCTools` |
| `MemoryListener` | the memory's drain, its background jobs and its Close | `DiskProofs`, `MCTools`, `MCBusReaders` |
| `DiskProofs` | the lemmas that make the log, the store and the memory sound | `ScopeProofs`, `MCToolsProofs` |
| `ScopeControl`, `ScopeSearch` | the scope gate and the workflow machines; the tree search | `ScopeProofs`, `MCTools` |
| `ScopeProofs` | the lemmas that make them sound, and the theorem about the search | `MCToolsProofs` |
| `GoalPlan` | from a goal to one agent or to todos (an algorithm) | `WordsProofs`, `MCTools` |
| `PlanRun` | a plan's run: what it starts, shares and gives back | `MCTools` |
| `MCTools` | the satellites and `Rollback` side by side, one under way at a time | `MCToolsProofs` |
| `MCToolsProofs` | theorems about it: the satellites' safety | |
| `MCBusReaders`, `MCCoreTools` | the bus beside the memory listener, the core beside the engine, for liveness | |

`MC*` modules give the instances their constants and constraints. `MCTools`,
`MCBusReaders` and `MCCoreTools` also put independent parts into one state space:
the variable `part` is chosen in the initial state, a step of the part takes the
others as they began (`Only`), and a property is about the part under way (`On`).
The parts share no variable, so each is explored exactly as it would be alone; it
is a way to run many small models, not a claim about their interplay. Where a part
begins in several ways it does so only when it is the one under way. Operators
whose comment says *mutant* are plausible mistakes; each is substituted for the
operator after it to see that a property of the runs notices. They are part of
no specification.

**EventBus.** One action is one critical section: a mutex held and released, an
atomic load or swap, one channel operation. `fanoutMu` is held across the append
and the reservation of tickets and is therefore a variable; `subsMu` and the
gate's mutex never span two actions. Publish is
`Call`, `Stamp` (or `StampClosed`), `ReserveTickets`, then for each target
`Enter`, one arm of the select (`SendOK`, `SendDropped`, `SendFailed`) and
`Leave`; an error leads to `GiveUp`, which hands back the remaining tickets one at
a time. TryPublish has `TryMiss` and `TryRetire` for a gate that is not its turn.
Unsubscribe and Close are split where the code drops a lock. A log that cannot
fail (a bus made by `New`) is the special case in which `AppendFailed` is never
taken. `panic` records what Go would raise. Delivery is by Seq; the topic decides
the targets (`Matches`).

**RuntimeCore.** `fsm` follows `transitionTable` (`Edges`), with the wildcard rows
used only when the state has no row of its own (`Lookup`). There is one action for
the top of the drive loop (`Top`: context check, then at most one queued command)
and one for each case of its switch; `Fires` is a transition whose error makes
Submit return, `Lands` one whose error is ignored. The session manager's Cancel,
CompleteTask and Fail are steps of the goroutine that called them (`CancelCheck`,
`Mark`, `Save`, `Tell`), because the lock is dropped between them. The user's
commands reach every event loop by mail (`Post`), are routed (`Route`) or, for a
cancel, cascade into the context first (`Cascade`) and are handed to the drive
loop or written by the event loop afterwards (`Handoff`). `Settle` is
`settleCancel`. Ports answer arbitrarily. `HasMore` is a free choice in `Passed`;
the shipped core ties it to the planner's last turn.

**Rollback.** A file's content is the number of the write that produced it.
`shadow` keeps, by checkpoint name and path, a copy and a `.deleted` sentinel,
which coexist as they do on disk. `PatchTool` always uses the name `patch_1`
because the adapter passes sequence number 1; a corrective patch uses its retry
number. `RestoreName` is the rule of the VERIFY state: the handle's name, and the
observation's only when the handle has none. The verdict of a verification is
free; without files the shipped verifier returns a failing verdict, so `Pass`
needs files.

**Orchestrator.** `Handle` takes an event, `Result` a failure, `Finish` one of the
terminal conditions, in any order in which they are ready. A turn is a record in
`turns`: it may publish, fail before or after its event, return without an event,
expire, and wait in its watchdog until the loop disarms it. `Dispatch` is the
scheduler's wave and part of `MarkTerminal` exactly where the code calls it. A
diff is the number of the coder turn that wrote it, so that a verdict about an
older diff can be told apart. `MarkTerminal` re-arms nobody, and no handler looks
at the todo's status - the code's omission, kept.

**PlanBoard.** The promise: a todo starts only when its dependencies have an
outcome and a slot is free, gets one outcome, and the run ends with an outcome for
each. `ImplementsBoard` is the refinement, with `over` mapped to `pc = "returned"`.

**DurableLog.** The file is a sequence of pieces - a line that decodes, one without
its newline (`open`), a torn one, and one that was cut where its next value is due
(`gap`) - over several lives of one process. `AppendLine` writes, `AppendSync` makes
it durable, `AppendShort` is a full disk, `Crash` keeps any prefix of what was not
synced and may tear the last piece, a reopening appends behind what it finds, and
`Replay` is the reader's loop with its three results. The reader decodes values, not
lines (`Decodes`): behind a torn piece a record is a syntax error, behind a gap it
is read as the value that was due, and the record that follows is the error. When
none follows, the file ends inside a value: the reader says "truncated", and the
record it swallowed may be one that was acknowledged (`Swallowed`). Redaction walks
a payload tree. The Seq starts again in each life, as `New` does.

**SessionStore.** Processes claim a session or task id with O_EXCL (`Torn` until the
content is written), remove what they failed to write, list the task in its
session's file afterwards, roll up statuses and crash anywhere. A manager seeds its
counters from the listing before its first claim; a resume does not. `SharedResume` is the case the code does not forbid,
in which a session is resumed while another live process holds it.

**UndoStack.** Entries and the checkpoint pointer in memory and on disk; a save may
fail, and a restart takes the disk's.

**ToolCall.** The gates of Dispatch in the code's order, then the approval: an entry
in `pending`, a prompt, and the race between `Resolve`, the context and a second
answer. The tool has its goroutine; the dispatch waits for it after a timeout too
(`DrainResult`). A command's writes are the difference of two snapshots, taken while
other commands write, and a snapshot may run out of its budget. They go into the
tool's output (`toolOut`) and from there into the Observation (`reported`) - unless
the tool failed, timed out or was cancelled: then Dispatch returns an Observation
that names no file.

**ShellRisk, GoalPlan, PromptFit, ScopeSearch** are algorithms as operators: the
first two over words of small classes that a line or a goal is made of, word by
word - of a shell line, what a command runs is found by peeling its wrappers off
one after the other, as the code's loop does; the third over parts with a kind, a source and a size; the last over a tree
that grows by one simulation a step, each node with the path that following its
parents visits. They are compared with what the algorithm is
for, not with a second implementation. Where the code filters a slice, the models
say which positions are kept (`Picked` of `Picks`); where it loops, a recursive
function follows the loop.

**VerifyPipeline.** One action per stage, in order, with the policy's skips and the
early exit; the AST stage reads a file once and keeps a cache by path and content
hash. The hash is a constant (`HashOf`): any function of the text, with collisions or
without. The tree may change between any two stages.

**Conversation.** `Think` merges the compiled prompt into the transcript, trims it,
takes any reply and normalizes the ids of its calls; the policy's refusals are
answered at once, results are paired by id and else by tool; a failed verdict may
leave calls without their result and is reflected on up to a cap.

**CostLedger.** A count is three steps of its caller: find the entry, add to it,
publish the rung it crossed. **CostPublisher** is the goroutine that accrues, with
Stop, the bus's Close and the context's end in any order. Its Publish fails on a
closed bus, on a context that is over and, when the run writes an event log
(`hasLog`), on a failed append; the first is counted apart from the others.

**MemoryListener.** The drain marks a Seq, folds the event and may leave a job
behind; jobs write at any later time; `Close` waits for the drain, then for the
jobs, and flushes. A preference whose save fails is announced with a TryPublish that
may itself fail, which nobody looks at (`prefErr`). A prompt that is being built
reads insights and AGENTS.md beside it.

**ScopeControl.** The gate in front of a call and the verdicts move the level; the
three workflow machines answer the loop.

**PlanRun.** `runPlanCtx` from the bus to the flush with an error possible at each
thing it starts and the deferred calls in their order; turns build what they share
under `sync.Once`, drive, park on an approval until their context ends, and are
cancelled and joined. On its way out a coder's turn flushes the memory
(`FlushMemory`); a flush that fails, wholly or in part, is a line on stderr, and the
turn ends as it would have (`flushErrs`).

## 3. The runs

| run | instance | states | result |
|---|---|---|---|
| `bus_safety` | 2 Publish + 1 TryPublish, 2 subscribers, 2 events, 1-slot channels | 1.7 million | holds |
| `bus_live` | the bus: 1 Publish + 1 TryPublish, 2 subscribers, 2 events; the memory listener: 2 events | 69 000 | holds |
| `headofline` | 2 Publish, 2 topics, subscriber 1 stalls | | violated, section 6 |
| `core_safety` | 3 calls (2 gated), 3 commands, failing ports and disk, cost cap | 1.6 million | holds |
| `core_live` | the core: 2 calls, 2 commands of all five kinds; the engine: 2 dispatches | 86 000 | holds |
| `staleyes` | 2 gated calls; approve, pause, resume | | violated, section 6 |
| `parts_safety` | `Rollback` and the fifteen satellites, below | 886 000 | holds |
| `shared_name` | 2 uses of the patch tool | | violated, section 6 |
| `coord_board` | 3 todos, 1 dependency, 2 slots, rework, interruptions | 1.6 million | holds |
| `coord_failing` | 2 dependent todos; silence, timeouts, late errors, interruptions | 1.6 million | holds |
| `coord_live` | 2 todos, all turns capped, 1-slot subscription | 100 000 | holds |
| `resurrected` | 2 todos, capped coder | | violated, section 6 |

What they ask:

* `bus_safety`. Each subscriber receives in Seq order (`SeqOrder`); one sender is
  past a gate at a time and no channel is closed under it (`GateExclusion`,
  `NoPanic`); every ticket of an open gate is abandoned or in somebody's hands
  (`NoStrandedTicket`); what is delivered is durable and the log is not written
  after Close (`DurableBeforeVisible`, `NoAppendAfterClose`); there are as
  many tickets handed out (`TicketsOut`) as deliveries made (`Made`), still owed by
  a publisher (`Owed`), counted as dropped, or given up with an error to the
  publisher (`NothingSilent`).
* `bus_live`. `PublishReturns` when the consumers drain; `CallsEnd` - TryPublish,
  Close and Unsubscribe end - whether they do or not; `CloseEnds`, the memory's
  Close returns once the bus is closed, however many jobs are under way.
* `core_safety`. A gated call runs only after a yes to a prompt about it
  (`ApprovedByHuman`, with the pause commands left out; section 6 says why); a
  recorded ending stays (`TerminalIsFinal`) and no tool runs after it
  (`EndedStaysStill`); what the bus announced is what is on disk and in memory
  (`EndingsAgree`).
* `core_live`. A parked task has a prompt about the call at the head of its queue
  (`PromptStands`); a cancel is never between two goroutines that each count on
  the other (`CancelIsOwned`); `CancelReturns`, `CancelIsRecorded` and
  `AnswerTakesEffect` are the corresponding progress. `DispatchReturns`: a dispatch
  whose context is over returns, when its tool honours the context.
* `parts_safety`. The invariant of each pair of related parts is one conjunction of
  named properties, which the modules state and explain:

  | property | is | of |
  |---|---|---|
  | `DiskSound` | `NoSilentLoss`, `NoSecretOnDisk`, `AppliedOnce` | `DurableLog` |
  | | `OneOwner`, `StartedIsListed`, `ListedIsWhole` | `SessionStore` |
  | | `InsightsSound`, `HistoryIsRecent`, `PreferenceKept`, `ClosedIsDurable` | `MemoryListener` |
  | `DispatchesSound` | `RanOnlyAllowed`, `PendingIsWaiting`, `NoWorkerLeft`, `WritesAreReported` | `ToolCall` |
  | | `PrefixNeverLowers`, `CompanyNeverLowers`, `PathNeverLowers`, `OrderIsIrrelevant` | `ShellRisk` |
  | `ChecksSound` | `StackSound` | `UndoStack` |
  | | `PassIsMeasured`, `FailureIsFirst`, `CacheIsValid` | `VerifyPipeline` |
  | `TurnsSound` | `BuiltOnce`, `TreeOutlivesTurns`, `NothingLeft`, `StopBeforeClose` | `PlanRun` |
  | | `ResultsArePaired`, `IdsAreDistinct`, `FrameLeads`, `NothingLeftUnsaid` | `Conversation` |
  | `CostsSound` | `SpendIsSeen`, `CapsStand`, `OncePerRung`, `LadderInOrder` | `CostLedger` |
  | | `AccrualsAddUp`, `WarnedOnce`, `StopIsQuiet` | `CostPublisher` |
  | `ScopeSound` | `GateIsRight`, `WayBack`, `SubmitIsEarned`, `PlanIsUnadvised` | `ScopeControl` |
  | | `SearchSound` | `ScopeSearch` |
  | `WordsSound` | `EveryPieceIsTaken`, `ClausesAreTodos`, `RoutedRight` | `GoalPlan` |
  | | `KindsAreHeard`, `CutsAreTold`, `CutsAreNeeded`, `WindowIsSplit` | `PromptFit` |

  Five of these say less than one might wish, because the code does less.
  `NoSilentLoss`: what Replay returns is in order and has everything acknowledged,
  but for a swallowed last record, which comes with "truncated". `PreferenceKept`: a
  preference is on disk unless its own save failed. `WritesAreReported`: what a
  command wrote is in the Observation that Dispatch returns without an error, or
  said there to be unknown. `PassIsMeasured`: each Go file of a change that passes
  parsed as it was read, or has the hash of a text of it that did.
  `NothingLeft`: what a turn learned is on disk unless that turn's own flush failed.
  Section 6 has the stronger property that the comments promise in each case.

  And of `Rollback`: the restore after a failing verdict puts the patched file back
  (`PatchIsUndone`), touches nothing verified (`VerifiedIsKept`) and deletes
  nothing that was there (`NoFileIsLost`); a refused or failed patch leaves the
  tree alone (`FailedPatchLeavesTree`). `TypesOK` joins the type invariants.
* `coord_board`. `ImplementsBoard`, which includes that a todo starts only when its
  dependencies have an outcome and a slot is free.
* `coord_failing`. A todo in progress always has a turn or an event that will move
  it (`NobodyIsForgotten`); a green report is about diffs
  that were approved and tested (`GreenIsEarned`), and Run returns nil only with
  one (`NilMeansGreen`).
* `coord_live`. `RunReturns`.

**Bounds, and why they are enough to be interesting.** One slot per channel makes
"full" and "empty" one step apart. Two subscribers are needed for a publisher to
hold one ticket while it waits at another gate, three publishers for a ticket that
is abandoned between two others. Two events per run are in flight at once in
`bus_safety`; `headofline` needs a third. Two subscribers take every topic there;
topic matching matters only in `headofline`, where one subscriber takes one of
two. `bus_safety` uses symmetry of the two Publish callers (it has no liveness
property). In the runtime, three calls allow a planner turn of two and a
second turn; a correction is its own call; a queue of two against three commands
lets a command be dropped. In `core_live` the queue holds every command, so
`AnswerTakesEffect` is about answers that are not lost at the cap. Rollback counts
writes (8) so that a patch and three corrections are possible after edits. Two
todos with the first depending on the second show plan order against dependency
order; one rework is the smallest cap that distinguishes the last allowed cycle
from the first refused one; a third todo and a second slot let two todos be at
work in `coord_board`.

In `parts_safety`: two lives and two events make a torn record that a later life
appends behind; two processes over one session and two tasks meet at every claim;
two snapshots and two entries suffice for a pointer to an entry that an undo took
away; two verifications are needed for a cache to be stale, a Go file and a
vendored one for the stages to disagree, and `MCHash` gives a file that parses and
one that does not the same hash; of three dispatches two are asked about at the
same time, so that a yes could answer the wrong one, and write the same file, one of
them without honouring its context, while the third is critical and refused although
it was approved before (a call that runs because it was approved before is in
`core_live`). The publisher runs with an event log and without. A shell line has up to
three words and each property adds others before, behind or between them; a goal
has five, enough for three clauses with separators. Three turns with
two parallel calls and a transcript of six messages make the trim cut a turn in two;
the four parts of a package, one of them the frame, are drawn from eleven whose
sizes do and do not fit the windows, 26 being the least window that is split
exactly. Two callers and four counts reach each rung from both sides. The
insights' limit of one, the window of one execution and three events make every
eviction happen.

**Constraints.** Each takes choices from the environment, never from the code:
`SubscribeFirst` and `LastStays` (`bus_live`) subscribe before publishing and keep
one subscriber, `Uncancelled` leaves contexts alone, `OneLingers` bounds how many
turn goroutines overlap their successors, `LittleRework` (`coord_board`) sends
only the first todo back for rework and meets one interruption. `OneLingers` is the one that also
holds the code back: a state in which more goroutines linger is not
explored. `core_safety` and `core_live` use no constraint, only constants.
`PatchIsLast` of `parts_safety` says that nothing runs after the patch tool has
been used; section 6 says what happens otherwise. Deadlock is not checked: in every
instance the system may come to rest (no more events to publish, Submit or Run
returned, a part at its bound).

## 4. Fairness

* `EventBus`: a goroutine that can take a step does (`WF` of each publisher, of
  Unsubscribe and of Close); `fanoutMu` is a `sync.Mutex`, whose starvation mode
  hands the lock to a waiter after a millisecond, hence `SF` of the two ways to
  take it in `stamp` and of the closing of the log. Consumers are *not* fair:
  `Draining` is a premise of `PublishReturns` and absent from the others.
* `RuntimeCore`: the drive goroutine, the goroutines inside session methods and
  the event loops keep running; ports return. The user owes nothing.
* `ToolCall` (`DispatchStep`, `HonouringReturns`): the dispatch goroutine takes its
  next step, and a tool *that honours its context* ends once the context is over.
  One that does not is never assumed to end, nor is the human assumed to answer.
* `MemoryListener` (`MemoryFairness`): the drain, the jobs and Close go on; a job
  returns. A retrieval and the publishing of events owe nothing.
* In the two instances that hold two parts, fairness is about the part under
  way; the other is at its beginning, where the steps named are disabled or
  guarded by `part`.
* `Orchestrator`: the loop and the turns keep running, an agent's Run returns, and
  time passes (`WF` of `Expire`, which exists only for roles with a timeout - the
  shipped configuration caps all of them at ten minutes). Agents may be silent for
  ever otherwise.

## 5. What is proved

Every theorem is for all values of the constants that meet the named assumptions
of its module (`BusAssumption`, `NobodyAssumption`, `RuntimeAssumption`,
`RollbackAssumption`, `OrchestratorAssumption`, `ToolAssumption` and so on). They
say that bounds are naturals, that model values are told apart, and in
`SessionStore` that `Absent` and `Torn` are no records (`NoneAssumption`), in
`DurableLog` that payloads are at most three levels deep (`PayloadAssumption`), in
`GoalPlan` that the classes of words are told apart as the tables of `classify.go`
tell them (`GoalAssumption`: a verb is neither a filler nor punctuation, "and" and
"then" are fillers) and in `PromptFit` that sizes are naturals, that the soft budget
is not zero and that nothing but the frame is of the system's kind (`FitAssumption`).
A hypothesis in the third column is one the code needs: without it the property is
false of the code, and section 6 shows how. Two entries are different. `TurnFits`
says that a reply with the most calls fits the history with the frame before it
(`MaxParallel + 2 <= MaxMessages`); `core.go` caps neither by the other, and a reply
larger than the history would lose its own head to the trim. `TypesAlwaysOK` reads
the types off the invariants of the parts and has their hypotheses for that reason
alone.

| theorem | states | hypothesis |
|---|---|---|
| *EventBusProofs* | | |
| `TypeCorrect`, `OneSenderPerGate`, `NeverPanics` | `[]TypeOK`, `[]GateExclusion`, `[]NoPanic` | |
| `FIFO` | `[]SeqOrder` | |
| `NoTicketStranded` | `[]NoStrandedTicket` | |
| `Durable`, `ClosedLogStays` | `[]DurableBeforeVisible`, `NoAppendAfterClose` | |
| `NoDeliveryVanishes` | `[]NothingSilent` | |
| *RuntimeCoreProofs* | | |
| `TypeCorrect`, `PromptAlwaysStands` | `[]TypeOK`, `[]PromptStands` | |
| `CancelAlwaysOwned` | `[]CancelIsOwned` | the disk does not fail |
| `ApprovedAlwaysByHuman` | `[]ApprovedByHuman` | no pause |
| `EndingsAlwaysAgree`, `TerminalAlwaysFinal`, `EndedAlwaysStill` | `[]EndingsAgree`, `TerminalIsFinal`, `EndedStaysStill` | one core, a user who waits for the registration, no pause |
| *ToolProofs* | | |
| `TypeCorrect` | `[]TypeOK` | |
| `VerifiedAlwaysKept`, `PatchAlwaysUndone`, `NoFileEverLost`, `FailedPatchAlwaysClean` | `VerifiedIsKept`, `PatchIsUndone`, `NoFileIsLost`, `FailedPatchLeavesTree` | `PatchIsLast` |
| *OrchestratorProofs* | | |
| `TypeCorrect`, `NobodyEverForgotten` | `[]TypeOK`, `[]NobodyIsForgotten` | |
| `GreenAlwaysEarned`, `NilAlwaysGreen` | `[]GreenIsEarned`, `[]NilMeansGreen` | |
| `RunImplementsBoard`, `OutcomesStay` | `ImplementsBoard`, `OutcomeIsFinal` | `Punctual` |
| *ScopeProofs* | | |
| `SearchAlwaysSound` | `[](SearchSound /\ SearchTypeOK)` | |
| *MCToolsProofs* | | |
| `BillAlwaysSound` | `[]CostsSound` | |
| `ChecksAlwaysSound` | `[]ChecksSound` | |
| `BrokenPassesByHashOnly` | `[]BrokenNeverPasses` of `VerifyPipeline` | `HashesApart` |
| `DispatchesAlwaysSound` | `[]DispatchesSound` | |
| `TurnsAlwaysSound` | `[]TurnsSound` | `TurnFits` |
| `ScopeAlwaysSound` | `[]ScopeSound` | |
| `WordsAlwaysSound` | `[]WordsSound` | |
| `DiskAlwaysSound` | `[]DiskSound` | no `SharedResume` |
| `TypesAlwaysOK` | `[]TypesOK` | no `SharedResume`, `TurnFits` |

None of the properties is inductive. What was added to make them so, and why:

**The bus.** `IInv` adds to `TypeOK`: `Tickets` - the tickets that publishers hold
at one gate are distinct and below the gate's counter; `InsideOK` - a publisher at
the select or before its leave holds the ticket being served and the gate knows
that someone is sending; `Closing` - a channel is closed only after its gate was
shut and its sender has left, and only one of Unsubscribe and Close gets to do it.
That a gate is never entered once shut and never closed while sending is then
enough for `NoPanic`. `InductiveInvariant` proves `IInv` with one step per action
of `Next`; lemmas about the gate operations (`AdvanceLemma`, `LeaveLemma`,
`AbandonLemma`, ...) keep the arithmetic of tickets out of them.

*FIFO.* `OrderInv` adds `Stamping` (who holds `fanoutMu` has the newest Seq),
`NoneHeld` (no tickets before the reservation), `Skips` (a skipped ticket was
handed out, and the gate does not serve one that was not), `TicketOrder` (a held
ticket is neither skipped nor past, and of two held at one gate the smaller has the
smaller Seq) and `Streams` (what was delivered is older than every envelope still
to be delivered there, and increasing). The crux is the reservation under
`fanoutMu`: the publisher that stamped last reserves last, so its ticket and its
Seq are both the largest.

*No stranded ticket* is inductive together with `OrderInv`: an open gate is
`Covered` by the tickets held at it, each operation that uses up a ticket leaves it
covered without that one, and a reservation adds a ticket and its holder in the
same step. *Durability*: an envelope past the append is in the log, and only the
last step of Close closes the log; by then the bus is closed, and `Stamp` looks at
that under `fanoutMu`. *No delivery vanishes* counts (`CountInv`): the three sets
are finite, a reservation adds to the tickets handed out what it adds to what is
owed, and a delivery stops being owed only for the stream or for a counter.

Gate operations that can leave one gate are written as one-element sets
(`Advance`), so that no proof needs a recursive definition of the loop over the
skipped tickets (`advanceLocked`).

**The runtime core.** `Typed` holds the types, the cap of the retries and what a
cascade holds back; `PromptStands` follows from where the pending call and the
prompt are set together. `OwnedInv` follows a cancel that came after the loop: an
event loop or the sweep of `settleCancel` has it until it is saved. `ApprovedInv`:
the approval flag, when set, is of the call at the head, because every way past
that call clears it - except a pause, which is the run `staleyes`. `EndInv`: one
ending in the map, on disk and announced. The second core that would overwrite it,
the early user and the pause that leaves DONE are the rows `TerminalIsFinal`,
`EndedStaysStill` and `TerminalStateIsFinal` of section 6.

**Rollback.** `UndoInv`: while a change is judged, every shadow copy under the name
that would be restored is of the file the change touched, and is that file as it
was before. `PatchIsLast` is what makes names fresh; corrections share names with
the tool's patch only after that one was undone. The run `shared_name` is the rest.

**The orchestrator.** `RunInv` = `Typed`, `Staged` (what a turn is for agrees with
what the todo has), `Batons` (of each todo at most one turn at work or one event
under way hands it on), `Earned` (an approval and a test are of the diff that is
kept while the baton lies past them), `Watched` and `NilMeansGreen`. One baton per
todo bounds the rework and lets no verdict about an older diff pass. `Punctual`
says that no turn fails after its event (no timeouts, no late errors); then a
failure under way is a baton too, a todo gets one outcome, and each step is a step
of `PlanBoard` or a stutter. The run `resurrected` is the rest.

**The satellites.** A step of `MCTools` belongs to the part under way
(`OneAtATime`), so the invariant of a part's own next-state relation is one of the
whole.

| part | invariant | what it adds |
|---|---|---|
| `CostLedger` | `LedgerInv` | one entry per task, every charge is on it, and a rung is announced, owed by one caller or published |
| `CostPublisher` | `PublisherInv` | every call is accounted for at the step of its accrual, a failed one with its cause |
| `UndoStack` | `StackInv` | both copies of the stack are dense, ascend and hold the entry their pointer names |
| `VerifyPipeline` | `WalkInv` | what the walk has established of the stages behind it |
| `ToolCall` | `DispatchInv` | dispatch, worker and human agree (`Gated`); `pending` has one entry per waiting call; what a command wrote is newer than its first snapshot, in its output, and from there in its Observation (`WorkInv`, `AnswersAre`) |
| `PlanRun` | `RunnerInv` | what is held at each step of the run; turns are under way only in its middle, and what one learned it has flushed, will flush, or has failed to |
| `ScopeControl` | `ScopeInv` | the phase in which a machine submits is reached by the step that earns it |
| `ScopeSearch` | `TreeInv` | a node is made by a move of one before it (`Grown`), its path has one child of each node above its end (`PathsClimb`), and its visits are its own and its children's (`VisitsAdd`) |
| `SessionStore` | `StoreInv` | whose claim a torn record is, what a holder of a session knows of its tasks, and that ids on disk are below the counters |
| `DurableLog` | `LogInv` | the pieces lie in the order of publication, what was acknowledged is whole and synced, what was applied is marked |
| `Conversation` | `TalkInv` | every result stands behind the reply that asked for it with only results of that reply between (`Heads`), and the calls that wait are calls of the last reply, none of them answered (`Open`) |
| `ShellRisk` | `LineInv` | a line is made of words; the rest is where the peeling of a segment stands after each word (`Peeled`), compared for two segments of which one is part of the other (`Follows`) |
| `GoalPlan` | `GoalIsKept` | a goal that is classified is a sequence of words that starts with one; the titles are the clauses of that goal |
| `PromptFit` | `FitIsKept` | the frame is gathered once; the package is what the walk keeps of what was gathered (`PackageIsBuilt`), and the prompt one of the four ways in which the package can be cut (`PromptIsCut`) |
| `MemoryListener` | `MemoryInv` | the drain ends on a closed, empty channel, and a job comes from an event that was delivered |

The types of all of them (`TypesAlwaysOK`) follow from these invariants with a bound
or a name added where one was missing: `StackFits`, `IdsFit`, `EntriesMade`, `StageNamed`,
`FitInv`.

Bounds of the satellites (lives, callers, counts, events, files, the budget of the
search) are constants of the theorems.

*Induction over data.* The library's induction theorems take an operator as a
parameter, which the provers cannot instantiate. `WordsProofs` starts from the
library's well-founded order of the naturals instead, which is a set, and gets from
it what the algorithms over sequences need: `NatSet` (a set of numbers that has 0
and the successor of each member has them all), `StepsExist` (a function that is
given by its first value and its steps exists) and `StepsReach` (what every step
keeps holds after all of them). A recursive function of a module is an instance of
`Takes`, and a claim about it a family of sets, one for each position.

The parts that only compute have short invariants and long lemmas. *A goal:* what
the planner cuts and the router counts are pieces of one text (`Splitting`); joined
again they say the text without the words at the cuts (`PiecesSay`), so no word is
lost. The two cut at different places and drop different openings; `Aligned` says
where they agree: a clause is work exactly when the router counted it
(`RouterCutsAre`), in a text without ";" and "then" both cut alike (`SameCuts`), and
what stands in front, the polite opening, is worth one clause at most
(`RestCounted`). `RoutedRight` asks for three verbs *behind* that opening, which is
where the router counts. *A prompt:* `Walks` is the state of the packing after each
offer; `Counts` says at each that what is packed weighs what the counter says and
stays within the budget unless one part is all of it; `FirstPass` and `WalkKeeps`
make the packed head of a kind the one that the first pass offered, and `LeftOut`
compares the counter at the offer that was refused with the heads that are in the
package. For the cuts, `Trimming` says what is left of a group and `Applying` in
which four ways the fitting ends; `CutsTold` and `CutsNeeded` read the properties
off them, case by case.

*Only model-checked.* Every invariant and every action property that a passing run
checks is stated by a theorem, and so is the refinement of `PlanBoard`. Liveness
stays with TLC for good: the prover does not reason about fairness and ENABLED.
Proofs about one specification at a time say nothing of two that interact; the
composed instances (`bus_live`, `core_live`) are TLC's as well.

## 6. Where the code and its comments part

Four runs end in a counterexample; PROJECT.json quotes the comments.

* `headofline`: a stalled subscriber blocks publishers that do not target it.
  A publisher parked there holds tickets at the gates after it, and those gates
  serve in ticket order. In the run subscriber 1 takes only `tool.call` and stalls;
  a `tool.call` is parked there, and a `tool.result`, which goes to subscriber 2
  alone, waits behind its ticket for ever.
* `staleyes`: a yes outlives its prompt. Approve, then pause before the dispatch,
  then resume: the task plans afresh and the first gated call runs unasked.
* `shared_name`: all patch tool calls of a task share the checkpoint `patch_1`;
  undoing the second undoes the first.
* `resurrected`: an event that was under way when its turn timed out takes the
  todo from Failed back to work and to Done.

Further divergences are stated as properties of the modules and can be reproduced
by changing the named constants in a configuration of the module; they have no
run of their own.

| property | module, constants to change | what the code does |
|---|---|---|
| `TerminalStateIsFinal` | `RuntimeCore`: `Kinds <- PauseOnly` | `fsm.go:38` says DONE admits no transition; the wildcard row lets a pause leave it, and a resume revives the task |
| `ExitsAtTheEnd` | `RuntimeCore`: `Gated <- Nobody`, `Kinds <- Nobody`, nothing fails | a rejected corrective patch fires `verify_fail_replan` in PATCH, which has no such edge (`core.go:673`); Submit returns in the middle, without an ending |
| `SweptIsDurable`, `CancelledIsOnDisk` | `RuntimeCore`: `Kinds <- JustCancel` | Submit may return while the event loop still holds the cancel; a call that failed because of the cancel may record FAILED |
| `AbortIsAnnounced` | `RuntimeCore`: `CostCap = TRUE` | an abort cancels the task's own context and publishes under it, so the announcement may be lost |
| `TerminalIsFinal` | `RuntimeCore`: `Peers <- OnePeer`, `Kinds <- JustCancel` | the event loop of another core on the same manager applies the cancel too and may overwrite DONE between its check and its write |
| `EndedStaysStill` | `RuntimeCore`: `EarlyUser = TRUE` | a cancel before Submit has registered the task is written as an ending, and the task is then driven |
| `NoFileIsLost` | `Rollback`: `Paths <- JustNew`, `Existing <- NoFiles`, `MaxToolPatches = 2`, `PatchIsLast = FALSE` | the sentinel of the first patch makes the undoing of the second delete the file |
| `VerifiedIsKept` | `Rollback`: `Paths <- JustOld`, `PatchIsLast = FALSE` | `h.ckptName` is never cleared, so a later failing edit restores the checkpoint of an earlier patch |
| `TurnsAreSerialized` | `Orchestrator`: `MaxTodo = 2`, nothing fails | an agent that has delivered its event is still in Run when its successor starts (`seam.go:47` says the turns are serialized) |
| `TimeoutMeansSilence` | `Orchestrator`: `MaxTodo = 1`, `Capped = {"coder"}` | a turn that answered in time is reported as timed out when the loop has not taken its event yet |

The same of the satellites, all in the instance `parts_safety` with the property as an
INVARIANT and `Parts` reduced to the one part:

| property | module | what the code does |
|---|---|---|
| `AckedSurvive` | `DurableLog` | `log.go:273-275` says that "truncated" comes with the records that did survive; the decoder takes the record behind a fragment that was cut after ":" or "[" for a nested value, and an fsynced last record is not among them |
| `CrashStaysReadable` | `DurableLog` | `log.go:273-275` says that a crash leaves a torn record only at the end; OpenLog appends behind it, and the next Replay stops with an error in the middle |
| `StartedIsListed` with `SharedResume = TRUE` | `SessionStore` | two live processes that hold one session replace each other's listing; a task whose StartTask returned nil is listed nowhere |
| `LossIsAnnounced` | `MemoryListener` | `listener.go:156-170` says that a preference is not dropped in silence; the TryPublish that announces the failed save fails on a bus that has closed, which is when the drain takes what is left, and its error is dropped |
| `KilledWritesAreReported` | `ToolCall` | `bash.go:84-86` says that what a killed command wrote "is exactly the state a verifier needs to see"; the tool's output names it, and on an error Dispatch returns `obsErr`, which names no file (`engine.go:161-164`, `296`) |
| `BrokenNeverPasses` | `VerifyPipeline` | the key is a 32-bit hash, and `cache.go:42-46` accepts that a collision is "a stale result masking a break"; where no two texts of a file collide it holds (`BrokenPassesByHashOnly`) |
| `LearnedIsKept` | `PlanRun` | `coord_runner.go:95-97` says that a plan keeps what the completed todos learned; `flushMemory` prints the error of a failed flush (`309-311`), and nothing retries or reports it |
| `IndexIsCurrent` | `MemoryListener` | each patch starts a reindex of its own; the older one may finish last and stay |
| `AgentsIsCurrent` | `MemoryListener` | the stale mark of AGENTS.md is cleared after a read made without the lock, and takes a newer invalidation with it (`repo.go:69`) |
| `StopDrains` | `CostPublisher` | Stop says it waits for the goroutine to drain; the goroutine's select may take the closing of its done channel first and leave results in the channel, uncounted |
| `ParkedIsAnswered` | `PlanRun` | `coord_runner.go:347-351` says that a refuse-on-stall watcher of the plan runner answers a call nobody is there to approve; there is none, and the call waits until the context of its turn ends |
| `GoalReaches` | `Conversation`; `TalkSpec`, one goal, one tool, `CallIds = {0}`, `MaxMessages = 7`, `MaxTurns = 9`, `MaxParallel = 2`, `MaxReflections = 0` | `core.go:326-328` says that the goal must reach the model; `mergePrompt` asks whether the transcript has it before it appends the rest and trims afterwards (`core.go:331-339`), so that the trim of the seventh turn may cut the goal it found |
| `UsedIsSent`, `ReplyHasRoom` | `PromptFit` | the published figure is not the length of what is sent, and the room `budget.go:2` reserves for the reply may be used up by the prompt |

Seen while modelling, without a property of their own:

* A new life counts Seqs from 0, so a subscriber that replays a file of two lives
  through one `Dedup` drops the second life's records as seen.
* `resume.go:52` turns RUNNING into PAUSED, and no code writes RUNNING.
* When the infrastructure fails to start, `plan_runner.go:44` returns with the bus
  open (`NothingLeft` says so).
* No workflow machine has a phase called PLAN, so the workflow never changes a
  PLAN turn (`PlanIsUnadvised`); `Exit`, `RecordPatch` and `LoopGuard` of the scope
  controller have no caller, so its stack of levels only grows.
* The router counts the clauses that ";" and "then" separate, the planner does not
  split at them (the exception in `ClausesAreTodos`).
* `reflection.go` says the reflection's note informs the next prompt; nothing
  passes it on. The result of a corrective patch is never recorded, although the
  comment at `core.go:460-462` says that it consumes a slot.
* The turns of the conversation are called newest-first and are in the order of
  their score; a file named with @ may be trimmed like any other.

## 7. Hazards without a property

Three of the list in PROJECT.json are covered by no run: the rejected corrective
patch (`core.go:673`), the invalidation lost during a read (`repo.go:69`) and the
sentinel left beside a later copy (`checkpointer_adapter.go:82`). For each a property
states what should hold, it does not, and section 6 says how to see it. The notes of
other hazards name the half that no run covers: a log that was reopened behind a torn
record, or whose last record a fragment swallows; Seqs across lives; a full command
queue; a second core on one manager; a preference lost to a closed bus; what a killed
command wrote; texts with one hash; a flush that fails; a conflict at the merge;
reindexes out of order; tools that ignore their context.

## 8. Not modelled

* Text: prompts, diffs, SEARCH/REPLACE matching, the words of a plan, rendering.
  The models keep the decision (accepted or refused, ok or not). `diff.go` and the
  block parser compare characters, which is all they do.
* Language models, shells, compilers, tests: free answers of ports. The provider
  clients (HTTP, SSE, retries inside one request) are I/O.
* Infrastructure (configuration, secrets, telemetry) and the front ends (folding
  events into a view, keys into `user.*` events): I/O and layout around the other
  parts. In `RuntimeCore` the user is the environment.
* Code that nothing calls in production: `infra.Cost`, `coord/cost.go`,
  `coord/planner.go`, the rate limiter, `ReflectMulti` and `RerankCandidates`. The
  tree search of the scope package is not called either, but is a closed algorithm
  and is modelled.
* Wall-clock time: a deadline is an event that may happen while its turn lives.
* Go's memory model: every access the models merge into one action is under a
  mutex, an atomic or a channel in the code.
* Failures inside a restore, and the merge's own patch: one path per patch.
* In `RuntimeCore`, several tasks of one core. They share the maps but no field of
  the handle; what they do share, the session manager, is reached by the Peers.
* The retries around a rename that Windows needs (`lock_windows.go`), and the cost
  roll-up of a session.

PROJECT.json maps each definition to the lines it stands for; a function's own doc
comment is part of its lines.

## 9. Plan

1. An abstract bus (per-subscriber FIFO with counted drops) that `EventBus` refines:
   `OrderInv` and `CountInv` of its proofs are what the steps need. Then to be used
   under `RuntimeCore`, `MemoryListener` and `CostPublisher` instead of their
   channels.
2. Of the parts named "partly" in PROJECT.json, the merge of the plan's diffs (several
   paths per patch) and the session's cost roll-up.
3. `DurableLog` composed with the Append of `EventBus`; a coder turn of
   `Orchestrator` with the task life cycle of `RuntimeCore` inside.
