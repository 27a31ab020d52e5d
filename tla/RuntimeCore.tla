---------------------------- MODULE RuntimeCore ----------------------------
(***************************************************************************)
(* One task of the runtime: internal/runtime (the transition table of      *)
(* fsm.go and the drive loop, the user-event loop and the cancel handoff   *)
(* of core.go) together with the session record it ends in                 *)
(* (internal/session: StartTask, CompleteTask, Fail, Cancel).              *)
(*                                                                         *)
(* Three kinds of goroutine meet here:                                     *)
(*   - Driver, the goroutine inside Core.Submit, which owns the FSM;       *)
(*   - Owner, the userEventLoop of the same Core, which routes the user's  *)
(*     commands and fires the context cascade of a cancel;                 *)
(*   - Peers, the userEventLoops of other Cores that share the session     *)
(*     Manager (cmd/yolo/coord_runner.go makes one Core per todo and they  *)
(*     all listen to one bus): a cancel reaches them too, and none of them *)
(*     has this task in its map.                                           *)
(*                                                                         *)
(* The layers the loop calls through ports (context builder, planner,      *)
(* executor, verifier, patcher, reflection, cost ledger) are choices: each *)
(* call may give any answer the arm tells apart.  A tool call is a member  *)
(* of Calls, planned at most once (Calls bounds the plan); Gated are those *)
(* the Executor wants approved.  Not modelled: the rollback that goes with *)
(* a failed verify (module Rollback), scope and workflow advice, the       *)
(* conversation history, and state.change and error events.                *)
(***************************************************************************)
EXTENDS Naturals, Sequences, FiniteSets, Functions

CONSTANTS
    Calls,            \* the tool calls a planner may emit
    Gated,            \* those that need a human's approval
    Correction,       \* the corrective patch a reflection may ask for
    Driver,           \* the goroutine in Submit
    Owner,            \* the userEventLoop of the Core that runs the task
    Peers,            \* the userEventLoops of other Cores on the same Manager
    Kinds,            \* the commands the user gives in this instance
    MaxUser,          \* bound: how many of them
    MaxTurn,          \* bound: tool calls in one planner turn
    QueueCap,         \* capacity of the task's command channel (16 in the code)
    MaxVerifyRetries, \* maxVerifyRetries (3 in the code)
    HardErrors,       \* may a port fail while the context is live?
    CostCap,          \* may the cost ledger report a hard cap?
    DiskFails,        \* may a session write fail?
    MayQuit,          \* may the parent context of Submit be cancelled?
    EarlyUser         \* may the user act before Submit registered the task?

Loops == {Owner} \union Peers
Procs == Loops \union {Driver}

ASSUME RuntimeAssumption ==
    /\ IsFiniteSet(Calls) /\ Gated \subseteq Calls /\ Correction \notin Calls
    /\ Owner \notin Peers /\ Driver \notin Loops
    /\ Kinds \subseteq {"approve", "reject", "pause", "resume", "cancel"}
    /\ MaxUser \in Nat /\ MaxTurn \in Nat
    /\ QueueCap \in Nat \ {0} /\ MaxVerifyRetries \in Nat
    /\ {HardErrors, CostCap, DiskFails, MayQuit, EarlyUser} \subseteq BOOLEAN

VARIABLES
    \* The handle's fields that belong to the drive goroutine.
    fsm,         \* h.fsm
    pending,     \* h.pending
    approved,    \* h.approved
    prompts,     \* the calls asked about so far; Len(prompts) is h.approvals
    approvalID,  \* h.approvalID: a position in prompts, 0 for ""
    retries,     \* h.retries
    pc,          \* where Submit is
    cancelled,   \* settleCancel's local: the context was dead at the sweep
    \* What the goroutines share.
    handle,      \* none, attached (cancel func), driving, returned
    ctx,         \* the task's context: live, dead
    events,      \* h.events
    mail,        \* per loop: the user.* envelopes waiting for it
    routing,     \* the loops between CancelSignal and the driving check
    \* The session record.
    mem,         \* Status in the Manager's map
    disk,        \* Status in the store
    call,        \* per goroutine: the Manager method it is inside
    told,        \* the task.* endings delivered on the bus, in order
    \* History: what the environment did and what the task ran.
    planned,     \* calls the planner has emitted
    ran,         \* calls dispatched, and Correction once a patch is applied
    yes,         \* prompts the user approved
    posted       \* commands the user gave

taskVars == <<fsm, pending, approved, prompts, approvalID, retries>>
subVars  == <<pc, cancelled>>
sharedVars == <<handle, ctx, events>>
loopVars == <<mail, routing>>
recVars  == <<mem, disk, call, told>>
histVars == <<planned, ran, yes, posted>>
vars == <<taskVars, subVars, sharedVars, loopVars, recVars, histVars>>

----------------------------------------------------------------------------
(* The transition table.                                                   *)

States == {"INIT", "LOAD_SESSION", "LOAD_CONTEXT", "PLAN", "EXECUTE",
           "WAIT_TOOL", "VERIFY", "PATCH", "DONE", "PAUSED", "CANCELLED",
           "ERROR", "WAIT_USER"}

Edge(from, sig, to) == [from |-> from, sig |-> sig, to |-> to]

\* transitionTable: T1-T22, "*" is StateAny.
Edges ==
    { Edge("INIT",         "start_task",         "LOAD_SESSION"),
      Edge("LOAD_SESSION", "session_loaded",     "LOAD_CONTEXT"),
      Edge("LOAD_CONTEXT", "context_built",      "PLAN"),
      Edge("PLAN",         "planner_answer",     "DONE"),
      Edge("PLAN",         "planner_tool_call",  "EXECUTE"),
      Edge("EXECUTE",      "needs_approval",     "WAIT_USER"),
      Edge("EXECUTE",      "dispatched",         "WAIT_TOOL"),
      Edge("WAIT_USER",    "user_approve",       "EXECUTE"),
      Edge("WAIT_USER",    "user_reject",        "CANCELLED"),
      Edge("WAIT_TOOL",    "observation",        "VERIFY"),
      Edge("VERIFY",       "verify_pass_more",   "PLAN"),
      Edge("VERIFY",       "verify_pass_done",   "DONE"),
      Edge("VERIFY",       "verify_fail_patch",  "PATCH"),
      Edge("VERIFY",       "verify_fail_replan", "PLAN"),
      Edge("PATCH",        "patch_applied",      "VERIFY"),
      Edge("*",            "user_pause",         "PAUSED"),
      Edge("PAUSED",       "user_resume",        "LOAD_CONTEXT"),
      Edge("*",            "user_cancel",        "CANCELLED"),
      Edge("*",            "hard_error",         "ERROR"),
      Edge("ERROR",        "user_ack_error",     "INIT"),
      Edge("EXECUTE",      "turn_done",          "PLAN"),
      Edge("VERIFY",       "verify_pass_drain",  "EXECUTE") }

\* The edges of one state's own row set.
Row(s, sig) == {e.to : e \in {x \in Edges : x.from = s /\ x.sig = sig}}

\* lookup: a specific edge wins over the wildcard; {} is ErrNoTransition.
Lookup(s, sig) == IF Row(s, sig) # {} THEN Row(s, sig) ELSE Row("*", sig)

\* A transition whose error makes the drive loop return bare.
Fires(sig, next) ==
    \/ /\ fsm' \in Lookup(fsm, sig)
       /\ pc' = next
    \/ /\ Lookup(fsm, sig) = {}
       /\ fsm' = fsm
       /\ pc' = "settle"

\* A transition whose error is ignored.
Lands(sig) == fsm' \in IF Lookup(fsm, sig) = {} THEN {fsm} ELSE Lookup(fsm, sig)

----------------------------------------------------------------------------
(* The session Manager's endings: each is a few critical sections with the *)
(* store write and the publish outside the lock.                           *)

Terminal == {"DONE", "FAILED", "CANCELLED"}
Outcome  == [cancel |-> "CANCELLED", complete |-> "DONE", fail |-> "FAILED"]

NoCall == [op |-> "none", at |-> "none", bg |-> TRUE]
Idle(p) == call[p] = NoCall

\* Cancel reads the status first; CompleteTask and Fail begin at their write.
\* bg: the caller passed a background context, not the task's own.
Enters(p, op, bg) ==
    call' = [call EXCEPT ![p] =
        [op |-> op, at |-> IF op = "cancel" THEN "check" ELSE "mark", bg |-> bg]]
Leaves(p) == call' = [call EXCEPT ![p] = NoCall]
GoesTo(p, at) == call' = [call EXCEPT ![p].at = at]

\* CancelSignal: a no-op until the cancel function is attached.
CancelSignal == ctx' = IF handle = "none" THEN ctx ELSE "dead"

\* Mutant: a cancel with no terminal test.
AnyCancellable == TRUE

\* Cancel refuses a task that has ended.
Cancellable == mem \notin Terminal

\* Cancel: the lock is released after the test, then step 1 cascades.
CancelCheck(p) ==
    /\ call[p].at = "check"
    /\ \/ /\ ~Cancellable
          /\ Leaves(p)
          /\ UNCHANGED ctx
       \/ /\ Cancellable
          /\ CancelSignal
          /\ GoesTo(p, "mark")
    /\ UNCHANGED <<taskVars, subVars, handle, events, loopVars, mem, disk, told, histVars>>

\* What may be marked: only Fail tests the status under the lock that writes
\* it; CompleteTask has no test, Cancel made its own earlier.
MayMark(op) == op = "fail" => mem \notin Terminal

\* The status write and the clone that will be saved.
Mark(p) ==
    /\ call[p].at = "mark"
    /\ \/ /\ MayMark(call[p].op)
          /\ mem' = Outcome[call[p].op]
          /\ GoesTo(p, "save")
       \/ /\ ~MayMark(call[p].op)
          /\ Leaves(p)
          /\ UNCHANGED mem
    /\ UNCHANGED <<taskVars, subVars, sharedVars, loopVars, disk, told, histVars>>

\* Mutant: a store write whose error nobody reads.
SaveUnchecked(p) ==
    /\ call[p].at = "save"
    /\ \/ disk' = Outcome[call[p].op]
       \/ DiskFails /\ UNCHANGED disk
    /\ GoesTo(p, "tell")
    /\ UNCHANGED <<taskVars, subVars, sharedVars, loopVars, mem, told, histVars>>

\* SaveTask; a failed write returns before the publish.
Save(p) ==
    /\ call[p].at = "save"
    /\ \/ /\ disk' = Outcome[call[p].op]
          /\ GoesTo(p, "tell")
       \/ /\ DiskFails
          /\ Leaves(p)
          /\ UNCHANGED disk
    /\ UNCHANGED <<taskVars, subVars, sharedVars, loopVars, mem, told, histVars>>

\* Publish: under a dead context the bus's select may take either arm, so the
\* event may be lost.
Tell(p) ==
    /\ call[p].at = "tell"
    /\ \/ told' = Append(told, Outcome[call[p].op])
       \/ /\ ~call[p].bg /\ ctx = "dead"
          /\ UNCHANGED told
    /\ Leaves(p)
    /\ UNCHANGED <<taskVars, subVars, sharedVars, loopVars, mem, disk, histVars>>

SessionStep(p) == CancelCheck(p) \/ Mark(p) \/ Save(p) \/ Tell(p)

----------------------------------------------------------------------------
(* Submit.                                                                 *)

Init ==
    /\ fsm = "INIT" /\ pending = <<>> /\ approved = FALSE /\ prompts = <<>>
    /\ approvalID = 0 /\ retries = 0
    /\ pc = "submit" /\ cancelled = FALSE
    /\ handle = "none" /\ ctx = "live" /\ events = <<>>
    /\ mail = [l \in Loops |-> <<>>] /\ routing = {}
    /\ mem = "none" /\ disk = "none" /\ told = <<>>
    /\ call = [p \in Procs |-> NoCall]
    /\ planned = {} /\ ran = {} /\ yes = {} /\ posted = 0

\* StartTask: the record is created PENDING and announced; when the session
\* write or the announcement fails Submit returns and nobody drives the task.
StartTask ==
    /\ pc = "submit"
    /\ mem' = "PENDING" /\ disk' = "PENDING"
    /\ \/ pc' = "attach"
       \/ DiskFails /\ pc' = "failed"
    /\ UNCHANGED <<taskVars, cancelled, sharedVars, loopVars, call, told, histVars>>

\* AttachCancel.
Attach ==
    /\ pc = "attach"
    /\ handle' = "attached"
    /\ pc' = "register"
    /\ UNCHANGED <<taskVars, cancelled, ctx, events, loopVars, recVars, histVars>>

\* The handle enters Core.tasks with driving set.
Register ==
    /\ pc = "register"
    /\ handle' = "driving"
    /\ pc' = "top"
    /\ UNCHANGED <<taskVars, cancelled, ctx, events, loopVars, recVars, histVars>>

\* Mutant: Submit returns without the sweep.
SettleNoSweep ==
    /\ pc = "settle" /\ Idle(Driver)
    /\ cancelled' = (ctx = "dead")
    /\ handle' = "returned"
    /\ pc' = "returned"
    /\ UNCHANGED <<taskVars, ctx, events, loopVars, recVars, histVars>>

\* settleCancel: clear driving and read the context under one lock.
Settle ==
    /\ pc = "settle" /\ Idle(Driver)
    /\ cancelled' = (ctx = "dead")
    /\ handle' = "returned"
    /\ IF ctx = "dead" THEN Enters(Driver, "cancel", TRUE) ELSE UNCHANGED call
    /\ pc' = "returned"
    /\ UNCHANGED <<taskVars, ctx, events, loopVars, mem, disk, told, histVars>>

\* Submit is back in its caller.
Returned == pc = "returned" /\ Idle(Driver)

----------------------------------------------------------------------------
(* User commands, applied on the drive goroutine.                          *)

SigOf == [approve |-> "user_approve", reject |-> "user_reject",
          pause |-> "user_pause", resume |-> "user_resume", cancel |-> "user_cancel"]

\* Mutant: the id is compared before the counter moved.
AnswersPreviousPrompt(c) ==
    /\ approvalID # 0
    /\ c.id + 1 = approvalID

\* answersOutstandingPrompt: a blank id only denies.
AnswersOutstandingPrompt(c) ==
    /\ approvalID # 0
    /\ c.id = approvalID \/ (c.id = 0 /\ c.kind = "reject")

\* A verdict that answers no outstanding prompt (rejectStaleVerdict asks the
\* same question again) or a command the FSM has no edge for is dropped.
Dropped(c) ==
    \/ c.kind \in {"approve", "reject"} /\ ~AnswersOutstandingPrompt(c)
    \/ Lookup(fsm, SigOf[c.kind]) = {}

\* applyUserCmd: any accepted command clears the prompt.
ApplyUserCmd(c) ==
    \/ /\ Dropped(c)
       /\ UNCHANGED <<taskVars, call>>
    \/ /\ ~Dropped(c)
       /\ fsm' \in Lookup(fsm, SigOf[c.kind])
       /\ approvalID' = 0
       /\ approved' = (approved \/ c.kind = "approve")
       /\ IF c.kind \in {"reject", "cancel"}
          THEN Enters(Driver, "cancel", TRUE)
          ELSE UNCHANGED call
       /\ UNCHANGED <<pending, prompts, retries>>

----------------------------------------------------------------------------
(* drive: the top of the loop, then one action per state.                  *)

\* ctx.Err first, then drainUserEvents: at most one queued command.
Top ==
    /\ pc = "top" /\ Idle(Driver)
    /\ \/ /\ ctx = "dead"
          /\ Enters(Driver, "cancel", TRUE)
          /\ pc' = "settle"
          /\ UNCHANGED <<taskVars, events>>
       \/ /\ ctx = "live" /\ events = <<>>
          /\ pc' = "arm"
          /\ UNCHANGED <<taskVars, events, call>>
       \/ /\ ctx = "live" /\ events # <<>>
          /\ ApplyUserCmd(Head(events))
          /\ events' = Tail(events)
          /\ pc' = "arm"
    /\ UNCHANGED <<cancelled, handle, ctx, loopVars, mem, disk, told, histVars>>

\* The loop is in the case of state s, no Manager call of its own in progress.
In(s) == pc = "arm" /\ Idle(Driver) /\ fsm = s

\* What no case of the loop touches.
ArmFrame == UNCHANGED <<cancelled, sharedVars, loopVars, mem, disk, told, yes, posted>>

\* The rest of the handle, for cases that only move the FSM.
QueueVars == <<pending, approved, prompts, approvalID, retries>>

\* A port call that fails: always possible under a dead context.
PortError == HardErrors \/ ctx = "dead"

\* toError: the FSM lands on ERROR if it can, FAILED is recorded regardless.
ToError ==
    /\ Lands("hard_error")
    /\ Enters(Driver, "fail", TRUE)
    /\ pc' = "settle"

\* An error of Think or Dispatch under a dead context is a cancellation.
CancelOrError ==
    \/ /\ ctx = "dead"
       /\ Enters(Driver, "cancel", TRUE)
       /\ pc' = "settle"
       /\ fsm' = fsm
    \/ /\ ctx = "live"
       /\ ToError

\* The loop gives the task up: abortOverBudget, the retry cap, a reflection's
\* abort.  Cancel is handed the task's own context.
GivesUp ==
    /\ Lands("user_cancel")
    /\ Enters(Driver, "cancel", FALSE)
    /\ pc' = "settle"

\* INIT, LOAD_SESSION and WAIT_TOOL only advance.
Advances ==
    /\ \/ In("INIT") /\ Fires("start_task", "top")
       \/ In("LOAD_SESSION") /\ Fires("session_loaded", "top")
       \/ In("WAIT_TOOL") /\ Fires("observation", "top")
    /\ UNCHANGED <<QueueVars, call, planned, ran>> /\ ArmFrame

LoadContext ==
    /\ In("LOAD_CONTEXT")
    /\ \/ PortError /\ ToError
       \/ Fires("context_built", "top") /\ UNCHANGED call
    /\ UNCHANGED <<QueueVars, planned, ran>> /\ ArmFrame

\* The queues of fresh calls a planner turn may hand over; it may be empty
\* (every call of the turn refused).
Turns == UNION {Injection(1..n, Calls \ planned) : n \in 0..MaxTurn}

Plan ==
    /\ In("PLAN")
    /\ \/ /\ \/ CostCap /\ GivesUp
             \/ PortError /\ CancelOrError
             \/ /\ Fires("planner_answer", "settle")
                /\ Enters(Driver, "complete", FALSE)
          /\ UNCHANGED <<pending, planned>>
       \/ \E turn \in Turns :
             /\ pending' = turn
             /\ planned' = planned \union Range(turn)
             /\ Fires("planner_tool_call", "top")
             /\ UNCHANGED call
    /\ UNCHANGED <<approved, prompts, approvalID, retries, ran>> /\ ArmFrame

\* EXECUTE's approval question.
NeedsApproval(c) == c \in Gated /\ ~approved

\* Mutant: a park that asks nobody.
ParkSilently ==
    /\ Fires("needs_approval", "top")
    /\ UNCHANGED <<prompts, approvalID, pending, approved, call, ran>>

\* publishApprovalRequest, and the park.
AskApproval ==
    /\ Fires("needs_approval", "top")
    /\ prompts' = Append(prompts, Head(pending))
    /\ approvalID' = Len(prompts) + 1
    /\ UNCHANGED <<pending, approved, call, ran>>

\* Mutant: a dispatch that forgets to reset the flag.
DispatchKeepYes ==
    /\ approved' = approved
    /\ ran' = ran \union {Head(pending)}
    /\ \/ /\ PortError /\ CancelOrError
          /\ UNCHANGED pending
       \/ /\ pending' = Tail(pending)
          /\ Fires("dispatched", "top")
          /\ UNCHANGED call
    /\ UNCHANGED <<prompts, approvalID>>

\* The flag is consumed by the dispatch, whatever the dispatch returns.
Dispatch ==
    /\ approved' = FALSE
    /\ ran' = ran \union {Head(pending)}
    /\ \/ /\ PortError /\ CancelOrError
          /\ UNCHANGED pending
       \/ /\ pending' = Tail(pending)
          /\ Fires("dispatched", "top")
          /\ UNCHANGED call
    /\ UNCHANGED <<prompts, approvalID>>

Execute ==
    /\ In("EXECUTE")
    /\ \/ /\ pending = <<>>
          /\ Fires("turn_done", "top")
          /\ UNCHANGED <<pending, approved, prompts, approvalID, call, ran>>
       \/ /\ pending # <<>>
          /\ CostCap /\ GivesUp
          /\ UNCHANGED <<pending, approved, prompts, approvalID, ran>>
       \/ /\ pending # <<>>
          /\ NeedsApproval(Head(pending))
          /\ AskApproval
       \/ /\ pending # <<>>
          /\ ~NeedsApproval(Head(pending))
          /\ Dispatch
    /\ UNCHANGED <<retries, planned>> /\ ArmFrame

\* A failing verdict goes to Reflect: abort, replan (a corrective patch outside
\* the failing change is refused and replans too), or the correction.
Reflect ==
    \/ GivesUp /\ UNCHANGED pending
    \/ Fires("verify_fail_replan", "top") /\ UNCHANGED <<pending, call>>
    \/ /\ pending' = <<Correction>>
       /\ Fires("verify_fail_patch", "top")
       /\ UNCHANGED call

\* A pass drains the queue first; HasMore decides between PLAN and DONE.
Passed ==
    /\ \/ pending # <<>> /\ Fires("verify_pass_drain", "top") /\ UNCHANGED call
       \/ pending = <<>> /\ Fires("verify_pass_more", "top") /\ UNCHANGED call
       \/ /\ pending = <<>>
          /\ Fires("verify_pass_done", "top")
          /\ Enters(Driver, "complete", FALSE)
    /\ UNCHANGED pending

\* VERIFY does not look at the context: an error is an error.
Verify ==
    /\ In("VERIFY")
    /\ \/ PortError /\ ToError /\ UNCHANGED pending
       \/ Reflect
       \/ Passed
    /\ UNCHANGED <<approved, prompts, approvalID, retries, planned, ran>> /\ ArmFrame

\* PATCH: the retry cap, then the only write that asks nobody.  VERIFY is the
\* only way in, so the queue is never empty and the target is in scope.  The
\* error may come before the write or, when nothing names a file the patch
\* touched, after it.
Patch ==
    /\ In("PATCH")
    /\ retries' = retries + 1
    /\ \/ /\ retries' > MaxVerifyRetries
          /\ GivesUp
          /\ UNCHANGED <<pending, ran>>
       \/ /\ retries' <= MaxVerifyRetries
          /\ PortError /\ ToError
          /\ ran' \in {ran, ran \union {Correction}}
          /\ UNCHANGED pending
       \/ /\ retries' <= MaxVerifyRetries
          /\ Fires("verify_fail_replan", "top")      \* the patch was rejected
          /\ UNCHANGED <<pending, ran, call>>
       \/ /\ retries' <= MaxVerifyRetries
          /\ ran' = ran \union {Correction}
          /\ pending' = <<>>
          /\ Fires("patch_applied", "top")
          /\ UNCHANGED call
    /\ UNCHANGED <<approved, prompts, approvalID, planned>> /\ ArmFrame

\* Mutant: a park with no context arm.
WaitForCommand ==
    /\ In("WAIT_USER") \/ In("PAUSED")
    /\ events # <<>>
    /\ ApplyUserCmd(Head(events))
    /\ events' = Tail(events)
    /\ pc' = "top"
    /\ UNCHANGED <<cancelled, handle, ctx, loopVars, mem, disk, told, histVars>>

\* WAIT_USER and PAUSED: the select on the command channel and the context.
Wait ==
    /\ In("WAIT_USER") \/ In("PAUSED")
    /\ \/ /\ events # <<>>
          /\ ApplyUserCmd(Head(events))
          /\ events' = Tail(events)
          /\ pc' = "top"
       \/ /\ ctx = "dead"
          /\ Lands("user_cancel")
          /\ Enters(Driver, "cancel", TRUE)
          /\ pc' = "settle"
          /\ UNCHANGED <<QueueVars, events>>
    /\ UNCHANGED <<cancelled, handle, ctx, loopVars, mem, disk, told, histVars>>

\* DONE and CANCELLED.
Stop ==
    /\ In("DONE") \/ In("CANCELLED")
    /\ pc' = "settle"
    /\ UNCHANGED <<taskVars, call, planned, ran>> /\ ArmFrame

Drive ==
    \/ StartTask \/ Attach \/ Register \/ Top \/ Advances \/ LoadContext \/ Plan
    \/ Execute \/ Verify \/ Patch \/ Wait \/ Stop \/ Settle

----------------------------------------------------------------------------
(* userEventLoop.                                                          *)

\* Mutant: a channel with no capacity.
SendUnbounded(l, c) ==
    events' = IF l = Owner /\ handle \in {"driving", "returned"}
              THEN Append(events, c) ELSE events

\* sendUserCmd: dropped when the task is not in this Core's map, or when its
\* channel is full.
SendUserCmd(l, c) ==
    events' = IF /\ l = Owner
                 /\ handle \in {"driving", "returned"}
                 /\ Len(events) < QueueCap
              THEN Append(events, c) ELSE events

\* approve, reject, pause, resume.
Route(l) ==
    /\ l \notin routing /\ Idle(l)
    /\ mail[l] # <<>> /\ Head(mail[l]).kind # "cancel"
    /\ SendUserCmd(l, Head(mail[l]))
    /\ mail' = [mail EXCEPT ![l] = Tail(@)]
    /\ UNCHANGED <<taskVars, subVars, handle, ctx, routing, recVars, histVars>>

\* cancel, first half: the cascade, before the driving check.
Cascade(l) ==
    /\ l \notin routing /\ Idle(l)
    /\ mail[l] # <<>> /\ Head(mail[l]).kind = "cancel"
    /\ CancelSignal
    /\ routing' = routing \union {l}
    /\ UNCHANGED <<taskVars, subVars, handle, events, mail, recVars, histVars>>

\* Mutants: the loop never, or always, leaves the cancel to the drive loop.
NeverDriven(l) == FALSE
AlwaysDriven(l) == l = Owner

\* Is a drive loop of this Core going to persist the cancel?
DrivenHere(l) == l = Owner /\ handle = "driving"

\* cancel, second half: hand it to the drive loop, or persist it here.
Handoff(l) ==
    /\ l \in routing
    /\ routing' = routing \ {l}
    /\ mail' = [mail EXCEPT ![l] = Tail(@)]
    /\ IF DrivenHere(l)
       THEN SendUserCmd(l, Head(mail[l])) /\ UNCHANGED call
       ELSE Enters(l, "cancel", TRUE) /\ UNCHANGED events
    /\ UNCHANGED <<taskVars, subVars, handle, ctx, mem, disk, told, histVars>>

Loop(l) == Route(l) \/ Cascade(l) \/ Handoff(l)

----------------------------------------------------------------------------
(* The environment: the user, and whoever called Submit.                   *)

Commands ==
    [kind : Kinds \intersect {"pause", "resume", "cancel"}, id : {0}]
    \union [kind : Kinds \intersect {"approve", "reject"}, id : 0..Len(prompts)]

\* The task's id is known once StartTask has announced it.
MayAct == mem # "none" /\ (EarlyUser \/ handle \in {"driving", "returned"})

\* The bus delivers one envelope to every loop.
Post ==
    /\ MayAct /\ posted < MaxUser
    /\ \E c \in Commands :
          /\ mail' = [l \in Loops |-> Append(mail[l], c)]
          /\ yes' = IF c.kind = "approve" THEN yes \union {c.id} ELSE yes
    /\ posted' = posted + 1
    /\ UNCHANGED <<taskVars, subVars, sharedVars, routing, recVars, planned, ran>>

\* The parent context; once Submit has returned it reaches nobody.
Quit ==
    /\ MayQuit /\ ctx = "live" /\ handle \in {"attached", "driving"}
    /\ ctx' = "dead"
    /\ UNCHANGED <<taskVars, subVars, handle, events, loopVars, recVars, histVars>>

Next ==
    \/ Drive
    \/ \E p \in Procs : SessionStep(p)
    \/ \E l \in Loops : Loop(l)
    \/ Post
    \/ Quit

Spec == Init /\ [][Next]_vars

\* Every goroutine keeps running; ports answer, and the loops and the Manager's
\* methods only wait for short critical sections.  Nothing is assumed of the
\* user.
Fairness ==
    /\ WF_vars(Drive)
    /\ \A p \in Procs : WF_vars(SessionStep(p))
    /\ \A l \in Loops : WF_vars(Loop(l))

FairSpec == Spec /\ Fairness

----------------------------------------------------------------------------
(* Properties.                                                             *)

Statuses == {"none", "PENDING"} \union Terminal

\* Type invariant: the states of fsm.go and the fields of taskHandle and of the
\* session record stay in their ranges, the prompt id names a prompt that was
\* published, and the queue holds only planned calls or the correction.
TypeOK ==
    /\ fsm \in States
    /\ pending \in Seq(planned \union {Correction})
    /\ approved \in BOOLEAN
    /\ prompts \in Seq(planned)
    /\ approvalID \in 0..Len(prompts)
    /\ retries \in 0..(MaxVerifyRetries + 1)
    /\ pc \in {"submit", "attach", "register", "top", "arm", "settle", "returned", "failed"}
    /\ cancelled \in BOOLEAN
    /\ handle \in {"none", "attached", "driving", "returned"}
    /\ ctx \in {"live", "dead"}
    /\ events \in Seq([kind : Kinds, id : Nat]) /\ Len(events) <= QueueCap
    /\ mail \in [Loops -> Seq([kind : Kinds, id : Nat])]
    /\ routing \subseteq Loops
    /\ mem \in Statuses /\ disk \in Statuses
    /\ call \in [Procs -> {NoCall}
                   \union [op : {"cancel", "complete", "fail"},
                           at : {"check", "mark", "save", "tell"}, bg : BOOLEAN]]
    /\ told \in Seq(Terminal)
    /\ planned \subseteq Calls /\ ran \subseteq planned \union {Correction}
    /\ yes \subseteq Nat /\ posted \in 0..MaxUser

\* A gated call runs only after the user approved a prompt that asked about
\* that very call (EXECUTE's gate, applyUserCmd's id check and the reset of
\* h.approved together).
ApprovedByHuman ==
    \A c \in ran \intersect Gated : \E i \in yes \ {0} : prompts[i] = c

\* A parked task always has a prompt up that can be answered, and the prompt
\* asks about the call at the head of the queue (core.go: "Parking without
\* asking is a silent hang").
PromptStands ==
    fsm = "WAIT_USER" =>
        /\ approvalID # 0
        /\ pending # <<>>
        /\ prompts[approvalID] = Head(pending)

\* Once the record says how the task ended, no other goroutine or later step
\* rewrites it (types.go: "terminal state (no further transitions ...)").
TerminalIsFinal == [][(mem \in Terminal) => (mem' = mem)]_mem

\* A task recorded as ended dispatches nothing more and applies no patch.
EndedStaysStill == [][ran' # ran => mem \notin Terminal]_ran

\* The endings announced on the bus are the one on disk and in the Manager's
\* map: the store write precedes the publish on every route, and no two routes
\* end one task differently.
EndingsAgree == \A i \in DOMAIN told : told[i] = disk /\ told[i] = mem

\* A cancel that reached the context is never lost: when Submit has returned
\* and the record on disk is not an ending, some event loop is still holding
\* that cancel (settleCancel: "There is no interleaving in which both sides
\* decide the other will do it").
CancelIsOwned ==
    Returned /\ ctx = "dead" /\ disk \notin Terminal =>
        \E l \in Loops : l \in routing \/ ~Idle(l)

\* Once the task's context is dead Submit returns.
CancelReturns == ctx = "dead" ~> Returned

\* A cancel given by the user is eventually on disk, whichever goroutine is
\* left to write it, and whether or not the loop had already abandoned the
\* task.
CancelIsRecorded ==
    (\E i \in DOMAIN mail[Owner] : mail[Owner][i].kind = "cancel") ~> disk \in Terminal

\* An answer to the prompt that is up does take effect: the task does not stay
\* parked on a prompt its user has answered (New subscribes before it returns
\* so that no answer is lost; a full command channel would lose one).
AnswerTakesEffect ==
    \A i \in 1..Cardinality(Calls) :
        (/\ fsm = "WAIT_USER" /\ approvalID = i
         /\ \E j \in DOMAIN mail[Owner] :
               mail[Owner][j].kind \in {"approve", "reject"} /\ mail[Owner][j].id = i)
            ~> (approvalID # i \/ Returned)

----------------------------------------------------------------------------
(* What comments of the code say and the code does not do.                 *)

\* fsm.go: "IsTerminal reports whether a state admits no further transitions".
TerminalStateIsFinal == [][(fsm \in {"DONE", "CANCELLED"}) => (fsm' = fsm)]_fsm

\* core.go, drive: "The loop exits when the FSM reaches a terminal state
\* (DONE/CANCELLED) or a no-edge signal (ErrNoTransition from a terminal
\* state)" - unless the context died or an error ended the task.
ExitsAtTheEnd ==
    Returned /\ ctx = "live" => fsm \in {"DONE", "CANCELLED", "ERROR"}

\* core.go, settleCancel: "it is what makes 'Submit returned' mean 'if this
\* task was cancelled, CANCELLED is on disk'".  Stated where ports only fail
\* because of the cancel, and without the tasks that completed first.
CancelledIsOnDisk == Returned /\ cancelled => disk \in {"CANCELLED", "DONE"}

\* cancel_persist_test.go: "once Submit has returned for a task the
\* user cancelled, the CANCELLED status must already be on disk" - as an ending
\* of any kind, and whichever goroutine writes it.
SweptIsDurable == Returned /\ cancelled => disk \in Terminal

\* core.go, abortOverBudget: "the Session Manager publishes task.cancelled with
\* the reason, which is what the TUI's status bar and banner read".
AbortIsAnnounced == Returned /\ mem = "CANCELLED" => told # <<>>
=============================================================================
