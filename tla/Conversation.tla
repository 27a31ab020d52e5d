---------------------------- MODULE Conversation ----------------------------
(***************************************************************************)
(* What the model is told (internal/cognitive): the transcript the core    *)
(* accumulates over the turns of a task, the calls still waiting for their *)
(* result, the tool policy and the reflection, driven by the loop of       *)
(* runtime/core.go - prompt, reply, calls in order, verdict, reflection.   *)
(*                                                                         *)
(* A message is its role and the calls it shows.  Call ids are numbers: 0  *)
(* for a fenced call, which carries none; call_N and a provider's id are   *)
(* one space.  The compiled prompt of a task is its system message, goal   *)
(* and files, the same on every turn.                                      *)
(***************************************************************************)
EXTENDS Naturals, Sequences, SequencesExt

CONSTANTS
    TaskGoals,      \* goals submitted, one task after the other
    ModelTools,     \* tools a reply may name
    RoutableTools,  \* those the policy admits
    CallIds,        \* ids a provider gives, 0 included
    MaxMessages,    \* maxHistoryMessages
    MaxTurns,       \* bound: turns of a task
    MaxParallel,    \* bound: calls of a turn
    MaxReflections  \* Task.RetryMax

ASSUME TalkAssumption ==
    /\ RoutableTools \subseteq ModelTools /\ CallIds \subseteq Nat
    /\ MaxMessages \in Nat /\ MaxMessages >= 3 \* 200 in the code
    /\ MaxTurns \in Nat /\ MaxParallel \in Nat /\ MaxReflections \in Nat

VARIABLES
    stage,       \* where the loop is: "none", "plan", "asked", "execute", "verify", "patch", "over"
    goalNow,     \* the goal of the task
    talk,        \* Core.history
    unanswered,  \* Core.pending: calls without a result, id and tool
    minted,      \* Core.callSeq
    denials, hasMore,
    dispatches,  \* the loop's queue of calls
    turns,
    reflected      \* Task.Retry

talkVars == <<stage, goalNow, talk, unanswered, minted, denials, hasMore, dispatches, turns, reflected>>

Said(role, what) == [role |-> role, what |-> what, calls |-> <<>>, of |-> 0]

Compiled == <<Said("system", "frame"), Said("user", goalNow), Said("user", "files")>>

TalkInit ==
    /\ stage = "none" /\ goalNow \in TaskGoals
    /\ talk = <<>> /\ unanswered = <<>> /\ minted = 0 /\ denials = 0 /\ hasMore = TRUE
    /\ dispatches = <<>> /\ turns = 0 /\ reflected = 0

-----------------------------------------------------------------------------
\* The transcript

\* trimHistory: the leading system message stays, the oldest after it go, and
\* with them any result the cut would leave at the head.
Trim(h) ==
    IF Len(h) <= MaxMessages THEN h
    ELSE LET pin == IF Head(h).role = "system" THEN 1 ELSE 0
             cuts == {i \in pin + Len(h) - MaxMessages .. Len(h) : i = Len(h) \/ h[i + 1].role # "result"}
         IN  SubSeq(h, 1, pin) \o SubSeq(h, Min(cuts) + 1, Len(h))

\* historyHas
Missing(k) == IF \E i \in DOMAIN talk : talk[i] = Compiled[k] THEN <<>> ELSE <<Compiled[k]>>

\* mergePrompt: what the history does not carry, in order.
Merged == Trim(talk \o Missing(1) \o Missing(2) \o Missing(3))

\* The ids of a turn's calls: the provider's own, or the next call_N that no
\* call before it has.
Named(calls) ==
    LET named[k \in 0 .. Len(calls)] ==
            IF k = 0 THEN [calls |-> <<>>, seq |-> minted]
            ELSE LET before == named[k - 1]
                     taken == {before.calls[j].id : j \in 1 .. (k - 1)}
                     fresh == Min({n \in before.seq + 1 .. before.seq + k : n \notin taken})
                     own == calls[k].id # 0 /\ calls[k].id \notin taken
                 IN  [calls |-> Append(before.calls, [id |-> IF own THEN calls[k].id ELSE fresh,
                                                      tool |-> calls[k].tool, nth |-> k]),
                      seq |-> IF own THEN before.seq ELSE fresh]
    IN  named[Len(calls)]

\* MUTANT: the oldest call waiting, whatever was asked.
AnsweredOldest(waiting, id, tool) == IF waiting = <<>> THEN 0 ELSE 1

\* takePending: by id, else the oldest of the tool, else the oldest; 0 if none.
Answered(waiting, id, tool) ==
    LET byId == {i \in DOMAIN waiting : id # 0 /\ waiting[i].id = id}
        byTool == {i \in DOMAIN waiting : waiting[i].tool = tool}
    IN  CASE byId # {} -> Min(byId)
          [] byId = {} /\ byTool # {} -> Min(byTool)
          [] OTHER -> IF waiting = <<>> THEN 0 ELSE 1

\* RecordToolResultID, of the nth call of a turn.
Record(s, turn, id, tool, nth) ==
    LET i == Answered(s.waiting, id, tool)
        key == IF i = 0 THEN <<>> ELSE <<s.waiting[i]>>
    IN  [s EXCEPT !.talk = Trim(Append(@, [role |-> "result", what |-> turn, calls |-> key, of |-> nth])),
                  !.waiting = IF i = 0 THEN @ ELSE RemoveAt(@, i)]

-----------------------------------------------------------------------------
\* A task

\* Submit: Core.Reset.
SubmitGoal(g) ==
    /\ stage = "none" \/ (stage = "over" /\ g # goalNow /\ turns > 0)
    /\ stage' = "plan" /\ goalNow' = g
    /\ talk' = <<>> /\ unanswered' = <<>> /\ minted' = 0 /\ denials' = 0 /\ hasMore' = TRUE
    /\ dispatches' = <<>> /\ turns' = 0 /\ reflected' = 0

\* Think up to the request.
AskModel ==
    /\ stage = "plan" /\ turns < MaxTurns
    /\ stage' = "asked" /\ talk' = Merged
    /\ UNCHANGED <<goalNow, unanswered, minted, denials, hasMore, dispatches, turns, reflected>>

\* A provider or stream error, or a tool block that decodes to no call: the
\* task fails, nothing is recorded.
ThinkFails ==
    /\ stage = "asked" /\ stage' = "over"
    /\ UNCHANGED <<goalNow, talk, unanswered, minted, denials, hasMore, dispatches, turns, reflected>>

\* A reply without calls is the answer; one without text is not recorded.
ModelAnswers(text) ==
    /\ stage = "asked" /\ stage' = "over"
    /\ turns' = turns + 1
    /\ talk' = IF text THEN Trim(Append(talk, Said("assistant", turns + 1))) ELSE talk
    /\ unanswered' = <<>> /\ denials' = 0 /\ hasMore' = FALSE
    /\ UNCHANGED <<goalNow, minted, dispatches, reflected>>

\* enforceToolPolicy: every refused call is answered at once, by its name, and
\* the others are admitted to the queue.
EnforceToolPolicy(s, turn, calls) ==
    LET after[k \in 0 .. Len(calls)] ==
            IF k = 0 THEN s
            ELSE IF calls[k].tool \in RoutableTools
            THEN [after[k - 1] EXCEPT !.admitted =
                      Append(@, [id |-> calls[k].id, tool |-> calls[k].tool, nth |-> k])]
            ELSE Record(after[k - 1], turn, 0, calls[k].tool, k)
    IN  after[Len(calls)]

\* A reply with calls: recorded with an id for each, refused calls answered,
\* the others queued; the third turn in a row of refused calls is an error.
ModelCalls(calls) ==
    LET named == Named(calls)
        reply == [role |-> "assistant", what |-> turns + 1, calls |-> named.calls, of |-> 0]
        s == EnforceToolPolicy([talk |-> Trim(Append(talk, reply)), waiting |-> named.calls,
                                admitted |-> <<>>], turns + 1, calls)
    IN
    /\ stage = "asked"
    /\ turns' = turns + 1 /\ minted' = named.seq
    /\ talk' = s.talk /\ unanswered' = s.waiting /\ dispatches' = s.admitted
    /\ denials' = IF s.admitted = <<>> THEN denials + 1 ELSE 0
    /\ hasMore' = TRUE
    /\ stage' = IF s.admitted # <<>> THEN "execute" ELSE IF denials' >= 3 THEN "over" ELSE "plan"
    /\ UNCHANGED <<goalNow, reflected>>

\* EXECUTE and WAIT_TOOL: the next call runs, its result is recorded under the
\* id the provider gave it.
DispatchNext ==
    /\ stage = "execute" /\ dispatches # <<>>
    /\ LET c == Head(dispatches)
           s == Record([talk |-> talk, waiting |-> unanswered], turns, c.id, c.tool, c.nth)
       IN  talk' = s.talk /\ unanswered' = s.waiting
    /\ dispatches' = Tail(dispatches) /\ stage' = "verify"
    /\ UNCHANGED <<goalNow, minted, denials, hasMore, turns, reflected>>

\* A dispatch, verify or patch error, a cap or a cancel.
TaskFails ==
    /\ stage \in {"execute", "verify", "patch"} /\ stage' = "over"
    /\ UNCHANGED <<goalNow, talk, unanswered, minted, denials, hasMore, dispatches, turns, reflected>>

VerdictPasses ==
    /\ stage = "verify"
    /\ stage' = IF dispatches # <<>> THEN "execute" ELSE IF hasMore THEN "plan" ELSE "over"
    /\ UNCHANGED <<goalNow, talk, unanswered, minted, denials, hasMore, dispatches, turns, reflected>>

CapReached == reflected >= MaxReflections

\* Reflect: an abort at the cap or on a provider error, else the note decides.
\* The calls that were queued are dropped with the next reply.
VerdictFails(decision) ==
    /\ stage = "verify"
    /\ IF CapReached THEN stage' = "over" /\ UNCHANGED <<reflected, dispatches>>
       ELSE /\ reflected' = reflected + 1
            /\ stage' = CASE decision = "replan" -> "plan" [] decision = "patch" -> "patch" [] OTHER -> "over"
            /\ dispatches' = IF decision = "patch" THEN <<[id |-> 0, tool |-> "patch", nth |-> 0]>> ELSE dispatches
    /\ UNCHANGED <<goalNow, talk, unanswered, minted, denials, hasMore, turns>>

\* PATCH back to VERIFY: the patch is no result of a call.
CorrectivePatch ==
    /\ stage = "patch" /\ stage' = "verify" /\ dispatches' = <<>>
    /\ UNCHANGED <<goalNow, talk, unanswered, minted, denials, hasMore, turns, reflected>>

Replies == UNION {[1 .. n -> [id : CallIds, tool : ModelTools]] : n \in 1 .. MaxParallel}

TalkNext ==
    \/ \E g \in TaskGoals : SubmitGoal(g)
    \/ AskModel \/ ThinkFails
    \/ \E text \in BOOLEAN : ModelAnswers(text)
    \/ \E calls \in Replies : ModelCalls(calls)
    \/ DispatchNext \/ TaskFails \/ VerdictPasses \/ CorrectivePatch
    \/ \E d \in {"replan", "patch", "abort"} : VerdictFails(d)

TalkSpec == TalkInit /\ [][TalkNext]_talkVars

-----------------------------------------------------------------------------
\* Properties

TalkTypeOK ==
    /\ stage \in {"none", "plan", "asked", "execute", "verify", "patch", "over"}
    /\ Len(talk) <= MaxMessages
    /\ denials \in 0 .. 3 /\ reflected \in Nat /\ turns \in 0 .. MaxTurns

\* Every result is filed under a call its own turn made, under the very call
\* that ran, and under no other result's - whatever ids the provider sends and
\* whichever calls the policy refused; and the reply that made the call still
\* stands before it, however often the transcript was cut.
ResultsArePaired ==
    \A i \in DOMAIN talk : talk[i].role = "result" =>
        /\ talk[i].calls # <<>>
        /\ talk[i].calls[1].nth = talk[i].of
        /\ \E j \in 1 .. i - 1 :
              /\ talk[j].role = "assistant" /\ talk[j].what = talk[i].what
              /\ \E k \in DOMAIN talk[j].calls : talk[j].calls[k] = talk[i].calls[1]
        /\ \A j \in 1 .. i - 1 : talk[j] # talk[i]

IdsAreDistinct ==
    \A i \in DOMAIN talk : \A j, k \in DOMAIN talk[i].calls :
        j # k => talk[i].calls[j].id # talk[i].calls[k].id

\* The model is never asked without its frame and never shown the goal of
\* another task; and it is asked without the goal of this one only where the
\* merge that was to bring the prompt has just cut it (GoalReaches).
FrameLeads ==
    /\ stage = "asked" =>
          /\ talk[1] = Compiled[1]
          /\ (\E i \in DOMAIN talk : talk[i] = Compiled[2]) \/ Last(talk) = Compiled[3]
    /\ \A i \in DOMAIN talk : talk[i].role = "user" => talk[i].what \in {goalNow, "files"}

\* A call is left without a result only by a verdict that failed, and never by
\* a refusal; the reflections of a task are capped and so are the denials.
NothingLeftUnsaid ==
    /\ stage = "plan" /\ unanswered # <<>> => reflected > 0
    /\ reflected <= MaxReflections
    /\ denials = 3 => stage = "over"

TalkSound == ResultsArePaired /\ IdsAreDistinct /\ FrameLeads /\ NothingLeftUnsaid

\* "That goal MUST reach the model" (core.go:328).  It does not: mergePrompt
\* looks for the goal before it appends what is missing, and the trim that
\* follows may cut the goal it has found.
GoalReaches == stage = "asked" => \E i \in DOMAIN talk : talk[i] = Compiled[2]
=============================================================================
