--------------------------- MODULE CostPublisher ---------------------------
(***************************************************************************)
(* The cost publisher (cmd/yolo/cost_publisher.go): a subscriber of        *)
(* tool.result that counts the calls, prices them at the operator's rates, *)
(* publishes one cost.incurred for each and one warning for each ceiling - *)
(* while the caller stops it, closes the bus and cancels its context in    *)
(* whatever order the way out takes.                                       *)
(*                                                                         *)
(* The bus is abstracted to what the publisher sees of it: its own channel *)
(* and the error of a Publish.                                             *)
(***************************************************************************)
EXTENDS Naturals, Sequences

CONSTANTS
    Rates,      \* the tools and their rates, "*" included when there is one
    PaidTools,  \* tools that finish
    MaxCalls,   \* YOLO_MAX_TOOL_CALLS, 0 when unset
    MaxCost,    \* YOLO_MAX_COST, 0 when unset
    EventLogs,  \* whether the bus writes an --event-log: the runs there are
    MaxResults  \* bound: tool results

ASSUME PublisherAssumption ==
    /\ \A t \in DOMAIN Rates : Rates[t] \in Nat
    /\ MaxCalls \in Nat /\ MaxCost \in Nat /\ MaxResults \in Nat
    /\ EventLogs \subseteq BOOLEAN

VARIABLES
    results,    \* tool results published
    feed,       \* the channel of the subscription
    feedOpen,   \* neither Unsubscribe nor Close has closed it
    busUp, ctxLive,
    hasLog,     \* the bus has a log to append to
    accruer,    \* run: "off", "waiting", "publishing", "ended"; what it holds
    callsMade, spentSum,
    saidCeiling,  \* warnCalls, warnCost
    toWarn,     \* ceilings this call crossed and the warnings not yet published
    incurred, publishFailed, lostOnEnd, \* the fate of the accruals
    incurredSum,
    warnings,   \* warnings that reached Publish, by ceiling
    stopper     \* Stop: "idle", "stopping", "returned"

publisherVars == <<results, feed, feedOpen, busUp, ctxLive, hasLog, accruer, callsMade, spentSum, saidCeiling,
                   toWarn, incurred, publishFailed, lostOnEnd, incurredSum, warnings, stopper>>

Ceilings == {"calls", "cost"}

PublisherInit ==
    /\ results = 0 /\ feed = <<>> /\ feedOpen = TRUE /\ busUp = TRUE /\ ctxLive = TRUE
    /\ hasLog \in EventLogs
    /\ accruer = [at |-> "off", rate |-> 0]
    /\ callsMade = 0 /\ spentSum = 0 /\ saidCeiling = {} /\ toWarn = {}
    /\ incurred = 0 /\ publishFailed = 0 /\ lostOnEnd = 0 /\ incurredSum = 0
    /\ warnings = [c \in Ceilings |-> 0] /\ stopper = "idle"

\* costFor: the rate of the tool, else of "*", else nothing.
CostFor(tool) ==
    CASE tool \in DOMAIN Rates -> Rates[tool]
      [] tool \notin DOMAIN Rates /\ "*" \in DOMAIN Rates -> Rates["*"]
      [] OTHER -> 0

StartPublisher ==
    /\ accruer.at = "off" /\ feedOpen /\ stopper = "idle"
    /\ accruer' = [accruer EXCEPT !.at = "waiting"]
    /\ UNCHANGED <<results, feed, feedOpen, busUp, ctxLive, hasLog, callsMade, spentSum, saidCeiling, toWarn,
                   incurred, publishFailed, lostOnEnd, incurredSum, warnings, stopper>>

\* The rest of the system: a tool ends, the bus closes, the run is cancelled.
ToolEnds(tool) ==
    /\ busUp /\ results < MaxResults /\ accruer.at # "off"
    /\ results' = results + 1
    /\ feed' = IF feedOpen THEN Append(feed, tool) ELSE feed
    /\ UNCHANGED <<feedOpen, busUp, ctxLive, hasLog, accruer, callsMade, spentSum, saidCeiling, toWarn,
                   incurred, publishFailed, lostOnEnd, incurredSum, warnings, stopper>>

BusCloses ==
    /\ busUp /\ busUp' = FALSE /\ feedOpen' = FALSE
    /\ UNCHANGED <<results, feed, ctxLive, hasLog, accruer, callsMade, spentSum, saidCeiling, toWarn,
                   incurred, publishFailed, lostOnEnd, incurredSum, warnings, stopper>>

RunCancelled ==
    /\ ctxLive /\ ctxLive' = FALSE
    /\ UNCHANGED <<results, feed, feedOpen, busUp, hasLog, accruer, callsMade, spentSum, saidCeiling, toWarn,
                   incurred, publishFailed, lostOnEnd, incurredSum, warnings, stopper>>

-----------------------------------------------------------------------------
\* run

Crossed(calls, sum) == {c \in Ceilings \ saidCeiling :
    \/ c = "calls" /\ MaxCalls > 0 /\ calls >= MaxCalls
    \/ c = "cost" /\ MaxCost > 0 /\ sum >= MaxCost}

\* accrue up to its first Publish, under the mutex.
Accrue ==
    /\ accruer.at = "waiting" /\ feed # <<>>
    /\ LET rate == CostFor(Head(feed)) IN
          /\ callsMade' = callsMade + 1 /\ spentSum' = spentSum + rate
          /\ toWarn' = Crossed(callsMade + 1, spentSum + rate)
          /\ saidCeiling' = saidCeiling \union Crossed(callsMade + 1, spentSum + rate)
          /\ accruer' = [at |-> "publishing", rate |-> rate]
    /\ feed' = Tail(feed)
    /\ UNCHANGED <<results, feedOpen, busUp, ctxLive, hasLog, incurred, publishFailed, lostOnEnd, incurredSum,
                   warnings, stopper>>

\* Publish of cost.incurred.  The error of a closed bus is told from the others:
\* a context that is over, which the select may prefer to the room in a channel
\* and to the close, and a log that cannot be appended to.
PublishIncurred ==
    /\ accruer.at = "publishing"
    /\ \/ /\ busUp
          /\ incurred' = incurred + 1 /\ incurredSum' = incurredSum + accruer.rate
          /\ UNCHANGED <<publishFailed, lostOnEnd>>
       \/ ~ busUp /\ lostOnEnd' = lostOnEnd + 1 /\ UNCHANGED <<incurred, incurredSum, publishFailed>>
       \/ /\ ~ ctxLive \/ (busUp /\ hasLog)
          /\ publishFailed' = publishFailed + 1
          /\ UNCHANGED <<incurred, incurredSum, lostOnEnd>>
    /\ accruer' = [at |-> IF toWarn = {} THEN "waiting" ELSE "warning", rate |-> 0]
    /\ UNCHANGED <<results, feed, feedOpen, busUp, ctxLive, hasLog, callsMade, spentSum, saidCeiling, toWarn,
                   warnings, stopper>>

\* The warnings of the call, calls before cost; their errors are dropped.
Warn ==
    /\ accruer.at = "warning"
    /\ LET c == IF "calls" \in toWarn THEN "calls" ELSE "cost" IN
          /\ warnings' = [warnings EXCEPT ![c] = @ + 1]
          /\ toWarn' = toWarn \ {c}
          /\ accruer' = IF toWarn = {c} THEN [accruer EXCEPT !.at = "waiting"] ELSE accruer
    /\ UNCHANGED <<results, feed, feedOpen, busUp, ctxLive, hasLog, callsMade, spentSum, saidCeiling, incurred,
                   publishFailed, lostOnEnd, incurredSum, stopper>>

\* The select of run: a closed and empty channel, the stop signal or the
\* context, whichever of the ready ones it picks - results left or not.
AccruerEnds ==
    /\ accruer.at = "waiting"
    /\ (feed = <<>> /\ ~ feedOpen) \/ stopper = "stopping" \/ ~ ctxLive
    /\ accruer' = [accruer EXCEPT !.at = "ended"]
    /\ UNCHANGED <<results, feed, feedOpen, busUp, ctxLive, hasLog, callsMade, spentSum, saidCeiling, toWarn,
                   incurred, publishFailed, lostOnEnd, incurredSum, warnings, stopper>>

\* Stop: unsubscribe and the stop signal, then the wait; at once for a
\* publisher that was never started.
StopPublisher ==
    /\ stopper = "idle"
    /\ IF accruer.at = "off" THEN stopper' = "returned" /\ UNCHANGED feedOpen
       ELSE stopper' = "stopping" /\ feedOpen' = FALSE
    /\ UNCHANGED <<results, feed, busUp, ctxLive, hasLog, accruer, callsMade, spentSum, saidCeiling, toWarn,
                   incurred, publishFailed, lostOnEnd, incurredSum, warnings>>

StopReturns ==
    /\ stopper = "stopping" /\ accruer.at = "ended"
    /\ stopper' = "returned"
    /\ UNCHANGED <<results, feed, feedOpen, busUp, ctxLive, hasLog, accruer, callsMade, spentSum, saidCeiling,
                   toWarn, incurred, publishFailed, lostOnEnd, incurredSum, warnings>>

PublisherNext ==
    \/ StartPublisher \/ BusCloses \/ RunCancelled \/ Accrue \/ PublishIncurred \/ Warn
    \/ AccruerEnds \/ StopPublisher \/ StopReturns
    \/ \E t \in PaidTools : ToolEnds(t)

PublisherSpec == PublisherInit /\ [][PublisherNext]_publisherVars

-----------------------------------------------------------------------------
\* Properties

PublisherTypeOK ==
    /\ accruer.at \in {"off", "waiting", "publishing", "warning", "ended"}
    /\ stopper \in {"idle", "stopping", "returned"}
    /\ toWarn \subseteq saidCeiling /\ saidCeiling \subseteq Ceilings
    /\ callsMade \in 0 .. MaxResults

\* No accrual disappears: each one was shown, was counted as failed, or was
\* counted as lost to a bus that somebody closed first; one counted as failed
\* had a context that was over or a log that would not take it; the figures
\* shown never exceed the figures kept.
AccrualsAddUp ==
    /\ callsMade = incurred + publishFailed + lostOnEnd + (IF accruer.at = "publishing" THEN 1 ELSE 0)
    /\ callsMade + Len(feed) <= results
    /\ incurredSum <= spentSum
    /\ lostOnEnd > 0 => ~ busUp
    /\ publishFailed > 0 => ~ ctxLive \/ hasLog

\* A ceiling is announced once, when it is reached and not before.
WarnedOnce ==
    \A c \in Ceilings :
        /\ warnings[c] + (IF c \in toWarn THEN 1 ELSE 0) = IF c \in saidCeiling THEN 1 ELSE 0
        /\ c \in saidCeiling <=>
              \/ c = "calls" /\ MaxCalls > 0 /\ callsMade >= MaxCalls
              \/ c = "cost" /\ MaxCost > 0 /\ spentSum >= MaxCost

\* After Stop has returned nothing is published: Stop before Close loses no
\* accrual to the closed bus.
StopIsQuiet == stopper = "returned" => accruer.at \in {"off", "ended"} /\ toWarn = {}

PublisherSound == AccrualsAddUp /\ WarnedOnce /\ StopIsQuiet

\* It does not hold (README): the results still in the channel when Stop is
\* called may be dropped, neither counted nor reported.
StopDrains == (stopper = "returned" /\ ctxLive /\ accruer.at = "ended") => feed = <<>>
=============================================================================
