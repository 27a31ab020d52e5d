----------------------------- MODULE CostLedger -----------------------------
(***************************************************************************)
(* The ledger that can stop a run: the operator's knobs (cmd/yolo/         *)
(* cost_ledger.go) and the per-task entry of the cost controller           *)
(* (internal/cognitive/cost.go), used by several goroutines: every count   *)
(* looks its entry up under the mutex, changes it under the mutex again,   *)
(* and publishes what it crossed with the mutex released.                  *)
(*                                                                         *)
(* One task.  A knob is 0 when it is unset or discarded; a charge is one   *)
(* token, worth the rate; the clock is a tick.                             *)
(***************************************************************************)
EXTENDS Naturals, Sequences, FiniteSets

CONSTANTS
    Callers,    \* goroutines that count
    Knobs,      \* configurations: [dollars, time, rate, loops, reflections]
    MaxCounts,  \* bound: counts of the run
    MaxClock    \* bound: ticks

ASSUME CostAssumption ==
    /\ Knobs \subseteq [{"dollars", "time", "rate", "loops", "reflections"} -> Nat]
    /\ MaxCounts \in Nat /\ MaxClock \in Nat

VARIABLES
    knobs,    \* what the operator set
    warned,   \* the start-up warning that the spend cap cannot fire
    clock,
    entries,  \* every taskCost ever made
    entryOf,  \* perTask: the one of the task, 0 before it is registered
    count,    \* per caller: the count under way, its entry, the notice it owes
    notices,  \* notices published, by kind
    charged,  \* dollars of every AddTokens of the task
    counts,   \* counts begun
    stopped   \* the cap the drive loop was stopped by

costVars == <<knobs, warned, clock, entries, entryOf, count, notices, charged, counts, stopped>>

Rungs == {"reflection_disabled", "autosubmit", "spend_cap"}

Resting == [kind |-> "none", entry |-> 0, owes |-> "nothing"]

\* newTaskCost: no deadline without a MaxTime.
NewEntry == [loops |-> 0, reflections |-> 0, dollars |-> 0,
             deadline |-> IF knobs.time > 0 THEN clock + knobs.time ELSE 0, said |-> {}]

\* newCostLedgerTo: no ledger without a hard cap; a spend cap without a price
\* per token is announced.
CostInit ==
    /\ knobs \in Knobs
    /\ warned = (knobs.dollars > 0 /\ knobs.rate = 0)
    /\ clock = 0 /\ entries = <<>> /\ entryOf = 0
    /\ count = [c \in Callers |-> Resting]
    /\ notices = [r \in Rungs |-> 0]
    /\ charged = 0 /\ counts = 0 /\ stopped = "no"

Entry == entries[entryOf]

\* MUTANT: a second registration starts the entry over.
RegisterAnew == entries' = Append(entries, NewEntry) /\ entryOf' = Len(entries) + 1

\* The entry of the task, made on the first call for it.
Register ==
    IF entryOf # 0 THEN UNCHANGED <<entries, entryOf>>
    ELSE entries' = Append(entries, NewEntry) /\ entryOf' = Len(entries) + 1

RegisterTask ==
    /\ Len(entries) < 2
    /\ Register
    /\ UNCHANGED <<knobs, warned, clock, count, notices, charged, counts, stopped>>

\* Cost.task: the lookup of a count.
LookUp(c, kind) ==
    /\ count[c].kind = "none" /\ counts < MaxCounts
    /\ counts' = counts + 1
    /\ IF entryOf # 0 THEN UNCHANGED <<entries, entryOf>>
       ELSE entries' = Append(entries, NewEntry) /\ entryOf' = Len(entries) + 1
    /\ count' = [count EXCEPT ![c] = [kind |-> kind, entry |-> entryOf', owes |-> "nothing"]]
    /\ UNCHANGED <<knobs, warned, clock, notices, charged, stopped>>

Crosses(e, rung) ==
    /\ rung \notin e.said
    /\ CASE rung = "reflection_disabled" -> knobs.loops > 0 /\ e.loops = knobs.loops
         [] rung = "autosubmit" -> knobs.reflections > 0 /\ e.reflections = knobs.reflections
         [] rung = "spend_cap" -> knobs.dollars > 0 /\ knobs.rate > 0 /\ e.dollars >= knobs.dollars

\* The change of IncLoop, IncReflection and AddTokens, with the rung it crosses.
Change(c, counted, rung) ==
    /\ entries' = [entries EXCEPT ![count[c].entry] =
                      IF Crosses(counted, rung) THEN [counted EXCEPT !.said = @ \union {rung}]
                      ELSE counted]
    /\ count' = IF Crosses(counted, rung) THEN [count EXCEPT ![c].kind = "said", ![c].owes = rung]
                ELSE [count EXCEPT ![c] = Resting]
    /\ UNCHANGED <<knobs, warned, clock, entryOf, notices, counts, stopped>>

IncLoop(c) ==
    /\ count[c].kind = "loop"
    /\ Change(c, [entries[count[c].entry] EXCEPT !.loops = @ + 1], "reflection_disabled")
    /\ UNCHANGED charged

IncReflection(c) ==
    /\ count[c].kind = "reflection"
    /\ Change(c, [entries[count[c].entry] EXCEPT !.reflections = @ + 1], "autosubmit")
    /\ UNCHANGED charged

AddTokens(c) ==
    /\ count[c].kind = "tokens"
    /\ Change(c, [entries[count[c].entry] EXCEPT !.dollars = @ + knobs.rate], "spend_cap")
    /\ charged' = charged + knobs.rate

PublishNotice(c) ==
    /\ count[c].owes # "nothing"
    /\ notices' = [notices EXCEPT ![count[c].owes] = @ + 1]
    /\ count' = [count EXCEPT ![c] = Resting]
    /\ UNCHANGED <<knobs, warned, clock, entries, entryOf, charged, counts, stopped>>

-----------------------------------------------------------------------------
\* What the entry permits

Late == Entry.deadline # 0 /\ clock > Entry.deadline
Spent == knobs.dollars > 0 /\ Entry.dollars >= knobs.dollars

HardCapExceeded == CASE Spent -> "spend_cap" [] ~ Spent /\ Late -> "time_cap" [] OTHER -> "no"

ReflectionAllowed ==
    ~ (knobs.loops > 0 /\ Entry.loops >= knobs.loops) /\ ~ Spent /\ ~ Late

MultiCandidateAllowed ==
    /\ ~ (knobs.loops > 0 /\ Entry.loops >= knobs.loops) /\ ~ Spent /\ ~ Late
    /\ ~ (knobs.reflections > 0 /\ Entry.reflections >= knobs.reflections)

\* The drive loop asks before a turn and before a tool, and stops on a cap.
AskCap ==
    /\ entryOf # 0 /\ stopped = "no" /\ HardCapExceeded # "no"
    /\ stopped' = HardCapExceeded
    /\ UNCHANGED <<knobs, warned, clock, entries, entryOf, count, notices, charged, counts>>

TimePasses ==
    /\ clock < MaxClock /\ clock' = clock + 1
    /\ UNCHANGED <<knobs, warned, entries, entryOf, count, notices, charged, counts, stopped>>

CostNext ==
    \/ RegisterTask \/ AskCap \/ TimePasses
    \/ \E c \in Callers :
          \/ \E kind \in {"loop", "reflection", "tokens"} : LookUp(c, kind)
          \/ IncLoop(c) \/ IncReflection(c) \/ AddTokens(c) \/ PublishNotice(c)

CostSpec == CostInit /\ [][CostNext]_costVars

-----------------------------------------------------------------------------
\* Properties

CostTypeOK ==
    /\ knobs \in Knobs /\ entryOf \in 0 .. Len(entries)
    /\ \A c \in Callers : count[c].entry \in 0 .. Len(entries)
    /\ stopped \in {"no", "spend_cap", "time_cap"}

\* Every charge lands on the entry the caps are read from: a registration that
\* comes late or twice orphans nothing, whatever count holds the old entry.
SpendIsSeen == entryOf # 0 => Entry.dollars = charged

\* A cap that stopped the run once would stop it again.
CapsStand == stopped # "no" => HardCapExceeded # "no"

\* Each rung is announced exactly once when its limit is reached, by however
\* many goroutines it is reached, and never when its knob is unset.
OncePerRung ==
    entryOf # 0 =>
        /\ \A r \in Rungs :
              notices[r] + Cardinality({c \in Callers : count[c].owes = r})
                  = IF r \in Entry.said THEN 1 ELSE 0
        /\ "reflection_disabled" \in Entry.said <=> knobs.loops > 0 /\ Entry.loops >= knobs.loops
        /\ "autosubmit" \in Entry.said <=> knobs.reflections > 0 /\ Entry.reflections >= knobs.reflections
        /\ "spend_cap" \in Entry.said <=> Spent

\* The ladder goes down in order, an unset knob caps nothing, and a spend cap
\* that can never fire was announced at the start.
LadderInOrder ==
    entryOf # 0 =>
        /\ HardCapExceeded # "no" => ~ ReflectionAllowed
        /\ ~ ReflectionAllowed => ~ MultiCandidateAllowed
        /\ (\A k \in DOMAIN knobs : knobs[k] = 0) => MultiCandidateAllowed
        /\ (knobs.dollars > 0 /\ ~ warned /\ charged >= knobs.dollars) => HardCapExceeded = "spend_cap"
        /\ stopped = "spend_cap" => ~ warned

CostSound == SpendIsSeen /\ CapsStand /\ OncePerRung /\ LadderInOrder
=============================================================================
