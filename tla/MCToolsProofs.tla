---------------------------- MODULE MCToolsProofs ----------------------------
(***************************************************************************)
(* Proofs about the parts that run one at a time, for any values of their  *)
(* constants: the bill (CostLedger, CostPublisher), what vouches for the   *)
(* tree (UndoStack, VerifyPipeline), a plan's run (PlanRun), and, with the *)
(* invariants of DiskProofs, ToolProofs, ScopeProofs and WordsProofs, the  *)
(* files, the dispatches, the advisers, the command line, the talk, the    *)
(* plan of a goal and the prompt.  A step belongs to one part, so an       *)
(* invariant of a part's own next-state relation is one of the whole.  The *)
(* types of all parts come last: they are read off these invariants.       *)
(*                                                                         *)
(* LedgerInv:    the task has one entry at most, every charge is on it,    *)
(*               and a rung is said, owed by one caller or published.      *)
(* PublisherInv: every call is accounted for at the step of its accrual.   *)
(* StackInv:     both copies of the stack are dense, ascend, and hold the  *)
(*               entry their pointer names.                                *)
(* WalkInv:      what the walk of a verification has established so far.   *)
(* RunnerInv:    what is held at each step of a run; turns are under way   *)
(*               only in its middle, and flush what they learn on the way  *)
(*               out.                                                      *)
(***************************************************************************)
EXTENDS MCTools, DiskProofs, ToolProofs, ScopeProofs, WordsProofs

\* A step of the whole is a step of the part under way.
LEMMA OneAtATime ==
  ASSUME [ToolsNext]_toolsVars
  PROVE  /\ part' = part
         /\ part = "patch" => [Next]_vars
         /\ part = "cost" => [CostNext]_costVars
         /\ part = "publisher" => [PublisherNext]_publisherVars
         /\ part = "undo" => [UndoNext]_undoVars
         /\ part = "verify" => [VerifyNext]_verifyVars
         /\ part = "log" => [LogNext]_logVars
         /\ part = "store" => [StoreNext]_storeVars
         /\ part = "memory" => [MemoryNext]_memoryVars
         /\ part = "tool" => [ToolNext]_toolVars
         /\ part = "line" => [LineNext]_line
         /\ part = "goal" => [GoalNext]_goalVars
         /\ part = "fit" => [FitNext]_fitVars
         /\ part = "talk" => [TalkNext]_talkVars
         /\ part = "run" => [RunNext]_runVars
         /\ part = "scope" => [ScopeNext]_scopeVars
         /\ part = "search" => [SearchNext]_searchVars
BY DEF ToolsNext, Only, toolsVars

-----------------------------------------------------------------------------
\* The ledger

LedgerEntries ==
    [loops : Nat, reflections : Nat, dollars : Nat, deadline : Nat, said : SUBSET Rungs]

CountTypes ==
    [Callers -> [kind : {"none", "loop", "reflection", "tokens", "said"},
                 entry : {0, 1}, owes : Rungs \union {"nothing"}]]

LedgerTypes ==
    /\ knobs \in Knobs /\ clock \in Nat /\ charged \in Nat
    /\ entries \in Seq(LedgerEntries) /\ entryOf \in {0, 1} /\ Len(entries) = entryOf
    /\ count \in CountTypes
    /\ notices \in [Rungs -> Nat]
    /\ stopped \in {"no", "spend_cap", "time_cap"}

\* A count holds the entry of the task, and owes a notice only when it has said it.
Counting ==
    /\ \A c \in Callers : count[c].kind # "none" => entryOf = 1 /\ count[c].entry = 1
    /\ \A c \in Callers : count[c].owes # "nothing" => count[c].kind = "said"
    /\ stopped # "no" => entryOf = 1
    /\ warned = (knobs.dollars > 0 /\ knobs.rate = 0)

Nobody(r) == \A c \in Callers : count[c].owes # r
OnlyOne(r) == \E c \in Callers : count[c].owes = r /\ \A d \in Callers : count[d].owes = r => d = c

\* A rung that was said is owed by the one caller that said it, or published.
Announced ==
    \A r \in Rungs :
        \/ notices[r] = 0 /\ Nobody(r) /\ (entryOf = 1 => r \notin Entry.said)
        \/ notices[r] = 0 /\ OnlyOne(r) /\ entryOf = 1 /\ r \in Entry.said
        \/ notices[r] = 1 /\ Nobody(r) /\ entryOf = 1 /\ r \in Entry.said

\* What the entry of the task holds, beside the knobs and the charges.
EntryAddsUp ==
    /\ entryOf = 0 => charged = 0
    /\ entryOf = 1 =>
          /\ Entry.dollars = charged
          /\ knobs.rate = 0 => charged = 0
          /\ knobs.time = 0 => Entry.deadline = 0
          /\ "reflection_disabled" \in Entry.said <=> knobs.loops > 0 /\ Entry.loops >= knobs.loops
          /\ "autosubmit" \in Entry.said <=> knobs.reflections > 0 /\ Entry.reflections >= knobs.reflections
          /\ "spend_cap" \in Entry.said <=> Spent

\* What stopped the run still stops it.
CapsHold ==
    /\ stopped # "no" => Spent \/ Late
    /\ stopped = "spend_cap" => Spent

LedgerInv == LedgerTypes /\ Counting /\ Announced /\ EntryAddsUp /\ CapsHold

\* The knobs are numbers, and a new entry is well typed and empty.
LEMMA KnobFacts ==
  ASSUME knobs \in Knobs
  PROVE  /\ DOMAIN knobs = {"dollars", "time", "rate", "loops", "reflections"}
         /\ knobs.dollars \in Nat /\ knobs.time \in Nat /\ knobs.rate \in Nat
         /\ knobs.loops \in Nat /\ knobs.reflections \in Nat
BY CostAssumption

LEMMA NewEntryFacts ==
  ASSUME LedgerTypes
  PROVE  /\ NewEntry \in LedgerEntries
         /\ NewEntry.dollars = 0 /\ NewEntry.loops = 0 /\ NewEntry.reflections = 0
         /\ NewEntry.said = {} /\ (knobs.time = 0 => NewEntry.deadline = 0)
<1>1. knobs.time \in Nat /\ clock \in Nat
  BY KnobFacts DEF LedgerTypes
<1> QED BY <1>1 DEF NewEntry, LedgerEntries

\* The entry of the task is the first and only one.
LEMMA EntryFacts ==
  ASSUME LedgerTypes, entryOf = 1
  PROVE  /\ Entry = entries[1] /\ Entry \in LedgerEntries
         /\ Entry.loops \in Nat /\ Entry.reflections \in Nat /\ Entry.dollars \in Nat
         /\ Entry.deadline \in Nat /\ Entry.said \subseteq Rungs
<1>1. entries \in Seq(LedgerEntries) /\ 1 \in 1 .. Len(entries)
  BY DEF LedgerTypes
<1>2. entries[1] \in LedgerEntries
  BY <1>1, ElementOfSeq
<1> QED BY <1>2 DEF LedgerEntries, Entry

\* Nothing is charged or announced before there is an entry.
LEMMA NoEntryYet ==
  ASSUME LedgerInv, entryOf = 0
  PROVE  /\ entries = <<>> /\ charged = 0 /\ stopped = "no"
         /\ \A c \in Callers : count[c].kind = "none" /\ count[c].owes = "nothing"
         /\ \A r \in Rungs : notices[r] = 0 /\ Nobody(r)
<1>1. entries = <<>>
  BY EmptySeq DEF LedgerInv, LedgerTypes
<1> QED BY <1>1 DEF LedgerInv, LedgerTypes, Counting, Announced, EntryAddsUp, Nobody, Rungs

\* The first registration gives the task its entry.
LEMMA FirstEntry ==
  ASSUME LedgerInv, entryOf = 0, entries' = Append(entries, NewEntry), entryOf' = Len(entries) + 1
  PROVE  /\ entryOf' = 1 /\ entries' \in Seq(LedgerEntries) /\ Len(entries') = 1
         /\ entries'[1] = NewEntry
<1>1. NewEntry \in LedgerEntries /\ entries \in Seq(LedgerEntries) /\ Len(entries) = 0
  BY NewEntryFacts DEF LedgerInv, LedgerTypes
<1> QED BY <1>1, AppendProperties

LEMMA InitLedger == CostInit => LedgerInv
<1> SUFFICES ASSUME CostInit PROVE LedgerInv
  OBVIOUS
<1>1. entries \in Seq(LedgerEntries) /\ Len(entries) = 0
  BY EmptySeq DEF CostInit
<1>2. LedgerTypes
  BY <1>1 DEF CostInit, LedgerTypes, CountTypes, Resting, Rungs
<1>3. Counting /\ Announced
  BY DEF CostInit, Counting, Announced, Resting, Nobody, Rungs
<1> QED BY <1>2, <1>3 DEF CostInit, LedgerInv, EntryAddsUp, CapsHold

\* The entry of the task is made, whatever begins with it.
LEMMA EntryBegins ==
  ASSUME LedgerInv, entryOf = 0, entries' = Append(entries, NewEntry), entryOf' = Len(entries) + 1,
         UNCHANGED <<knobs, warned, clock, notices, charged, stopped>>,
         count' \in CountTypes, \A c \in Callers : count'[c].owes = "nothing",
         \A c \in Callers : count'[c].kind # "none" => count'[c].entry = 1
  PROVE  LedgerInv'
<1>1. /\ entryOf' = 1 /\ entries' \in Seq(LedgerEntries) /\ Len(entries') = 1
      /\ Entry' = NewEntry
  BY FirstEntry DEF Entry
<1>2. /\ NewEntry.dollars = 0 /\ NewEntry.loops = 0 /\ NewEntry.reflections = 0
      /\ NewEntry.said = {} /\ (knobs.time = 0 => NewEntry.deadline = 0)
  BY NewEntryFacts DEF LedgerInv
<1>3. charged = 0 /\ stopped = "no" /\ \A r \in Rungs : notices[r] = 0
  BY NoEntryYet
<1>4. /\ knobs.dollars \in Nat /\ knobs.loops \in Nat /\ knobs.reflections \in Nat
      /\ knobs' = knobs
  BY KnobFacts DEF LedgerInv, LedgerTypes
<1>5. LedgerTypes'
  BY <1>1 DEF LedgerInv, LedgerTypes, CountTypes
<1>6. Counting' /\ CapsHold'
  BY <1>1, <1>3 DEF LedgerInv, Counting, CapsHold
<1>7. Announced'
  BY <1>1, <1>2, <1>3 DEF Announced, Nobody, Rungs
<1>8. EntryAddsUp'
  BY <1>1, <1>2, <1>3, <1>4 DEF EntryAddsUp, Spent
<1> QED BY <1>5, <1>6, <1>7, <1>8 DEF LedgerInv

\* Nothing of the entry changes, and nobody owes more or less.
LEMMA EntryStays ==
  ASSUME LedgerInv, UNCHANGED <<knobs, warned, entries, entryOf, notices, charged, stopped>>,
         clock' \in Nat, clock' >= clock,
         count' \in CountTypes, \A c \in Callers : count'[c].owes = count[c].owes,
         \A c \in Callers : count'[c].kind # "none" => entryOf = 1 /\ count'[c].entry = 1,
         \A c \in Callers : count'[c].owes # "nothing" => count'[c].kind = "said"
  PROVE  LedgerInv'
<1>1. Entry' = Entry
  BY DEF Entry
<1>2. LedgerTypes'
  BY DEF LedgerInv, LedgerTypes, CountTypes
<1>3. Counting'
  BY DEF LedgerInv, Counting
<1>4. Announced'
  BY <1>1 DEF LedgerInv, Announced, Nobody, OnlyOne
<1>5. EntryAddsUp'
  BY <1>1 DEF LedgerInv, EntryAddsUp, Spent
<1>6. CapsHold'
  <2>1. CASE entryOf = 0
    BY <2>1, NoEntryYet DEF CapsHold
  <2>2. CASE entryOf = 1
    <3>1. Entry.deadline \in Nat /\ clock \in Nat
      BY <2>2, EntryFacts DEF LedgerInv, LedgerTypes
    <3> QED BY <1>1, <3>1 DEF LedgerInv, CapsHold, Spent, Late
  <2> QED BY <2>1, <2>2 DEF LedgerInv, LedgerTypes
<1> QED BY <1>2, <1>3, <1>4, <1>5, <1>6 DEF LedgerInv

\* A registration: the entry is there already, or it is made.
LEMMA RegisterKeeps == ASSUME LedgerInv, RegisterTask PROVE LedgerInv'
<1>1. /\ UNCHANGED <<knobs, warned, clock, count, notices, charged, counts, stopped>>
      /\ count \in CountTypes /\ clock \in Nat /\ clock' >= clock
  BY DEF RegisterTask, LedgerInv, LedgerTypes, CountTypes
<1>2. CASE UNCHANGED <<entries, entryOf>>
  BY <1>1, <1>2, EntryStays DEF LedgerInv, Counting
<1>3. CASE entryOf = 0 /\ entries' = Append(entries, NewEntry) /\ entryOf' = Len(entries) + 1
  BY <1>1, <1>3, NoEntryYet, EntryBegins
<1> QED BY <1>2, <1>3 DEF RegisterTask, Register

\* The lookup of a count: from here on its caller holds the entry.
LEMMA LookUpKeeps ==
  ASSUME LedgerInv, NEW c \in Callers, NEW kind \in {"loop", "reflection", "tokens"}, LookUp(c, kind)
  PROVE  LedgerInv'
<1>1. /\ UNCHANGED <<knobs, warned, clock, notices, charged, stopped>>
      /\ count' = [count EXCEPT ![c] = [kind |-> kind, entry |-> entryOf', owes |-> "nothing"]]
      /\ count[c].kind = "none" /\ count[c].owes = "nothing"
      /\ count \in CountTypes /\ clock \in Nat /\ clock' >= clock
  BY DEF LookUp, LedgerInv, LedgerTypes, Counting, CountTypes
<1>2. CASE entryOf # 0 /\ UNCHANGED <<entries, entryOf>>
  <2>1. entryOf' = 1 /\ count' \in CountTypes
    BY <1>1, <1>2 DEF LedgerInv, LedgerTypes, CountTypes
  <2>2. \A d \in Callers : count'[d].owes = count[d].owes
    BY <1>1 DEF CountTypes
  <2>3. \A d \in Callers : count'[d].kind # "none" => entryOf = 1 /\ count'[d].entry = 1
    BY <1>1, <1>2, <2>1 DEF LedgerInv, Counting, CountTypes
  <2>4. \A d \in Callers : count'[d].owes # "nothing" => count'[d].kind = "said"
    BY <1>1 DEF LedgerInv, Counting, CountTypes
  <2> QED BY <1>1, <1>2, <2>1, <2>2, <2>3, <2>4, EntryStays
<1>3. CASE entryOf = 0 /\ entries' = Append(entries, NewEntry) /\ entryOf' = Len(entries) + 1
  <2>1. entryOf' = 1 /\ count' \in CountTypes
    BY <1>1, <1>3, FirstEntry DEF CountTypes
  <2>2. /\ \A d \in Callers : count'[d].owes = "nothing"
        /\ \A d \in Callers : count'[d].kind # "none" => count'[d].entry = 1
    BY <1>1, <1>3, <2>1, NoEntryYet DEF CountTypes
  <2> QED BY <1>1, <1>3, <2>1, <2>2, EntryBegins
<1> QED BY <1>2, <1>3 DEF LookUp

\* The clock, and the question of the drive loop.
LEMMA ClockKeeps == ASSUME LedgerInv, TimePasses PROVE LedgerInv'
<1>1. /\ UNCHANGED <<knobs, warned, entries, entryOf, count, notices, charged, stopped>>
      /\ clock' \in Nat /\ clock' >= clock /\ count \in CountTypes
  BY DEF TimePasses, LedgerInv, LedgerTypes, CountTypes
<1> QED BY <1>1, EntryStays DEF LedgerInv, Counting

LEMMA AskCapKeeps == ASSUME LedgerInv, AskCap PROVE LedgerInv'
<1>1. /\ UNCHANGED <<knobs, warned, clock, entries, entryOf, count, notices, charged>>
      /\ stopped' = HardCapExceeded /\ HardCapExceeded # "no" /\ entryOf # 0
  BY DEF AskCap
<1>2. /\ HardCapExceeded \in {"no", "spend_cap", "time_cap"}
      /\ HardCapExceeded = "spend_cap" => Spent
      /\ HardCapExceeded = "time_cap" => Late
  BY DEF HardCapExceeded
<1>3. Entry' = Entry
  BY <1>1 DEF Entry
<1>4. LedgerTypes' /\ Counting'
  BY <1>1, <1>2 DEF LedgerInv, LedgerTypes, Counting
<1>5. Announced' /\ EntryAddsUp' /\ CapsHold'
  BY <1>1, <1>2, <1>3
  DEF LedgerInv, Announced, EntryAddsUp, CapsHold, Nobody, OnlyOne, Spent, Late
<1> QED BY <1>4, <1>5 DEF LedgerInv

\* Replacing the element of a sequence of one.
LEMMA OnlyEntry ==
  ASSUME NEW S, NEW q \in Seq(S), Len(q) = 1, NEW e \in S
  PROVE  /\ [q EXCEPT ![1] = e] \in Seq(S)
         /\ Len([q EXCEPT ![1] = e]) = Len(q)
         /\ [q EXCEPT ![1] = e][1] = e
<1>1. 1 \in 1 .. Len(q)
  OBVIOUS
<1> QED BY <1>1, ExceptSeq

\* What IncLoop, IncReflection and AddTokens have in common: the counted entry
\* replaces the entry, and a rung crossed for the first time is owed by c alone.
LEMMA ChangeFacts ==
  ASSUME LedgerInv, NEW c \in Callers, count[c].kind \in {"loop", "reflection", "tokens"},
         NEW counted \in LedgerEntries, NEW rung \in Rungs, Change(c, counted, rung),
         counted.said = Entry.said, counted.deadline = Entry.deadline,
         counted.dollars >= Entry.dollars, charged' \in Nat
  PROVE  /\ LedgerTypes' /\ Counting' /\ Announced' /\ CapsHold'
         /\ entryOf = 1 /\ entryOf' = 1 /\ knobs' = knobs
         /\ Entry'.loops = counted.loops /\ Entry'.reflections = counted.reflections
         /\ Entry'.dollars = counted.dollars /\ Entry'.deadline = counted.deadline
         /\ Entry'.said = IF Crosses(counted, rung) THEN Entry.said \union {rung} ELSE Entry.said
<1> DEFINE crossed == Crosses(counted, rung)
           changed == IF crossed THEN [counted EXCEPT !.said = @ \union {rung}] ELSE counted
<1>1. /\ entryOf = 1 /\ count[c].entry = 1 /\ count[c].owes = "nothing"
      /\ count \in CountTypes /\ clock \in Nat
  BY DEF LedgerInv, LedgerTypes, Counting
<1>2. /\ entries' = [entries EXCEPT ![1] = changed]
      /\ count' = IF crossed THEN [count EXCEPT ![c].kind = "said", ![c].owes = rung]
                  ELSE [count EXCEPT ![c] = Resting]
      /\ UNCHANGED <<knobs, warned, clock, entryOf, notices, counts, stopped>>
  BY <1>1 DEF Change
<1>3. crossed => rung \notin Entry.said
  BY DEF Crosses
<1> HIDE DEF crossed
<1>4. /\ changed \in LedgerEntries
      /\ changed.said = (IF crossed THEN Entry.said \union {rung} ELSE Entry.said)
      /\ changed.loops = counted.loops /\ changed.reflections = counted.reflections
      /\ changed.dollars = counted.dollars /\ changed.deadline = counted.deadline
  BY DEF LedgerEntries
<1> HIDE DEF changed
<1>5. entries \in Seq(LedgerEntries) /\ 1 \in 1 .. Len(entries) /\ Len(entries) = 1
  BY <1>1 DEF LedgerInv, LedgerTypes
<1>6. entries' \in Seq(LedgerEntries) /\ Len(entries') = 1 /\ Entry' = changed
  <2>1. /\ [entries EXCEPT ![1] = changed] \in Seq(LedgerEntries)
        /\ Len([entries EXCEPT ![1] = changed]) = Len(entries)
        /\ [entries EXCEPT ![1] = changed][1] = changed
    BY <1>4, <1>5, OnlyEntry
  <2> QED BY <1>1, <1>2, <1>5, <2>1 DEF Entry
<1>7. /\ count' \in CountTypes
      /\ \A d \in Callers \ {c} : count'[d] = count[d]
      /\ crossed => count'[c].owes = rung /\ count'[c].kind = "said" /\ count'[c].entry = 1
      /\ ~crossed => count'[c].owes = "nothing" /\ count'[c].kind = "none"
  BY <1>1, <1>2 DEF CountTypes, Resting
<1>8. LedgerTypes'
  BY <1>2, <1>6, <1>7, <1>1 DEF LedgerInv, LedgerTypes
<1>9. Counting'
  BY <1>1, <1>2, <1>7 DEF LedgerInv, Counting
<1>10. Announced'
  <2>1. CASE ~crossed
    <3>1. \A r \in Rungs : Nobody(r)' <=> Nobody(r)
      BY <1>1, <1>7, <2>1 DEF Nobody, Rungs
    <3>2. \A r \in Rungs : OnlyOne(r) => OnlyOne(r)'
      BY <1>1, <1>7, <2>1 DEF OnlyOne, Rungs
    <3> QED BY <1>1, <1>2, <1>4, <1>6, <2>1, <3>1, <3>2 DEF LedgerInv, Announced
  <2>2. CASE crossed
    <3>1. notices[rung] = 0 /\ Nobody(rung)
      BY <1>1, <1>3, <2>2 DEF LedgerInv, Announced
    <3>2. OnlyOne(rung)'
      BY <1>7, <2>2, <3>1 DEF OnlyOne, Nobody
    <3>3. \A r \in Rungs \ {rung} : (Nobody(r)' <=> Nobody(r)) /\ (OnlyOne(r) => OnlyOne(r)')
      BY <1>1, <1>7, <2>2 DEF Nobody, OnlyOne, Rungs
    <3>4. \A r \in Rungs \ {rung} : r \in Entry'.said <=> r \in Entry.said
      BY <1>4, <1>6
    <3>5. rung \in Entry'.said
      BY <1>4, <1>6, <2>2
    <3> QED BY <1>1, <1>2, <3>1, <3>2, <3>3, <3>4, <3>5 DEF LedgerInv, Announced
  <2> QED BY <2>1, <2>2
<1>11. CapsHold'
  <2>1. Entry.dollars \in Nat /\ counted.dollars \in Nat /\ knobs.dollars \in Nat
    BY <1>1, EntryFacts, KnobFacts DEF LedgerInv, LedgerTypes, LedgerEntries
  <2>2. Spent => Spent'
    BY <1>2, <1>4, <1>6, <2>1 DEF Spent
  <2>3. Late => Late'
    BY <1>2, <1>4, <1>6 DEF Late
  <2> QED BY <1>2, <2>2, <2>3 DEF LedgerInv, CapsHold
<1> QED BY <1>1, <1>2, <1>4, <1>6, <1>8, <1>9, <1>10, <1>11 DEF crossed

LEMMA IncLoopKeeps == ASSUME LedgerInv, NEW c \in Callers, IncLoop(c) PROVE LedgerInv'
<1> DEFINE counted == [Entry EXCEPT !.loops = @ + 1]
<1>1. /\ count[c].kind = "loop" /\ charged' = charged /\ charged' \in Nat
      /\ Change(c, counted, "reflection_disabled")
      /\ entryOf = 1
  BY DEF IncLoop, LedgerInv, LedgerTypes, Counting, Entry
<1>2. Entry \in LedgerEntries /\ Entry.loops \in Nat /\ Entry.dollars \in Nat
  BY <1>1, EntryFacts DEF LedgerInv
<1>3. /\ counted \in LedgerEntries /\ counted.loops = Entry.loops + 1
      /\ counted.reflections = Entry.reflections /\ counted.dollars = Entry.dollars
      /\ counted.deadline = Entry.deadline /\ counted.said = Entry.said
  BY <1>2 DEF LedgerEntries
<1>4. knobs.loops \in Nat
  BY KnobFacts DEF LedgerInv, LedgerTypes
<1>5. Crosses(counted, "reflection_disabled") <=>
        /\ "reflection_disabled" \notin Entry.said
        /\ knobs.loops > 0 /\ Entry.loops + 1 = knobs.loops
  BY <1>3 DEF Crosses
<1> HIDE DEF counted
<1>6. /\ LedgerTypes' /\ Counting' /\ Announced' /\ CapsHold'
      /\ entryOf' = 1 /\ knobs' = knobs
      /\ Entry'.loops = Entry.loops + 1 /\ Entry'.reflections = Entry.reflections
      /\ Entry'.dollars = Entry.dollars /\ Entry'.deadline = Entry.deadline
      /\ Entry'.said = IF Crosses(counted, "reflection_disabled")
                       THEN Entry.said \union {"reflection_disabled"} ELSE Entry.said
  <2>1. /\ count[c].kind \in {"loop", "reflection", "tokens"}
        /\ "reflection_disabled" \in Rungs /\ counted.dollars >= Entry.dollars
    BY <1>1, <1>2, <1>3 DEF Rungs
  <2> QED BY <1>1, <1>3, <2>1, ChangeFacts
<1>7. EntryAddsUp'
  BY <1>1, <1>2, <1>4, <1>5, <1>6 DEF LedgerInv, EntryAddsUp, Spent
<1> QED BY <1>6, <1>7 DEF LedgerInv
LEMMA IncReflectionKeeps == ASSUME LedgerInv, NEW c \in Callers, IncReflection(c) PROVE LedgerInv'
<1> DEFINE counted == [Entry EXCEPT !.reflections = @ + 1]
<1>1. /\ count[c].kind = "reflection" /\ charged' = charged /\ charged' \in Nat
      /\ Change(c, counted, "autosubmit")
      /\ entryOf = 1
  BY DEF IncReflection, LedgerInv, LedgerTypes, Counting, Entry
<1>2. Entry \in LedgerEntries /\ Entry.reflections \in Nat /\ Entry.dollars \in Nat
  BY <1>1, EntryFacts DEF LedgerInv
<1>3. /\ counted \in LedgerEntries /\ counted.reflections = Entry.reflections + 1
      /\ counted.loops = Entry.loops /\ counted.dollars = Entry.dollars
      /\ counted.deadline = Entry.deadline /\ counted.said = Entry.said
  BY <1>2 DEF LedgerEntries
<1>4. knobs.reflections \in Nat
  BY KnobFacts DEF LedgerInv, LedgerTypes
<1>5. Crosses(counted, "autosubmit") <=>
        /\ "autosubmit" \notin Entry.said
        /\ knobs.reflections > 0 /\ Entry.reflections + 1 = knobs.reflections
  BY <1>3 DEF Crosses
<1> HIDE DEF counted
<1>6. /\ LedgerTypes' /\ Counting' /\ Announced' /\ CapsHold'
      /\ entryOf' = 1 /\ knobs' = knobs
      /\ Entry'.reflections = Entry.reflections + 1 /\ Entry'.loops = Entry.loops
      /\ Entry'.dollars = Entry.dollars /\ Entry'.deadline = Entry.deadline
      /\ Entry'.said = IF Crosses(counted, "autosubmit")
                       THEN Entry.said \union {"autosubmit"} ELSE Entry.said
  <2>1. /\ count[c].kind \in {"loop", "reflection", "tokens"}
        /\ "autosubmit" \in Rungs /\ counted.dollars >= Entry.dollars
    BY <1>1, <1>2, <1>3 DEF Rungs
  <2> QED BY <1>1, <1>3, <2>1, ChangeFacts
<1>7. EntryAddsUp'
  BY <1>1, <1>2, <1>4, <1>5, <1>6 DEF LedgerInv, EntryAddsUp, Spent
<1> QED BY <1>6, <1>7 DEF LedgerInv

LEMMA AddTokensKeeps == ASSUME LedgerInv, NEW c \in Callers, AddTokens(c) PROVE LedgerInv'
<1> DEFINE counted == [Entry EXCEPT !.dollars = @ + knobs.rate]
<1>1. /\ knobs.dollars \in Nat /\ knobs.rate \in Nat /\ charged \in Nat
  BY KnobFacts DEF LedgerInv, LedgerTypes
<1>2. /\ count[c].kind = "tokens" /\ charged' = charged + knobs.rate /\ charged' \in Nat
      /\ Change(c, counted, "spend_cap")
      /\ entryOf = 1
  BY <1>1 DEF AddTokens, LedgerInv, Counting, Entry
<1>3. Entry \in LedgerEntries /\ Entry.dollars \in Nat
  BY <1>2, EntryFacts DEF LedgerInv
<1>4. /\ counted \in LedgerEntries /\ counted.dollars = Entry.dollars + knobs.rate
      /\ counted.reflections = Entry.reflections /\ counted.loops = Entry.loops
      /\ counted.deadline = Entry.deadline /\ counted.said = Entry.said
  BY <1>1, <1>3 DEF LedgerEntries
<1>5. Crosses(counted, "spend_cap") <=>
        /\ "spend_cap" \notin Entry.said
        /\ knobs.dollars > 0 /\ knobs.rate > 0 /\ Entry.dollars + knobs.rate >= knobs.dollars
  BY <1>4 DEF Crosses
<1> HIDE DEF counted
<1>6. /\ LedgerTypes' /\ Counting' /\ Announced' /\ CapsHold'
      /\ entryOf' = 1 /\ knobs' = knobs
      /\ Entry'.loops = Entry.loops /\ Entry'.reflections = Entry.reflections
      /\ Entry'.dollars = Entry.dollars + knobs.rate /\ Entry'.deadline = Entry.deadline
      /\ Entry'.said = IF Crosses(counted, "spend_cap")
                       THEN Entry.said \union {"spend_cap"} ELSE Entry.said
  <2>1. /\ count[c].kind \in {"loop", "reflection", "tokens"}
        /\ "spend_cap" \in Rungs /\ counted.dollars >= Entry.dollars
    BY <1>1, <1>2, <1>3, <1>4 DEF Rungs
  <2> QED BY <1>2, <1>4, <2>1, ChangeFacts
<1>7. EntryAddsUp'
  BY <1>1, <1>2, <1>3, <1>5, <1>6 DEF LedgerInv, EntryAddsUp, Spent
<1> QED BY <1>6, <1>7 DEF LedgerInv

\* The notice goes out, by the one caller that owes it.
LEMMA PublishNoticeKeeps == ASSUME LedgerInv, NEW c \in Callers, PublishNotice(c) PROVE LedgerInv'
<1>0. PICK rung \in Rungs : count[c].owes = rung
  BY DEF PublishNotice, LedgerInv, LedgerTypes, CountTypes
<1>1. /\ notices' = [notices EXCEPT ![rung] = @ + 1]
      /\ count' = [count EXCEPT ![c] = Resting] /\ count \in CountTypes
      /\ UNCHANGED <<knobs, warned, clock, entries, entryOf, charged, counts, stopped>>
  BY <1>0 DEF PublishNotice, LedgerInv, LedgerTypes
<1>2. /\ count' \in CountTypes /\ count'[c].owes = "nothing" /\ count'[c].kind = "none"
      /\ \A d \in Callers \ {c} : count'[d] = count[d]
  BY <1>1 DEF CountTypes, Resting
<1>3. ~Nobody(rung)
  BY <1>0 DEF Nobody
<1>4. notices[rung] = 0 /\ OnlyOne(rung) /\ entryOf = 1 /\ rung \in Entry.said
  BY <1>1, <1>3 DEF LedgerInv, Announced
<1>5. notices \in [Rungs -> Nat]
  BY DEF LedgerInv, LedgerTypes
<1>6. /\ notices' \in [Rungs -> Nat] /\ notices'[rung] = 1
      /\ \A r \in Rungs \ {rung} : notices'[r] = notices[r]
  BY <1>1, <1>4, <1>5
<1>7. Entry' = Entry
  BY <1>1 DEF Entry
<1>8. LedgerTypes' /\ Counting'
  BY <1>1, <1>2, <1>6 DEF LedgerInv, LedgerTypes, Counting
<1>9. Announced'
  <2>1. Nobody(rung)'
    BY <1>0, <1>2, <1>4 DEF OnlyOne, Nobody, Rungs
  <2>2. \A r \in Rungs \ {rung} : (Nobody(r)' <=> Nobody(r)) /\ (OnlyOne(r) => OnlyOne(r)')
    BY <1>0, <1>2 DEF Nobody, OnlyOne, Rungs
  <2> QED BY <1>1, <1>4, <1>6, <1>7, <2>1, <2>2 DEF LedgerInv, Announced
<1>10. EntryAddsUp' /\ CapsHold'
  BY <1>1, <1>7 DEF LedgerInv, EntryAddsUp, CapsHold, Spent, Late
<1> QED BY <1>8, <1>9, <1>10 DEF LedgerInv

LEMMA NextLedger == LedgerInv /\ [CostNext]_costVars => LedgerInv'
<1>1. ASSUME LedgerInv, UNCHANGED costVars PROVE LedgerInv'
  <2>1. UNCHANGED <<knobs, warned, clock, entries, entryOf, count, notices, charged, stopped>>
    BY <1>1 DEF costVars
  <2>2. count \in CountTypes /\ clock \in Nat /\ clock' >= clock
    BY <1>1, <2>1 DEF LedgerInv, LedgerTypes
  <2> QED BY <1>1, <2>1, <2>2, EntryStays DEF LedgerInv, Counting
<1>2. ASSUME LedgerInv, CostNext PROVE LedgerInv'
  BY <1>2, RegisterKeeps, AskCapKeeps, ClockKeeps, LookUpKeeps, IncLoopKeeps, IncReflectionKeeps,
     AddTokensKeeps, PublishNoticeKeeps, ZenonT(60)
  DEF CostNext
<1> QED BY <1>1, <1>2

\* Whoever owes a notice is counted once.
LEMMA OwingCount ==
  ASSUME LedgerInv, NEW r \in Rungs
  PROVE  LET owing == Cardinality({c \in Callers : count[c].owes = r})
         IN  /\ Nobody(r) => owing = 0
             /\ OnlyOne(r) => owing = 1
<1> DEFINE Owing == {c \in Callers : count[c].owes = r}
<1>1. ASSUME Nobody(r) PROVE Cardinality(Owing) = 0
  <2>1. Owing = {}
    BY <1>1 DEF Nobody
  <2> QED BY <2>1, FS_EmptySet
<1>2. ASSUME OnlyOne(r) PROVE Cardinality(Owing) = 1
  <2>1. PICK c \in Callers : Owing = {c}
    BY <1>2 DEF OnlyOne
  <2> QED BY <2>1, FS_Singleton
<1> QED BY <1>1, <1>2

LEMMA LedgerIsSound == LedgerInv => CostSound
<1> SUFFICES ASSUME LedgerInv PROVE CostSound
  OBVIOUS
<1>1. /\ DOMAIN knobs = {"dollars", "time", "rate", "loops", "reflections"}
      /\ knobs.dollars \in Nat /\ knobs.time \in Nat /\ knobs.rate \in Nat
      /\ knobs.loops \in Nat /\ knobs.reflections \in Nat
  BY KnobFacts DEF LedgerInv, LedgerTypes
<1>2. entryOf # 0 => entryOf = 1 /\ Entry.dollars \in Nat /\ Entry.loops \in Nat
                       /\ Entry.reflections \in Nat /\ Entry.deadline \in Nat
  BY EntryFacts DEF LedgerInv, LedgerTypes
<1>3. SpendIsSeen
  BY <1>2 DEF LedgerInv, EntryAddsUp, SpendIsSeen
<1>4. CapsStand
  BY DEF LedgerInv, CapsHold, CapsStand, HardCapExceeded
<1>5. OncePerRung
  <2> SUFFICES ASSUME entryOf # 0 PROVE OncePerRung
    BY DEF OncePerRung
  <2>1. ASSUME NEW r \in Rungs
        PROVE  notices[r] + Cardinality({c \in Callers : count[c].owes = r})
                 = IF r \in Entry.said THEN 1 ELSE 0
    BY <1>2, <2>1, OwingCount DEF LedgerInv, Announced
  <2> QED BY <1>2, <2>1 DEF LedgerInv, EntryAddsUp, OncePerRung
<1>6. LadderInOrder
  <2> SUFFICES ASSUME entryOf # 0 PROVE LadderInOrder
    BY DEF LadderInOrder
  <2>1. HardCapExceeded # "no" => ~ReflectionAllowed
    BY DEF HardCapExceeded, ReflectionAllowed
  <2>2. ~ReflectionAllowed => ~MultiCandidateAllowed
    BY DEF ReflectionAllowed, MultiCandidateAllowed
  <2>3. (\A k \in DOMAIN knobs : knobs[k] = 0) => MultiCandidateAllowed
    <3> SUFFICES ASSUME \A k \in DOMAIN knobs : knobs[k] = 0 PROVE MultiCandidateAllowed
      OBVIOUS
    <3>1. knobs.dollars = 0 /\ knobs.time = 0 /\ knobs.loops = 0 /\ knobs.reflections = 0
      BY <1>1
    <3>2. Entry.deadline = 0
      BY <1>2, <3>1 DEF LedgerInv, EntryAddsUp
    <3> QED BY <3>1, <3>2 DEF MultiCandidateAllowed, Spent, Late
  <2>4. (knobs.dollars > 0 /\ ~warned /\ charged >= knobs.dollars) => HardCapExceeded = "spend_cap"
    BY <1>2 DEF LedgerInv, EntryAddsUp, HardCapExceeded, Spent
  <2>5. stopped = "spend_cap" => ~warned
    <3> SUFFICES ASSUME stopped = "spend_cap", warned PROVE FALSE
      OBVIOUS
    <3>1. knobs.rate = 0
      BY DEF LedgerInv, Counting
    <3>2. Entry.dollars = 0
      BY <1>2, <3>1 DEF LedgerInv, EntryAddsUp
    <3>3. knobs.dollars > 0 /\ Entry.dollars >= knobs.dollars
      BY DEF LedgerInv, CapsHold, Spent
    <3> QED BY <1>1, <3>2, <3>3
  <2> QED BY <2>1, <2>2, <2>3, <2>4, <2>5 DEF LadderInOrder
<1> QED BY <1>3, <1>4, <1>5, <1>6 DEF CostSound

-----------------------------------------------------------------------------
\* The publisher

PublisherTypes ==
    /\ results \in Nat /\ callsMade \in Nat /\ spentSum \in Nat
    /\ incurred \in Nat /\ publishFailed \in Nat /\ lostOnEnd \in Nat /\ incurredSum \in Nat
    /\ accruer \in [at : {"off", "waiting", "publishing", "warning", "ended"}, rate : Nat]
    /\ feed \in Seq(PaidTools) /\ feedOpen \in BOOLEAN /\ busUp \in BOOLEAN /\ ctxLive \in BOOLEAN
    /\ hasLog \in BOOLEAN
    /\ saidCeiling \subseteq Ceilings /\ toWarn \subseteq saidCeiling
    /\ warnings \in [Ceilings -> Nat]
    /\ stopper \in {"idle", "stopping", "returned"}

\* Where the accruer is tells what is still to be shown and to be warned of.
Accruing ==
    /\ accruer.at # "publishing" => accruer.rate = 0
    /\ incurredSum + accruer.rate <= spentSum
    /\ toWarn # {} => accruer.at \in {"publishing", "warning"}
    /\ accruer.at = "warning" => toWarn # {}

PublisherInv == PublisherTypes /\ Accruing /\ PublisherSound

\* A rate is a number, whatever tool it is asked for.
LEMMA CostIsNat == \A tool : CostFor(tool) \in Nat
BY PublisherAssumption DEF CostFor

LEMMA InitPublisher == PublisherInit => PublisherInv
<1> SUFFICES ASSUME PublisherInit PROVE PublisherInv
  OBVIOUS
<1>1. feed \in Seq(PaidTools) /\ Len(feed) = 0
  BY EmptySeq DEF PublisherInit
<1>2. PublisherTypes
  BY <1>1, PublisherAssumption DEF PublisherInit, PublisherTypes, Ceilings
<1>3. Accruing /\ AccrualsAddUp /\ StopIsQuiet
  BY <1>1 DEF PublisherInit, Accruing, AccrualsAddUp, StopIsQuiet
<1>4. WarnedOnce
  BY PublisherAssumption DEF PublisherInit, WarnedOnce, Ceilings
<1> QED BY <1>2, <1>3, <1>4 DEF PublisherInv, PublisherSound

\* The warnings are as they were, whatever else happens.
LEMMA WarningsStay ==
  ASSUME WarnedOnce, UNCHANGED <<callsMade, spentSum, saidCeiling, toWarn, warnings>>
  PROVE  WarnedOnce'
BY DEF WarnedOnce

\* The accruer takes a result: the call is counted, priced and owed a Publish,
\* and each ceiling it is the first to reach a warning.
LEMMA AccrueKeeps == ASSUME PublisherInv, Accrue PROVE PublisherInv'
<1> DEFINE rate == CostFor(Head(feed))
           crossed == Crossed(callsMade + 1, spentSum + rate)
<1>1. /\ accruer.at = "waiting" /\ feed # <<>>
      /\ callsMade' = callsMade + 1 /\ spentSum' = spentSum + rate
      /\ toWarn' = crossed /\ saidCeiling' = saidCeiling \union crossed
      /\ accruer' = [at |-> "publishing", rate |-> rate] /\ feed' = Tail(feed)
      /\ UNCHANGED <<results, feedOpen, busUp, ctxLive, hasLog, incurred, publishFailed, lostOnEnd,
                     incurredSum, warnings, stopper>>
  BY DEF Accrue
<1>2. rate \in Nat
  BY CostIsNat
<1>3. /\ crossed \subseteq Ceilings
      /\ \A c \in Ceilings : c \in crossed <=>
            /\ c \notin saidCeiling
            /\ \/ c = "calls" /\ MaxCalls > 0 /\ callsMade + 1 >= MaxCalls
               \/ c = "cost" /\ MaxCost > 0 /\ spentSum + rate >= MaxCost
  BY DEF Crossed
<1> HIDE DEF rate, crossed
<1>4. feed' \in Seq(PaidTools) /\ Len(feed') = Len(feed) - 1 /\ Len(feed) \in Nat /\ Len(feed) > 0
  BY <1>1, HeadTailProperties, EmptySeq DEF PublisherInv, PublisherTypes
<1>5. accruer.rate = 0 /\ toWarn = {}
  BY <1>1 DEF PublisherInv, Accruing
<1>6. PublisherTypes'
  BY <1>1, <1>2, <1>3, <1>4 DEF PublisherInv, PublisherTypes
<1>7. Accruing'
  BY <1>1, <1>2, <1>5 DEF PublisherInv, PublisherTypes, Accruing
<1>8. AccrualsAddUp'
  BY <1>1, <1>2, <1>4 DEF PublisherInv, PublisherTypes, PublisherSound, AccrualsAddUp
<1>9. WarnedOnce'
  <2> SUFFICES ASSUME NEW c \in Ceilings
               PROVE  /\ warnings'[c] + (IF c \in toWarn' THEN 1 ELSE 0)
                           = IF c \in saidCeiling' THEN 1 ELSE 0
                      /\ c \in saidCeiling' <=>
                           \/ c = "calls" /\ MaxCalls > 0 /\ callsMade' >= MaxCalls
                           \/ c = "cost" /\ MaxCost > 0 /\ spentSum' >= MaxCost
    BY DEF WarnedOnce
  <2>1. /\ warnings[c] = (IF c \in saidCeiling THEN 1 ELSE 0)
        /\ c \in saidCeiling <=>
             \/ c = "calls" /\ MaxCalls > 0 /\ callsMade >= MaxCalls
             \/ c = "cost" /\ MaxCost > 0 /\ spentSum >= MaxCost
        /\ warnings[c] \in Nat
    BY <1>5 DEF PublisherInv, PublisherTypes, PublisherSound, WarnedOnce
  <2>2. callsMade \in Nat /\ spentSum \in Nat /\ MaxCalls \in Nat /\ MaxCost \in Nat
    BY PublisherAssumption DEF PublisherInv, PublisherTypes
  <2> QED BY <1>1, <1>2, <1>3, <2>1, <2>2
<1>10. StopIsQuiet'
  BY <1>1 DEF PublisherInv, PublisherSound, StopIsQuiet
<1> QED BY <1>6, <1>7, <1>8, <1>9, <1>10 DEF PublisherInv, PublisherSound

\* The Publish of the accrual: shown, failed, or lost to a closed bus.
LEMMA PublishIncurredKeeps == ASSUME PublisherInv, PublishIncurred PROVE PublisherInv'
<1>1. /\ accruer.at = "publishing"
      /\ accruer' = [at |-> IF toWarn = {} THEN "waiting" ELSE "warning", rate |-> 0]
      /\ UNCHANGED <<results, feed, feedOpen, busUp, ctxLive, hasLog, callsMade, spentSum, saidCeiling,
                     toWarn, warnings, stopper>>
  BY DEF PublishIncurred
<1>2. \/ /\ incurred' = incurred + 1 /\ incurredSum' = incurredSum + accruer.rate
         /\ UNCHANGED <<publishFailed, lostOnEnd>>
      \/ /\ ~busUp /\ lostOnEnd' = lostOnEnd + 1
         /\ UNCHANGED <<incurred, incurredSum, publishFailed>>
      \/ /\ ~ ctxLive \/ hasLog
         /\ publishFailed' = publishFailed + 1
         /\ UNCHANGED <<incurred, incurredSum, lostOnEnd>>
  BY DEF PublishIncurred
<1>3. accruer.rate \in Nat
  BY DEF PublisherInv, PublisherTypes
<1>4. PublisherTypes'
  BY <1>1, <1>2, <1>3 DEF PublisherInv, PublisherTypes
<1>5. Accruing'
  BY <1>1, <1>2, <1>3 DEF PublisherInv, PublisherTypes, Accruing
<1>6. AccrualsAddUp'
  <2>1. accruer'.at # "publishing"
    BY <1>1
  <2>2. callsMade' = callsMade /\ spentSum' = spentSum /\ results' = results /\ feed' = feed
    BY <1>1
  <2>3. callsMade = incurred + publishFailed + lostOnEnd + 1
    BY <1>1 DEF PublisherInv, PublisherSound, AccrualsAddUp
  <2>4. /\ incurred \in Nat /\ publishFailed \in Nat /\ lostOnEnd \in Nat /\ callsMade \in Nat
        /\ incurredSum \in Nat /\ spentSum \in Nat
    BY DEF PublisherInv, PublisherTypes
  <2>5. callsMade = incurred' + publishFailed' + lostOnEnd'
    BY <1>2, <2>3, <2>4
  <2>6. callsMade' = incurred' + publishFailed' + lostOnEnd'
                       + (IF accruer'.at = "publishing" THEN 1 ELSE 0)
    <3>1. incurred' \in Nat /\ publishFailed' \in Nat /\ lostOnEnd' \in Nat
      BY <1>4 DEF PublisherTypes
    <3> QED BY <2>1, <2>2, <2>5, <3>1
  <2>7. callsMade' + Len(feed') <= results'
    BY <2>2 DEF PublisherInv, PublisherSound, AccrualsAddUp
  <2>8. incurredSum' <= spentSum'
    <3>1. incurredSum <= spentSum /\ incurredSum + accruer.rate <= spentSum
      BY DEF PublisherInv, PublisherSound, AccrualsAddUp, Accruing
    <3> QED BY <1>2, <2>2, <3>1
  <2>9. (lostOnEnd' > 0 => ~ busUp') /\ (publishFailed' > 0 => ~ ctxLive' \/ hasLog')
    <3>1. (lostOnEnd > 0 => ~ busUp) /\ (publishFailed > 0 => ~ ctxLive \/ hasLog)
      BY DEF PublisherInv, PublisherSound, AccrualsAddUp
    <3>2. busUp' = busUp /\ ctxLive' = ctxLive /\ hasLog' = hasLog
      BY <1>1
    <3> QED BY <1>2, <3>1, <3>2
  <2> QED BY <2>6, <2>7, <2>8, <2>9 DEF AccrualsAddUp
<1>7. WarnedOnce' /\ StopIsQuiet'
  BY <1>1, WarningsStay DEF PublisherInv, PublisherSound, StopIsQuiet
<1> QED BY <1>4, <1>5, <1>6, <1>7 DEF PublisherInv, PublisherSound

\* A warning goes out, the calls' before the cost's.
LEMMA WarnKeeps == ASSUME PublisherInv, Warn PROVE PublisherInv'
<1>1. toWarn # {} /\ toWarn \subseteq Ceilings /\ accruer.at = "warning"
  BY DEF Warn, PublisherInv, PublisherTypes, Accruing
<1>2. PICK c \in toWarn :
        /\ warnings' = [warnings EXCEPT ![c] = @ + 1] /\ toWarn' = toWarn \ {c}
        /\ accruer' = IF toWarn = {c} THEN [accruer EXCEPT !.at = "waiting"] ELSE accruer
  BY <1>1 DEF Warn, Ceilings
<1>3. UNCHANGED <<results, feed, feedOpen, busUp, ctxLive, hasLog, callsMade, spentSum, saidCeiling,
                  incurred, publishFailed, lostOnEnd, incurredSum, stopper>>
  BY DEF Warn
<1>4. warnings \in [Ceilings -> Nat] /\ c \in Ceilings /\ c \in saidCeiling
  BY <1>1 DEF PublisherInv, PublisherTypes
<1>5. /\ accruer'.rate = accruer.rate /\ accruer'.at = (IF toWarn = {c} THEN "waiting" ELSE "warning")
      /\ accruer' \in [at : {"off", "waiting", "publishing", "warning", "ended"}, rate : Nat]
  BY <1>1, <1>2 DEF PublisherInv, PublisherTypes
<1>6. PublisherTypes'
  <2>1. warnings' \in [Ceilings -> Nat]
    <3>1. warnings[c] + 1 \in Nat
      BY <1>4
    <3> QED BY <1>2, <1>4, <3>1
  <2>2. saidCeiling' \subseteq Ceilings /\ toWarn' \subseteq saidCeiling'
    BY <1>2, <1>3 DEF PublisherInv, PublisherTypes
  <2> QED BY <1>3, <1>5, <2>1, <2>2 DEF PublisherInv, PublisherTypes
<1>7. Accruing'
  BY <1>1, <1>2, <1>3, <1>5 DEF PublisherInv, Accruing
<1>8. AccrualsAddUp'
  BY <1>1, <1>3, <1>5 DEF PublisherInv, PublisherSound, AccrualsAddUp
<1>9. WarnedOnce'
  BY <1>2, <1>3, <1>4 DEF PublisherInv, PublisherSound, WarnedOnce
<1>10. StopIsQuiet'
  BY <1>1, <1>3 DEF PublisherInv, PublisherSound, StopIsQuiet
<1> QED BY <1>6, <1>7, <1>8, <1>9, <1>10 DEF PublisherInv, PublisherSound

\* The rest of the system, and the accruer's beginning and end.
LEMMA AroundKeeps ==
  ASSUME PublisherInv,
         StartPublisher \/ BusCloses \/ RunCancelled \/ AccruerEnds \/ StopPublisher \/ StopReturns
           \/ UNCHANGED publisherVars
  PROVE  PublisherInv'
<1>1. /\ UNCHANGED <<results, feed, hasLog, callsMade, spentSum, saidCeiling, toWarn, incurred,
                     publishFailed, lostOnEnd, incurredSum, warnings>>
      /\ stopper' \in {"idle", "stopping", "returned"}
  BY DEF StartPublisher, BusCloses, RunCancelled, AccruerEnds, StopPublisher, StopReturns,
         publisherVars, PublisherInv, PublisherTypes
<1>0. /\ feedOpen' \in BOOLEAN /\ busUp' \in BOOLEAN /\ ctxLive' \in BOOLEAN
      /\ (busUp' => busUp) /\ (ctxLive' => ctxLive)
  <2>1. feedOpen \in BOOLEAN /\ busUp \in BOOLEAN /\ ctxLive \in BOOLEAN
    BY DEF PublisherInv, PublisherTypes
  <2>2. /\ feedOpen' = feedOpen \/ feedOpen' = FALSE
        /\ busUp' = busUp \/ busUp' = FALSE
        /\ ctxLive' = ctxLive \/ ctxLive' = FALSE
    BY Zenon DEF StartPublisher, BusCloses, RunCancelled, AccruerEnds, StopPublisher, StopReturns,
         publisherVars
  <2>3. busUp' => busUp
    <3>1. CASE busUp' = busUp
      BY <3>1
    <3>2. CASE busUp' = FALSE
      BY <3>2
    <3> QED BY <2>2, <3>1, <3>2
  <2>4. ctxLive' => ctxLive
    <3>1. CASE ctxLive' = ctxLive
      BY <3>1
    <3>2. CASE ctxLive' = FALSE
      BY <3>2
    <3> QED BY <2>2, <3>1, <3>2
  <2> QED BY <2>1, <2>2, <2>3, <2>4, Zenon
<1>2. \/ accruer' = accruer
      \/ /\ accruer.at \in {"off", "waiting"} /\ accruer'.at \in {"waiting", "ended"}
         /\ accruer' \in [at : {"off", "waiting", "publishing", "warning", "ended"}, rate : Nat]
         /\ accruer'.rate = accruer.rate /\ stopper' = stopper
         /\ accruer'.at = "waiting" => stopper = "idle"
  BY DEF StartPublisher, BusCloses, RunCancelled, AccruerEnds, StopPublisher, StopReturns,
         publisherVars, PublisherInv, PublisherTypes
<1>3. stopper' = "returned" => stopper = "returned" \/ accruer.at \in {"off", "ended"}
  BY DEF StartPublisher, BusCloses, RunCancelled, AccruerEnds, StopPublisher, StopReturns,
         publisherVars
<1>4. PublisherTypes'
  BY <1>0, <1>1, <1>2 DEF PublisherInv, PublisherTypes
<1>5. Accruing'
  BY <1>1, <1>2 DEF PublisherInv, Accruing
<1>6. AccrualsAddUp'
  BY <1>0, <1>1, <1>2 DEF PublisherInv, PublisherSound, AccrualsAddUp
<1>7. StopIsQuiet'
  BY <1>1, <1>2, <1>3 DEF PublisherInv, PublisherSound, StopIsQuiet, Accruing
<1>8. WarnedOnce'
  BY <1>1, WarningsStay DEF PublisherInv, PublisherSound
<1> QED BY <1>4, <1>5, <1>6, <1>7, <1>8 DEF PublisherInv, PublisherSound

\* A tool ends: its result reaches the feed as long as that is open.
LEMMA ToolEndsKeeps ==
  ASSUME PublisherInv, NEW tool \in PaidTools, ToolEnds(tool) PROVE PublisherInv'
<1>1. /\ results' = results + 1
      /\ feed' = (IF feedOpen THEN Append(feed, tool) ELSE feed)
      /\ UNCHANGED <<feedOpen, busUp, ctxLive, hasLog, accruer, callsMade, spentSum, saidCeiling, toWarn,
                     incurred, publishFailed, lostOnEnd, incurredSum, warnings, stopper>>
  BY DEF ToolEnds
<1>2. feed \in Seq(PaidTools) /\ Len(feed) \in Nat
  BY LenProperties DEF PublisherInv, PublisherTypes
<1>3. feed' \in Seq(PaidTools) /\ Len(feed') <= Len(feed) + 1 /\ Len(feed') \in Nat
  BY <1>1, <1>2, AppendProperties
<1>4. PublisherTypes'
  BY <1>1, <1>3 DEF PublisherInv, PublisherTypes
<1>5. AccrualsAddUp'
  <2>1. callsMade' + Len(feed') <= results'
    <3>1. callsMade + Len(feed) <= results /\ callsMade \in Nat /\ results \in Nat
      BY DEF PublisherInv, PublisherTypes, PublisherSound, AccrualsAddUp
    <3>2. callsMade' = callsMade /\ results' = results + 1
      BY <1>1
    <3> QED BY <1>2, <1>3, <3>1, <3>2
  <2> QED BY <1>1, <2>1 DEF PublisherInv, PublisherSound, AccrualsAddUp
<1>6. Accruing' /\ StopIsQuiet' /\ WarnedOnce'
  BY <1>1, WarningsStay DEF PublisherInv, PublisherSound, Accruing, StopIsQuiet
<1> QED BY <1>4, <1>5, <1>6 DEF PublisherInv, PublisherSound

LEMMA NextPublisher == PublisherInv /\ [PublisherNext]_publisherVars => PublisherInv'
BY AccrueKeeps, PublishIncurredKeeps, WarnKeeps, AroundKeeps, ToolEndsKeeps, ZenonT(60)
DEF PublisherNext

\* The bill of a task: one entry takes every charge, a cap that stopped the run
\* stands, each rung and each ceiling is announced once and not before it is
\* reached, and no accrual disappears: what a Publish did not take is counted,
\* with its cause (cognitive/cost.go, cmd/yolo's
\* cost_ledger.go and cost_publisher.go).
THEOREM BillAlwaysSound == ToolsSpec => []CostsSound
<1> DEFINE Inv == (part = "cost" => LedgerInv) /\ (part = "publisher" => PublisherInv)
<1>1. ToolsInit => Inv
  BY InitLedger, InitPublisher DEF ToolsInit
<1>2. Inv /\ [ToolsNext]_toolsVars => Inv'
  BY OneAtATime, NextLedger, NextPublisher
<1>3. Inv => CostsSound
  BY LedgerIsSound DEF CostsSound, On, PublisherInv
<1> HIDE DEF Inv
<1> QED BY <1>1, <1>2, <1>3, PTL DEF ToolsSpec

-----------------------------------------------------------------------------
\* The undo stack

StackEntries ==
    [seq : Nat, kind : {"patch", "checkpoint"}, snap : Nat, name : EntryNames, reversible : BOOLEAN]

\* A stack with its pointer, none of whose snapshots is newer than the n-th.
GoodStack(h, c, n) ==
    /\ h \in Seq(StackEntries) /\ c \in EntryNames \union {NoName}
    /\ Resolves(h, c) /\ Dense(h) /\ Ascends(h)
    /\ \A i \in DOMAIN h : h[i].snap <= n

StackInv ==
    /\ snaps \in Nat
    /\ GoodStack(history, checkpoint, snaps)
    /\ GoodStack(saved.history, saved.checkpoint, snaps)

\* The first entry of a name is an entry of that name.
LEMMA FirstIsNamed ==
  ASSUME NEW h \in Seq(StackEntries), NEW name, IsNamed(h, name) # {}
  PROVE  FirstNamed(h, name) \in 1 .. Len(h) /\ h[FirstNamed(h, name)].name = name
<1>1. IsNamed(h, name) \in SUBSET Nat
  BY LenProperties DEF IsNamed
<1>2. \E i \in IsNamed(h, name) : \A j \in IsNamed(h, name) : i <= j
  BY <1>1, LeastNat
<1>3. FirstNamed(h, name) \in IsNamed(h, name)
  BY <1>2 DEF FirstNamed
<1> QED BY <1>3, LenProperties DEF IsNamed

\* An entry is pushed whose snapshot is the newest one.
LEMMA PushKeeps ==
  ASSUME NEW h, NEW c, NEW n \in Nat, GoodStack(h, c, n), NEW m \in Nat, n <= m,
         NEW e \in StackEntries, e.seq = Len(h), e.snap = m, NEW d \in {c, e.name}
  PROVE  GoodStack(Append(h, e), d, m)
<1> DEFINE g == Append(h, e)
<1>1. h \in Seq(StackEntries) /\ Len(h) \in Nat /\ DOMAIN h = 1 .. Len(h)
  BY LenProperties DEF GoodStack
<1>2. /\ g \in Seq(StackEntries) /\ Len(g) = Len(h) + 1
      /\ \A i \in 1 .. Len(h) : g[i] = h[i]
      /\ g[Len(h) + 1] = e
  BY <1>1, AppendProperties
<1>3. DOMAIN g = 1 .. Len(h) + 1
  BY <1>2, LenProperties
<1> HIDE DEF g
<1>4. \A i \in 1 .. Len(h) : h[i].snap <= n /\ h[i].snap \in Nat /\ h[i].seq = i - 1
  <2>1. \A i \in 1 .. Len(h) : h[i] \in StackEntries
    BY <1>1, ElementOfSeq
  <2> QED BY <1>1, <2>1 DEF GoodStack, Dense, StackEntries
<1>5. \A i \in DOMAIN g : g[i].snap <= m
  BY <1>1, <1>2, <1>3, <1>4
<1>6. Dense(g)
  BY <1>1, <1>2, <1>3, <1>4 DEF Dense
<1>7. Ascends(g)
  <2> SUFFICES ASSUME NEW i \in 1 .. Len(h) + 1, NEW j \in 1 .. Len(h) + 1, i < j
               PROVE  g[i].snap <= g[j].snap
    BY <1>3 DEF Ascends
  <2>1. i \in 1 .. Len(h) /\ g[i] = h[i]
    BY <1>1, <1>2
  <2>2. CASE j \in 1 .. Len(h)
    BY <1>1, <1>2, <2>1, <2>2 DEF GoodStack, Ascends
  <2>3. CASE j = Len(h) + 1
    BY <1>2, <1>4, <2>1, <2>3
  <2> QED BY <1>1, <2>2, <2>3
<1>8. Resolves(g, d) /\ d \in EntryNames \union {NoName}
  <2>1. CASE d = e.name
    <3>1. Len(h) + 1 \in IsNamed(g, d)
      BY <1>1, <1>2, <1>3, <2>1 DEF IsNamed
    <3> QED BY <2>1, <3>1 DEF Resolves, StackEntries
  <2>2. CASE d = c
    <3>1. IsNamed(h, c) \subseteq IsNamed(g, c)
      BY <1>1, <1>2, <1>3 DEF IsNamed
    <3> QED BY <2>2, <3>1 DEF GoodStack, Resolves
  <2> QED BY <2>1, <2>2
<1> QED BY <1>2, <1>5, <1>6, <1>7, <1>8 DEF GoodStack, g

\* The first k entries of a stack.
LEMMA ButFacts ==
  ASSUME NEW h \in Seq(StackEntries), NEW k \in 0 .. Len(h)
  PROVE  /\ But(h, k) \in Seq(StackEntries) /\ Len(But(h, k)) = k
         /\ \A i \in 1 .. k : But(h, k)[i] = h[i]
<1>1. \A i \in 1 .. k : h[i] \in StackEntries
  BY ElementOfSeq
<1> QED BY <1>1, SubSeqProperties DEF But

\* The stack is cut to its first k entries, to where its pointer is set.
LEMMA CutKeeps ==
  ASSUME NEW h, NEW c, NEW n \in Nat, GoodStack(h, c, n), NEW k \in 0 .. Len(h),
         NEW d, d = NoName \/ \E i \in 1 .. k : d = h[i].name
  PROVE  GoodStack(But(h, k), d, n)
<1> DEFINE g == But(h, k)
<1>1. h \in Seq(StackEntries) /\ Len(h) \in Nat /\ DOMAIN h = 1 .. Len(h)
  BY LenProperties DEF GoodStack
<1>2. \A i \in 1 .. k : h[i] \in StackEntries
  BY <1>1, ElementOfSeq
<1>3. /\ g \in Seq(StackEntries) /\ Len(g) = k
      /\ \A i \in 1 .. k : g[i] = h[i]
  BY <1>1, ButFacts
<1>4. DOMAIN g = 1 .. k
  BY <1>3, LenProperties
<1> HIDE DEF g
<1>5. Dense(g) /\ Ascends(g) /\ \A i \in DOMAIN g : g[i].snap <= n
  BY <1>1, <1>3, <1>4 DEF GoodStack, Dense, Ascends
<1>6. Resolves(g, d) /\ d \in EntryNames \union {NoName}
  <2>1. ASSUME NEW i \in 1 .. k, d = h[i].name
        PROVE  i \in IsNamed(g, d) /\ d \in EntryNames
    BY <1>2, <1>3, <1>4, <2>1 DEF IsNamed, StackEntries
  <2> QED BY <2>1 DEF Resolves
<1> QED BY <1>3, <1>5, <1>6 DEF GoodStack, g

\* Memory and disk, after a save or its failure.
LEMMA SavedKeeps ==
  ASSUME StackInv, snaps' \in Nat, snaps <= snaps', SaveOrFail,
         GoodStack(history', checkpoint', snaps')
  PROVE  StackInv'
<1>1. \/ saved' = saved
      \/ saved'.history = history' /\ saved'.checkpoint = checkpoint'
  BY DEF SaveOrFail
<1>2. \A i \in DOMAIN saved.history : saved.history[i].snap <= snaps'
  <2>1. saved.history \in Seq(StackEntries)
    BY DEF StackInv, GoodStack
  <2>2. \A i \in DOMAIN saved.history : saved.history[i] \in StackEntries
    BY <2>1, ElementOfSeq, LenProperties
  <2>3. \A i \in DOMAIN saved.history : saved.history[i].snap \in Nat
    BY <2>2 DEF StackEntries
  <2> QED BY <2>3 DEF StackInv, GoodStack
<1>3. GoodStack(saved'.history, saved'.checkpoint, snaps')
  BY <1>1, <1>2 DEF StackInv, GoodStack
<1> QED BY <1>3 DEF StackInv

LEMMA InitStack == UndoInit => StackInv
<1> SUFFICES ASSUME UndoInit PROVE StackInv
  OBVIOUS
<1>1. history = <<>> /\ checkpoint = NoName /\ saved.history = <<>> /\ saved.checkpoint = NoName
      /\ snaps = 0
  BY DEF UndoInit
<1>2. GoodStack(<<>>, NoName, 0)
  <2>1. <<>> \in Seq(StackEntries) /\ DOMAIN <<>> = {}
    BY EmptySeq
  <2> QED BY <2>1 DEF GoodStack, Resolves, Dense, Ascends
<1> QED BY <1>1, <1>2 DEF StackInv

LEMMA NextStack == StackInv /\ [UndoNext]_undoVars => StackInv'
<1> SUFFICES ASSUME StackInv, [UndoNext]_undoVars PROVE StackInv'
  OBVIOUS
<1>0. /\ snaps \in Nat /\ GoodStack(history, checkpoint, snaps)
      /\ history \in Seq(StackEntries) /\ Len(history) \in Nat
  BY LenProperties DEF StackInv, GoodStack
<1>1. ASSUME NEW n \in EntryNames, NEW r \in BOOLEAN, RecordEntry(n, r) PROVE StackInv'
  <2> DEFINE e == [seq |-> NextSeq, kind |-> "patch", snap |-> snaps, name |-> n, reversible |-> r]
  <2>1. /\ history' = Append(history, e) /\ checkpoint' = checkpoint /\ snaps' = snaps /\ SaveOrFail
    BY <1>1 DEF RecordEntry
  <2>2. e \in StackEntries /\ e.seq = Len(history) /\ e.snap = snaps
    BY <1>0 DEF StackEntries, NextSeq
  <2> HIDE DEF e
  <2>3. GoodStack(Append(history, e), checkpoint, snaps)
    BY <1>0, <2>2, PushKeeps
  <2> QED BY <1>0, <2>1, <2>3, SavedKeeps
<1>2. ASSUME NEW n \in EntryNames, TakeCheckpoint(n) PROVE StackInv'
  <2> DEFINE e == [seq |-> NextSeq, kind |-> "checkpoint", snap |-> snaps + 1, name |-> n,
                   reversible |-> TRUE]
  <2>1. /\ history' = Append(history, e) /\ checkpoint' = n /\ snaps' = snaps + 1 /\ SaveOrFail
    BY <1>2 DEF TakeCheckpoint
  <2>2. e \in StackEntries /\ e.seq = Len(history) /\ e.snap = snaps + 1 /\ e.name = n
    BY <1>0 DEF StackEntries, NextSeq
  <2> HIDE DEF e
  <2>3. GoodStack(Append(history, e), n, snaps + 1)
    BY <1>0, <2>2, PushKeeps
  <2> QED BY <1>0, <2>1, <2>3, SavedKeeps
<1>3. ASSUME Undo PROVE StackInv'
  <2>1. /\ history # <<>> /\ history' = But(history, Len(history) - 1)
        /\ checkpoint' = PointerAfter(history') /\ snaps' = snaps /\ SaveOrFail
    BY <1>3 DEF Undo
  <2>2. Len(history) - 1 \in 0 .. Len(history)
    BY <1>0, <2>1, EmptySeq
  <2>3. /\ Len(history') = Len(history) - 1
        /\ \A i \in 1 .. Len(history) - 1 : history'[i] = history[i]
        /\ history' \in Seq(StackEntries)
    BY <1>0, <2>1, <2>2, ButFacts
  <2>4. checkpoint' = NoName \/ \E i \in 1 .. Len(history) - 1 : checkpoint' = history[i].name
    <3>1. CASE history' = <<>>
      BY <2>1, <3>1 DEF PointerAfter
    <3>2. CASE history' # <<>>
      <4>1. Len(history') \in 1 .. Len(history) - 1
        BY <2>2, <2>3, <3>2, EmptySeq
      <4> QED BY <2>1, <2>3, <3>2, <4>1 DEF PointerAfter, Latest
    <3> QED BY <3>1, <3>2
  <2>5. GoodStack(But(history, Len(history) - 1), checkpoint', snaps)
    BY <1>0, <2>2, <2>4, CutKeeps
  <2> QED BY <1>0, <2>1, <2>5, SavedKeeps
<1>4. ASSUME NEW n \in EntryNames, Restore(n) PROVE StackInv'
  <2>1. /\ IsNamed(history, n) # {} /\ history' = But(history, FirstNamed(history, n))
        /\ checkpoint' = n /\ snaps' = snaps /\ SaveOrFail
    BY <1>4 DEF Restore
  <2>2. FirstNamed(history, n) \in 1 .. Len(history) /\ history[FirstNamed(history, n)].name = n
    BY <1>0, <2>1, FirstIsNamed
  <2>3. GoodStack(But(history, FirstNamed(history, n)), n, snaps)
    BY <1>0, <2>2, CutKeeps
  <2> QED BY <1>0, <2>1, <2>3, SavedKeeps
<1>5. ASSUME CancelTask PROVE StackInv'
  <2>1. history' = history /\ checkpoint' = checkpoint /\ snaps' = snaps /\ SaveOrFail
    BY <1>5 DEF CancelTask
  <2> QED BY <1>0, <2>1, SavedKeeps
<1>6. ASSUME Reload PROVE StackInv'
  BY <1>6 DEF Reload, StackInv
<1>7. ASSUME UNCHANGED undoVars PROVE StackInv'
  BY <1>7 DEF undoVars, StackInv
<1> QED BY <1>1, <1>2, <1>3, <1>4, <1>5, <1>6, <1>7 DEF UndoNext

LEMMA StackIsSound == StackInv => StackSound
BY DEF StackInv, GoodStack, StackSound

-----------------------------------------------------------------------------
\* The verification pipeline

Results == {"pass", "warn", "fail", "skip", "cached"}
CacheKeys == {CacheKey(f, c) : f \in CheckedFiles, c \in Contents}

WalkTypes ==
    /\ content \in [CheckedFiles -> Contents]
    /\ astCache \subseteq CacheKeys
    /\ change \subseteq CheckedFiles /\ policy \in Policies
    /\ stageAt \in 0 .. 8 /\ signals \in Nat
    /\ statuses \in Seq(StageNames \X Results)

\* What the AST stage read in this verification is vouched for.
ReadsParse == \A f \in change : VouchedFor(f, readAs[f])

\* What is established on the way: no failure yet, a signal only of a change,
\* and behind a required stage what that stage vouches for.
Walking ==
    stageAt # 0 =>
        /\ Len(statuses) = stageAt - 1 /\ ~verdict.pass
        /\ \A i \in DOMAIN statuses : statuses[i][2] # "fail"
        /\ signals > 0 => /\ change # {}
                          /\ \E i \in DOMAIN statuses : statuses[i][2] # "skip"
        /\ "ast" \in policy.required /\ stageAt > 1 => ReadsParse
        /\ stageAt = 8 => change \intersect VendorFiles = {}

\* The stages are published in their order, a signal is of one of them.
StageNamed ==
    /\ Len(statuses) <= 7 /\ signals <= Len(statuses)
    /\ \A i \in 1 .. Len(statuses) : statuses[i][1] = Stages[i]

WalkInv == WalkTypes /\ Walking /\ StageNamed /\ VerifySound

LEMMA StageFacts ==
  /\ Len(Stages) = 7 /\ DOMAIN Stages = 1 .. 7
  /\ Stages[1] = "ast" /\ Stages[7] = "policy"
  /\ \A i \in 2 .. 6 : Stages[i] \in {"format", "lint", "typecheck", "build", "tests"}
  /\ \A i \in 1 .. 7 : Stages[i] \in StageNames
  /\ \A i \in 1 .. 7 : (Stages[i] = "ast" <=> i = 1) /\ (Stages[i] = "policy" <=> i = 7)
BY DEF Stages, StageNames

\* What a stage that was appended to the results leaves there.
LEMMA AppendedStatus ==
  ASSUME NEW q \in Seq(StageNames \X Results), NEW st \in StageNames, NEW r \in Results
  PROVE  LET g == Append(q, <<st, r>>)
         IN  /\ g \in Seq(StageNames \X Results) /\ Len(g) = Len(q) + 1
             /\ DOMAIN g = 1 .. Len(q) + 1 /\ DOMAIN q = 1 .. Len(q)
             /\ \A i \in 1 .. Len(q) : g[i] = q[i]
             /\ g[Len(q) + 1] = <<st, r>>
<1>1. <<st, r>> \in StageNames \X Results
  OBVIOUS
<1> QED BY <1>1, AppendProperties, LenProperties

\* The AST stage vouches for what it read when it does not fail.
LEMMA AstFacts ==
  ASSUME WalkTypes, CacheIsValid, AstStage
  PROVE  /\ astCache' \subseteq CacheKeys /\ CacheIsValid'
         /\ \E r \in Results :
               /\ statuses' = Append(statuses, <<"ast", r>>)
               /\ r # "skip" => change # {}
               /\ r # "fail" => \A f \in change : VouchedFor(f, readAs[f])'
<1> DEFINE parsed(done) == {f \in done : ~Cached(f, content[f])}
           bad(done) == {f \in parsed(done) : ~Parses(f, content[f])}
           locked == \E f \in OnDisk : content[f] = "locked"
           status(done) == IF change = {} THEN "skip"
                           ELSE IF locked \/ bad(done) # {} THEN "fail"
                           ELSE IF parsed(done) # {} THEN "pass"
                           ELSE IF done # {} THEN "cached" ELSE "skip"
<1>1. PICK done \in SUBSET OnDisk :
        /\ \A f \in done : content[f] # "locked"
        /\ locked \/ done = OnDisk
        /\ astCache' = astCache \union {CacheKey(f, content[f]) : f \in parsed(done) \ bad(done)}
        /\ readAs' = [f \in CheckedFiles |-> IF f \in change THEN content[f] ELSE "unread"]
        /\ statuses' = Append(statuses, <<"ast", status(done)>>)
  BY Zenon DEF AstStage
<1>2. /\ status(done) \in Results /\ (status(done) # "skip" => change # {})
      /\ status(done) # "fail" /\ change # {} => ~locked /\ bad(done) = {}
  BY DEF Results
<1>3. \A f \in parsed(done) \ bad(done) :
        /\ f \in CheckedFiles /\ content[f] \in Contents \ {"gone", "locked"}
        /\ Parses(f, content[f])
  BY <1>1 DEF OnDisk, WalkTypes
<1>4. \A e \in astCache' :
        e \in astCache \/ \E f \in parsed(done) \ bad(done) : e = CacheKey(f, content[f])
  BY <1>1
<1>5. astCache' \subseteq CacheKeys
  BY <1>3, <1>4 DEF WalkTypes, CacheKeys
<1>6. CacheIsValid'
  <2> SUFFICES ASSUME NEW e \in astCache'
               PROVE  \E f \in CheckedFiles, c \in Contents \ {"gone", "locked"} :
                          e = CacheKey(f, c) /\ Parses(f, c)
    BY DEF CacheIsValid, CacheKey, Parses
  <2>1. CASE e \in astCache
    BY <2>1 DEF CacheIsValid
  <2>2. CASE \E f \in parsed(done) \ bad(done) : e = CacheKey(f, content[f])
    BY <1>3, <2>2
  <2> QED BY <1>4, <2>1, <2>2
<1>7. ASSUME status(done) # "fail", NEW f \in change PROVE VouchedFor(f, readAs[f])'
  <2>1. readAs'[f] = content[f] /\ astCache \subseteq astCache'
    BY <1>1 DEF WalkTypes
  <2>2. ~locked /\ bad(done) = {} /\ done = OnDisk
    BY <1>1, <1>2, <1>7
  <2>3. content[f] # "locked" /\ (Parses(f, content[f]) \/ CacheKey(f, content[f]) \in astCache)
    <3>1. CASE content[f] = "gone"
      BY <3>1 DEF Parses
    <3>2. CASE f \in OnDisk
      <4>1. content[f] # "locked"
        BY <2>2, <3>2
      <4>2. CASE Cached(f, content[f])
        BY <4>1, <4>2 DEF Cached
      <4>3. CASE ~Cached(f, content[f])
        BY <2>2, <3>2, <4>1, <4>3
      <4> QED BY <4>2, <4>3
    <3> QED BY <3>1, <3>2 DEF OnDisk
  <2> QED BY <2>1, <2>3 DEF VouchedFor, CacheKey, Parses
<1> HIDE DEF status
<1> QED BY <1>1, <1>2, <1>5, <1>6, <1>7

\* A command stage has nothing to say of an empty change.
LEMMA CommandFacts ==
  ASSUME NEW st \in {"format", "lint", "typecheck", "build", "tests"}, CommandStage(st)
  PROVE  /\ astCache' = astCache /\ readAs' = readAs
         /\ \E r \in Results : /\ statuses' = Append(statuses, <<st, r>>)
                               /\ r # "skip" => change # {}
<1>1. CommandStatus(st) \subseteq Results /\ (change = {} => CommandStatus(st) = {"skip"})
  BY DEF CommandStatus, HasTool, Results
<1> QED BY <1>1 DEF CommandStage

\* The policy stage fails a change that touches vendor.
LEMMA PolicyFacts ==
  ASSUME PolicyStage
  PROVE  /\ astCache' = astCache /\ readAs' = readAs
         /\ \E r \in Results : /\ statuses' = Append(statuses, <<"policy", r>>)
                               /\ r # "skip" => change # {}
                               /\ r # "fail" => change \intersect VendorFiles = {}
<1>1. /\ PolicyStatus \in Results /\ (PolicyStatus # "skip" => change # {})
      /\ PolicyStatus # "fail" => change \intersect VendorFiles = {}
  BY DEF PolicyStatus, Results
<1> QED BY <1>1 DEF PolicyStage

LEMMA InitWalk == VerifyInit => WalkInv
<1> SUFFICES ASSUME VerifyInit PROVE WalkInv
  OBVIOUS
<1>1. statuses \in Seq(StageNames \X Results) /\ DOMAIN statuses = {}
  BY EmptySeq DEF VerifyInit
<1>2. WalkTypes
  BY <1>1 DEF VerifyInit, WalkTypes, Contents
<1>3. StageNamed
  <2>1. Len(statuses) = 0 /\ signals = 0
    BY DEF VerifyInit
  <2> QED BY <2>1 DEF StageNamed
<1> QED BY <1>1, <1>2, <1>3
  DEF VerifyInit, WalkInv, Walking, VerifySound, PassIsMeasured, FailureIsFirst, CacheIsValid,
      NoVerdict

\* A verification begins: nothing is measured yet.
LEMMA BeginKeeps ==
  ASSUME WalkInv, NEW fs \in SUBSET CheckedFiles, NEW pol \in Policies, BeginVerify(fs, pol)
  PROVE  WalkInv'
<1>1. /\ change' = fs /\ policy' = pol /\ stageAt' = 1 /\ statuses' = <<>> /\ signals' = 0
      /\ verdict'.pass = FALSE /\ content' = content /\ astCache' = astCache
  BY DEF BeginVerify, NoVerdict
<1>2. statuses' \in Seq(StageNames \X Results) /\ DOMAIN statuses' = {} /\ Len(statuses') = 0
  BY <1>1, EmptySeq
<1>3. WalkTypes'
  BY <1>1, <1>2 DEF WalkInv, WalkTypes
<1>4. StageNamed'
  BY <1>1, <1>2 DEF StageNamed
<1> QED BY <1>1, <1>2, <1>3, <1>4
  DEF WalkInv, Walking, VerifySound, PassIsMeasured, FailureIsFirst, CacheIsValid, VouchedFor

\* A stage adds its result: the walk goes on, or ends with its failure.
LEMMA StageKeeps ==
  ASSUME WalkInv, stageAt \in 1 .. 7, NEW r \in Results,
         statuses' = Append(statuses, <<Stages[stageAt], r>>),
         UNCHANGED <<content, change, policy>>,
         astCache' \subseteq CacheKeys, CacheIsValid',
         signals' = (IF r # "skip" THEN signals + 1 ELSE signals),
         r # "skip" => change # {},
         r = "fail" => /\ verdict'.pass = FALSE /\ verdict'.stage = Stages[stageAt]
                       /\ stageAt' = 0,
         r # "fail" => verdict' = verdict /\ stageAt' = stageAt + 1,
         r # "fail" /\ stageAt = 1 /\ "ast" \in policy.required => ReadsParse',
         stageAt # 1 => readAs' = readAs /\ astCache' = astCache,
         r # "fail" /\ stageAt = 7 => change \intersect VendorFiles = {}
  PROVE  WalkInv'
<1>1. /\ statuses \in Seq(StageNames \X Results) /\ Len(statuses) = stageAt - 1
      /\ Stages[stageAt] \in StageNames /\ signals \in Nat
  BY StageFacts DEF WalkInv, WalkTypes, Walking
<1>2. /\ statuses' \in Seq(StageNames \X Results) /\ Len(statuses') = stageAt
      /\ DOMAIN statuses' = 1 .. stageAt /\ DOMAIN statuses = 1 .. stageAt - 1
      /\ \A i \in 1 .. stageAt - 1 : statuses'[i] = statuses[i]
      /\ statuses'[stageAt] = <<Stages[stageAt], r>>
  BY <1>1, AppendedStatus
<1>3. /\ \A i \in 1 .. stageAt - 1 : statuses'[i][2] # "fail"
      /\ statuses'[stageAt][1] = Stages[stageAt] /\ statuses'[stageAt][2] = r
  <2>1. \A i \in DOMAIN statuses : statuses[i][2] # "fail"
    BY DEF WalkInv, Walking
  <2>2. <<Stages[stageAt], r>>[1] = Stages[stageAt] /\ <<Stages[stageAt], r>>[2] = r
    OBVIOUS
  <2> QED BY <1>2, <2>1, <2>2
<1>4. WalkTypes'
  BY <1>1, <1>2 DEF WalkInv, WalkTypes
<1>5. ~verdict'.pass
  BY DEF WalkInv, Walking
<1>6. FailureIsFirst' /\ PassIsMeasured'
  BY <1>2, <1>3, <1>5 DEF FailureIsFirst, PassIsMeasured
<1>7. Walking'
  <2> SUFFICES ASSUME stageAt' # 0 PROVE Walking'
    BY DEF Walking
  <2>1. r # "fail" /\ stageAt' = stageAt + 1
    OBVIOUS
  <2>2. Len(statuses') = stageAt' - 1 /\ \A i \in DOMAIN statuses' : statuses'[i][2] # "fail"
    BY <1>2, <1>3, <2>1
  <2>3. signals' > 0 => change' # {} /\ \E i \in DOMAIN statuses' : statuses'[i][2] # "skip"
    <3>1. CASE r = "skip"
      <4>1. signals' > 0 => change # {} /\ \E i \in 1 .. stageAt - 1 : statuses[i][2] # "skip"
        BY <1>2, <3>1 DEF WalkInv, Walking
      <4>2. \A i \in 1 .. stageAt - 1 : i \in DOMAIN statuses' /\ statuses'[i] = statuses[i]
        BY <1>2
      <4>3. change' = change
        OBVIOUS
      <4> QED BY <4>1, <4>2, <4>3
    <3>2. CASE r # "skip"
      BY <1>2, <1>3, <3>2
    <3> QED BY <3>1, <3>2
  <2>4. "ast" \in policy'.required => ReadsParse'
    <3>1. CASE stageAt = 1
      BY <2>1, <3>1
    <3>2. CASE stageAt # 1
      BY <2>1, <3>2 DEF WalkInv, WalkTypes, Walking, ReadsParse, VouchedFor
    <3> QED BY <3>1, <3>2
  <2>5. stageAt' = 8 => change' \intersect VendorFiles = {}
    BY <2>1
  <2> QED BY <1>5, <2>2, <2>3, <2>4, <2>5 DEF Walking
<1>8. StageNamed'
  <2>1. /\ signals <= Len(statuses) /\ \A i \in 1 .. stageAt - 1 : statuses[i][1] = Stages[i]
        /\ DOMAIN statuses' = 1 .. Len(statuses')
    BY <1>1, <1>2 DEF WalkInv, StageNamed
  <2>2. \A i \in 1 .. stageAt : statuses'[i][1] = Stages[i]
    <3>1. \A i \in 1 .. stageAt - 1 : statuses'[i][1] = Stages[i]
      BY <1>2, <2>1
    <3>2. \A i \in 1 .. stageAt : i \in 1 .. stageAt - 1 \/ i = stageAt
      OBVIOUS
    <3> QED BY <1>3, <3>1, <3>2
  <2>3. Len(statuses') <= 7 /\ signals' <= Len(statuses')
    BY <1>1, <1>2, <2>1
  <2> QED BY <1>2, <2>2, <2>3 DEF StageNamed
<1> QED BY <1>4, <1>6, <1>7, <1>8 DEF WalkInv, VerifySound

LEMMA SkipKeeps == ASSUME WalkInv, SkipStage PROVE WalkInv'
<1>1. stageAt \in 1 .. 7 /\ Stages[stageAt] \notin policy.required /\ Stages[stageAt] # "policy"
  BY StageFacts DEF SkipStage, Required
<1>2. /\ statuses' = Append(statuses, <<Stages[stageAt], "skip">>) /\ stageAt' = stageAt + 1
      /\ UNCHANGED <<content, astCache, change, policy, signals, readAs, verdict>>
  BY DEF SkipStage
<1>3. astCache' \subseteq CacheKeys /\ CacheIsValid'
  BY <1>2 DEF WalkInv, WalkTypes, VerifySound, CacheIsValid
<1>4. "skip" \in Results /\ stageAt # 7 /\ (stageAt = 1 => "ast" \notin policy.required)
  BY <1>1, StageFacts DEF Results
<1> QED BY <1>1, <1>2, <1>3, <1>4, StageKeeps

\* A required stage runs.
LEMMA RunKeeps == ASSUME WalkInv, RunStage PROVE WalkInv'
<1> DEFINE st == Stages[stageAt]
<1>1. stageAt \in 1 .. 7 /\ st \in StageNames
  BY StageFacts DEF RunStage
<1>2. /\ (st = "ast" => AstStage) /\ (st = "policy" => PolicyStage)
      /\ st \notin {"ast", "policy"} => CommandStage(st)
      /\ UNCHANGED <<content, change, policy>>
  BY DEF RunStage
<1>3. PICK r \in Results :
        /\ statuses' = Append(statuses, <<st, r>>)
        /\ r # "skip" => change # {}
        /\ stageAt = 1 /\ r # "fail" => ReadsParse'
        /\ stageAt = 7 /\ r # "fail" => change \intersect VendorFiles = {}
        /\ stageAt # 1 => astCache' = astCache /\ readAs' = readAs
        /\ astCache' \subseteq CacheKeys /\ CacheIsValid'
  <2>0. WalkTypes /\ CacheIsValid
    BY DEF WalkInv, VerifySound
  <2>1. CASE stageAt = 1
    <3>1. st = "ast" /\ AstStage
      BY <1>2, <2>1, StageFacts
    <3>2. PICK r \in Results :
            /\ statuses' = Append(statuses, <<"ast", r>>)
            /\ r # "skip" => change # {}
            /\ r # "fail" => \A f \in change : VouchedFor(f, readAs[f])'
      BY <2>0, <3>1, AstFacts
    <3>3. r # "fail" => ReadsParse'
      BY <1>2, <3>2 DEF ReadsParse
    <3>4. astCache' \subseteq CacheKeys /\ CacheIsValid'
      BY <2>0, <3>1, AstFacts
    <3> QED BY <2>1, <3>1, <3>2, <3>3, <3>4
  <2>2. CASE stageAt = 7
    <3>1. st = "policy" /\ PolicyStage
      BY <1>2, <2>2, StageFacts
    <3> QED BY <2>0, <2>2, <3>1, PolicyFacts DEF WalkTypes, CacheIsValid
  <2>3. CASE stageAt \in 2 .. 6
    <3>1. st \in {"format", "lint", "typecheck", "build", "tests"} /\ CommandStage(st)
      BY <1>2, <2>3, StageFacts
    <3> HIDE DEF st
    <3> QED BY <2>0, <2>3, <3>1, CommandFacts DEF WalkTypes, CacheIsValid
  <2> QED BY <1>1, <2>1, <2>2, <2>3
<1>4. statuses \in Seq(StageNames \X Results)
  BY DEF WalkInv, WalkTypes
<1>5. statuses'[Len(statuses')][2] = r
  <2>1. Len(statuses') = Len(statuses) + 1 /\ statuses'[Len(statuses) + 1] = <<st, r>>
    BY <1>1, <1>3, <1>4, AppendedStatus
  <2> QED BY <2>1
<1>6. /\ signals' = IF r # "skip" THEN signals + 1 ELSE signals
      /\ r = "fail" => /\ verdict'.pass = FALSE /\ verdict'.stage = Stages[stageAt]
                       /\ stageAt' = 0
      /\ r # "fail" => verdict' = verdict /\ stageAt' = stageAt + 1
  BY <1>5 DEF RunStage, Measured
<1> HIDE DEF st
<1>7. statuses' = Append(statuses, <<Stages[stageAt], r>>)
  BY <1>3 DEF st
<1> QED BY <1>1, <1>2, <1>3, <1>6, <1>7, StageKeeps

\* The walk is through: it passes what was measured, and nothing else.
LEMMA EndKeeps == ASSUME WalkInv, EndVerify PROVE WalkInv'
<1>1. /\ stageAt > 7 /\ stageAt' = 0
      /\ (signals = 0 => verdict'.pass = FALSE)
      /\ UNCHANGED <<content, astCache, change, policy, statuses, signals, readAs>>
  BY StageFacts DEF EndVerify
<1>2. /\ stageAt = 8 /\ \A i \in DOMAIN statuses : statuses[i][2] # "fail"
      /\ signals > 0 => /\ change # {}
                        /\ \E i \in DOMAIN statuses : statuses[i][2] # "skip"
      /\ "ast" \in policy.required => ReadsParse
      /\ change \intersect VendorFiles = {} /\ signals \in Nat
  BY <1>1 DEF WalkInv, WalkTypes, Walking
<1>3. WalkTypes' /\ Walking'
  BY <1>1 DEF WalkInv, WalkTypes, Walking
<1>4. verdict'.pass => signals > 0
  BY <1>1, <1>2
<1>5. PassIsMeasured'
  BY <1>1, <1>2, <1>4 DEF PassIsMeasured, ReadsParse, VouchedFor
<1>6. FailureIsFirst' /\ CacheIsValid' /\ StageNamed'
  BY <1>1, <1>2 DEF WalkInv, VerifySound, FailureIsFirst, CacheIsValid, StageNamed
<1> QED BY <1>3, <1>5, <1>6 DEF WalkInv, VerifySound

LEMMA NextWalk == WalkInv /\ [VerifyNext]_verifyVars => WalkInv'
<1>1. ASSUME WalkInv, UNCHANGED verifyVars PROVE WalkInv'
  BY <1>1
  DEF verifyVars, WalkInv, WalkTypes, Walking, StageNamed, ReadsParse, VerifySound, PassIsMeasured,
      FailureIsFirst, CacheIsValid, VouchedFor
<1>2. ASSUME WalkInv, NEW f \in CheckedFiles, NEW c \in Contents, EditContent(f, c) PROVE WalkInv'
  BY <1>2
  DEF EditContent, WalkInv, WalkTypes, Walking, StageNamed, ReadsParse, VerifySound, PassIsMeasured,
      FailureIsFirst, CacheIsValid, VouchedFor
<1> QED BY <1>1, <1>2, BeginKeeps, SkipKeeps, RunKeeps, EndKeeps, ZenonT(60) DEF VerifyNext

\* What vouches for the tree: in memory and on disk the stack of a task is
\* dense, ascends and holds the entry its pointer names, and a verification
\* passes only what was measured and touches no vendored file, each file of it
\* parsing as it was read or having the hash of a text of it that parses
\* (session/history.go, verify/engine.go and cache.go).
THEOREM ChecksAlwaysSound == ToolsSpec => []ChecksSound
<1> DEFINE Inv == (part = "undo" => StackInv) /\ (part = "verify" => WalkInv)
<1>1. ToolsInit => Inv
  BY InitStack, InitWalk DEF ToolsInit
<1>2. Inv /\ [ToolsNext]_toolsVars => Inv'
  BY OneAtATime, NextStack, NextWalk
<1>3. Inv => ChecksSound
  BY StackIsSound DEF ChecksSound, On, WalkInv
<1> HIDE DEF Inv
<1> QED BY <1>1, <1>2, <1>3, PTL DEF ToolsSpec

\* A verification that passes a file which does not parse owes it to a collision:
\* where no two texts of a file have one hash, none does (verify/cache.go:42-52).
THEOREM BrokenPassesByHashOnly == HashesApart => (ToolsSpec => []On("verify", BrokenNeverPasses))
<1> SUFFICES ASSUME HashesApart PROVE ToolsSpec => []On("verify", BrokenNeverPasses)
  OBVIOUS
<1>1. ChecksSound => On("verify", BrokenNeverPasses)
  <2> SUFFICES ASSUME VerifySound, verdict.pass, "ast" \in policy.required, NEW f \in change,
                      ~ Parses(f, readAs[f])
               PROVE  FALSE
    BY DEF ChecksSound, On, BrokenNeverPasses
  <2>1. CacheKey(f, readAs[f]) \in astCache /\ readAs[f] = "broken"
    BY DEF VerifySound, PassIsMeasured, VouchedFor, Parses
  <2>2. PICK g \in CheckedFiles, c \in Contents \ {"gone", "locked"} :
           CacheKey(f, readAs[f]) = CacheKey(g, c) /\ Parses(g, c)
    BY <2>1 DEF VerifySound, CacheIsValid
  <2>3. f = g /\ HashOf[g][readAs[f]] = HashOf[g][c]
    BY <2>2 DEF CacheKey
  <2>4. readAs[f] = c
    BY <2>1, <2>3 DEF HashesApart, Contents
  <2> QED BY <2>2, <2>3, <2>4
<1> QED BY <1>1, ChecksAlwaysSound, PTL

-----------------------------------------------------------------------------
\* What reaches the disk can be read back: a crash in the middle of a create or of
\* a roll-up costs nothing that was acknowledged; a log that was torn is answered
\* with an error, or the reader says "truncated" and lacks its very last record at
\* most, swallowed by a fragment that was cut where a value is due;
\* no id is given twice; a replay applies an event once; and what the memory has
\* learned is on disk when its Close has returned nil, but for a preference whose
\* save failed (event/log.go, dedup.go; session/store.go, manager.go, resume.go;
\* memory/listener.go, store.go).  Of a session it is said where one process at a
\* time resumes it.
THEOREM DiskAlwaysSound == ASSUME ~ SharedResume PROVE ToolsSpec => []DiskSound
<1> DEFINE Inv == /\ part = "log" => LogInv
                  /\ part = "store" => StoreInv
                  /\ part = "memory" => MemoryInv
<1>1. ToolsInit => Inv
  BY InitLog, InitStore, InitMemory DEF ToolsInit
<1>2. Inv /\ [ToolsNext]_toolsVars => Inv'
  BY OneAtATime, NextLog, NextStore, NextMemory
<1>3. Inv => DiskSound
  BY LogIsSound, StoreIsSound DEF DiskSound, On, MemoryInv
<1> HIDE DEF Inv
<1> QED BY <1>1, <1>2, <1>3, PTL DEF ToolsSpec

-----------------------------------------------------------------------------
\* The dispatches

\* What a tool is let do.  A command is classified no lower than its worst part:
\* no wrapper, redirection or assignment before it, no command beside it, no path
\* before its name and no order of its arguments lowers its class.  A tool runs
\* only as the gates and the human allow, pending holds exactly the calls that
\* wait unanswered, no worker outlives its dispatch, and what a command wrote whose
\* dispatch returns no error is in its Observation, or said to be unknown there
\* (exec/sandbox.go, engine.go, approval.go, fschange.go).
THEOREM DispatchesAlwaysSound == ToolsSpec => []DispatchesSound
<1> DEFINE Inv == (part = "tool" => DispatchInv) /\ (part = "line" => LineInv)
<1>1. ToolsInit => Inv
  BY InitDispatch, InitLine DEF ToolsInit
<1>2. Inv /\ [ToolsNext]_toolsVars => Inv'
  BY OneAtATime, NextDispatch, NextLine
<1>3. Inv => DispatchesSound
  BY DispatchIsSound, LineIsSound DEF DispatchesSound, On
<1> HIDE DEF Inv
<1> QED BY <1>1, <1>2, <1>3, PTL DEF ToolsSpec

-----------------------------------------------------------------------------
\* A plan's run

RunSteps == {"bus", "infra", "observers", "provider", "running", "stopPublisher", "closeBus",
             "joinTranscript", "closeRunner", "stopInfra", "returned"}

TurnPlaces == {"none", "building", "driving", "parked", "reporting", "erred", "over", "refused"}

RunTypes ==
    /\ step \in RunSteps /\ failed \in BOOLEAN
    /\ held \subseteq {"bus", "infra", "publisher", "transcript", "shadow"}
    /\ built \in [Shared -> {"no", "yes", "failed"}] /\ builds \in [Shared -> Nat]
    /\ turn \in [Turns -> [role : TurnRoles \union {"none"}, at : TurnPlaces]]
    /\ emitted \in Nat /\ projected \in Nat /\ projected <= emitted

\* Turns are under way only while the run is, and nothing happens before it.
Bracketed ==
    /\ Active # {} => step = "running"
    /\ step \in {"bus", "infra", "observers", "provider"} =>
          /\ turn = [t \in Turns |-> [role |-> "none", at |-> "none"]]
          /\ built = [s \in Shared |-> "no"] /\ builds = [s \in Shared |-> 0]
          /\ emitted = 0 /\ learned = {}

\* What is held at each step of the run.
Holdings ==
    /\ step = "bus" => held = {}
    /\ step \in {"infra", "observers", "provider", "running", "stopPublisher", "closeBus"} => "bus" \in held
    /\ step \in {"infra", "observers"} => held \intersect {"publisher", "transcript", "shadow"} = {}
    /\ step = "infra" => held = {"bus"}
    /\ step \in {"closeBus", "joinTranscript", "closeRunner", "stopInfra"} => "publisher" \notin held
    /\ step \in {"joinTranscript", "closeRunner", "stopInfra"} => "bus" \notin held
    /\ step \in {"closeRunner", "stopInfra"} => "transcript" \notin held /\ projected = emitted
    /\ step = "stopInfra" => "shadow" \notin held
    /\ step = "running" => (built["adapters"] = "yes" => "shadow" \in held)

\* Every way to return.
Returned ==
    step = "returned" =>
        /\ held \subseteq {"bus"} /\ projected = emitted
        /\ held # {} => failed /\ builds = [s \in Shared |-> 0]

\* What a turn has learned and not flushed it will flush when it reports, or it
\* has tried and failed.
Unflushed ==
    /\ flushed \subseteq learned /\ learned \subseteq Turns /\ flushErrs \subseteq Turns
    /\ \A t \in Turns :
          /\ turn[t].at \in {"driving", "parked", "erred"} => turn[t].role = "coder"
          /\ t \in (learned \ flushed) \ flushErrs => turn[t].role = "coder" /\ turn[t].at \in {"parked", "reporting", "erred"}

RunnerInv == RunTypes /\ Bracketed /\ Holdings /\ Returned /\ Unflushed /\ BuiltOnce /\ StopBeforeClose

LEMMA InitRun == RunInit => RunnerInv
<1> SUFFICES ASSUME RunInit PROVE RunnerInv
  OBVIOUS
<1>1. RunTypes
  <2>1. [role |-> "none", at |-> "none"] \in [role : TurnRoles \union {"none"}, at : TurnPlaces]
    BY DEF TurnPlaces
  <2>2. turn \in [Turns -> [role : TurnRoles \union {"none"}, at : TurnPlaces]]
    BY <2>1 DEF RunInit
  <2>3. built \in [Shared -> {"no", "yes", "failed"}] /\ builds \in [Shared -> Nat]
    BY DEF RunInit
  <2>4. step \in RunSteps /\ held \subseteq {"bus", "infra", "publisher", "transcript", "shadow"}
    BY DEF RunInit, RunSteps
  <2>5. failed \in BOOLEAN
    BY DEF RunInit
  <2>6. emitted \in Nat /\ projected \in Nat /\ projected <= emitted
    BY DEF RunInit
  <2> QED BY <2>2, <2>3, <2>4, <2>5, <2>6 DEF RunTypes
<1>2. Active = {}
  BY DEF RunInit, Active
<1>3. Bracketed /\ Holdings /\ Returned /\ Unflushed /\ StopBeforeClose
  BY <1>2 DEF RunInit, Bracketed, Holdings, Returned, Unflushed, StopBeforeClose
<1>4. BuiltOnce
  BY DEF RunInit, BuiltOnce
<1> QED BY <1>1, <1>3, <1>4 DEF RunnerInv

\* A step of the run that leaves the turns alone.
LEMMA StepKeeps ==
  ASSUME RunnerInv, TurnsStay, Active' = Active,
         step' \in RunSteps, failed' \in BOOLEAN,
         held' \subseteq {"bus", "infra", "publisher", "transcript", "shadow"},
         Active # {} => step' = "running",
         step' \in {"bus", "infra", "observers", "provider"} => step \in {"bus", "infra", "observers", "provider"},
         Holdings', Returned', StopBeforeClose'
  PROVE  RunnerInv'
<1>1. RunTypes'
  BY DEF RunnerInv, RunTypes, TurnsStay
<1>2. Bracketed'
  BY DEF RunnerInv, Bracketed, TurnsStay
<1>3. Unflushed'
  BY DEF RunnerInv, Unflushed, TurnsStay
<1>4. BuiltOnce'
  BY DEF RunnerInv, BuiltOnce, TurnsStay
<1> QED BY <1>1, <1>2, <1>3, <1>4 DEF RunnerInv

LEMMA ActiveStays == ASSUME TurnsStay PROVE Active' = Active
BY DEF TurnsStay, Active

LEMMA StartingKeeps ==
  ASSUME RunnerInv, OpenTheBus \/ StartInfra \/ StartObservers \/ ResolveProvider PROVE RunnerInv'
<1>1. TurnsStay /\ Active' = Active /\ Active = {}
  BY ActiveStays DEF OpenTheBus, StartInfra, StartObservers, ResolveProvider, RunnerInv, Bracketed
<1>2. /\ step \in {"bus", "infra", "observers", "provider"} /\ step' \in RunSteps /\ failed' \in BOOLEAN
      /\ held' \subseteq {"bus", "infra", "publisher", "transcript", "shadow"}
  BY DEF OpenTheBus, StartInfra, StartObservers, ResolveProvider, Goes, Fails, RunnerInv, RunTypes, RunSteps
<1>3. /\ projected' = 0 /\ emitted' = 0 /\ builds' = [s \in Shared |-> 0]
      /\ built' = [s \in Shared |-> "no"]
  BY <1>1, <1>2 DEF TurnsStay, RunnerInv, RunTypes, Bracketed
<1>4. Holdings' /\ Returned' /\ StopBeforeClose'
  <2>1. CASE OpenTheBus
    BY <2>1, <1>3 DEF OpenTheBus, Goes, Fails, RunnerInv, Holdings, Returned, StopBeforeClose, Shared
  <2>2. CASE StartInfra
    BY <2>2, <1>3 DEF StartInfra, Goes, Fails, RunnerInv, Holdings, Returned, StopBeforeClose, Shared
  <2>3. CASE StartObservers
    BY <2>3, <1>3 DEF StartObservers, Goes, Fails, RunnerInv, Holdings, Returned, StopBeforeClose, Shared
  <2>4. CASE ResolveProvider
    BY <2>4, <1>3 DEF ResolveProvider, Goes, Fails, RunnerInv, Holdings, Returned, StopBeforeClose, Shared
  <2> QED BY <2>1, <2>2, <2>3, <2>4
<1> QED BY <1>1, <1>2, <1>4, StepKeeps

LEMMA EndingKeeps ==
  ASSUME RunnerInv, OrchestratorReturns \/ StopThePublisher \/ CloseTheBus \/ JoinTranscript
                 \/ CloseRunner \/ StopInfra
  PROVE  RunnerInv'
<1> USE DEF StopThePublisher, CloseTheBus, JoinTranscript, CloseRunner, StopInfra, GiveBack
<1>1. TurnsStay /\ Active' = Active /\ Active = {}
  BY ActiveStays DEF OrchestratorReturns, Joined, RunnerInv, Bracketed
<1>2. /\ step \notin {"bus", "infra", "observers", "provider"}
      /\ step' \in {"stopPublisher", "closeBus", "joinTranscript", "closeRunner", "stopInfra", "returned"}
      /\ failed' \in BOOLEAN
      /\ held' \subseteq {"bus", "infra", "publisher", "transcript", "shadow"}
  BY DEF OrchestratorReturns, Goes, Fails, RunnerInv, RunTypes
<1>3. UNCHANGED <<projected, emitted, built, builds>>
  BY <1>1 DEF TurnsStay
<1>4. Holdings' /\ Returned' /\ StopBeforeClose'
  <2>1. CASE OrchestratorReturns
    BY <2>1, <1>3 DEF OrchestratorReturns, Goes, Fails, RunnerInv, Holdings, Returned, StopBeforeClose
  <2>2. CASE StopThePublisher
    BY <2>2, <1>3 DEF Goes, RunnerInv, Holdings, Returned, StopBeforeClose
  <2>3. CASE CloseTheBus
    BY <2>3, <1>3 DEF Goes, RunnerInv, Holdings, Returned, StopBeforeClose
  <2>4. CASE JoinTranscript
    BY <2>4, <1>3 DEF Goes, RunnerInv, Holdings, Returned, StopBeforeClose
  <2>5. CASE CloseRunner
    BY <2>5, <1>3 DEF Goes, RunnerInv, Holdings, Returned, StopBeforeClose
  <2>6. CASE StopInfra
    BY <2>6, <1>3, ZenonT(30) DEF Goes, RunnerInv, RunTypes, Holdings, Returned, StopBeforeClose
  <2> QED BY <2>1, <2>2, <2>3, <2>4, <2>5, <2>6
<1>5. step' \in RunSteps /\ step' \notin {"bus", "infra", "observers", "provider"}
  BY <1>2 DEF RunSteps
<1> QED BY <1>1, <1>2, <1>4, <1>5, StepKeeps

LEMMA CancelTurnsKeeps == ASSUME RunnerInv, CancelTurns PROVE RunnerInv'
BY DEF CancelTurns, RunnerInv, RunTypes, Active, Bracketed, Holdings, Returned, Unflushed, BuiltOnce, StopBeforeClose

LEMMA ProjectKeeps == ASSUME RunnerInv, Project PROVE RunnerInv'
<1>1. projected' = projected + 1 /\ projected < emitted /\ "transcript" \in held
      /\ UNCHANGED <<step, failed, held, built, builds, turn, cancelled, emitted, learned, flushed, flushErrs>>
  BY DEF Project
<1>2. RunTypes'
  BY <1>1 DEF RunnerInv, RunTypes
<1>3. Active' = Active
  BY <1>1 DEF Active
<1>4. Bracketed' /\ Unflushed' /\ BuiltOnce' /\ StopBeforeClose'
  BY <1>1, <1>3 DEF RunnerInv, Bracketed, Unflushed, BuiltOnce, StopBeforeClose
<1>5. Holdings' /\ Returned'
  BY <1>1 DEF RunnerInv, Holdings, Returned
<1> QED BY <1>2, <1>4, <1>5 DEF RunnerInv

-----------------------------------------------------------------------------
\* A step of a turn while the run goes on.
LEMMA TurnKeeps ==
  ASSUME RunnerInv, step = "running",
         UNCHANGED <<step, failed, held, built, builds, projected>>,
         turn' \in [Turns -> [role : TurnRoles \union {"none"}, at : TurnPlaces]],
         emitted' \in Nat, emitted' >= emitted,
         Unflushed', BuiltOnce'
  PROVE  RunnerInv'
<1>1. RunTypes'
  <2>1. projected' <= emitted'
    BY DEF RunnerInv, RunTypes
  <2> QED BY <2>1 DEF RunnerInv, RunTypes
<1>2. Bracketed'
  BY DEF Bracketed
<1>3. Holdings' /\ Returned' /\ StopBeforeClose'
  BY DEF RunnerInv, Holdings, Returned, StopBeforeClose
<1> QED BY <1>1, <1>2, <1>3 DEF RunnerInv

LEMMA UnderWayRuns ==
  ASSUME RunnerInv, NEW t \in Turns, turn[t].at \notin {"none", "over", "refused"}
  PROVE  step = "running"
BY DEF RunnerInv, Bracketed, Active

LEMMA StartTurnKeeps ==
  ASSUME RunnerInv, NEW t \in Turns, NEW role \in TurnRoles, StartTurn(t, role) PROVE RunnerInv'
<1> DEFINE begun == [role |-> role, at |-> IF role = "planner" THEN "over" ELSE "building"]
<1>1. /\ turn' = [turn EXCEPT ![t] = begun] /\ turn[t].at = "none" /\ step = "running"
      /\ UNCHANGED <<step, failed, held, built, builds, cancelled, emitted, projected, learned, flushed, flushErrs>>
  BY DEF StartTurn
<1>2. begun \in [role : TurnRoles \union {"none"}, at : TurnPlaces] /\ begun.at \in {"over", "building"}
  BY DEF TurnPlaces
<1> HIDE DEF begun
<1>3. turn' \in [Turns -> [role : TurnRoles \union {"none"}, at : TurnPlaces]]
  BY <1>1, <1>2 DEF RunnerInv, RunTypes
<1>4. turn'[t].at \in {"over", "building"} /\ \A u \in Turns \ {t} : turn'[u] = turn[u]
  BY <1>1, <1>2 DEF RunnerInv, RunTypes
<1>5. Unflushed'
  BY <1>1, <1>4 DEF RunnerInv, Unflushed
<1>6. BuiltOnce'
  BY <1>1, <1>4 DEF RunnerInv, BuiltOnce
<1>7. emitted' \in Nat /\ emitted' >= emitted
  BY <1>1 DEF RunnerInv, RunTypes
<1> QED BY <1>1, <1>3, <1>5, <1>6, <1>7, TurnKeeps

LEMMA BuildPartKeeps ==
  ASSUME RunnerInv, NEW t \in Turns, NEW s \in Shared, BuildPart(t, s) PROVE RunnerInv'
<1>1. PICK outcome \in {"yes", "failed"} :
          /\ built' = [built EXCEPT ![s] = outcome]
          /\ held' = IF s = "adapters" /\ outcome = "yes" THEN held \union {"shadow"} ELSE held
  BY DEF BuildPart
<1>2. /\ turn[t].at = "building" /\ built[s] = "no" /\ builds' = [builds EXCEPT ![s] = builds[s] + 1]
      /\ UNCHANGED <<step, failed, turn, cancelled, emitted, projected, learned, flushed, flushErrs>>
  BY DEF BuildPart
<1>3. step = "running"
  BY <1>2, UnderWayRuns
<1>4. RunTypes'
  BY <1>1, <1>2 DEF RunnerInv, RunTypes
<1>5. Bracketed' /\ Unflushed' /\ Returned'
  BY <1>2, <1>3 DEF RunnerInv, Bracketed, Unflushed, Returned
<1>6. Holdings' /\ StopBeforeClose'
  <2>1. held \subseteq held' /\ ("publisher" \in held' => "publisher" \in held)
    BY <1>1
  <2>2. built'["adapters"] = "yes" => "shadow" \in held'
    BY <1>1, <1>2, <1>3 DEF RunnerInv, RunTypes, Holdings, Shared
  <2>3. "bus" \in held'
    BY <2>1, <1>3 DEF RunnerInv, Holdings
  <2> QED BY <1>2, <1>3, <2>2, <2>3 DEF Holdings, StopBeforeClose
<1>7. BuiltOnce'
  <2>1. builds[s] = 0
    BY <1>2 DEF RunnerInv, BuiltOnce
  <2>2. builds'[s] = 1 /\ built'[s] # "no"
    BY <1>1, <1>2, <2>1 DEF RunnerInv, RunTypes
  <2>3. \A r \in Shared \ {s} : builds'[r] = builds[r] /\ built'[r] = built[r]
    BY <1>1, <1>2 DEF RunnerInv, RunTypes
  <2>4. \A r \in Shared : builds'[r] <= 1 /\ (built'[r] = "no" <=> builds'[r] = 0)
    BY <2>2, <2>3 DEF RunnerInv, BuiltOnce
  <2>5. \A r \in Shared : built[r] = "yes" => built'[r] = "yes"
    BY <1>2, <2>3
  <2>6. \A u \in Turns : Needs(turn[u].role) \subseteq Shared
    BY DEF Needs, Shared
  <2> QED BY <1>2, <2>4, <2>5, <2>6 DEF RunnerInv, BuiltOnce
<1> QED BY <1>4, <1>5, <1>6, <1>7 DEF RunnerInv

\* A turn moves to another place in its course.
LEMMA MoveKeeps ==
  ASSUME RunnerInv, NEW t \in Turns, NEW at \in TurnPlaces, AtStep(t, at),
         turn[t].at \notin {"none", "over", "refused"},
         UNCHANGED <<step, failed, held, built, builds, projected>>,
         emitted' \in Nat, emitted' >= emitted,
         flushed' \subseteq learned', learned' \subseteq Turns, flushErrs' \subseteq Turns,
         at \in {"driving", "parked", "erred"} => turn[t].role = "coder",
         at \in {"driving", "parked", "reporting", "erred"} =>
             \A s \in Needs(turn[t].role) : built[s] = "yes",
         \A u \in (learned' \ flushed') \ flushErrs' :
             IF u = t THEN turn[t].role = "coder" /\ at \in {"parked", "reporting", "erred"}
             ELSE u \in (learned \ flushed) \ flushErrs
  PROVE  RunnerInv'
<1>1. step = "running"
  BY UnderWayRuns
<1>2. /\ turn' \in [Turns -> [role : TurnRoles \union {"none"}, at : TurnPlaces]]
      /\ turn'[t].at = at /\ turn'[t].role = turn[t].role
      /\ \A u \in Turns \ {t} : turn'[u] = turn[u]
  BY DEF AtStep, RunnerInv, RunTypes
<1>3. Unflushed'
  BY <1>2 DEF RunnerInv, Unflushed
<1>4. BuiltOnce'
  <2>1. \A s \in Shared : builds'[s] <= 1 /\ (built'[s] = "no" <=> builds'[s] = 0)
    BY DEF RunnerInv, BuiltOnce
  <2>2. ASSUME NEW u \in Turns, turn'[u].at \in {"driving", "parked", "reporting", "erred"},
               NEW s \in Needs(turn'[u].role)
        PROVE  built'[s] = "yes"
    <3>1. CASE u = t
      BY <1>2, <2>2, <3>1
    <3>2. CASE u # t
      BY <1>2, <2>2, <3>2 DEF RunnerInv, BuiltOnce
    <3> QED BY <3>1, <3>2
  <2> QED BY <2>1, <2>2 DEF BuiltOnce
<1> QED BY <1>1, <1>2, <1>3, <1>4, TurnKeeps

LEMMA PartsReadyKeeps == ASSUME RunnerInv, NEW t \in Turns, PartsReady(t) PROVE RunnerInv'
<1>1. /\ turn[t].at = "building"
      /\ UNCHANGED <<step, failed, held, built, builds, cancelled, emitted, projected, learned, flushed, flushErrs>>
  BY DEF PartsReady
<1>2. /\ emitted' \in Nat /\ emitted' >= emitted
      /\ flushed' \subseteq learned' /\ learned' \subseteq Turns /\ flushErrs' \subseteq Turns
      /\ \A u \in (learned' \ flushed') \ flushErrs' : u # t /\ u \in (learned \ flushed) \ flushErrs
  BY <1>1 DEF RunnerInv, RunTypes, Unflushed
<1>3. CASE AtStep(t, "refused")
  <2>1. "refused" \in TurnPlaces
    BY DEF TurnPlaces
  <2> QED BY <1>1, <1>2, <1>3, <2>1, MoveKeeps
<1>4. CASE /\ \A s \in Needs(turn[t].role) : built[s] = "yes"
           /\ AtStep(t, IF turn[t].role = "coder" THEN "driving" ELSE "reporting")
  <2> DEFINE at == IF turn[t].role = "coder" THEN "driving" ELSE "reporting"
  <2>1. at \in TurnPlaces /\ (at \in {"driving", "parked", "erred"} => turn[t].role = "coder")
    BY DEF TurnPlaces
  <2>2. AtStep(t, at)
    BY <1>4
  <2> HIDE DEF at
  <2> QED BY <1>1, <1>2, <1>4, <2>1, <2>2, MoveKeeps
<1> QED BY <1>3, <1>4 DEF PartsReady

LEMMA DriveKeeps == ASSUME RunnerInv, NEW t \in Turns, Drive(t) PROVE RunnerInv'
<1>1. /\ turn[t].at = "driving" /\ turn[t].role = "coder"
      /\ UNCHANGED <<step, failed, held, built, builds, cancelled, emitted, projected, flushed, flushErrs>>
      /\ learned' \in {learned, learned \union {t}}
  BY DEF Drive, RunnerInv, Unflushed
<1>2. PICK at \in {"reporting", "erred", "parked"} : AtStep(t, at)
  BY DEF Drive
<1>3. /\ emitted' \in Nat /\ emitted' >= emitted
      /\ flushed' \subseteq learned' /\ learned' \subseteq Turns /\ flushErrs' \subseteq Turns
      /\ \A u \in (learned' \ flushed') \ flushErrs' : u = t \/ u \in (learned \ flushed) \ flushErrs
  BY <1>1 DEF RunnerInv, RunTypes, Unflushed
<1>4. \A s \in Needs(turn[t].role) : built[s] = "yes"
  BY <1>1 DEF RunnerInv, BuiltOnce
<1>5. at \in TurnPlaces /\ at \in {"parked", "reporting", "erred"}
  BY DEF TurnPlaces
<1> QED BY <1>1, <1>2, <1>3, <1>4, <1>5, MoveKeeps

LEMMA UnparkKeeps == ASSUME RunnerInv, NEW t \in Turns, Unpark(t) PROVE RunnerInv'
<1>1. /\ turn[t].at = "parked" /\ turn[t].role = "coder" /\ AtStep(t, "erred")
      /\ UNCHANGED <<step, failed, held, built, builds, cancelled, emitted, projected, learned, flushed, flushErrs>>
  BY DEF Unpark, RunnerInv, Unflushed
<1>2. /\ emitted' \in Nat /\ emitted' >= emitted
      /\ flushed' \subseteq learned' /\ learned' \subseteq Turns /\ flushErrs' \subseteq Turns
  BY <1>1 DEF RunnerInv, RunTypes, Unflushed
<1>3. \A s \in Needs(turn[t].role) : built[s] = "yes"
  BY <1>1 DEF RunnerInv, BuiltOnce
<1>4. "erred" \in TurnPlaces
  BY DEF TurnPlaces
<1> QED BY <1>1, <1>2, <1>3, <1>4, MoveKeeps

LEMMA ReportTurnKeeps == ASSUME RunnerInv, NEW t \in Turns, ReportTurn(t) PROVE RunnerInv'
<1>1. /\ turn[t].at \in {"reporting", "erred"} /\ AtStep(t, "over") /\ FlushMemory(t)
      /\ UNCHANGED <<step, failed, held, built, builds, cancelled, projected, learned>>
      /\ emitted' = emitted \/ emitted' = emitted + 1
  BY DEF ReportTurn
<1>2. emitted' \in Nat /\ emitted' >= emitted
  BY <1>1 DEF RunnerInv, RunTypes
<1>3. /\ flushed' \subseteq learned' /\ learned' \subseteq Turns /\ flushErrs' \subseteq Turns
      /\ \A u \in (learned' \ flushed') \ flushErrs' : u # t /\ u \in (learned \ flushed) \ flushErrs
  <2>1. CASE turn[t].role = "coder"
    BY <1>1, <2>1 DEF FlushMemory, RunnerInv, Unflushed
  <2>2. CASE turn[t].role # "coder"
    BY <1>1, <2>2 DEF FlushMemory, RunnerInv, Unflushed
  <2> QED BY <2>1, <2>2
<1>4. "over" \in TurnPlaces
  BY DEF TurnPlaces
<1> QED BY <1>1, <1>2, <1>3, <1>4, MoveKeeps

LEMMA NextRun == RunnerInv /\ [RunNext]_runVars => RunnerInv'
<1> SUFFICES ASSUME RunnerInv, [RunNext]_runVars PROVE RunnerInv'
  OBVIOUS
<1>1. CASE UNCHANGED runVars
  BY <1>1 DEF runVars, RunnerInv, RunTypes, Active, Bracketed, Holdings, Returned, Unflushed, BuiltOnce, StopBeforeClose
<1>2. CASE RunNext
  BY <1>2, StartingKeeps, EndingKeeps, CancelTurnsKeeps, ProjectKeeps, StartTurnKeeps, BuildPartKeeps,
     PartsReadyKeeps, DriveKeeps, UnparkKeeps, ReportTurnKeeps DEF RunNext
<1> QED BY <1>1, <1>2

LEMMA RunnerIsSound == RunnerInv => RunnerSound
<1> SUFFICES ASSUME RunnerInv PROVE RunnerSound
  OBVIOUS
<1>1. TreeOutlivesTurns
  BY DEF RunnerInv, Bracketed, Holdings, TreeOutlivesTurns
<1>2. NothingLeft
  <2>1. step = "returned" => learned \ flushed \subseteq flushErrs
    BY DEF RunnerInv, Bracketed, Active, Unflushed
  <2> QED BY <2>1 DEF RunnerInv, Returned, NothingLeft
<1> QED BY <1>1, <1>2 DEF RunnerSound, RunnerInv

\* Around the turns.  A plan's run: each thing its turns share is built once at
\* most and used whole, the shadow tree and the bus outlive every turn that can
\* still use them, the publisher stops before its bus closes, and after the run
\* nothing is held, no event is missing from the transcript, and a memory is missing
\* from the disk only if the flush of the turn that learned it failed and said so.
\* A task's talk, for any ids a provider sends and any calls the policy
\* refuses: every result is filed under the very call that ran and under no other
\* result's, the reply that made it stands before it however often the transcript
\* was cut, ids are distinct, the model is never shown another task's goal, and
\* only a failed verdict leaves a call unanswered (cmd/yolo/plan_runner.go,
\* coord_runner.go; cognitive/core.go).  The hypothesis: a reply and its results
\* fit the history beside the frame; a reply with more would outlive its results'
\* head.
THEOREM TurnsAlwaysSound == ASSUME TurnFits PROVE ToolsSpec => []TurnsSound
<1> DEFINE Inv == (part = "run" => RunnerInv) /\ (part = "talk" => TalkInv)
<1>1. ToolsInit => Inv
  BY InitRun, InitTalk DEF ToolsInit
<1>2. Inv /\ [ToolsNext]_toolsVars => Inv'
  BY OneAtATime, NextRun, NextTalk
<1>3. Inv => TurnsSound
  BY RunnerIsSound, TalkIsSound DEF TurnsSound, On
<1> HIDE DEF Inv
<1> QED BY <1>1, <1>2, <1>3, PTL DEF ToolsSpec

-----------------------------------------------------------------------------
\* Advice: a call that some level allows runs at a level that allows it, for any
\* tools and any verdicts; leaving every level entered ends at the task; a
\* workflow submits only what it verified or generated since the last failure;
\* and it has no answer for the turn of PLAN.  For any budget the tree search
\* counts each simulation once on the whole path, keeps siblings on levels of
\* their own, enters none twice while one is untried, and with three rollouts
\* answers with a child of the root (scope/controller.go, scope/mcts.go,
\* workflow/workflow.go).
THEOREM ScopeAlwaysSound == ToolsSpec => []ScopeSound
<1> DEFINE Inv == (part = "scope" => ScopeInv) /\ (part = "search" => TreeInv)
<1>1. ToolsInit => Inv
  BY InitScope, InitTree DEF ToolsInit
<1>2. Inv /\ [ToolsNext]_toolsVars => Inv'
  BY OneAtATime, NextScope, NextTree
<1>3. Inv => ScopeSound
  BY AdviceIsSound, TreeIsSound DEF ScopeSound, On
<1> HIDE DEF Inv
<1> QED BY <1>1, <1>2, <1>3, PTL DEF ToolsSpec

\* For any goal and any words the titles of a plan say together what the goal
\* says, a plan has work for each clause of work that made it one (one less for a
\* polite opening, and unless a ";" or a "then" stood between them), a question is
\* never planned and a polite opening changes nothing.  For any parts, any soft
\* budget and any window the frame is packed, the budget is kept unless one part is
\* all of it, and a kind that is left out did not fit beside the best parts of the
\* others; what is sent of a group is its first parts, the rest is reported and
\* told of, nothing is cut from a prompt that fits, and a window that is not tiny
\* is given out exactly once (coord/classify.go, cmd/yolo/planner_adapter.go;
\* context/compress.go, budget.go; prompt/pipeline.go).
THEOREM WordsAlwaysSound == ToolsSpec => []WordsSound
<1> DEFINE Inv == (part = "goal" => GoalIsKept) /\ (part = "fit" => FitIsKept)
<1>1. ToolsInit => Inv
  BY GoalStarts, FitStarts DEF ToolsInit
<1>2. Inv /\ [ToolsNext]_toolsVars => Inv'
  BY OneAtATime, GoalGoesOn, FitGoesOn
<1>3. Inv => WordsSound
  BY GoalIsSound, FitIsSound DEF WordsSound, On
<1> HIDE DEF Inv
<1> QED BY <1>1, <1>2, <1>3, PTL DEF ToolsSpec

-----------------------------------------------------------------------------
\* The types

\* The records and the counters of the log.
LEMMA LogTyped == LogInv => LogTypeOK
<1> SUFFICES ASSUME LogInv PROVE LogTypeOK
  OBVIOUS
<1>1. disk \in Seq(LogPieces) /\ LogTypes
  BY DEF LogInv, LogTypes
<1>2. ASSUME NEW i \in DOMAIN disk
      PROVE  /\ disk[i].id \in 1 .. LogAppends /\ disk[i].seq \in 1 .. LogAppends
             /\ disk[i].topic \in Topic /\ disk[i].form \in Forms
  <2>1. disk[i] \in LogPieces
    BY <1>1
  <2> QED BY <2>1 DEF LogPieces
<1>3. logNext \in 0 .. LogAppends
  BY <1>1, LogAssumption DEF LogTypes
<1> QED BY <1>1, <1>2, <1>3 DEF LogTypes, LogTypeOK

\* What the run holds, where its turns are.
LEMMA RunTyped == RunnerInv => RunTypeOK
<1> SUFFICES ASSUME RunnerInv PROVE RunTypeOK
  OBVIOUS
<1>1. RunTypes /\ learned \subseteq Turns /\ flushErrs \subseteq Turns
  BY DEF RunnerInv, Unflushed
<1>2. ASSUME NEW t \in Turns
      PROVE turn[t].at \in {"none", "building", "driving", "parked", "reporting", "erred", "over", "refused"}
  <2>1. turn[t] \in [role : TurnRoles \union {"none"}, at : TurnPlaces]
    BY <1>1 DEF RunTypes
  <2> QED BY <2>1 DEF TurnPlaces
<1>3. projected \in 0 .. emitted
  BY <1>1 DEF RunTypes
<1>4. held \subseteq {"bus", "infra", "publisher", "transcript", "shadow"}
  BY <1>1 DEF RunTypes
<1> QED BY <1>1, <1>2, <1>3, <1>4 DEF RunTypeOK

\* A level, and the phases of the machines.
LEMMA ScopeTyped == ScopeInv => ScopeTypeOK
<1> SUFFICES ASSUME ScopeInv PROVE ScopeTypeOK
  OBVIOUS
<1>1. level \in 0 .. 5 /\ levels \in Seq(0 .. 5)
  BY DEF ScopeInv, LevelTypes
<1>2. flowPhase \in {"none", "LOCALIZE", "REPAIR", "VALIDATE", "DESIGN", "DECOMPOSE", "IMPLEMENT",
                     "ANALYZE", "TRANSFORM", "VERIFY"}
  BY DEF ScopeInv, Earning
<1> QED BY <1>1, <1>2 DEF ScopeTypeOK

\* The listener, its index and its jobs.
LEMMA MemoryTyped == MemoryInv => MemoryTypeOK
<1> SUFFICES ASSUME MemoryInv PROVE MemoryTypeOK
  OBVIOUS
<1>1. /\ listener \in {"draining", "done", "closed", "failed"}
      /\ marked \subseteq 1 .. MaxMail /\ pref \in 0 .. MaxMail
      /\ prefErr \in {"none", "announced", "unheard"}
  BY DEF MemoryInv, MemoryTypes
<1>2. ASSUME NEW f \in MemoryFiles PROVE index[f] \in 0 .. version[f]
  <2>1. version[f] \in Nat /\ index[f] \in Nat /\ index[f] <= version[f]
    BY DEF MemoryInv, MemoryTypes, JobsFollow
  <2> QED BY <2>1
<1>3. ASSUME NEW j \in jobs PROVE j.kind \in {"reindex", "save"} /\ j.seq \in marked
  <2>1. j \in MemoryJobs /\ j.seq \in marked
    BY DEF MemoryInv, MemoryTypes, JobsFollow
  <2> QED BY <2>1 DEF MemoryJobs
<1> QED BY <1>1, <1>2, <1>3 DEF MemoryTypeOK

\* The publisher and its counts.
LEMMA PublisherTyped == ASSUME PublisherInv, results <= MaxResults PROVE PublisherTypeOK
<1>1. PublisherTypes /\ callsMade + Len(feed) <= results
  BY DEF PublisherInv, PublisherSound, AccrualsAddUp
<1>2. Len(feed) \in Nat /\ callsMade \in Nat /\ results \in Nat
  BY <1>1, LenProperties DEF PublisherTypes
<1>3. callsMade \in 0 .. MaxResults
  BY <1>1, <1>2, PublisherAssumption
<1>4. accruer.at \in {"off", "waiting", "publishing", "warning", "ended"}
  BY <1>1 DEF PublisherTypes
<1> QED BY <1>1, <1>3, <1>4 DEF PublisherTypes, PublisherTypeOK

\* The calls it has counted are results that were published.
LEMMA PublisherBound ==
  /\ PublisherInit => results <= MaxResults
  /\ PublisherInv /\ results <= MaxResults /\ [PublisherNext]_publisherVars => results' <= MaxResults
<1>1. PublisherInit => results <= MaxResults
  BY PublisherAssumption DEF PublisherInit
<1>2. ASSUME PublisherInv, results <= MaxResults, [PublisherNext]_publisherVars PROVE results' <= MaxResults
  <2>1. results \in Nat
    BY <1>2 DEF PublisherInv, PublisherTypes
  <2>2. results' = results \/ \E t \in PaidTools : ToolEnds(t)
    BY <1>2 DEF PublisherNext, publisherVars, StartPublisher, BusCloses, RunCancelled, Accrue,
         PublishIncurred, Warn, AccruerEnds, StopPublisher, StopReturns
  <2> QED BY <1>2, <2>1, <2>2, PublisherAssumption DEF ToolEnds
<1> QED BY <1>1, <1>2

\* A count holds an entry that was made.
EntriesMade == \A c \in Callers : count[c].entry <= entryOf

\* The ledger.
LEMMA CostTyped == ASSUME LedgerInv, EntriesMade PROVE CostTypeOK
<1>1. LedgerTypes
  BY DEF LedgerInv
<1>2. ASSUME NEW c \in Callers PROVE count[c].entry \in 0 .. Len(entries)
  <2>1. count[c].entry \in {0, 1} /\ count[c].entry <= entryOf /\ Len(entries) = entryOf /\ entryOf \in {0, 1}
    BY <1>1 DEF LedgerTypes, CountTypes, EntriesMade
  <2> QED BY <2>1
<1>3. entryOf \in 0 .. Len(entries)
  BY <1>1 DEF LedgerTypes
<1> QED BY <1>1, <1>2, <1>3 DEF CostTypeOK, LedgerTypes

\* No entry is ever unmade.
LEMMA EntriesStay ==
  /\ CostInit => EntriesMade
  /\ LedgerInv /\ EntriesMade /\ [CostNext]_costVars => EntriesMade'
<1>1. CostInit => EntriesMade
  BY DEF CostInit, EntriesMade, Resting
<1>2. ASSUME LedgerInv, EntriesMade, [CostNext]_costVars PROVE EntriesMade'
  <2>1. /\ count \in CountTypes /\ entryOf \in {0, 1} /\ entryOf' \in {0, 1} /\ Len(entries) = entryOf
        /\ count' \in CountTypes
    <3>1. LedgerInv'
      BY <1>2, NextLedger
    <3> QED BY <1>2, <3>1 DEF LedgerInv, LedgerTypes
  <2>2. entryOf <= entryOf'
    <3>1. entryOf' = entryOf \/ entryOf = 0
      <4>1. CASE RegisterTask
        BY <4>1 DEF RegisterTask, Register
      <4>2. CASE \E c \in Callers, kind \in {"loop", "reflection", "tokens"} : LookUp(c, kind)
        BY <4>2 DEF LookUp
      <4> QED BY <1>2, <4>1, <4>2 DEF CostNext, costVars, AskCap, TimePasses, IncLoop, IncReflection,
                AddTokens, Change, PublishNotice
    <3> QED BY <2>1, <3>1
  <2> SUFFICES ASSUME NEW d \in Callers PROVE count'[d].entry <= entryOf'
    BY DEF EntriesMade
  <2>3. count[d].entry \in {0, 1} /\ count[d].entry <= entryOf
    BY <1>2, <2>1 DEF CountTypes, EntriesMade
  <2>4. count'[d].entry \in {count[d].entry, 0, entryOf'}
    <3>1. CASE UNCHANGED count
      BY <3>1
    <3>2. CASE \E c \in Callers, kind \in {"loop", "reflection", "tokens"} : LookUp(c, kind)
      BY <2>1, <3>2 DEF LookUp, CountTypes
    <3>3. CASE \E c \in Callers : \E e, r : Change(c, e, r)
      BY <2>1, <3>3 DEF Change, CountTypes, Resting
    <3>4. CASE \E c \in Callers : PublishNotice(c)
      BY <2>1, <3>4 DEF PublishNotice, CountTypes, Resting
    <3> QED BY <1>2, <3>1, <3>2, <3>3, <3>4 DEF CostNext, costVars, RegisterTask, AskCap, TimePasses,
              IncLoop, IncReflection, AddTokens
  <2> QED BY <2>1, <2>2, <2>3, <2>4
<1> QED BY <1>1, <1>2

\* Entries and snapshots within their bounds, the last rollback to one of them.
StackFits ==
    /\ Len(history) <= MaxEntries /\ Len(saved.history) <= MaxEntries
    /\ snaps <= MaxSnaps /\ rolledTo \in 0 .. MaxSnaps /\ ended \in BOOLEAN

\* Only a push makes a stack longer, and it asks first.
LEMMA StackStays ==
  /\ UndoInit => StackFits
  /\ StackInv /\ StackFits /\ [UndoNext]_undoVars => StackFits'
<1>1. UndoInit => StackFits
  <2> SUFFICES ASSUME UndoInit PROVE StackFits
    OBVIOUS
  <2>1. Len(history) = 0 /\ Len(saved.history) = 0
    BY DEF UndoInit
  <2>2. snaps = 0 /\ rolledTo = 0 /\ ended = FALSE
    BY DEF UndoInit
  <2>3. 0 <= MaxEntries /\ 0 <= MaxSnaps /\ 0 \in 0 .. MaxSnaps
    BY UndoAssumption
  <2> QED BY <2>1, <2>2, <2>3 DEF StackFits
<1>2. ASSUME StackInv, StackFits, [UndoNext]_undoVars PROVE StackFits'
  <2>1. /\ history \in Seq(StackEntries) /\ Len(history) \in Nat
        /\ saved.history \in Seq(StackEntries) /\ snaps \in Nat
        /\ \A i \in DOMAIN history : history[i].snap \in 0 .. snaps
    <3>1. ASSUME NEW i \in DOMAIN history PROVE history[i].snap \in 0 .. snaps
      <4>1. history[i] \in StackEntries /\ history[i].snap <= snaps
        BY <1>2 DEF StackInv, GoodStack
      <4> QED BY <1>2, <4>1 DEF StackEntries, StackInv
    <3> QED BY <1>2, <3>1, LenProperties DEF StackInv, GoodStack
  <2> DEFINE SavesStack == saved' = saved \/ saved' = [history |-> history', checkpoint |-> checkpoint']
  <2>2. ASSUME Len(history') <= MaxEntries, SavesStack PROVE Len(saved'.history) <= MaxEntries
    BY <1>2, <2>2 DEF StackFits
  <2>3. CASE UNCHANGED undoVars
    BY <1>2, <2>3 DEF undoVars, StackFits
  <2>4. CASE \E n \in EntryNames : \E r \in BOOLEAN : RecordEntry(n, r)
    <3>1. /\ Len(history') = Len(history) + 1 /\ Len(history) < MaxEntries /\ SavesStack
          /\ UNCHANGED <<snaps, rolledTo, ended>>
      BY <2>1, <2>4 DEF RecordEntry, SaveOrFail
    <3> QED BY <1>2, <2>1, <2>2, <3>1, UndoAssumption DEF StackFits
  <2>5. CASE \E n \in EntryNames : TakeCheckpoint(n)
    <3>1. /\ Len(history') = Len(history) + 1 /\ Len(history) < MaxEntries /\ SavesStack
          /\ snaps' = snaps + 1 /\ snaps < MaxSnaps /\ UNCHANGED <<rolledTo, ended>>
      BY <2>1, <2>5 DEF TakeCheckpoint, SaveOrFail
    <3> QED BY <1>2, <2>1, <2>2, <3>1, UndoAssumption DEF StackFits
  <2>6. ASSUME NEW n \in Nat, n <= Len(history) PROVE Len(But(history, n)) <= MaxEntries
    <3>1. Len(But(history, n)) = n
      BY <2>1, <2>6, SubSeqProperties DEF But
    <3> QED BY <1>2, <2>1, <2>6, <3>1, UndoAssumption DEF StackFits
  <2>7. CASE \E n \in EntryNames : Restore(n)
    <3>1. PICK n \in EntryNames : Restore(n)
      BY <2>7
    <3>2. FirstNamed(history, n) \in DOMAIN history
      BY <2>1, <3>1, FirstIsNamed DEF Restore, IsNamed
    <3> DEFINE i == FirstNamed(history, n)
    <3>3. i \in Nat /\ i <= Len(history) /\ history[i].snap \in 0 .. snaps
      BY <2>1, <3>2
    <3>4. history' = But(history, i) /\ rolledTo' = history[i].snap /\ UNCHANGED <<snaps, ended>> /\ SavesStack
      BY <3>1 DEF Restore, SaveOrFail
    <3> HIDE DEF i
    <3> QED BY <1>2, <2>1, <2>2, <2>6, <3>3, <3>4, UndoAssumption DEF StackFits
  <2>8. CASE Undo
    <3>1. /\ history # <<>> /\ history' = But(history, Len(history) - 1)
          /\ rolledTo' = history[Len(history)].snap /\ UNCHANGED <<snaps, ended>> /\ SavesStack
      BY <2>8 DEF Undo, Latest, SaveOrFail
    <3>2. Len(history) > 0 /\ Len(history) \in DOMAIN history
      BY <2>1, <3>1, EmptySeq
    <3>3. Len(history) - 1 \in Nat
      BY <2>1, <3>2
    <3> QED BY <1>2, <2>1, <2>2, <2>6, <3>1, <3>2, <3>3, UndoAssumption DEF StackFits
  <2>9. CASE CancelTask
    <3>1. UNCHANGED <<history, checkpoint, snaps>> /\ ended' = TRUE /\ SavesStack
      BY <2>9 DEF CancelTask, SaveOrFail
    <3>2. rolledTo' \in 0 .. MaxSnaps
      <4>1. CASE checkpoint # NoName /\ IsNamed(history, checkpoint) # {}
        <5>1. FirstNamed(history, checkpoint) \in DOMAIN history
          BY <2>1, <4>1, FirstIsNamed DEF IsNamed
        <5>2. rolledTo' = history[FirstNamed(history, checkpoint)].snap
          BY <2>9, <4>1 DEF CancelTask
        <5> QED BY <1>2, <2>1, <5>1, <5>2, UndoAssumption DEF StackFits
      <4>2. CASE ~ (checkpoint # NoName /\ IsNamed(history, checkpoint) # {})
        BY <1>2, <2>9, <4>2 DEF CancelTask, StackFits
      <4> QED BY <4>1, <4>2
    <3> QED BY <1>2, <2>2, <3>1, <3>2 DEF StackFits
  <2>10. CASE Reload
    BY <1>2, <2>10 DEF Reload, StackFits
  <2> QED BY <1>2, <2>3, <2>4, <2>5, <2>7, <2>8, <2>9, <2>10 DEF UndoNext
<1> QED BY <1>1, <1>2

\* The undo stack.
LEMMA UndoTyped == StackInv /\ StackFits => UndoTypeOK
BY UndoAssumption DEF StackInv, GoodStack, StackFits, UndoTypeOK

\* No counter of ids is past the last id.
IdsFit == \A p \in Proc : sessN[p] <= MaxSession /\ taskN[p] <= MaxTask

\* The highest of some ids is one of them.
LEMMA HighestFits ==
  ASSUME NEW top \in Nat, NEW S \in SUBSET (1 .. top)
  PROVE  Highest(S) <= top
<1>1. CASE S = {}
  BY <1>1 DEF Highest
<1>2. CASE S # {}
  <2> DEFINE Bounds == {n \in Nat : \A m \in S : m <= n}
  <2>1. PICK n \in Bounds : \A m \in Bounds : n <= m
    <3>1. Bounds \in SUBSET Nat /\ top \in Bounds
      OBVIOUS
    <3> HIDE DEF Bounds
    <3> QED BY <3>1, LeastNat
  <2>2. n \in S
    <3> SUFFICES ASSUME n \notin S PROVE FALSE
      OBVIOUS
    <3>1. PICK k \in S : TRUE
      BY <1>2
    <3>2. k < n /\ n \in Nat /\ k \in 1 .. top
      BY <2>1, <3>1
    <3>3. n - 1 \in Bounds
      BY <2>1, <3>2
    <3> HIDE DEF Bounds
    <3> QED BY <2>1, <3>2, <3>3
  <2>3. Highest(S) \in S
    <3>1. \E k \in S : \A l \in S : l <= k
      BY <2>1, <2>2
    <3> QED BY <1>2, <3>1 DEF Highest
  <2>4. \A l \in S : l <= top
    OBVIOUS
  <2> QED BY <2>3, <2>4, Zenon
<1> QED BY <1>1, <1>2

\* A seed is the highest id listed, a claim moves by one and asks first.
LEMMA IdsStay ==
  /\ StoreInit => IdsFit
  /\ StoreInv /\ IdsFit /\ [StoreNext]_storeVars => IdsFit'
<1>1. StoreInit => IdsFit
  BY StoreAssumption DEF StoreInit, IdsFit
<1>2. ASSUME StoreInv, IdsFit, [StoreNext]_storeVars PROVE IdsFit'
  <2>1. /\ sessN \in [Proc -> Nat] /\ taskN \in [Proc -> Nat]
        /\ Listed \subseteq 1 .. MaxSession /\ TasksListed \subseteq 1 .. MaxTask
    <3>1. ASSUME NEW s \in Listed, NEW i \in DOMAIN sessFile[s].tasks
          PROVE  sessFile[s].tasks[i] \in 1 .. MaxTask
      <4>1. sessFile[s] \in SessRec
        <5>1. s \in SessionId /\ Whole(sessFile[s])
          BY DEF Listed
        <5>2. sessFile[s] \in SessRec \union {Absent, Torn}
          BY <1>2, <5>1 DEF StoreInv, StoreTypes
        <5> QED BY <5>1, <5>2 DEF Whole
      <4> QED BY <4>1, ElementOfSeq, LenProperties DEF SessRec, TaskNumber
    <3>2. sessN \in [Proc -> Nat] /\ taskN \in [Proc -> Nat]
      BY <1>2 DEF StoreInv, StoreTypes
    <3>3. Listed \subseteq 1 .. MaxSession
      BY DEF Listed, SessionId
    <3>4. TasksListed \subseteq 1 .. MaxTask
      BY <3>1 DEF TasksListed
    <3> QED BY <3>2, <3>3, <3>4
  <2>2. CASE UNCHANGED <<sessN, taskN>>
    BY <1>2, <2>2 DEF IdsFit
  <2>3. ASSUME NEW p \in Proc, Seed(p) PROVE IdsFit'
    <3>1. Highest(Listed) <= MaxSession /\ Highest(TasksListed) <= MaxTask
      BY <2>1, HighestFits, StoreAssumption
    <3> QED BY <1>2, <2>1, <2>3, <3>1 DEF Seed, IdsFit
  <2>4. ASSUME NEW p \in Proc, ClaimSession(p) PROVE IdsFit'
    BY <1>2, <2>1, <2>4, StoreAssumption DEF ClaimSession, IdsFit
  <2>5. ASSUME NEW p \in Proc, NEW s \in SessionId, ClaimTask(p, s) PROVE IdsFit'
    BY <1>2, <2>1, <2>5, StoreAssumption DEF ClaimTask, IdsFit
  <2> QED BY <1>2, <2>2, <2>3, <2>4, <2>5 DEF StoreNext, storeVars, SessionWritten, SessionFailed, TaskWritten,
            TaskFailed, SessionListed, ListFailed, SetStatus, Resume, Die
<1> QED BY <1>1, <1>2

\* The files and the managers of the session store.
LEMMA StoreTyped == ASSUME StoreInv, IdsFit PROVE StoreTypeOK
<1>1. StoreTypes
  BY DEF StoreInv
<1>2. ASSUME NEW s \in SessionId, Whole(sessFile[s])
      PROVE  sessFile[s].by \in Proc /\ \A i \in DOMAIN sessFile[s].tasks : sessFile[s].tasks[i] \in TaskNumber
  <2>1. sessFile[s] \in SessRec
    BY <1>1, <1>2 DEF Whole, StoreTypes
  <2> QED BY <2>1, ElementOfSeq, LenProperties DEF SessRec
<1>3. ASSUME NEW t \in TaskNumber, Whole(taskFile[t])
      PROVE  taskFile[t].by \in Proc /\ taskFile[t].sid \in SessionId /\ taskFile[t].status \in Status
  <2>1. taskFile[t] \in TaskRec
    BY <1>1, <1>3 DEF Whole, StoreTypes
  <2> QED BY <2>1 DEF TaskRec
<1>4. ASSUME NEW p \in Proc
      PROVE  /\ alive[p] \in BOOLEAN /\ seeded[p] \in BOOLEAN
             /\ sessN[p] \in 0 .. MaxSession /\ taskN[p] \in 0 .. MaxTask
             /\ doing[p].at \in {"idle", "session", "task", "list"}
  <2>1. sessN[p] \in 0 .. MaxSession /\ taskN[p] \in 0 .. MaxTask
    BY <1>1, StoreAssumption DEF IdsFit, StoreTypes
  <2>2. doing[p] \in Doing
    BY <1>1 DEF StoreTypes
  <2>3. doing[p].at \in {"idle", "session", "task", "list"}
    BY <2>2 DEF Doing, Idle
  <2> QED BY <1>1, <2>1, <2>3 DEF StoreTypes
<1> QED BY <1>2, <1>3, <1>4 DEF StoreTypeOK

\* The goal and the way it takes.
LEMMA GoalTyped ==
  /\ GoalInit => GoalTypeOK
  /\ GoalTypeOK /\ [GoalNext]_goalVars => GoalTypeOK'
<1>1. GoalInit => GoalTypeOK
  BY DEF GoalInit, GoalTypeOK
<1>2. ASSUME GoalTypeOK, [GoalNext]_goalVars PROVE GoalTypeOK'
  <2>1. ASSUME NEW w \in GoalWords, TypeGoal(w) PROVE GoalTypeOK'
    BY <1>2, <2>1 DEF TypeGoal, GoalTypeOK
  <2>2. CASE StartPlan
    BY <1>2, <2>2 DEF StartPlan, GoalTypeOK
  <2>3. CASE UNCHANGED goalVars
    BY <1>2, <2>3 DEF goalVars, GoalTypeOK
  <2> QED BY <1>2, <2>1, <2>2, <2>3 DEF GoalNext
<1> QED BY <1>1, <1>2

\* The parts gathered, and the groups of the package and of the prompt.
FitInv == ranked \in Seq(PartPool \union {Frame}) /\ FitTypeOK

\* Every step of the packing keeps the groups.
LEMMA FitTyped ==
  /\ FitInit => FitInv
  /\ FitInv /\ [FitNext]_fitVars => FitInv'
<1>1. FitInit => FitInv
  <2>1. <<>> \in Seq(PartPool \union {Frame}) /\ Len(<<>>) = 0 /\ 0 <= MaxParts
    BY FitAssumption
  <2> QED BY <2>1 DEF FitInit, FitInv, FitTypeOK
<1>2. ASSUME FitInv, [FitNext]_fitVars PROVE FitInv'
  <2>1. ASSUME NEW p \in PartPool \union {Frame}, GatherPart(p) PROVE FitInv'
    <3>1. ranked \in Seq(PartPool \union {Frame}) /\ Len(ranked) < MaxParts /\ ranked' = Append(ranked, p)
      BY <1>2, <2>1 DEF FitInv, GatherPart
    <3>2. ranked' \in Seq(PartPool \union {Frame}) /\ Len(ranked') <= MaxParts
      BY <3>1, FitAssumption
    <3> QED BY <1>2, <2>1, <3>2 DEF FitInv, FitTypeOK, GatherPart
  <2>2. CASE BuildContext
    <3>1. DOMAIN Compress(ranked) = Kinds
      BY DEF Compress
    <3>2. /\ fitStage' = "built" /\ pkg' = Compress(ranked) /\ ranked' = ranked
      BY <2>2 DEF BuildContext
    <3> QED BY <1>2, <3>1, <3>2 DEF FitInv, FitTypeOK
  <2>3. CASE CompilePrompt
    <3> DEFINE g == [pkg EXCEPT !["conversation"] = DedupConversation(pkg)]
    <3>1. DOMAIN pkg = Kinds /\ DOMAIN g = Kinds
      BY <1>2, <2>3 DEF FitInv, FitTypeOK, CompilePrompt
    <3>2. fitStage' = "compiled" /\ prompt' = ApplyBudget(g, budget).groups /\ UNCHANGED <<ranked, pkg>>
      BY <2>3 DEF CompilePrompt
    <3> HIDE DEF g
    <3>3. DOMAIN ApplyBudget(g, budget).groups = Kinds
      BY <3>1 DEF ApplyBudget
    <3> QED BY <1>2, <3>1, <3>2, <3>3 DEF FitInv, FitTypeOK
  <2>4. CASE UNCHANGED fitVars
    BY <1>2, <2>4 DEF fitVars, FitInv, FitTypeOK
  <2> QED BY <1>2, <2>1, <2>2, <2>3, <2>4 DEF FitNext
<1> QED BY <1>1, <1>2

\* The walk of a verification.
LEMMA WalkTyped == WalkInv => VerifyTypeOK
<1> SUFFICES ASSUME WalkInv PROVE VerifyTypeOK
  OBVIOUS
<1>1. WalkTypes /\ StageNamed /\ Len(statuses) \in Nat /\ DOMAIN statuses = 1 .. Len(statuses)
  BY LenProperties DEF WalkInv, WalkTypes
<1>2. signals \in 0 .. Len(Stages) /\ stageAt \in 0 .. Len(Stages) + 1
  BY <1>1, StageFacts DEF WalkTypes, StageNamed
<1>3. \A i \in DOMAIN statuses : statuses[i][1] = Stages[i]
  BY <1>1 DEF StageNamed
<1> QED BY <1>1, <1>2, <1>3 DEF WalkTypes, CacheKeys, VerifyTypeOK

\* The dispatches.
LEMMA ToolTyped == DispatchInv => ToolTypeOK
BY DispatchIsSound

\* Every variable of every part keeps its type, for any values of the constants: what
\* a step writes is what the later ones expect, no counter passes its bound, no name
\* is of something that is not there.  The types are read off the invariants above
\* and need their hypotheses, with a bound or a name added where one was missing.
THEOREM TypesAlwaysOK == ASSUME ~ SharedResume, TurnFits PROVE ToolsSpec => []TypesOK
<1> DEFINE Inv == /\ part = "patch" => Typed
                  /\ part = "log" => LogInv
                  /\ part = "store" => StoreInv /\ IdsFit
                  /\ part = "undo" => StackInv /\ StackFits
                  /\ part = "verify" => WalkInv
                  /\ part = "line" => LineInv
                  /\ part = "goal" => GoalTypeOK
                  /\ part = "run" => RunnerInv
                  /\ part = "talk" => TalkInv
                  /\ part = "fit" => FitInv
                  /\ part = "cost" => LedgerInv /\ EntriesMade
                  /\ part = "publisher" => PublisherInv /\ results <= MaxResults
                  /\ part = "scope" => ScopeInv
                  /\ part = "search" => TreeInv
                  /\ part = "memory" => MemoryInv
                  /\ part = "tool" => DispatchInv
<1>1. ToolsInit => Inv
  BY InitTyped, InitLog, InitStore, IdsStay, InitStack, StackStays, InitWalk, InitLine, GoalTyped, InitRun,
     InitTalk, FitTyped, InitLedger, EntriesStay, InitPublisher, PublisherBound, InitScope, InitTree,
     InitMemory, InitDispatch
  DEF ToolsInit
<1>2. Inv /\ [ToolsNext]_toolsVars => Inv'
  <2> SUFFICES ASSUME Inv, [ToolsNext]_toolsVars PROVE Inv'
    OBVIOUS
  <2>0. part' = part
    BY OneAtATime
  <2>1. part = "patch" => (Typed)'
    BY OneAtATime, NextTyped
  <2>2. part = "log" => (LogInv)'
    BY OneAtATime, NextLog
  <2>3. part = "store" => (StoreInv /\ IdsFit)'
    BY OneAtATime, NextStore, IdsStay
  <2>4. part = "undo" => (StackInv /\ StackFits)'
    BY OneAtATime, NextStack, StackStays
  <2>5. part = "verify" => (WalkInv)'
    BY OneAtATime, NextWalk
  <2>6. part = "line" => (LineInv)'
    BY OneAtATime, NextLine
  <2>7. part = "goal" => (GoalTypeOK)'
    BY OneAtATime, GoalTyped
  <2>8. part = "run" => (RunnerInv)'
    BY OneAtATime, NextRun
  <2>9. part = "talk" => (TalkInv)'
    BY OneAtATime, NextTalk
  <2>10. part = "fit" => (FitInv)'
    BY OneAtATime, FitTyped
  <2>11. part = "cost" => (LedgerInv /\ EntriesMade)'
    BY OneAtATime, NextLedger, EntriesStay
  <2>12. part = "publisher" => (PublisherInv /\ results <= MaxResults)'
    BY OneAtATime, NextPublisher, PublisherBound
  <2>13. part = "scope" => (ScopeInv)'
    BY OneAtATime, NextScope
  <2>14. part = "search" => (TreeInv)'
    BY OneAtATime, NextTree
  <2>15. part = "memory" => (MemoryInv)'
    BY OneAtATime, NextMemory
  <2>16. part = "tool" => (DispatchInv)'
    BY OneAtATime, NextDispatch
  <2> QED BY <2>0, <2>1, <2>2, <2>3, <2>4, <2>5, <2>6, <2>7, <2>8,
             <2>9, <2>10, <2>11, <2>12, <2>13, <2>14, <2>15, <2>16
<1>3. Inv => TypesOK
  BY LogTyped, StoreTyped, UndoTyped, WalkTyped, LineIsSound, RunTyped, TalkIsSound, CostTyped, PublisherTyped,
     ScopeTyped, TreeIsSound, MemoryTyped, ToolTyped
  DEF Typed, FitInv, TypesOK, On
<1> HIDE DEF Inv
<1> QED BY <1>1, <1>2, <1>3, PTL DEF ToolsSpec
=============================================================================
