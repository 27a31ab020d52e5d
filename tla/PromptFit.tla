----------------------------- MODULE PromptFit -----------------------------
(***************************************************************************)
(* From the gathered context to the prompt: the context engine             *)
(* (internal/context) ranks its parts, keeps what fits a soft budget and   *)
(* splits the token window; the prompt compiler (internal/prompt) removes  *)
(* duplicates, trims the groups to their slots until the prompt fits, says *)
(* what it left out, and orders the messages.                              *)
(*                                                                         *)
(* A score is abstracted to the order it gives: the parts are gathered in  *)
(* any ranked order.  A text stands for its length, in bytes and in tokens *)
(* alike; a section costs two tokens for its tags and two for each header. *)
(* The engine gathers one part of its own, the frame; no other is of the   *)
(* system's kind.                                                          *)
(***************************************************************************)
EXTENDS Naturals, Sequences, FiniteSets, SequencesExt, Picks

CONSTANTS
    PartPool,    \* parts that can be gathered: kind, source, size
    MaxParts,    \* bound: parts of a package, the frame included
    Windows,     \* token windows, 0 when none is set
    SoftBudgets, \* the engine's soft budgets, in bytes
    GoalSize,
    MarkerSize   \* the line that says what was omitted

Kinds == {"system", "project", "preferences", "conversation", "file", "graph", "diagnostics", "rag"}

ASSUME FitAssumption ==
    /\ \A p \in PartPool : p.kind \in Kinds \ {"system"} /\ p.size \in Nat
    /\ MaxParts \in Nat /\ GoalSize \in Nat /\ MarkerSize \in Nat
    /\ Windows \subseteq Nat /\ SoftBudgets \subseteq Nat \ {0}

VARIABLES
    window, softBudget,
    ranked,   \* the parts, best first
    pkg,      \* the ContextPackage: the groups
    budget,   \* its Budget
    prompt,   \* the groups that are sent
    report,   \* the TokenBudgetEvent: used, dropped
    fitStage  \* "gather", "built", "compiled"

fitVars == <<window, softBudget, ranked, pkg, budget, prompt, report, fitStage>>

Frame == [kind |-> "system", source |-> "", size |-> 4]

FitInit ==
    /\ window \in Windows /\ softBudget \in SoftBudgets
    /\ ranked = <<>> /\ fitStage = "gather"
    /\ pkg = <<>> /\ budget = <<>> /\ prompt = <<>> /\ report = <<>>

\* gather: the frame once, an open file as often as it is listed.
GatherPart(p) ==
    /\ fitStage = "gather" /\ Len(ranked) < MaxParts
    /\ p.kind = "file" \/ p \notin Range(ranked)
    /\ ranked' = Append(ranked, p)
    /\ UNCHANGED <<window, softBudget, pkg, budget, prompt, report, fitStage>>

-----------------------------------------------------------------------------
\* compress

DedupKey(p) == IF p.kind \in {"file", "project", "conversation"} THEN <<p.kind, p.source>> ELSE <<>>

Deduped(ps) ==
    Picked(ps, {i \in DOMAIN ps : DedupKey(ps[i]) = <<>>
                                     \/ \A j \in 1 .. i - 1 : DedupKey(ps[j]) # DedupKey(ps[i])})

\* The frame is kept and not charged; then the best part of every kind is
\* offered, then all of them, while the soft budget lasts.
Walk(ps) ==
    LET n == Len(ps)
        walk[k \in 0 .. 2 * n] ==
            IF k = 0 THEN [bytes |-> 0, kept |-> {i \in DOMAIN ps : ps[i] = Frame}]
            ELSE LET s == walk[k - 1]
                     i == IF k <= n THEN k ELSE k - n
                     isHead == \A j \in 1 .. i - 1 : ps[j].kind # ps[i].kind
                 IN  IF \/ i \in s.kept
                        \/ k <= n /\ ~ isHead
                        \/ s.bytes + ps[i].size > softBudget /\ s.bytes > 0
                     THEN s
                     ELSE [bytes |-> s.bytes + ps[i].size, kept |-> s.kept \union {i}]
    IN  walk[2 * n].kept

Compress(ps) ==
    LET all == Deduped(ps)  kept == Walk(all)
    IN  [k \in Kinds |-> Picked(all, {i \in kept : all[i].kind = k})]

-----------------------------------------------------------------------------
\* allocate

Least(a, b) == IF a < b THEN a ELSE b
Most(a, b) == IF a > b THEN a ELSE b

ReserveFor(w) == IF w = 0 THEN 0 ELSE Most(1, Least(Most((w * 15) \div 100, 1024), (w * 50) \div 100))

Share(avail, pct) == IF avail = 0 THEN 0 ELSE Most(1, (avail * pct) \div 100)

Allocate(w) ==
    LET avail == w - ReserveFor(w)
        sys == Least(Share(avail, 12), 4096)
        proj == Least(Share(avail, 8), 2048)
        pref == Least(Share(avail, 8), 2048)
        conv == Share(avail, 45)
        files == Share(avail, 17)
        rag == Share(avail, 8)
        shared == sys + proj + pref + conv + files + rag
    IN  [window |-> w, reserve |-> ReserveFor(w), system |-> sys, project |-> proj, preferences |-> pref,
         conversation |-> conv, files |-> files, rag |-> rag,
         user |-> IF avail > shared THEN avail - shared ELSE Least(1, avail)]

\* Engine.Build
BuildContext ==
    /\ fitStage = "gather" /\ Frame \in Range(ranked)
    /\ pkg' = Compress(ranked) /\ budget' = Allocate(window)
    /\ fitStage' = "built"
    /\ UNCHANGED <<window, softBudget, ranked, prompt, report>>

-----------------------------------------------------------------------------
\* Compile

\* dedup: a turn whose source is an open file, then a turn that repeats the
\* text of the one before it, or has none and comes first.
DedupConversation(g) ==
    LET talk == g["conversation"]
        turns == Picked(talk, {i \in DOMAIN talk : \A f \in Range(g["file"]) : f.source # talk[i].source})
    IN  Picked(turns, {i \in DOMAIN turns : turns[i].size # IF i = 1 THEN 0 ELSE turns[i - 1].size})

Tokens(ps) ==
    LET sum[i \in 0 .. Len(ps)] == IF i = 0 THEN 0 ELSE sum[i - 1] + ps[i].size
    IN  sum[Len(ps)]

Headers(ps) == 2 * Cardinality({i \in DOMAIN ps : ps[i].source # ""})

\* render, and the count of it: an empty section still counts its tags.
Rendered(ps) == 2 + Headers(ps) + Tokens(ps)

\* MUTANT: the first part goes too when it is larger than the slot.
TrimGroupWhole(ps, slot) ==
    LET fits == {m \in 0 .. Len(ps) : Tokens(SubSeq(ps, 1, m)) <= slot}
    IN  SubSeq(ps, 1, CHOOSE m \in fits : \A k \in fits : k <= m)

\* trimGroup and trimConversation: the leading parts that fit, the first one
\* whatever its size, none without a slot.
TrimGroup(ps, slot) ==
    IF slot = 0 \/ ps = <<>> THEN <<>>
    ELSE LET fits == {m \in 1 .. Len(ps) : \A j \in 2 .. m : Tokens(SubSeq(ps, 1, j)) <= slot}
         IN  SubSeq(ps, 1, CHOOSE m \in fits : \A k \in fits : k <= m)

Elided(n) == IF n > 0 THEN <<[kind |-> "marker", source |-> "", size |-> MarkerSize]>> ELSE <<>>

Retrieved(g) == g["file"] \o g["graph"] \o g["diagnostics"]

Fixed(g) == Rendered(g["system"]) + Rendered(g["project"]) + GoalSize

Used(g) ==
    Fixed(g) + Rendered(g["preferences"]) + Tokens(g["conversation"]) + Rendered(Retrieved(g)) + Rendered(g["rag"])

\* Once trimmed, the retrieved groups are counted without their sections.
UsedTrimmed(g) ==
    Fixed(g) + Rendered(g["preferences"]) + Tokens(g["conversation"]) + Tokens(Retrieved(g)) + Tokens(g["rag"])

NothingDropped == [files |-> 0, chunks |-> 0, preferences |-> 0, turns |-> 0]

\* applyBudget: the retrieved groups first, then the preferences, then the
\* turns, each only when the prompt still does not fit.
ApplyBudget(g, b) ==
    LET files == TrimGroup(g["file"], b.files)
        lostFiles == Len(Retrieved(g)) - Len(files)
        rag == TrimGroup(g["rag"], b.rag)
        lostRag == Len(g["rag"]) - Len(rag)
        a == [g EXCEPT !["file"] = files \o Elided(lostFiles), !["graph"] = <<>>, !["diagnostics"] = <<>>,
                       !["rag"] = rag \o Elided(lostRag)]
        prefs == TrimGroup(g["preferences"], b.preferences)
        lostPrefs == Len(g["preferences"]) - Len(prefs)
        a2 == [a EXCEPT !["preferences"] = prefs \o Elided(lostPrefs)]
        others == UsedTrimmed(a2) - Tokens(g["conversation"])
        turns == TrimGroup(g["conversation"], IF b.window > others THEN b.window - others ELSE 0)
        a3 == [a2 EXCEPT !["conversation"] = turns]
        said == [NothingDropped EXCEPT !.files = lostFiles, !.chunks = lostRag]
    IN  CASE b.window = 0 \/ Used(g) <= b.window ->
                [groups |-> g, used |-> Used(g), dropped |-> NothingDropped]
          [] b.window > 0 /\ Used(g) > b.window /\ UsedTrimmed(a) <= b.window ->
                [groups |-> a, used |-> UsedTrimmed(a), dropped |-> said]
          [] b.window > 0 /\ Used(g) > b.window /\ UsedTrimmed(a) > b.window /\ UsedTrimmed(a2) <= b.window ->
                [groups |-> a2, used |-> UsedTrimmed(a2), dropped |-> [said EXCEPT !.preferences = lostPrefs]]
          [] OTHER ->
                [groups |-> a3, used |-> UsedTrimmed(a3),
                 dropped |-> [said EXCEPT !.preferences = lostPrefs,
                                          !.turns = Len(g["conversation"]) - Len(turns)]]

CompilePrompt ==
    /\ fitStage = "built"
    /\ LET r == ApplyBudget([pkg EXCEPT !["conversation"] = DedupConversation(pkg)], budget) IN
          prompt' = r.groups /\ report' = [used |-> r.used, dropped |-> r.dropped]
    /\ fitStage' = "compiled"
    /\ UNCHANGED <<window, softBudget, ranked, pkg, budget>>

FitNext == (\E p \in PartPool \union {Frame} : GatherPart(p)) \/ BuildContext \/ CompilePrompt

FitSpec == FitInit /\ [][FitNext]_fitVars

-----------------------------------------------------------------------------
\* Properties

FitTypeOK ==
    /\ fitStage \in {"gather", "built", "compiled"} /\ Len(ranked) <= MaxParts
    /\ fitStage # "gather" => DOMAIN pkg = Kinds
    /\ fitStage = "compiled" => DOMAIN prompt = Kinds

OverKinds(f) ==
    f["system"] + f["project"] + f["preferences"] + f["conversation"]
        + f["file"] + f["graph"] + f["diagnostics"] + f["rag"]

\* The soft budget starves no kind: the frame is always in, what is packed stays
\* within the budget unless one part is all of it, and a kind that is left out
\* entirely did not fit beside the best parts of the others.
KindsAreHeard ==
    fitStage = "built" =>
        LET all == Deduped(ranked)
            packed == OverKinds([k \in Kinds |-> Tokens(pkg[k])]) - Frame.size
            heads == OverKinds([k \in Kinds |->
                                   IF k = "system" \/ pkg[k] = <<>> THEN 0 ELSE pkg[k][1].size])
        IN  /\ pkg["system"] = <<Frame>>
            /\ packed <= softBudget
                  \/ \E k \in Kinds \ {"system"} : \E i \in DOMAIN pkg[k] : pkg[k][i].size = packed
            /\ \A i \in DOMAIN all :
                  (pkg[all[i].kind] = <<>> /\ \A j \in 1 .. i - 1 : all[j].kind # all[i].kind) =>
                      heads + all[i].size > softBudget

\* What is sent of a group, without the line that ends it when something is left out.
Sent(k) == IF prompt[k] # <<>> /\ Last(prompt[k]).kind = "marker" THEN Front(prompt[k]) ELSE prompt[k]

\* Nothing is left out silently and nothing in the middle: what is sent of a
\* group is its best parts, the number left out is reported, and the model is
\* told of it for every group but the turns.
CutsAreTold ==
    fitStage = "compiled" =>
        LET turns == DedupConversation(pkg)
            lost(k) == Len(pkg[k]) - Len(Sent(k))
        IN  /\ \A k \in Kinds \ {"conversation"} : IsPrefix(Sent(k), pkg[k])
            /\ IsPrefix(prompt["conversation"], turns)
            /\ prompt["system"] = pkg["system"] /\ prompt["project"] = pkg["project"]
            /\ report.dropped.files = lost("file") + lost("graph") + lost("diagnostics")
            /\ report.dropped.chunks = lost("rag") /\ report.dropped.preferences = lost("preferences")
            /\ report.dropped.turns = Len(turns) - Len(prompt["conversation"])
            /\ prompt["file"] # Sent("file") <=> report.dropped.files > 0
            /\ prompt["rag"] # Sent("rag") <=> report.dropped.chunks > 0
            /\ prompt["preferences"] # Sent("preferences") <=> report.dropped.preferences > 0

\* A prompt that fits is sent whole; one that does not fit after every cut has
\* only its first parts left; and what was asked for is never cut to nothing by
\* a window, however small.
CutsAreNeeded ==
    fitStage = "compiled" =>
        /\ report.dropped # NothingDropped =>
              Used([pkg EXCEPT !["conversation"] = DedupConversation(pkg)]) > window /\ window > 0
        /\ (report.used > window /\ window > 0) => Len(prompt["conversation"]) <= 1
        /\ report.dropped.turns > 0 => report.dropped.preferences > 0 \/ Len(pkg["preferences"]) <= 1
                                          \/ Tokens(pkg["preferences"]) <= budget.preferences
        /\ window >= 2 => \A k \in {"file", "rag", "preferences"} : pkg[k] # <<>> => prompt[k][1] = pkg[k][1]

\* The window is split so that no group's cap is zero for a window of two or
\* more, and a window that is not tiny is never given out twice.
WindowIsSplit ==
    fitStage # "gather" =>
        LET b == budget IN
        /\ window >= 2 =>
              /\ b.reserve >= 1 /\ b.system >= 1 /\ b.project >= 1 /\ b.preferences >= 1
              /\ b.conversation >= 1 /\ b.files >= 1 /\ b.rag >= 1 /\ b.user >= 1
        /\ b.reserve * 2 <= window \/ window = 1
        /\ window >= 26 =>
              b.reserve + b.system + b.project + b.preferences + b.conversation
                  + b.files + b.rag + b.user = window

FitSound == KindsAreHeard /\ CutsAreTold /\ CutsAreNeeded /\ WindowIsSplit

\* They do not hold (README): the figure that is published is the length of the
\* prompt, and the room reserved for the reply is left free.
UsedIsSent ==
    fitStage = "compiled" =>
        report.used = Fixed(prompt) + Tokens(prompt["conversation"])
            + (IF prompt["preferences"] = <<>> THEN 0 ELSE Rendered(prompt["preferences"]))
            + (IF Retrieved(prompt) = <<>> THEN 0 ELSE Rendered(Retrieved(prompt)))
            + (IF prompt["rag"] = <<>> THEN 0 ELSE Rendered(prompt["rag"]))

ReplyHasRoom == (fitStage = "compiled" /\ report.used <= window) => report.used + budget.reserve <= window
=============================================================================
