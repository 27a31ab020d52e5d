------------------------------ MODULE GoalPlan ------------------------------
(***************************************************************************)
(* From a goal to its todos: the router (coord/classify.go, route.go), the *)
(* entry of --plan that asks it (cmd/yolo/main.go) and the planner         *)
(* (cmd/yolo/planner_adapter.go).  The goal is typed word by word.         *)
(*                                                                         *)
(* A word stands for its class: a verb of work, a question, a filler, a    *)
(* polite opening (one word here), a separator, a command.  "," and ";"    *)
(* hang on the word before them, every other word stands between spaces.   *)
(***************************************************************************)
EXTENDS Naturals, Sequences, FiniteSets, SequencesExt, Picks

CONSTANTS
    GoalWords, \* words a goal is made of
    Verbs, Inquiries, Fillers, Polite, \* their classes
    MaxGoal    \* bound: words of a goal


VARIABLES goal, \* the words so far
          titles, way \* what the run makes of it: the todos' titles, the way it takes

goalVars == <<goal, titles, way>>

Punctuation == {",", ";"}

Command == {"/plan", "/agent"}

\* A verb of work is a word of its own class; the words a text is cut at are
\* fillers where they are not (clauseFillers); a polite opening is made of words.
ASSUME GoalAssumption ==
    /\ MaxGoal \in Nat
    /\ Verbs \intersect (Fillers \union Punctuation) = {}
    /\ {"and", "then"} \subseteq Fillers
    /\ Polite \intersect (Punctuation \union Command) = {}

GoalInit == goal = <<>> /\ titles = <<>> /\ way = "typing"

TypeGoal(w) ==
    /\ way = "typing" /\ Len(goal) < MaxGoal
    /\ goal = <<>> => w \notin Punctuation
    /\ goal # <<>> => ~ (w \in Punctuation /\ Last(goal) \in Punctuation)
    /\ goal' = Append(goal, w)
    /\ UNCHANGED <<titles, way>>

-----------------------------------------------------------------------------
\* Splitting

\* Where the text is cut: at the marks, and at a word between spaces that is not
\* itself what the space of the word before it was taken for.
Cuts(t, marks, words) ==
    LET cut[i \in 0 .. Len(t)] ==
            /\ i > 0
            /\ \/ t[i] \in marks
               \/ /\ t[i] \in words /\ 1 < i /\ i < Len(t)
                  /\ t[i + 1] \notin Punctuation
                  /\ ~ (cut[i - 1] /\ t[i - 1] \in words)
    IN  {i \in DOMAIN t : cut[i]}

\* The pieces between the cuts, the empty ones dropped.
Pieces(t, cuts) ==
    LET pieces[i \in 0 .. Len(t)] ==
            IF i = 0 THEN <<>>
            ELSE IF i \in cuts THEN pieces[i - 1]
            ELSE IF i = 1 \/ (i - 1) \in cuts THEN Append(pieces[i - 1], <<t[i]>>)
            ELSE Append(Front(pieces[i - 1]), Append(Last(pieces[i - 1]), t[i]))
    IN  pieces[Len(t)]

WordsOf(t) == Omitting(t, Punctuation)

\* isWorkClause: the first word that is no filler is a verb of work.
IsWorkClause(t) ==
    LET said == Omitting(t, Punctuation \union Fillers)
    IN  said # <<>> /\ Head(said) \in Verbs

WorkIn(pieces) == Cardinality({k \in DOMAIN pieces : IsWorkClause(pieces[k])})

\* workClauseCount
WorkClauseCount(t) == WorkIn(Pieces(t, Cuts(t, Punctuation, {"and", "then"})))

\* stripPolite: every polite opening that something follows.
StripPolite(t) ==
    LET polite == {n \in 0 .. Len(t) :
                      /\ \A i \in 1 .. n : t[i] \in Polite /\ i < Len(t) /\ t[i + 1] \notin Punctuation}
        n == CHOOSE m \in polite : \A k \in polite : k <= m
    IN  SubSeq(t, n + 1, Len(t))

\* Classify; the first word of the body is a question or it is not.
ClassifyGoal(t) ==
    LET body == StripPolite(t) IN
    CASE t = <<>> -> "single"
      [] t # <<>> /\ t[1] = "/plan"  -> "multi"
      [] t # <<>> /\ t[1] = "/agent" -> "single_named"
      [] OTHER -> IF Head(WordsOf(body)) \in Inquiries THEN "single"
                  ELSE IF WorkClauseCount(body) >= 3 THEN "multi" ELSE "single"

Route(mode) ==
    CASE mode = "multi" -> "orchestrate"
      [] mode = "single_named" -> "single_named_agent"
      [] OTHER -> "delegate_single"

\* clauses: the goal without its command, cut at "," and "and" - not at ";" or
\* "then", which the router counts - only when the mode is multi.
Clauses(t, mode) ==
    LET body == IF t # <<>> /\ t[1] \in {"/plan", "/agent"} /\ Len(t) > 1 /\ t[2] \notin Punctuation
                THEN Tail(t) ELSE t
        pieces == Pieces(body, Cuts(body, {","}, {"and"}))
    IN  IF mode # "multi" THEN <<body>> ELSE IF pieces = <<>> THEN <<body>> ELSE pieces

\* run, --plan: a goal that is not worth a plan goes to the single agent.
StartPlan ==
    /\ way = "typing" /\ goal # <<>>
    /\ way' = IF Route(ClassifyGoal(goal)) = "orchestrate" THEN "plan" ELSE "headless"
    /\ titles' = IF way' = "plan" THEN Clauses(goal, ClassifyGoal(goal)) ELSE <<>>
    /\ UNCHANGED goal

GoalNext == (\E w \in GoalWords : TypeGoal(w)) \/ StartPlan

GoalSpec == GoalInit /\ [][GoalNext]_goalVars

-----------------------------------------------------------------------------
\* Properties

GoalTypeOK == goal \in Seq(GoalWords) /\ way \in {"typing", "plan", "headless"}

Cutters == Punctuation \union {"and", "then"} \union Command

\* No word of the goal is lost between the router and the agents, and none is
\* given to two of them: the todos say the goal in its own order.
EveryPieceIsTaken ==
    way = "plan" =>
        /\ titles # <<>>
        /\ Omitting(FlattenSeq(titles), Cutters) = Omitting(goal, Cutters)
        /\ \A i \in DOMAIN titles : titles[i] # <<>>

\* A plan has a todo that is work for every clause the router counted, unless a
\* ";" or a "then" stood between them.
ClausesAreTodos ==
    (way = "plan" /\ goal[1] \notin Command /\ \A i \in DOMAIN goal : goal[i] \notin {";", "then"}) =>
        WorkIn(titles) + (IF StripPolite(goal) = goal THEN 0 ELSE 1) >= 3

\* A question is never planned, a polite opening never changes the way, and
\* without a command it takes three verbs behind that opening.
RoutedRight ==
    (way = "typing" /\ goal # <<>> /\ goal[1] \notin Command) =>
        /\ WordsOf(StripPolite(goal))[1] \in Inquiries => ClassifyGoal(goal) = "single"
        /\ \A p \in Polite : goal[1] \notin Punctuation => ClassifyGoal(<<p>> \o goal) = ClassifyGoal(goal)
        /\ ClassifyGoal(goal) = "multi" =>
              Cardinality({i \in DOMAIN StripPolite(goal) : StripPolite(goal)[i] \in Verbs}) >= 3

GoalSound == EveryPieceIsTaken /\ ClausesAreTodos /\ RoutedRight
=============================================================================
