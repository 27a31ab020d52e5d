----------------------------- MODULE ScopeProofs -----------------------------
(***************************************************************************)
(* Proofs about the advisers: the levels and the workflow machines         *)
(* (ScopeControl), and the search in the tree of levels (ScopeSearch), for *)
(* any tools, verdicts and budget.  MCToolsProofs states the theorem.      *)
(*                                                                         *)
(* ScopeInv: the levels lead back to the task, the last call ran where it  *)
(*           may, and a machine reaches the phase in which it submits by   *)
(*           the step that earns it.                                       *)
(* TreeInv:  every node is made by a move of one before it, its path       *)
(*           climbs through one child of each node, and its visits are its *)
(*           own and its children's.                                       *)
(***************************************************************************)
EXTENDS ScopeControl, ScopeSearch, DiskProofs

-----------------------------------------------------------------------------
\* The levels and the machines (ScopeControl)

\* The phase in which a machine submits is reached by the step that earns it.
Earning ==
    /\ goalType \in {"bugfix", "feature", "refactor"}
    /\ goalType = "bugfix" =>
          /\ flowPhase \in {"none", "LOCALIZE", "REPAIR", "VALIDATE"}
          /\ flowPhase = "VALIDATE" => "verify" \in sinceFail
          /\ advised = "submit" => flowPhase = "VALIDATE"
    /\ goalType = "feature" =>
          /\ flowPhase \in {"none", "DESIGN", "DECOMPOSE", "IMPLEMENT", "VERIFY"}
    /\ goalType = "refactor" =>
          /\ flowPhase \in {"none", "ANALYZE", "TRANSFORM", "VERIFY"}
    /\ goalType # "bugfix" =>
          /\ flowPhase = "VERIFY" => "generate_patch" \in sinceFail
          /\ advised = "submit" => flowPhase = "VERIFY"

LevelTypes == level \in 0 .. 5 /\ levels \in Seq(0 .. 5)

ScopeInv == LevelTypes /\ WayBack /\ GateIsRight /\ Earning

LEMMA InitScope == ScopeInit => ScopeInv
<1> SUFFICES ASSUME ScopeInit PROVE ScopeInv
  OBVIOUS
<1>1. level = 0 /\ levels = <<>> /\ ranAt = [tool |-> "none", from |-> LevelTask, at |-> LevelTask]
  BY DEF ScopeInit, LevelTask
<1>2. LevelTypes
  BY <1>1 DEF LevelTypes
<1>3. WayBack
  BY <1>1 DEF WayBack, LevelTask
<1>4. GateIsRight
  BY <1>1 DEF GateIsRight
<1>5. Earning
  BY ScopeAssumption DEF ScopeInit, Earning
<1> QED BY <1>2, <1>3, <1>4, <1>5 DEF ScopeInv

\* The mirror: the level it names allows the tool, and no level allows a tool
\* it does not know.
LEMMA MirrorAgrees ==
  ASSUME NEW tool
  PROVE  \/ /\ LevelForTool(tool) = {}
            /\ \A l \in LevelRepo .. LevelVerify : tool \notin AllowedTools[l]
         \/ \E l \in 0 .. 5 : LevelForTool(tool) = {l} /\ tool \in AllowedTools[l]
<1> USE DEF LevelTask, LevelRepo, LevelFile, LevelFunction, LevelEdit, LevelVerify
<1>1. /\ AllowedTools[1] = {"list_files", "grep", "read_file"}
      /\ AllowedTools[2] = {"read_file", "grep"}
      /\ AllowedTools[3] = {"read_file", "view_function", "call_graph"}
      /\ AllowedTools[4] = {"edit_file", "write_file"}
      /\ AllowedTools[5] = {"run_test", "bash", "git_diff"}
  BY DEF AllowedTools
<1>2. \A l \in 1 .. 5 : l = 1 \/ l = 2 \/ l = 3 \/ l = 4 \/ l = 5
  OBVIOUS
<1>3. CASE tool \in {"list_files", "grep", "read_file"}
  BY <1>1, <1>3 DEF LevelForTool
<1>4. CASE tool \in {"view_function", "call_graph"}
  BY <1>1, <1>4 DEF LevelForTool
<1>5. CASE tool \in {"edit_file", "write_file"}
  BY <1>1, <1>5 DEF LevelForTool
<1>6. CASE tool \in {"run_test", "bash", "git_diff"}
  BY <1>1, <1>6 DEF LevelForTool
<1>7. CASE tool \notin {"list_files", "grep", "read_file", "view_function", "call_graph",
                        "edit_file", "write_file", "run_test", "bash", "git_diff"}
  <2>1. LevelForTool(tool) = {}
    BY <1>7 DEF LevelForTool
  <2> QED BY <1>1, <1>2, <1>7, <2>1
<1> QED BY <1>3, <1>4, <1>5, <1>6, <1>7

LEMMA EnterKeeps ==
  ASSUME LevelTypes, WayBack, NEW l \in 0 .. 5, Enter(l)
  PROVE  LevelTypes' /\ WayBack'
BY AppendProperties DEF LevelTypes, WayBack, Enter

LEMMA GateToolKeeps == ASSUME ScopeInv, NEW tool, GateTool(tool) PROVE ScopeInv'
<1>1. UNCHANGED <<goalType, flowPhase, advised, sinceFail>> /\ Earning'
  BY DEF GateTool, ScopeInv, Earning
<1>2. CASE tool \in AllowedTools[level] \/ LevelForTool(tool) = {}
  <2>1. UNCHANGED <<level, levels>> /\ ranAt' = [tool |-> tool, from |-> level, at |-> level]
    BY <1>2 DEF GateTool
  <2>2. LevelTypes' /\ WayBack'
    BY <2>1 DEF ScopeInv, LevelTypes, WayBack
  <2>3. GateIsRight'
    BY <1>2, <2>1, MirrorAgrees DEF GateIsRight
  <2> QED BY <1>1, <2>2, <2>3 DEF ScopeInv
<1>3. CASE ~ (tool \in AllowedTools[level] \/ LevelForTool(tool) = {})
  <2>1. PICK l \in 0 .. 5 : LevelForTool(tool) = {l} /\ tool \in AllowedTools[l]
    BY <1>3, MirrorAgrees
  <2>2. Enter(l) /\ ranAt' = [tool |-> tool, from |-> level, at |-> l]
    <3>1. (CHOOSE x \in LevelForTool(tool) : TRUE) = l
      BY <2>1
    <3>2. Enter(CHOOSE x \in LevelForTool(tool) : TRUE) /\ ranAt' = [tool |-> tool, from |-> level, at |-> level']
      BY <1>3 DEF GateTool
    <3> QED BY <3>1, <3>2 DEF Enter
  <2>3. LevelTypes' /\ WayBack'
    BY <2>2, EnterKeeps DEF ScopeInv
  <2>4. GateIsRight'
    BY <2>1, <2>2 DEF GateIsRight
  <2> QED BY <1>1, <2>3, <2>4 DEF ScopeInv
<1> QED BY <1>2, <1>3

LEMMA JudgeScopeKeeps == ASSUME ScopeInv, NEW v, JudgeScope(v) PROVE ScopeInv'
<1>1. UNCHANGED <<ranAt, goalType, flowPhase, advised, sinceFail>> /\ Earning' /\ GateIsRight'
  BY DEF JudgeScope, ScopeInv, Earning, GateIsRight
<1>2. CASE Suggested(v).action \in {"noop", "stay"}
  <2>1. UNCHANGED <<level, levels>>
    BY <1>2 DEF JudgeScope
  <2> QED BY <1>1, <2>1 DEF ScopeInv, LevelTypes, WayBack
<1>3. CASE Suggested(v).action \notin {"noop", "stay"}
  <2>1. Suggested(v).to \in 0 .. 5
    BY DEF ScopeInv, LevelTypes, Suggested, LevelRepo, LevelTask
  <2>2. Enter(Suggested(v).to)
    BY <1>3 DEF JudgeScope
  <2>3. LevelTypes' /\ WayBack'
    BY <2>1, <2>2, EnterKeeps DEF ScopeInv
  <2> QED BY <1>1, <2>3 DEF ScopeInv
<1> QED BY <1>2, <1>3

LEMMA ExitScopeKeeps == ASSUME ScopeInv, ExitScope PROVE ScopeInv'
<1>1. UNCHANGED <<ranAt, goalType, flowPhase, advised, sinceFail>> /\ Earning' /\ GateIsRight'
  BY DEF ExitScope, ScopeInv, Earning, GateIsRight
<1>2. LevelTypes' /\ WayBack'
  <2>1. /\ levels \in Seq(0 .. 5) /\ levels # <<>> /\ levels[1] = LevelTask /\ Len(levels) \in Nat \ {0}
        /\ level' = levels[Len(levels)] /\ levels' = SubSeq(levels, 1, Len(levels) - 1)
    BY EmptySeq, LenProperties DEF ScopeInv, LevelTypes, WayBack, ExitScope
  <2>2. LevelTypes'
    BY <2>1 DEF LevelTypes
  <2>3. CASE Len(levels) = 1
    <3>1. levels' = <<>>
      BY <2>1, <2>3
    <3> QED BY <2>1, <2>2, <2>3, <3>1 DEF WayBack
  <2>4. CASE Len(levels) > 1
    <3>1. Len(levels') = Len(levels) - 1 /\ levels'[1] = levels[1]
      BY <2>1, <2>4
    <3>2. levels' # <<>>
      <4>1. Len(levels') # 0
        BY <2>1, <2>4, <3>1
      <4> QED BY <4>1, <2>2, EmptySeq, Zenon DEF LevelTypes
    <3> QED BY <2>1, <2>2, <3>1, <3>2 DEF WayBack
  <2> QED
    <3> DEFINE n == Len(levels)
    <3>1. n \in Nat \ {0}
      BY <2>1
    <3> HIDE DEF n
    <3>2. n = 1 \/ n > 1
      BY <3>1
    <3> QED BY <2>3, <2>4, <3>2 DEF n
<1> QED BY <1>1, <1>2 DEF ScopeInv

\* A step of the machine for bugs comes to VALIDATE by verifying, or stays.
LEMMA BugFixStep ==
  ASSUME NEW p \in {"none", "LOCALIZE", "REPAIR", "VALIDATE"}, NEW e \in WFEvents, NEW r \in BugFixNext(p, e)
  PROVE  /\ r.phase \in {"LOCALIZE", "REPAIR", "VALIDATE"}
         /\ r.phase = "VALIDATE" =>
               r.action = "verify" \/ (p = "VALIDATE" /\ e \notin {"verify_fail", "compile_fail"})
         /\ r.action = "submit" => r.phase = "VALIDATE"
<1>1. CASE p = "none"
  BY <1>1 DEF BugFixNext, Answer
<1>2. CASE p = "LOCALIZE"
  BY <1>2 DEF BugFixNext, Answer, WFEvents
<1>3. CASE p = "REPAIR"
  BY <1>3 DEF BugFixNext, Answer
<1>4. CASE p = "VALIDATE"
  BY <1>4 DEF BugFixNext, Answer, WFEvents
<1> QED BY <1>1, <1>2, <1>3, <1>4

LEMMA FeatureStep ==
  ASSUME NEW p \in {"none", "DESIGN", "DECOMPOSE", "IMPLEMENT", "VERIFY"}, NEW e \in WFEvents,
         NEW r \in FeatureNext(p, e)
  PROVE  /\ r.phase \in {"DESIGN", "DECOMPOSE", "IMPLEMENT", "VERIFY"}
         /\ r.phase = "VERIFY" =>
               r.action = "generate_patch" \/ (p = "VERIFY" /\ e \notin {"verify_fail", "compile_fail"})
         /\ r.action = "submit" => r.phase = "VERIFY"
<1>1. CASE p \in {"none", "DESIGN"}
  BY <1>1 DEF FeatureNext, Ladder, Answer
<1>2. CASE p = "DECOMPOSE"
  BY <1>2 DEF FeatureNext, Ladder, Answer
<1>3. CASE p = "IMPLEMENT"
  BY <1>3 DEF FeatureNext, Ladder, Answer
<1>4. CASE p = "VERIFY"
  BY <1>4 DEF FeatureNext, LastPhase, Answer, WFEvents
<1> QED BY <1>1, <1>2, <1>3, <1>4

LEMMA RefactorStep ==
  ASSUME NEW p \in {"none", "ANALYZE", "TRANSFORM", "VERIFY"}, NEW e \in WFEvents,
         NEW r \in RefactorNext(p, e)
  PROVE  /\ r.phase \in {"ANALYZE", "TRANSFORM", "VERIFY"}
         /\ r.phase = "VERIFY" =>
               r.action = "generate_patch" \/ (p = "VERIFY" /\ e \notin {"verify_fail", "compile_fail"})
         /\ r.action = "submit" => r.phase = "VERIFY"
<1>1. CASE p \in {"none", "ANALYZE"}
  BY <1>1 DEF RefactorNext, Ladder, Answer
<1>2. CASE p = "TRANSFORM"
  BY <1>2 DEF RefactorNext, Ladder, Answer
<1>3. CASE p = "VERIFY"
  BY <1>3 DEF RefactorNext, LastPhase, Answer, WFEvents
<1> QED BY <1>1, <1>2, <1>3

LEMMA DriveWorkflowKeeps == ASSUME ScopeInv, NEW e \in WFEvents, DriveWorkflow(e) PROVE ScopeInv'
<1>1. UNCHANGED <<level, levels, ranAt, moves, goalType>> /\ LevelTypes' /\ WayBack' /\ GateIsRight'
  BY DEF DriveWorkflow, ScopeInv, LevelTypes, WayBack, GateIsRight
<1>2. PICK r \in WorkflowNext(goalType, flowPhase, e) :
          /\ flowPhase' = r.phase /\ advised' = r.action
          /\ sinceFail' = IF e \in {"verify_fail", "compile_fail"} THEN {r.action}
                          ELSE sinceFail \union {r.action}
  BY DEF DriveWorkflow
<1>3. r.action \in sinceFail' /\ (e \notin {"verify_fail", "compile_fail"} => sinceFail \subseteq sinceFail')
  BY <1>2
<1>4. Earning'
  <2>1. CASE goalType = "bugfix"
    <3>1. r \in BugFixNext(flowPhase, e) /\ flowPhase \in {"none", "LOCALIZE", "REPAIR", "VALIDATE"}
      BY <2>1, <1>2 DEF WorkflowNext, ScopeInv, Earning
    <3> QED BY <1>1, <1>2, <1>3, <2>1, <3>1, BugFixStep DEF ScopeInv, Earning
  <2>2. CASE goalType = "feature"
    <3>1. r \in FeatureNext(flowPhase, e) /\ flowPhase \in {"none", "DESIGN", "DECOMPOSE", "IMPLEMENT", "VERIFY"}
      BY <2>2, <1>2 DEF WorkflowNext, ScopeInv, Earning
    <3> QED BY <1>1, <1>2, <1>3, <2>2, <3>1, FeatureStep DEF ScopeInv, Earning
  <2>3. CASE goalType = "refactor"
    <3>1. r \in RefactorNext(flowPhase, e) /\ flowPhase \in {"none", "ANALYZE", "TRANSFORM", "VERIFY"}
      BY <2>3, <1>2 DEF WorkflowNext, ScopeInv, Earning
    <3> QED BY <1>1, <1>2, <1>3, <2>3, <3>1, RefactorStep DEF ScopeInv, Earning
  <2> QED BY <2>1, <2>2, <2>3 DEF ScopeInv, Earning
<1> QED BY <1>1, <1>4 DEF ScopeInv

LEMMA NextScope == ScopeInv /\ [ScopeNext]_scopeVars => ScopeInv'
<1> SUFFICES ASSUME ScopeInv, [ScopeNext]_scopeVars PROVE ScopeInv'
  OBVIOUS
<1>1. CASE UNCHANGED scopeVars
  BY <1>1 DEF scopeVars, ScopeInv, LevelTypes, WayBack, GateIsRight, Earning
<1> QED BY <1>1, GateToolKeeps, JudgeScopeKeeps, ExitScopeKeeps, DriveWorkflowKeeps DEF ScopeNext

\* No machine knows the phase the loop asks about.
LEMMA AdviceIsSound == ScopeInv => AdviceSound
<1> SUFFICES ASSUME ScopeInv PROVE AdviceSound
  OBVIOUS
<1>1. SubmitIsEarned
  BY DEF ScopeInv, Earning, SubmitIsEarned
<1>2. PlanIsUnadvised
  BY DEF ScopeInv, Earning, PlanIsUnadvised, PlanConsults, WorkflowNext, BugFixNext, FeatureNext, RefactorNext
<1> QED BY <1>1, <1>2 DEF AdviceSound, ScopeInv

-----------------------------------------------------------------------------
(* The tree search (ScopeSearch).  A simulation counts on the path of one      *)
(* node; a node above the end of a path has exactly one child on it, so each   *)
(* node's count is its own visit and its children's.                           *)

Actions == {"stay", "expand", "contract"}
TreeNodes == [level : 0 .. 5, parent : Nat, action : Actions \union {"none"},
              path : SUBSET Nat, visits : Nat, reward : Nat]

TreeTypes ==
    /\ nodes \in Seq(TreeNodes) /\ Len(nodes) >= 1
    /\ sims \in 0 .. Budget /\ bestNode \in Nat /\ guardUp \in BOOLEAN
    /\ bestNode # 0 => sims = Budget

\* Every node but the first is made by a move of a node before it, each move of
\* a node makes one child, and a path is the parent's and the node itself.
Grown ==
    /\ nodes[1].parent = 0 /\ nodes[1].path = {1}
    /\ \A k \in 2 .. Len(nodes) :
          /\ nodes[k].parent \in 1 .. k - 1
          /\ nodes[k].path = nodes[nodes[k].parent].path \union {k}
          /\ \E i \in DOMAIN Moves(nodes[k].parent) : nodes[k].action = Moves(nodes[k].parent)[i]
          /\ nodes[k].level = Reached(nodes[nodes[k].parent].level, nodes[k].action)
          /\ \A j \in 2 .. Len(nodes) :
                (j # k /\ nodes[j].parent = nodes[k].parent) => nodes[j].action # nodes[k].action

\* A path goes up to the root through one child of each node.
PathsClimb ==
    \A n \in 1 .. Len(nodes) :
        /\ nodes[n].path \subseteq 1 .. n /\ n \in nodes[n].path /\ 1 \in nodes[n].path
        /\ \A k \in nodes[n].path \ {1} : nodes[k].parent \in nodes[n].path
        /\ \A m \in nodes[n].path \ {n} : \E k \in 1 .. Len(nodes) :
              /\ nodes[k].parent = m /\ k \in nodes[n].path
              /\ \A j \in 1 .. Len(nodes) :
                    (nodes[j].parent = m /\ j \in nodes[n].path) => j = k

VisitsAdd ==
    /\ nodes[1].visits = sims + 1
    /\ \A n \in 1 .. Len(nodes) :
          /\ nodes[n].visits >= 1
          /\ Moves(n) # <<>> => nodes[n].visits = 1 + ChildVisits(n)
          /\ nodes[n].reward <= 10 * nodes[n].visits
          /\ Untried(n) # {} => \A k \in Kids(n) : nodes[k].visits = 1

AnswerCompares ==
    bestNode # 0 =>
        /\ bestNode \in 1 .. Len(nodes)
        /\ Budget >= 3 => nodes[bestNode].parent = 1 /\ Untried(1) = {}

TreeInv == TreeTypes /\ Grown /\ PathsClimb /\ VisitsAdd /\ AnswerCompares

\* A node that is not a leaf offers the moves of its level.
Offers(l) ==
    CASE l = 0 -> <<"stay">>
      [] l = 1 -> <<"stay", "expand">>
      [] OTHER -> <<"stay", "expand", "contract">>

LEMMA Pair == ASSUME NEW a, NEW b PROVE <<a>> \o <<b>> = <<a, b>>
<1> DEFINE S == {a, b}
           l == <<a>> \o <<b>>
           r == <<a, b>>
<1>1. l \in Seq(S) /\ r \in Seq(S) /\ Len(l) = 2 /\ Len(r) = 2
  OBVIOUS
<1>2. l[1] = r[1] /\ l[2] = r[2]
  OBVIOUS
<1> HIDE DEF l, r, S
<1>3. \A i \in 1 .. Len(l) : l[i] = r[i]
  BY <1>1, <1>2
<1>4. l = r
  BY <1>1, <1>3, SeqEqual
<1> QED BY <1>4 DEF l, r

LEMMA Triple == ASSUME NEW a, NEW b, NEW c PROVE <<a, b>> \o <<c>> = <<a, b, c>>
<1> DEFINE S == {a, b, c}
           l == <<a, b>> \o <<c>>
           r == <<a, b, c>>
<1>1. l \in Seq(S) /\ r \in Seq(S) /\ Len(l) = 3 /\ Len(r) = 3
  OBVIOUS
<1>2. l[1] = r[1] /\ l[2] = r[2] /\ l[3] = r[3]
  OBVIOUS
<1> HIDE DEF l, r, S
<1>3. \A i \in 1 .. Len(l) : l[i] = r[i]
  BY <1>1, <1>2
<1>4. l = r
  BY <1>1, <1>3, SeqEqual
<1> QED BY <1>4 DEF l, r

LEMMA Chains ==
    \A a, b, c : /\ <<a>> \o <<b>> \o <<>> = <<a, b>>
                 /\ <<a>> \o <<b>> \o <<c>> = <<a, b, c>>
<1> SUFFICES ASSUME NEW a, NEW b, NEW c
             PROVE  /\ <<a>> \o <<b>> \o <<>> = <<a, b>>
                    /\ <<a>> \o <<b>> \o <<c>> = <<a, b, c>>
  OBVIOUS
<1>1. <<a, b>> \in Seq({a, b})
  OBVIOUS
<1>2. <<a, b>> \o <<>> = <<a, b>>
  BY <1>1, ConcatEmptySeq
<1> QED BY <1>2, Pair, Triple, Zenon

LEMMA CandidatesAre == ASSUME NEW l \in 0 .. 5 PROVE Candidates(l) = Offers(l)
<1>1. CASE l = 0
  BY <1>1, Chains DEF Candidates, Offers
<1>2. CASE l = 1
  <2>1. Candidates(l) = <<"stay">> \o <<"expand">> \o <<>>
    BY <1>2 DEF Candidates
  <2>2. Offers(l) = <<"stay", "expand">>
    BY <1>2 DEF Offers
  <2> QED BY <2>1, <2>2, Chains, Zenon
<1>3. CASE l >= 2
  <2>1. Candidates(l) = <<"stay">> \o <<"expand">> \o <<"contract">>
    BY <1>3 DEF Candidates
  <2>2. Offers(l) = <<"stay", "expand", "contract">>
    BY <1>3 DEF Offers
  <2> QED BY <2>1, <2>2, Chains, Zenon
<1> QED BY <1>1, <1>2, <1>3

\* The moves of a level land on levels of their own.
LEMMA OffersLand ==
    ASSUME NEW l \in 0 .. 5
    PROVE  /\ 1 \in DOMAIN Offers(l)
           /\ \A i \in DOMAIN Offers(l) :
                 i \in Nat /\ Offers(l)[i] \in Actions /\ Reached(l, Offers(l)[i]) \in 0 .. 5
           /\ \A i, j \in DOMAIN Offers(l) : i # j =>
                 /\ Offers(l)[i] # Offers(l)[j]
                 /\ Reached(l, Offers(l)[i]) # Reached(l, Offers(l)[j])
<1> DEFINE o == Offers(l)
<1>1. /\ Reached(l, "stay") = l
      /\ l >= 1 => Reached(l, "expand") = l - 1
      /\ l >= 2 => Reached(l, "contract") = l - 2
  BY DEF Reached
<1>2. CASE l = 0
  <2>1. o = <<"stay">> /\ DOMAIN o = {1} /\ o[1] = "stay"
    BY <1>2 DEF Offers
  <2> HIDE DEF o
  <2>2. \A i \in DOMAIN o : i \in Nat /\ o[i] \in Actions /\ Reached(l, o[i]) \in 0 .. 5
    BY <1>1, <2>1 DEF Actions
  <2> QED BY <2>1, <2>2 DEF o
<1>3. CASE l = 1
  <2>1. DOMAIN o = {1, 2} /\ o[1] = "stay" /\ o[2] = "expand"
    BY <1>3 DEF Offers
  <2> HIDE DEF o
  <2>2. Reached(l, o[1]) = 1 /\ Reached(l, o[2]) = 0
    BY <1>1, <1>3, <2>1
  <2>3. \A i \in DOMAIN o : i \in Nat /\ o[i] \in Actions /\ Reached(l, o[i]) \in 0 .. 5
    BY <2>1, <2>2 DEF Actions
  <2> QED BY <2>1, <2>2, <2>3 DEF o
<1>4. CASE l >= 2
  <2>1. DOMAIN o = {1, 2, 3} /\ o[1] = "stay" /\ o[2] = "expand" /\ o[3] = "contract"
    BY <1>4 DEF Offers
  <2> HIDE DEF o
  <2>2. Reached(l, o[1]) = l /\ Reached(l, o[2]) = l - 1 /\ Reached(l, o[3]) = l - 2
    BY <1>1, <1>4, <2>1
  <2>3. \A i \in DOMAIN o : i \in Nat /\ o[i] \in Actions
    BY <2>1 DEF Actions
  <2>4. \A i \in DOMAIN o : Reached(l, o[i]) \in 0 .. 5
    BY <1>4, <2>1, <2>2
  <2>5. \A i, j \in DOMAIN o : i # j => o[i] # o[j]
    BY <2>1
  <2>6. \A i, j \in DOMAIN o : i # j => Reached(l, o[i]) # Reached(l, o[j])
    BY <1>4, <2>1, <2>2
  <2> QED BY <2>1, <2>3, <2>4, <2>5, <2>6 DEF o
<1> QED BY <1>2, <1>3, <1>4

LEMMA MovesAre ==
    ASSUME TreeTypes, NEW n \in 1 .. Len(nodes)
    PROVE  /\ nodes[n] \in TreeNodes
           /\ Moves(n) = <<>> \/ Moves(n) = Offers(nodes[n].level)
           /\ nodes[n].parent = 0 => Moves(n) = Offers(nodes[n].level)
<1>1. nodes[n] \in TreeNodes
  BY DEF TreeTypes
<1>2. nodes[n].level \in 0 .. 5
  BY <1>1 DEF TreeNodes
<1> QED BY <1>1, <1>2, CandidatesAre DEF Moves

\* What the rest of the proof needs of the moves of a node.
LEMMA MovesLand ==
    ASSUME TreeTypes, NEW n \in 1 .. Len(nodes)
    PROVE  /\ \A i \in DOMAIN Moves(n) : /\ i \in Nat /\ Moves(n)[i] \in Actions
                                         /\ Reached(nodes[n].level, Moves(n)[i]) \in 0 .. 5
           /\ \A i, j \in DOMAIN Moves(n) : i # j =>
                 /\ Moves(n)[i] # Moves(n)[j]
                 /\ Reached(nodes[n].level, Moves(n)[i]) # Reached(nodes[n].level, Moves(n)[j])
           /\ (Moves(n) # <<>> \/ nodes[n].parent = 0) => 1 \in DOMAIN Moves(n)
<1>1. CASE Moves(n) = <<>> /\ nodes[n].parent # 0
  BY <1>1
<1>2. CASE Moves(n) = Offers(nodes[n].level)
  <2> DEFINE l == nodes[n].level
  <2>1. l \in 0 .. 5
    BY MovesAre DEF TreeNodes
  <2> HIDE DEF l
  <2>2. \A i \in DOMAIN Offers(l) : Offers(l)[i] \in Actions
    BY <2>1, OffersLand
  <2>3. Moves(n) = Offers(l)
    BY <1>2 DEF l
  <2>4. /\ \A i \in DOMAIN Moves(n) : /\ i \in Nat /\ Moves(n)[i] \in Actions
                                      /\ Reached(l, Moves(n)[i]) \in 0 .. 5
        /\ \A i, j \in DOMAIN Moves(n) : i # j =>
              /\ Moves(n)[i] # Moves(n)[j]
              /\ Reached(l, Moves(n)[i]) # Reached(l, Moves(n)[j])
        /\ 1 \in DOMAIN Moves(n)
    BY <2>1, <2>2, <2>3, OffersLand
  <2> QED BY <2>4 DEF l
<1> QED BY <1>1, <1>2, MovesAre

LEMMA KidsAre ==
    ASSUME TreeTypes, Grown, NEW n \in 1 .. Len(nodes), NEW k \in Kids(n)
    PROVE  /\ k \in 2 .. Len(nodes) /\ nodes[k].parent = n /\ n < k
           /\ nodes[k].action \in Actions /\ Moves(n) # <<>>
           /\ nodes[k].level = Reached(nodes[n].level, nodes[k].action)
           /\ \E i \in DOMAIN Moves(n) : nodes[k].action = Moves(n)[i]
           /\ \A j \in Kids(n) : j # k => nodes[j].action # nodes[k].action
<1>1. k \in 1 .. Len(nodes) /\ nodes[k].parent = n
  BY DEF Kids, TreeTypes
<1>2. k # 1
  BY <1>1 DEF Grown
<1>3. k \in 2 .. Len(nodes)
  BY <1>1, <1>2
<1>4. \A j \in Kids(n) : j \in 2 .. Len(nodes) /\ nodes[j].parent = n
  BY DEF Kids, TreeTypes, Grown
<1>5. \E i \in DOMAIN Moves(n) : nodes[k].action = Moves(n)[i]
  BY <1>1, <1>3 DEF Grown
<1>6. nodes[k].action \in Actions
  BY <1>5, MovesLand
<1>7. Moves(n) # <<>>
  BY <1>5
<1>8. n < k /\ nodes[k].level = Reached(nodes[n].level, nodes[k].action)
  BY <1>1, <1>3 DEF Grown
<1>9. \A j \in Kids(n) : j # k => nodes[j].action # nodes[k].action
  BY <1>1, <1>3, <1>4 DEF Grown
<1> QED BY <1>1, <1>3, <1>5, <1>6, <1>7, <1>8, <1>9

\* The least member of a set of places.
LEMMA MinIsIn ==
    ASSUME NEW S \in SUBSET Nat, S # {}
    PROVE  Min(S) \in S /\ \A x \in S : Min(S) <= x
BY LeastNat DEF Min

LEMMA MinOfOne == ASSUME NEW k \in Nat, NEW S, S = {k} PROVE Min(S) = k
BY DEF Min

\* Where an action made no child, and where it made one.
LEMMA TriedIs ==
    ASSUME TreeTypes, Grown, NEW n \in 1 .. Len(nodes), NEW a
    PROVE  /\ (\A k \in Kids(n) : nodes[k].action # a) => Tried(n, a) = 0
           /\ \A k \in Kids(n) : nodes[k].action = a => Tried(n, a) = nodes[k].visits
<1> DEFINE S == {j \in Kids(n) : nodes[j].action = a}
<1>1. ASSUME NEW k \in Kids(n), nodes[k].action = a PROVE Tried(n, a) = nodes[k].visits
  <2>1. S = {k} /\ k \in Nat
    BY <1>1, KidsAre
  <2>2. Min(S) = k
    BY <2>1, MinOfOne
  <2> QED BY <2>1, <2>2 DEF Tried
<1>2. ASSUME \A k \in Kids(n) : nodes[k].action # a PROVE Tried(n, a) = 0
  <2>1. S = {}
    BY <1>2
  <2> QED BY <2>1 DEF Tried
<1> QED BY <1>1, <1>2

\* What the tree says of the search.
LEMMA TreeIsSound == TreeInv => SearchSound /\ SearchTypeOK
<1> SUFFICES ASSUME TreeInv PROVE SearchSound /\ SearchTypeOK
  OBVIOUS
<1>1. TreeTypes /\ Grown /\ VisitsAdd /\ AnswerCompares /\ DOMAIN nodes = 1 .. Len(nodes) /\ Len(nodes) \in Nat
  BY DEF TreeInv, TreeTypes
<1>2. ASSUME NEW n \in 1 .. Len(nodes), Moves(n) = <<>> PROVE Kids(n) = {}
  BY <1>1, <1>2, KidsAre
<1>3. ASSUME NEW n \in 1 .. Len(nodes), NEW j \in Kids(n), NEW k \in Kids(n), j # k
      PROVE  nodes[j].level # nodes[k].level
  <2>1. PICK x \in DOMAIN Moves(n) : nodes[j].action = Moves(n)[x]
    BY <1>1, KidsAre
  <2>2. PICK y \in DOMAIN Moves(n) : nodes[k].action = Moves(n)[y]
    BY <1>1, KidsAre
  <2>3. nodes[j].action # nodes[k].action
    BY <1>1, <1>3, KidsAre
  <2>4. x # y
    BY <2>1, <2>2, <2>3
  <2>5. Reached(nodes[n].level, Moves(n)[x]) # Reached(nodes[n].level, Moves(n)[y])
    BY <1>1, <2>4, MovesLand
  <2>6. nodes[j].level = Reached(nodes[n].level, nodes[j].action)
        /\ nodes[k].level = Reached(nodes[n].level, nodes[k].action)
    BY <1>1, KidsAre
  <2> QED BY <2>1, <2>2, <2>5, <2>6
<1>4. SearchSound
  BY <1>1, <1>2, <1>3 DEF SearchSound, VisitsAdd, AnswerCompares
<1>5. SearchTypeOK
  <2>1. \A n \in 1 .. Len(nodes) : nodes[n].level \in 0 .. 5
    BY <1>1, MovesAre DEF TreeNodes
  <2>2. bestNode \in 0 .. Len(nodes)
    BY <1>1 DEF TreeTypes, AnswerCompares
  <2> QED BY <1>1, <2>1, <2>2 DEF SearchTypeOK, TreeTypes
<1> QED BY <1>4, <1>5

\* TriedIs, for both ends of a step.
TriedFacts ==
    \A n \in 1 .. Len(nodes), a \in Actions :
        /\ (\A k \in Kids(n) : nodes[k].action # a) => Tried(n, a) = 0
        /\ \A k \in Kids(n) : nodes[k].action = a => Tried(n, a) = nodes[k].visits

LEMMA TriedHere == TreeTypes /\ Grown => TriedFacts
BY TriedIs, Zenon DEF TriedFacts

LEMMA TriedNext == TreeTypes' /\ Grown' => TriedFacts'
BY TriedHere, PTL

Hit(x, r) == [x EXCEPT !.visits = @ + 1, !.reward = @ + r]

LEMMA HitIs ==
    ASSUME NEW l, NEW n, NEW a, NEW p, NEW v, NEW w, NEW r, NEW x,
           x = [level |-> l, parent |-> n, action |-> a, path |-> p, visits |-> v, reward |-> w]
    PROVE  Hit(x, r) =
           [level |-> l, parent |-> n, action |-> a, path |-> p, visits |-> v + 1, reward |-> w + r]
<1> DEFINE y == [x EXCEPT !.visits = x.visits + 1]
<1>1. y = [level |-> l, parent |-> n, action |-> a, path |-> p, visits |-> v + 1, reward |-> w]
  OBVIOUS
<1>2. Hit(x, r) = [y EXCEPT !.reward = x.reward + r]
  BY DEF Hit
<1>3. x.reward = w
  OBVIOUS
<1> HIDE DEF y
<1>4. [y EXCEPT !.reward = x.reward + r] =
      [level |-> l, parent |-> n, action |-> a, path |-> p, visits |-> v + 1, reward |-> w + r]
  BY <1>1, <1>3
<1> QED BY <1>2, <1>4, Zenon

LEMMA BackpropIs ==
    ASSUME NEW t \in Seq(TreeNodes), NEW p, NEW r \in Nat
    PROVE  /\ Backprop(t, p, r) \in Seq(TreeNodes) /\ Len(Backprop(t, p, r)) = Len(t)
           /\ \A i \in 1 .. Len(t) :
                 /\ Backprop(t, p, r)[i].level = t[i].level
                 /\ Backprop(t, p, r)[i].parent = t[i].parent
                 /\ Backprop(t, p, r)[i].action = t[i].action
                 /\ Backprop(t, p, r)[i].path = t[i].path
                 /\ Backprop(t, p, r)[i].visits = t[i].visits + (IF i \in p THEN 1 ELSE 0)
                 /\ Backprop(t, p, r)[i].reward = t[i].reward + (IF i \in p THEN r ELSE 0)
<1> DEFINE b == Backprop(t, p, r)
           f(i) == IF i \in p THEN Hit(t[i], r) ELSE t[i]
<1>1. DOMAIN t = 1 .. Len(t) /\ Len(t) \in Nat /\ b = [i \in 1 .. Len(t) |-> f(i)]
  BY DEF Backprop, Hit
<1>2. ASSUME NEW i \in 1 .. Len(t)
      PROVE  /\ f(i) \in TreeNodes
             /\ f(i).level = t[i].level /\ f(i).parent = t[i].parent
             /\ f(i).action = t[i].action /\ f(i).path = t[i].path
             /\ f(i).visits = t[i].visits + (IF i \in p THEN 1 ELSE 0)
             /\ f(i).reward = t[i].reward + (IF i \in p THEN r ELSE 0)
  <2> DEFINE x == t[i]
             y == Hit(x, r)
  <2>1. x \in TreeNodes
    OBVIOUS
  <2>2. f(i) = IF i \in p THEN y ELSE x
    OBVIOUS
  <2> HIDE DEF x, f
  <2>3. /\ y \in TreeNodes /\ y.level = x.level /\ y.parent = x.parent /\ y.action = x.action
        /\ y.path = x.path /\ y.visits = x.visits + 1 /\ y.reward = x.reward + r
    <3>1. PICK l \in 0 .. 5, n \in Nat, a \in Actions \union {"none"}, q \in SUBSET Nat,
               v \in Nat, w \in Nat :
             x = [level |-> l, parent |-> n, action |-> a, path |-> q, visits |-> v, reward |-> w]
      BY <2>1 DEF TreeNodes
    <3>2. Hit(x, r) = [level |-> l, parent |-> n, action |-> a, path |-> q, visits |-> v + 1, reward |-> w + r]
      BY <3>1, HitIs
    <3>3. v + 1 \in Nat /\ w + r \in Nat
      OBVIOUS
    <3>4. y = [level |-> l, parent |-> n, action |-> a, path |-> q, visits |-> v + 1, reward |-> w + r]
      BY <3>2
    <3> HIDE DEF y
    <3>5. y \in TreeNodes
      BY <3>3, <3>4 DEF TreeNodes
    <3>6. /\ y.level = x.level /\ y.parent = x.parent /\ y.action = x.action
          /\ y.path = x.path /\ y.visits = x.visits + 1 /\ y.reward = x.reward + r
      BY <3>1, <3>4
    <3> QED BY <3>5, <3>6
  <2>4. x.visits + 0 = x.visits /\ x.reward + 0 = x.reward
    BY <2>1 DEF TreeNodes
  <2> HIDE DEF y
  <2>5. /\ f(i) \in TreeNodes
        /\ f(i).level = x.level /\ f(i).parent = x.parent
        /\ f(i).action = x.action /\ f(i).path = x.path
        /\ f(i).visits = x.visits + (IF i \in p THEN 1 ELSE 0)
        /\ f(i).reward = x.reward + (IF i \in p THEN r ELSE 0)
    <3>1. CASE i \in p
      BY <2>2, <2>3, <3>1
    <3>2. CASE i \notin p
      BY <2>1, <2>2, <2>4, <3>2
    <3> QED BY <3>1, <3>2
  <2> QED BY <2>5 DEF x
<1> HIDE DEF f
<1>3. \A i \in 1 .. Len(t) : b[i] = f(i)
  BY <1>1
<1>4. b \in Seq(TreeNodes) /\ Len(b) = Len(t)
  BY <1>1, <1>2
<1> HIDE DEF b
<1> QED BY <1>2, <1>3, <1>4 DEF b

LEMMA RolloutIs == ASSUME TreeTypes, NEW l PROVE Rollout(l) \in 0 .. 10
BY DEF Rollout, TreeTypes

\* What one simulation leaves of the nodes there were: it counts on the path
\* from n and changes nothing else.
Counted(n, r) ==
    /\ nodes' \in Seq(TreeNodes) /\ Len(nodes') >= Len(nodes)
    /\ \A i \in 1 .. Len(nodes) :
          /\ nodes'[i].level = nodes[i].level /\ nodes'[i].parent = nodes[i].parent
          /\ nodes'[i].action = nodes[i].action /\ nodes'[i].path = nodes[i].path
          /\ nodes'[i].visits = nodes[i].visits + (IF i \in nodes[n].path THEN 1 ELSE 0)
          /\ nodes'[i].reward = nodes[i].reward + (IF i \in nodes[n].path THEN r ELSE 0)

\* The node k a simulation adds, for the first move not tried.
Added(n, k, r) ==
    /\ k = Len(nodes) + 1 /\ Len(nodes') = k
    /\ \E u \in Untried(n) :
          /\ nodes'[k].level = Reached(nodes[n].level, Moves(n)[u])
          /\ nodes'[k].action = Moves(n)[u]
    /\ nodes'[k].parent = n /\ nodes'[k].path = nodes[n].path \union {k}
    /\ nodes'[k].visits = 1 /\ nodes'[k].reward = r

LEMMA LeafStep ==
    ASSUME TreeTypes, Grown, NEW n \in 1 .. Len(nodes), Simulate(n), Untried(n) = {}
    PROVE  \E r \in 0 .. 10 : Counted(n, r) /\ Len(nodes') = Len(nodes)
<1> DEFINE r == Rollout(nodes[n].level)
<1>1. r \in 0 .. 10
  BY RolloutIs
<1>2. nodes' = Backprop(nodes, nodes[n].path, r)
  BY DEF Simulate
<1>3. nodes \in Seq(TreeNodes) /\ r \in Nat /\ Len(nodes) \in Nat
  BY <1>1 DEF TreeTypes
<1> HIDE DEF r
<1>4. Counted(n, r) /\ Len(nodes') = Len(nodes)
  BY <1>2, <1>3, BackpropIs DEF Counted
<1> QED BY <1>1, <1>4

LEMMA UntriedIs ==
    ASSUME TreeTypes, NEW n \in 1 .. Len(nodes)
    PROVE  /\ Untried(n) \in SUBSET Nat
           /\ \A i \in Untried(n) :
                 /\ i \in DOMAIN Moves(n) /\ Moves(n)[i] \in Actions
                 /\ Reached(nodes[n].level, Moves(n)[i]) \in 0 .. 5
                 /\ \A k \in Kids(n) : nodes[k].action # Moves(n)[i]
<1>1. \A i \in Untried(n) : i \in DOMAIN Moves(n) /\ \A k \in Kids(n) : nodes[k].action # Moves(n)[i]
  BY DEF Untried
<1> QED BY <1>1, MovesLand

LEMMA ExpandStep ==
    ASSUME TreeTypes, Grown, PathsClimb, NEW n \in 1 .. Len(nodes), Simulate(n), Untried(n) # {}
    PROVE  \E r \in 0 .. 10, k \in Nat : Counted(n, r) /\ Added(n, k, r)
<1> DEFINE u == Min(Untried(n))
           c == Child(n)
           k == Len(nodes) + 1
           r == Rollout(c.level)
           t == Append(nodes, c)
<1>1. u \in Untried(n)
  BY UntriedIs, MinIsIn
<1>2. /\ c.level = Reached(nodes[n].level, Moves(n)[u]) /\ c.parent = n
      /\ c.action = Moves(n)[u] /\ c.path = nodes[n].path \union {k}
      /\ c.visits = 0 /\ c.reward = 0
      /\ c = [level |-> c.level, parent |-> c.parent, action |-> c.action, path |-> c.path,
              visits |-> c.visits, reward |-> c.reward]
  BY DEF Child, Node
<1>3. nodes' = Backprop(t, c.path, r)
  BY DEF Simulate
<1>4. r \in 0 .. 10
  BY RolloutIs
<1>5. nodes \in Seq(TreeNodes) /\ Len(nodes) \in Nat /\ nodes[n].path \subseteq 1 .. Len(nodes)
  BY DEF TreeTypes, PathsClimb
<1>a. Reached(nodes[n].level, Moves(n)[u]) \in 0 .. 5 /\ Moves(n)[u] \in Actions
  BY <1>1, UntriedIs
<1> HIDE DEF u, c, k, r, t
<1>6. c \in TreeNodes
  <2>1. c.level \in 0 .. 5 /\ c.action \in Actions
    BY <1>2, <1>a
  <2>2. k \in Nat /\ c.path \subseteq Nat
    BY <1>2, <1>5 DEF k
  <2> QED BY <1>2, <2>1, <2>2 DEF TreeNodes
<1>7. /\ t \in Seq(TreeNodes) /\ Len(t) = k /\ k \in Nat /\ t[k] = c
      /\ \A i \in 1 .. Len(nodes) : t[i] = nodes[i] /\ i # k /\ i \in 1 .. k
  BY <1>5, <1>6 DEF t, k
<1>8. /\ nodes' \in Seq(TreeNodes) /\ Len(nodes') = k
      /\ \A i \in 1 .. k :
            /\ nodes'[i].level = t[i].level /\ nodes'[i].parent = t[i].parent
            /\ nodes'[i].action = t[i].action /\ nodes'[i].path = t[i].path
            /\ nodes'[i].visits = t[i].visits + (IF i \in c.path THEN 1 ELSE 0)
            /\ nodes'[i].reward = t[i].reward + (IF i \in c.path THEN r ELSE 0)
  BY <1>3, <1>4, <1>7, BackpropIs
<1>9. \A i \in 1 .. Len(nodes) : i \in c.path <=> i \in nodes[n].path
  BY <1>2, <1>7
<1>10. Len(nodes') >= Len(nodes)
  BY <1>5, <1>8 DEF k
<1>11. Counted(n, r)
  BY <1>7, <1>8, <1>9, <1>10 DEF Counted
<1>12. Added(n, k, r)
  <2>1. k \in 1 .. k /\ k \in c.path
    BY <1>2, <1>7, <1>5 DEF k
  <2>2. nodes'[k].visits = 1 /\ nodes'[k].reward = r
    BY <1>2, <1>4, <1>7, <1>8, <2>1
  <2>3. /\ nodes'[k].level = c.level /\ nodes'[k].parent = c.parent
        /\ nodes'[k].action = c.action /\ nodes'[k].path = c.path
    BY <1>7, <1>8, <2>1
  <2> QED BY <1>1, <1>2, <1>8, <2>2, <2>3 DEF Added, k
<1> QED BY <1>4, <1>7, <1>11, <1>12

\* The moves of the nodes there were stay.
LEMMA MovesStay ==
    ASSUME TreeTypes, Grown, NEW n \in 1 .. Len(nodes), NEW r, Counted(n, r)
    PROVE  \A m \in 1 .. Len(nodes) : Moves(m)' = Moves(m)
<1> SUFFICES ASSUME NEW m \in 1 .. Len(nodes) PROVE Moves(m)' = Moves(m)
  OBVIOUS
<1>1. nodes'[m].parent = nodes[m].parent /\ nodes'[m].level = nodes[m].level
  BY DEF Counted
<1>2. CASE nodes[m].parent = 0
  BY <1>1, <1>2 DEF Moves
<1>3. CASE nodes[m].parent # 0
  <2>1. nodes[m].parent \in 1 .. Len(nodes)
    BY <1>3 DEF Grown, TreeTypes
  <2>2. nodes'[nodes[m].parent].level = nodes[nodes[m].parent].level
    BY <2>1 DEF Counted
  <2> QED BY <1>1, <2>2 DEF Moves
<1> QED BY <1>2, <1>3

LEMMA LeafKids ==
    ASSUME TreeTypes, Grown, NEW n \in 1 .. Len(nodes), NEW r, Counted(n, r),
           Len(nodes') = Len(nodes)
    PROVE  \A m \in 1 .. Len(nodes) : Kids(m)' = Kids(m)
<1>1. DOMAIN nodes' = 1 .. Len(nodes) /\ DOMAIN nodes = 1 .. Len(nodes)
  BY DEF TreeTypes, Counted
<1> QED BY <1>1 DEF Kids, Counted

LEMMA ExpandKids ==
    ASSUME TreeTypes, Grown, NEW n \in 1 .. Len(nodes), NEW r, NEW k \in Nat,
           Counted(n, r), Added(n, k, r)
    PROVE  /\ k \notin 1 .. Len(nodes) /\ 1 .. Len(nodes') = (1 .. Len(nodes)) \union {k}
           /\ \A m \in 1 .. Len(nodes) : Kids(m)' = Kids(m) \union (IF m = n THEN {k} ELSE {})
           /\ Kids(k)' = {}
<1>1. /\ DOMAIN nodes' = 1 .. k /\ DOMAIN nodes = 1 .. Len(nodes) /\ k \notin 1 .. Len(nodes)
      /\ 1 .. k = (1 .. Len(nodes)) \union {k} /\ Len(nodes') = k
  BY DEF TreeTypes, Counted, Added
<1>2. nodes'[k].parent = n
  BY DEF Added
<1>3. \A i \in 1 .. Len(nodes) : nodes'[i].parent = nodes[i].parent
  BY DEF Counted
<1>4. \A i \in 1 .. Len(nodes) : nodes[i].parent # k
  <2> SUFFICES ASSUME NEW i \in 1 .. Len(nodes) PROVE nodes[i].parent # k
    OBVIOUS
  <2>1. CASE i = 1
    BY <2>1 DEF Grown, TreeTypes, Added
  <2>2. CASE i # 1
    <3>1. i \in 2 .. Len(nodes)
      BY <2>2
    <3>2. nodes[i].parent \in 1 .. i - 1
      BY <3>1 DEF Grown
    <3> QED BY <3>1, <3>2, <1>1 DEF TreeTypes
  <2> QED BY <2>1, <2>2
<1>5. Kids(k)' = {}
  BY <1>1, <1>2, <1>3, <1>4 DEF Kids
<1>6. ASSUME NEW m \in 1 .. Len(nodes) PROVE Kids(m)' = Kids(m) \union (IF m = n THEN {k} ELSE {})
  BY <1>1, <1>2, <1>3 DEF Kids
<1> QED BY <1>1, <1>5, <1>6

LEMMA UntriedShrinks ==
    ASSUME TreeTypes, Grown, NEW n \in 1 .. Len(nodes), NEW r, Counted(n, r),
           NEW m \in 1 .. Len(nodes), Kids(m) \subseteq Kids(m)'
    PROVE  Untried(m)' \subseteq Untried(m)
<1>1. Moves(m)' = Moves(m)
  BY MovesStay
<1>2. \A k \in Kids(m) : k \in 1 .. Len(nodes)
  BY DEF Kids, TreeTypes
<1>3. \A k \in Kids(m) : nodes'[k].action = nodes[k].action
  BY <1>2 DEF Counted
<1> QED BY <1>1, <1>3 DEF Untried

LEMMA LeafGrown ==
    ASSUME TreeTypes, Grown, NEW n \in 1 .. Len(nodes), NEW r, Counted(n, r),
           Len(nodes') = Len(nodes)
    PROVE  Grown'
<1>1. /\ nodes'[1].parent = 0 /\ nodes'[1].path = {1}
  BY DEF Grown, Counted, TreeTypes
<1>2. ASSUME NEW k \in 2 .. Len(nodes), NEW p \in 1 .. Len(nodes), p = nodes[k].parent
      PROVE  /\ nodes'[k].parent = p /\ p \in 1 .. k - 1
             /\ nodes'[k].path = nodes'[p].path \union {k}
             /\ \E i \in DOMAIN Moves(p)' : nodes'[k].action = Moves(p)'[i]
             /\ nodes'[k].level = Reached(nodes'[p].level, nodes'[k].action)
             /\ \A j \in 2 .. Len(nodes) :
                   (j # k /\ nodes'[j].parent = p) => nodes'[j].action # nodes'[k].action
  <2>2. Moves(p)' = Moves(p)
    BY MovesStay
  <2>3. \A j \in 2 .. Len(nodes) : nodes'[j].parent = nodes[j].parent /\ nodes'[j].action = nodes[j].action
    BY DEF Counted
  <2>4. /\ nodes'[k].parent = nodes[k].parent /\ nodes'[k].action = nodes[k].action
        /\ nodes'[k].path = nodes[k].path /\ nodes'[k].level = nodes[k].level
        /\ nodes'[p].path = nodes[p].path
        /\ nodes'[p].level = nodes[p].level
    BY DEF Counted
  <2> QED BY <1>2, <2>2, <2>3, <2>4 DEF Grown
<1>3. \A k \in 2 .. Len(nodes) : nodes[k].parent \in 1 .. Len(nodes)
  BY DEF Grown, TreeTypes
<1>4. \A k \in 2 .. Len(nodes) :
         /\ nodes'[k].parent \in 1 .. k - 1
         /\ nodes'[k].path = nodes'[nodes'[k].parent].path \union {k}
         /\ \E i \in DOMAIN Moves(nodes[k].parent)' : nodes'[k].action = Moves(nodes[k].parent)'[i]
         /\ nodes'[k].level = Reached(nodes'[nodes'[k].parent].level, nodes'[k].action)
         /\ \A j \in 2 .. Len(nodes) :
               (j # k /\ nodes'[j].parent = nodes'[k].parent) => nodes'[j].action # nodes'[k].action
  <2> SUFFICES ASSUME NEW k \in 2 .. Len(nodes)
               PROVE  /\ nodes'[k].parent \in 1 .. k - 1
                      /\ nodes'[k].path = nodes'[nodes'[k].parent].path \union {k}
                      /\ \E i \in DOMAIN Moves(nodes[k].parent)' :
                            nodes'[k].action = Moves(nodes[k].parent)'[i]
                      /\ nodes'[k].level = Reached(nodes'[nodes'[k].parent].level, nodes'[k].action)
                      /\ \A j \in 2 .. Len(nodes) :
                            (j # k /\ nodes'[j].parent = nodes'[k].parent) =>
                                nodes'[j].action # nodes'[k].action
    OBVIOUS
  <2>1. PICK p \in 1 .. Len(nodes) : p = nodes[k].parent
    BY <1>3
  <2>2. /\ nodes'[k].parent = p /\ p \in 1 .. k - 1
        /\ nodes'[k].path = nodes'[p].path \union {k}
        /\ \E i \in DOMAIN Moves(p)' : nodes'[k].action = Moves(p)'[i]
        /\ nodes'[k].level = Reached(nodes'[p].level, nodes'[k].action)
        /\ \A j \in 2 .. Len(nodes) :
              (j # k /\ nodes'[j].parent = p) => nodes'[j].action # nodes'[k].action
    BY <1>2, <2>1
  <2> QED BY <2>2 DEF Moves
<1> QED BY <1>1, <1>4 DEF Grown

LEMMA ExpandGrown ==
    ASSUME TreeTypes, Grown, NEW n \in 1 .. Len(nodes), NEW r, NEW k \in Nat,
           Counted(n, r), Added(n, k, r)
    PROVE  Grown'
<1>1. k = Len(nodes) + 1 /\ Len(nodes') = k /\ Len(nodes) \in Nat /\ 1 \in 1 .. Len(nodes)
  BY DEF Added, TreeTypes
<1>2. nodes'[1].parent = 0 /\ nodes'[1].path = {1}
  BY <1>1 DEF Grown, Counted
<1>3. \A m \in 1 .. Len(nodes) : Moves(m)' = Moves(m)
  BY MovesStay
<1>4. \A j \in 1 .. Len(nodes) :
         /\ nodes'[j].parent = nodes[j].parent /\ nodes'[j].action = nodes[j].action
         /\ nodes'[j].path = nodes[j].path /\ nodes'[j].level = nodes[j].level
  BY DEF Counted
<1>5. PICK u \in Untried(n) : nodes'[k].level = Reached(nodes[n].level, Moves(n)[u])
                              /\ nodes'[k].action = Moves(n)[u]
  BY DEF Added
<1>6. nodes'[k].parent = n /\ nodes'[k].path = nodes[n].path \union {k}
  BY DEF Added
<1>7. u \in DOMAIN Moves(n) /\ \A j \in 2 .. Len(nodes) : nodes[j].parent = n => nodes[j].action # Moves(n)[u]
  BY DEF Untried, Kids, TreeTypes
<1>8. ASSUME NEW i \in 2 .. Len(nodes), NEW p \in 1 .. Len(nodes), p = nodes[i].parent
      PROVE  /\ nodes'[i].parent = p /\ p \in 1 .. i - 1
             /\ nodes'[i].path = nodes'[p].path \union {i}
             /\ \E x \in DOMAIN Moves(p)' : nodes'[i].action = Moves(p)'[x]
             /\ nodes'[i].level = Reached(nodes'[p].level, nodes'[i].action)
             /\ \A j \in 2 .. k :
                   (j # i /\ nodes'[j].parent = p) => nodes'[j].action # nodes'[i].action
  <2>1. /\ nodes[i].parent \in 1 .. i - 1 /\ nodes[i].path = nodes[p].path \union {i}
        /\ \E x \in DOMAIN Moves(p) : nodes[i].action = Moves(p)[x]
        /\ nodes[i].level = Reached(nodes[p].level, nodes[i].action)
        /\ \A j \in 2 .. Len(nodes) :
              (j # i /\ nodes[j].parent = p) => nodes[j].action # nodes[i].action
    BY <1>8 DEF Grown
  <2>2. i \in 1 .. Len(nodes) /\ Moves(p)' = Moves(p)
    BY <1>1, <1>3
  <2>3. \A j \in 2 .. Len(nodes) :
           (j # i /\ nodes'[j].parent = p) => nodes'[j].action # nodes'[i].action
    BY <1>4, <2>1, <2>2
  <2>4. (k # i /\ nodes'[k].parent = p) => nodes'[k].action # nodes'[i].action
    BY <1>4, <1>5, <1>6, <1>7, <1>8, <2>2
  <2>5. \A j \in 2 .. k : j = k \/ j \in 2 .. Len(nodes)
    BY <1>1
  <2> QED BY <1>4, <1>8, <2>1, <2>2, <2>3, <2>4, <2>5
<1>9. /\ n \in 1 .. k - 1 /\ nodes'[k].path = nodes'[n].path \union {k}
      /\ nodes'[k].action = Moves(n)'[u] /\ u \in DOMAIN Moves(n)'
      /\ nodes'[k].level = Reached(nodes'[n].level, nodes'[k].action)
  BY <1>1, <1>3, <1>4, <1>5, <1>6, <1>7
<1>10. \A j \in 2 .. k : (j # k /\ nodes'[j].parent = n) => nodes'[j].action # nodes'[k].action
  <2>1. \A j \in 2 .. k : j = k \/ (j \in 2 .. Len(nodes) /\ j \in 1 .. Len(nodes))
    BY <1>1
  <2> QED BY <1>4, <1>5, <1>7, <2>1
<1>11. \A i \in 2 .. k :
         /\ nodes'[i].parent \in 1 .. i - 1
         /\ nodes'[i].path = nodes'[nodes'[i].parent].path \union {i}
         /\ \E x \in DOMAIN Moves(nodes[i].parent)' : nodes'[i].action = Moves(nodes[i].parent)'[x]
         /\ nodes'[i].level = Reached(nodes'[nodes'[i].parent].level, nodes'[i].action)
         /\ \A j \in 2 .. k :
               (j # i /\ nodes'[j].parent = nodes'[i].parent) => nodes'[j].action # nodes'[i].action
  <2> SUFFICES ASSUME NEW i \in 2 .. k
               PROVE  /\ nodes'[i].parent \in 1 .. i - 1
                      /\ nodes'[i].path = nodes'[nodes'[i].parent].path \union {i}
                      /\ \E x \in DOMAIN Moves(nodes[i].parent)' :
                            nodes'[i].action = Moves(nodes[i].parent)'[x]
                      /\ nodes'[i].level = Reached(nodes'[nodes'[i].parent].level, nodes'[i].action)
                      /\ \A j \in 2 .. k :
                            (j # i /\ nodes'[j].parent = nodes'[i].parent) =>
                                nodes'[j].action # nodes'[i].action
    OBVIOUS
  <2>1. CASE i = k
    BY <1>6, <1>9, <1>10, <2>1 DEF Moves
  <2>2. CASE i # k
    <3>1. i \in 2 .. Len(nodes)
      BY <1>1, <2>2
    <3>2. nodes[i].parent \in 1 .. Len(nodes)
      BY <3>1 DEF Grown, TreeTypes
    <3>3. PICK p \in 1 .. Len(nodes) : p = nodes[i].parent
      BY <3>2
    <3>4. /\ nodes'[i].parent = p /\ p \in 1 .. i - 1
          /\ nodes'[i].path = nodes'[p].path \union {i}
          /\ \E x \in DOMAIN Moves(p)' : nodes'[i].action = Moves(p)'[x]
          /\ nodes'[i].level = Reached(nodes'[p].level, nodes'[i].action)
          /\ \A j \in 2 .. k :
                (j # i /\ nodes'[j].parent = p) => nodes'[j].action # nodes'[i].action
      BY <1>8, <3>1, <3>3
    <3> QED BY <3>4 DEF Moves
  <2> QED BY <2>1, <2>2
<1> QED BY <1>1, <1>2, <1>11 DEF Grown

LEMMA LeafClimbs ==
    ASSUME TreeTypes, PathsClimb, NEW n \in 1 .. Len(nodes), NEW r, Counted(n, r),
           Len(nodes') = Len(nodes)
    PROVE  PathsClimb'
<1>1. /\ 1 .. Len(nodes') = 1 .. Len(nodes)
      /\ \A i \in 1 .. Len(nodes) : nodes'[i].path = nodes[i].path /\ nodes'[i].parent = nodes[i].parent
  BY DEF Counted
<1>2. \A i \in 1 .. Len(nodes) : nodes[i].path \subseteq 1 .. Len(nodes)
  BY DEF PathsClimb, TreeTypes
<1>3. ASSUME NEW i \in 1 .. Len(nodes)
      PROVE  /\ nodes'[i].path \subseteq 1 .. i /\ i \in nodes'[i].path /\ 1 \in nodes'[i].path
             /\ \A x \in nodes'[i].path \ {1} : nodes'[x].parent \in nodes'[i].path
             /\ \A m \in nodes'[i].path \ {i} : \E x \in 1 .. Len(nodes') :
                   /\ nodes'[x].parent = m /\ x \in nodes'[i].path
                   /\ \A j \in 1 .. Len(nodes') :
                         (nodes'[j].parent = m /\ j \in nodes'[i].path) => j = x
  <2>1. nodes'[i].path \subseteq 1 .. i /\ i \in nodes'[i].path /\ 1 \in nodes'[i].path
    BY <1>1 DEF PathsClimb
  <2>2. \A x \in nodes'[i].path \ {1} : nodes'[x].parent \in nodes'[i].path
    BY <1>1, <1>2 DEF PathsClimb
  <2>3. ASSUME NEW m \in nodes'[i].path \ {i}
        PROVE  \E x \in 1 .. Len(nodes') :
                   /\ nodes'[x].parent = m /\ x \in nodes'[i].path
                   /\ \A j \in 1 .. Len(nodes') :
                         (nodes'[j].parent = m /\ j \in nodes'[i].path) => j = x
    <3>1. PICK x \in 1 .. Len(nodes) :
             /\ nodes[x].parent = m /\ x \in nodes[i].path
             /\ \A j \in 1 .. Len(nodes) : (nodes[j].parent = m /\ j \in nodes[i].path) => j = x
      BY <1>1 DEF PathsClimb
    <3> QED BY <1>1, <3>1
  <2> QED BY <2>1, <2>2, <2>3
<1> QED BY <1>1, <1>3 DEF PathsClimb

LEMMA ExpandClimbs ==
    ASSUME TreeTypes, Grown, PathsClimb, NEW n \in 1 .. Len(nodes), NEW r, NEW k \in Nat,
           Counted(n, r), Added(n, k, r)
    PROVE  PathsClimb'
<1>1. /\ k \notin 1 .. Len(nodes) /\ 1 .. Len(nodes') = (1 .. Len(nodes)) \union {k}
      /\ 1 .. k = (1 .. Len(nodes)) \union {k} /\ k # 1
  BY DEF Added, TreeTypes
<1>2. \A i \in 1 .. Len(nodes) :
         nodes'[i].path = nodes[i].path /\ nodes'[i].parent = nodes[i].parent
  BY DEF Counted
<1>3. nodes'[k].parent = n /\ nodes'[k].path = nodes[n].path \union {k}
  BY DEF Added
<1>4. \A i \in 1 .. Len(nodes) : nodes[i].path \subseteq 1 .. Len(nodes)
  BY DEF PathsClimb, TreeTypes
<1>5. ASSUME NEW i \in 1 .. Len(nodes)
      PROVE  /\ nodes'[i].path \subseteq 1 .. i /\ i \in nodes'[i].path /\ 1 \in nodes'[i].path
             /\ \A x \in nodes'[i].path \ {1} : nodes'[x].parent \in nodes'[i].path
             /\ \A m \in nodes'[i].path \ {i} : \E x \in 1 .. Len(nodes') :
                   /\ nodes'[x].parent = m /\ x \in nodes'[i].path
                   /\ \A j \in 1 .. Len(nodes') :
                         (nodes'[j].parent = m /\ j \in nodes'[i].path) => j = x
  <2>1. /\ nodes[i].path \subseteq 1 .. i /\ i \in nodes[i].path /\ 1 \in nodes[i].path
        /\ \A x \in nodes[i].path \ {1} : nodes[x].parent \in nodes[i].path
        /\ \A m \in nodes[i].path \ {i} : \E x \in 1 .. Len(nodes) :
              /\ nodes[x].parent = m /\ x \in nodes[i].path
              /\ \A j \in 1 .. Len(nodes) :
                    (nodes[j].parent = m /\ j \in nodes[i].path) => j = x
    BY DEF PathsClimb
  <2>2. k \notin nodes[i].path
    BY <1>1, <1>4
  <2>3. \A x \in nodes'[i].path \ {1} : nodes'[x].parent \in nodes'[i].path
    BY <1>2, <1>4, <2>1
  <2>4. ASSUME NEW m \in nodes'[i].path \ {i}
        PROVE  \E x \in 1 .. Len(nodes') :
                   /\ nodes'[x].parent = m /\ x \in nodes'[i].path
                   /\ \A j \in 1 .. Len(nodes') :
                         (nodes'[j].parent = m /\ j \in nodes'[i].path) => j = x
    <3>1. PICK x \in 1 .. Len(nodes) :
             /\ nodes[x].parent = m /\ x \in nodes[i].path
             /\ \A j \in 1 .. Len(nodes) : (nodes[j].parent = m /\ j \in nodes[i].path) => j = x
      BY <1>2, <2>1
    <3>2. x \in 1 .. Len(nodes') /\ nodes'[x].parent = m /\ x \in nodes'[i].path
      BY <1>1, <1>2, <3>1
    <3>3. \A j \in 1 .. Len(nodes') : (nodes'[j].parent = m /\ j \in nodes'[i].path) => j = x
      <4> SUFFICES ASSUME NEW j \in 1 .. Len(nodes'), nodes'[j].parent = m, j \in nodes'[i].path
                   PROVE  j = x
        OBVIOUS
      <4>1. j \in 1 .. Len(nodes) /\ nodes[j].parent = m /\ j \in nodes[i].path
        BY <1>1, <1>2, <2>2
      <4> QED BY <3>1, <4>1
    <3> QED BY <3>2, <3>3
  <2> QED BY <1>2, <2>1, <2>3, <2>4
<1>6. nodes[n].path \subseteq 1 .. n /\ n \in nodes[n].path /\ 1 \in nodes[n].path
  BY DEF PathsClimb
<1>7. ASSUME NEW m \in nodes'[k].path \ {k}
      PROVE  \E x \in 1 .. Len(nodes') :
                /\ nodes'[x].parent = m /\ x \in nodes'[k].path
                /\ \A j \in 1 .. Len(nodes') : (nodes'[j].parent = m /\ j \in nodes'[k].path) => j = x
  <2>1. CASE m = n
    <3>1. \A j \in 1 .. Len(nodes) : nodes[j].parent = n => j \notin nodes[n].path
      <4> SUFFICES ASSUME NEW j \in 1 .. Len(nodes), nodes[j].parent = n
                   PROVE  j \notin 1 .. n
        BY <1>6
      <4>1. j # 1
        BY DEF Grown
      <4>2. nodes[j].parent \in 1 .. j - 1
        BY <4>1 DEF Grown
      <4> QED BY <4>2
    <3> QED BY <1>1, <1>2, <1>3, <2>1, <3>1
  <2>2. CASE m # n
    <3>1. m \in nodes[n].path \ {n}
      BY <1>3, <2>2
    <3>2. PICK x \in 1 .. Len(nodes) :
             /\ nodes[x].parent = m /\ x \in nodes[n].path
             /\ \A j \in 1 .. Len(nodes) : (nodes[j].parent = m /\ j \in nodes[n].path) => j = x
      BY <3>1 DEF PathsClimb
    <3>3. x \in 1 .. Len(nodes') /\ nodes'[x].parent = m /\ x \in nodes'[k].path
      BY <1>1, <1>2, <1>3, <3>2
    <3>4. \A j \in 1 .. Len(nodes') : (nodes'[j].parent = m /\ j \in nodes'[k].path) => j = x
      <4> SUFFICES ASSUME NEW j \in 1 .. Len(nodes'), nodes'[j].parent = m, j \in nodes'[k].path
                   PROVE  j = x
        OBVIOUS
      <4>1. j # k
        BY <1>3, <2>2
      <4>2. j \in 1 .. Len(nodes) /\ nodes[j].parent = m /\ j \in nodes[n].path
        BY <1>1, <1>2, <1>3, <4>1
      <4> QED BY <3>2, <4>2
    <3> QED BY <3>3, <3>4
  <2> QED BY <2>1, <2>2
<1>8. \A x \in nodes'[k].path \ {1} : nodes'[x].parent \in nodes'[k].path
  <2>1. \A x \in nodes[n].path \ {1} : nodes[x].parent \in nodes[n].path
    BY DEF PathsClimb
  <2> QED BY <1>1, <1>2, <1>3, <1>4, <1>6, <2>1
<1>9. nodes'[k].path \subseteq 1 .. k /\ k \in nodes'[k].path /\ 1 \in nodes'[k].path
  BY <1>1, <1>3, <1>4, <1>6
<1> QED BY <1>1, <1>5, <1>7, <1>8, <1>9 DEF PathsClimb

\* How a simulation counts on what one move of a node made.
LEMMA TriedCounts ==
    ASSUME TreeTypes, Grown, TriedFacts, TriedFacts', NEW n \in 1 .. Len(nodes), NEW r, Counted(n, r),
           NEW m \in 1 .. Len(nodes), Kids(m)' = Kids(m), NEW a \in Actions
    PROVE  /\ Tried(m, a) \in Nat
           /\ \A c \in Kids(m) : nodes[c].action = a =>
                 Tried(m, a)' = Tried(m, a) + (IF c \in nodes[n].path THEN 1 ELSE 0)
           /\ (\A c \in Kids(m) : nodes[c].action # a) => Tried(m, a)' = Tried(m, a)
<1>1. m \in 1 .. Len(nodes')
  BY DEF Counted, TreeTypes
<1>2. \A c \in Kids(m) : /\ nodes'[c].action = nodes[c].action /\ nodes[c].visits \in Nat
                         /\ nodes'[c].visits = nodes[c].visits + (IF c \in nodes[n].path THEN 1 ELSE 0)
  <2>1. \A c \in Kids(m) : c \in 1 .. Len(nodes)
    BY DEF Kids, TreeTypes
  <2>2. \A c \in Kids(m) : nodes[c] \in TreeNodes
    BY <2>1 DEF TreeTypes
  <2> QED BY <2>1, <2>2 DEF Counted, TreeNodes
<1>3. CASE \A c \in Kids(m) : nodes[c].action # a
  <2>1. Tried(m, a) = 0
    BY <1>3 DEF TriedFacts
  <2>2. Tried(m, a)' = 0
    BY <1>1, <1>2, <1>3 DEF TriedFacts
  <2> QED BY <1>3, <2>1, <2>2
<1>4. ASSUME NEW c \in Kids(m), nodes[c].action = a
      PROVE  /\ Tried(m, a) \in Nat
             /\ Tried(m, a)' = Tried(m, a) + (IF c \in nodes[n].path THEN 1 ELSE 0)
  <2>1. Tried(m, a) = nodes[c].visits
    BY <1>4 DEF TriedFacts
  <2>2. Tried(m, a)' = nodes'[c].visits
    BY <1>1, <1>2, <1>4 DEF TriedFacts
  <2> QED BY <1>2, <2>1, <2>2
<1> QED BY <1>3, <1>4

\* A node off the path: none of its children is on it.
LEMMA OffPath ==
    ASSUME TreeTypes, Grown, PathsClimb, TriedFacts, TriedFacts', NEW n \in 1 .. Len(nodes), NEW r,
           Counted(n, r), NEW m \in 1 .. Len(nodes), Kids(m)' = Kids(m),
           \A c \in Kids(m) : c \notin nodes[n].path
    PROVE  ChildVisits(m)' = ChildVisits(m) /\ ChildVisits(m) \in Nat
<1>1. \A a \in Actions : Tried(m, a)' = Tried(m, a) /\ Tried(m, a) \in Nat
  <2> SUFFICES ASSUME NEW a \in Actions PROVE Tried(m, a)' = Tried(m, a) /\ Tried(m, a) \in Nat
    OBVIOUS
  <2>1. Tried(m, a) \in Nat
    BY TriedCounts
  <2>2. CASE \A c \in Kids(m) : nodes[c].action # a
    BY <2>1, <2>2, TriedCounts
  <2>3. ASSUME NEW c \in Kids(m), nodes[c].action = a PROVE Tried(m, a)' = Tried(m, a)
    <3>1. Tried(m, a)' = Tried(m, a) + (IF c \in nodes[n].path THEN 1 ELSE 0)
      BY <2>3, TriedCounts
    <3> QED BY <2>1, <3>1
  <2> QED BY <2>1, <2>2, <2>3
<1>2. ChildVisits(m)' = Tried(m, "stay")' + Tried(m, "expand")' + Tried(m, "contract")'
      /\ ChildVisits(m) = Tried(m, "stay") + Tried(m, "expand") + Tried(m, "contract")
  BY DEF ChildVisits
<1> QED BY <1>1, <1>2 DEF Actions

\* A node above the end of the path: one of its children is on it.
LEMMA OnPath ==
    ASSUME TreeTypes, Grown, PathsClimb, TriedFacts, TriedFacts', NEW n \in 1 .. Len(nodes), NEW r,
           Counted(n, r), NEW m \in nodes[n].path \ {n}, m \in 1 .. Len(nodes), Kids(m)' = Kids(m)
    PROVE  ChildVisits(m)' = ChildVisits(m) + 1 /\ ChildVisits(m) \in Nat
<1>1. PICK x \in 1 .. Len(nodes) :
         /\ nodes[x].parent = m /\ x \in nodes[n].path
         /\ \A j \in 1 .. Len(nodes) : (nodes[j].parent = m /\ j \in nodes[n].path) => j = x
  BY DEF PathsClimb
<1>2. x \in Kids(m) /\ \A c \in Kids(m) : c \in nodes[n].path <=> c = x
  BY <1>1 DEF Kids, TreeTypes
<1>3. PICK b \in Actions : nodes[x].action = b
  BY <1>2, KidsAre
<1>4. Tried(m, b)' = Tried(m, b) + 1 /\ Tried(m, b) \in Nat
  <2>1. Tried(m, b)' = Tried(m, b) + (IF x \in nodes[n].path THEN 1 ELSE 0)
    BY <1>2, <1>3, TriedCounts
  <2>2. Tried(m, b) \in Nat
    BY TriedCounts
  <2> QED BY <1>1, <2>1, <2>2
<1>5. \A a \in Actions : a # b => Tried(m, a)' = Tried(m, a) /\ Tried(m, a) \in Nat
  <2> SUFFICES ASSUME NEW a \in Actions, a # b PROVE Tried(m, a)' = Tried(m, a) /\ Tried(m, a) \in Nat
    OBVIOUS
  <2>1. Tried(m, a) \in Nat
    BY TriedCounts
  <2>2. CASE \A c \in Kids(m) : nodes[c].action # a
    BY <2>1, <2>2, TriedCounts
  <2>3. ASSUME NEW c \in Kids(m), nodes[c].action = a PROVE Tried(m, a)' = Tried(m, a)
    <3>1. Tried(m, a)' = Tried(m, a) + (IF c \in nodes[n].path THEN 1 ELSE 0)
      BY <2>3, TriedCounts
    <3>2. c \notin nodes[n].path
      BY <1>2, <1>3, <2>3
    <3> QED BY <2>1, <3>1, <3>2
  <2> QED BY <2>1, <2>2, <2>3
<1>6. ChildVisits(m)' = Tried(m, "stay")' + Tried(m, "expand")' + Tried(m, "contract")'
      /\ ChildVisits(m) = Tried(m, "stay") + Tried(m, "expand") + Tried(m, "contract")
  BY DEF ChildVisits
<1>7. CASE b = "stay"
  BY <1>4, <1>5, <1>6, <1>7 DEF Actions
<1>8. CASE b = "expand"
  BY <1>4, <1>5, <1>6, <1>8 DEF Actions
<1>9. CASE b = "contract"
  BY <1>4, <1>5, <1>6, <1>9 DEF Actions
<1> QED BY <1>3, <1>7, <1>8, <1>9 DEF Actions

\* The node that gets a child: one move more has a visit.
LEMMA AtTheEnd ==
    ASSUME TreeTypes, Grown, PathsClimb, TriedFacts, TriedFacts', NEW n \in 1 .. Len(nodes), NEW r,
           NEW k \in Nat, Counted(n, r), Added(n, k, r)
    PROVE  /\ ChildVisits(n)' = ChildVisits(n) + 1 /\ ChildVisits(n) \in Nat
           /\ \A c \in Kids(n) : nodes'[c].visits = nodes[c].visits
<1>1. Kids(n)' = Kids(n) \union {k} /\ n \in 1 .. Len(nodes')
  BY ExpandKids
<1>2. PICK u \in Untried(n) : nodes'[k].action = Moves(n)[u]
  BY DEF Added
<1>3. PICK b \in Actions : b = Moves(n)[u] /\ \A c \in Kids(n) : nodes[c].action # b
  BY <1>2, UntriedIs
<1>4. Tried(n, b) = 0
  BY <1>3 DEF TriedFacts
<1>5. nodes'[k].visits = 1 /\ nodes'[k].action = b
  BY <1>2, <1>3 DEF Added
<1>6. Tried(n, b)' = 1
  BY <1>1, <1>5 DEF TriedFacts
<1>7. \A c \in Kids(n) : /\ nodes'[c].action = nodes[c].action
                         /\ nodes'[c].visits = nodes[c].visits /\ nodes[c].visits \in Nat
  <2> SUFFICES ASSUME NEW c \in Kids(n)
               PROVE  /\ nodes'[c].action = nodes[c].action
                      /\ nodes'[c].visits = nodes[c].visits /\ nodes[c].visits \in Nat
    OBVIOUS
  <2>1. c \in 1 .. Len(nodes) /\ c > n
    BY KidsAre
  <2>2. c \notin nodes[n].path
    BY <2>1 DEF PathsClimb
  <2>3. nodes[c].visits \in Nat
    BY <2>1, MovesAre DEF TreeNodes
  <2> QED BY <2>1, <2>2, <2>3 DEF Counted
<1>8. ASSUME NEW a \in Actions, a # b PROVE Tried(n, a)' = Tried(n, a) /\ Tried(n, a) \in Nat
  <2>1. CASE \A c \in Kids(n) : nodes[c].action # a
    <3>1. Tried(n, a) = 0
      BY <2>1 DEF TriedFacts
    <3>2. \A c \in Kids(n)' : nodes'[c].action # a
      BY <1>1, <1>5, <1>7, <1>8, <2>1
    <3>3. Tried(n, a)' = 0
      BY <1>1, <3>2 DEF TriedFacts
    <3> QED BY <3>1, <3>3
  <2>2. ASSUME NEW c \in Kids(n), nodes[c].action = a
        PROVE  Tried(n, a)' = Tried(n, a) /\ Tried(n, a) \in Nat
    <3>1. Tried(n, a) = nodes[c].visits
      BY <2>2 DEF TriedFacts
    <3>2. c \in Kids(n)' /\ nodes'[c].action = a
      BY <1>1, <1>7, <2>2
    <3>3. Tried(n, a)' = nodes'[c].visits
      BY <1>1, <3>2 DEF TriedFacts
    <3> QED BY <1>7, <3>1, <3>3
  <2> QED BY <2>1, <2>2
<1>9. ChildVisits(n)' = Tried(n, "stay")' + Tried(n, "expand")' + Tried(n, "contract")'
      /\ ChildVisits(n) = Tried(n, "stay") + Tried(n, "expand") + Tried(n, "contract")
  BY DEF ChildVisits
<1>10. CASE b = "stay"
  BY <1>4, <1>6, <1>7, <1>8, <1>9, <1>10 DEF Actions
<1>11. CASE b = "expand"
  BY <1>4, <1>6, <1>7, <1>8, <1>9, <1>11 DEF Actions
<1>12. CASE b = "contract"
  BY <1>4, <1>6, <1>7, <1>8, <1>9, <1>12 DEF Actions
<1>13. b = "stay" \/ b = "expand" \/ b = "contract"
  BY <1>3 DEF Actions
<1> QED BY <1>7, <1>10, <1>11, <1>12, <1>13

LEMMA RootCounted ==
    ASSUME TreeTypes, PathsClimb, VisitsAdd, NEW n \in 1 .. Len(nodes), NEW r, Counted(n, r), Simulate(n)
    PROVE  nodes'[1].visits = sims' + 1
<1>1. 1 \in 1 .. Len(nodes) /\ 1 \in nodes[n].path
  BY DEF TreeTypes, PathsClimb
<1>2. nodes'[1].visits = nodes[1].visits + 1
  BY <1>1 DEF Counted
<1> QED BY <1>2 DEF VisitsAdd, Simulate, TreeTypes

LEMMA Tenfold ==
    ASSUME NEW v \in Nat, NEW w \in Nat, NEW r \in 0 .. 10, w <= 10 * v
    PROVE  v + 1 >= 1 /\ w + r <= 10 * (v + 1)
<1>1. 10 * (v + 1) = 10 * v + 10
  OBVIOUS
<1> QED BY <1>1

LEMMA CountedVisits ==
    ASSUME TreeTypes, VisitsAdd, NEW n \in 1 .. Len(nodes), NEW r \in 0 .. 10, Counted(n, r),
           NEW m \in 1 .. Len(nodes)
    PROVE  nodes'[m].visits >= 1 /\ nodes'[m].reward <= 10 * nodes'[m].visits
<1>1. nodes[m].visits \in Nat /\ nodes[m].reward \in Nat
  BY MovesAre DEF TreeNodes
<1>2. PICK v \in Nat, w \in Nat : v = nodes[m].visits /\ w = nodes[m].reward /\ v >= 1 /\ w <= 10 * v
  BY <1>1 DEF VisitsAdd
<1>3. CASE m \in nodes[n].path
  <2>1. nodes'[m].visits = v + 1 /\ nodes'[m].reward = w + r
    BY <1>2, <1>3 DEF Counted
  <2>2. v + 1 >= 1 /\ w + r <= 10 * (v + 1)
    BY <1>2, Tenfold
  <2> QED BY <2>1, <2>2, Zenon
<1>4. CASE m \notin nodes[n].path
  <2>1. nodes'[m].visits = v + 0 /\ nodes'[m].reward = w + 0
    BY <1>2, <1>4 DEF Counted
  <2>2. v + 0 = v /\ w + 0 = w
    OBVIOUS
  <2> QED BY <1>2, <2>1, <2>2, Zenon
<1> QED BY <1>3, <1>4

\* What VisitsAdd says of a node above the end of the path: it has no move left.
LEMMA CountedOnPath ==
    ASSUME TreeTypes, Grown, PathsClimb, VisitsAdd, TriedFacts, TriedFacts',
           NEW n \in 1 .. Len(nodes), NEW r \in 0 .. 10, Counted(n, r),
           NEW m \in nodes[n].path \ {n}, m \in 1 .. Len(nodes), Kids(m)' = Kids(m),
           Moves(m)' = Moves(m), Untried(m) = {}
    PROVE  /\ nodes'[m].visits >= 1
           /\ Moves(m)' # <<>> => nodes'[m].visits = 1 + ChildVisits(m)'
           /\ nodes'[m].reward <= 10 * nodes'[m].visits
           /\ Untried(m)' # {} => \A c \in Kids(m)' : nodes'[c].visits = 1
<1>1. ChildVisits(m)' = ChildVisits(m) + 1 /\ ChildVisits(m) \in Nat
  BY OnPath
<1>2. nodes'[m].visits = nodes[m].visits + 1
  BY DEF Counted
<1>3. Moves(m) # <<>> => nodes[m].visits = 1 + ChildVisits(m)
  BY DEF VisitsAdd
<1>4. Moves(m)' # <<>> => nodes'[m].visits = 1 + ChildVisits(m)'
  BY <1>1, <1>2, <1>3
<1>5. Untried(m)' = {}
  BY UntriedShrinks
<1> QED BY <1>4, <1>5, CountedVisits

LEMMA CountedOffPath ==
    ASSUME TreeTypes, Grown, PathsClimb, VisitsAdd, TriedFacts, TriedFacts',
           NEW n \in 1 .. Len(nodes), NEW r \in 0 .. 10, Counted(n, r),
           NEW m \in 1 .. Len(nodes), m \notin nodes[n].path, Kids(m)' = Kids(m), Moves(m)' = Moves(m)
    PROVE  /\ nodes'[m].visits >= 1
           /\ Moves(m)' # <<>> => nodes'[m].visits = 1 + ChildVisits(m)'
           /\ nodes'[m].reward <= 10 * nodes'[m].visits
           /\ Untried(m)' # {} => \A c \in Kids(m)' : nodes'[c].visits = 1
<1>1. \A c \in Kids(m) : c \in 1 .. Len(nodes) /\ c # 1 /\ nodes[c].parent = m
  BY KidsAre
<1>2. \A c \in Kids(m) : c \notin nodes[n].path
  <2>1. \A c \in nodes[n].path \ {1} : nodes[c].parent \in nodes[n].path
    BY DEF PathsClimb
  <2> QED BY <1>1, <2>1
<1>3. ChildVisits(m)' = ChildVisits(m)
  BY <1>2, OffPath
<1>4. nodes[m].visits \in Nat /\ \A c \in Kids(m) : nodes[c].visits \in Nat
  BY <1>1, MovesAre DEF TreeNodes
<1>5. nodes'[m].visits = nodes[m].visits /\ \A c \in Kids(m) : nodes'[c].visits = nodes[c].visits
  BY <1>1, <1>2, <1>4 DEF Counted
<1>6. Untried(m)' \subseteq Untried(m)
  BY UntriedShrinks
<1>7. Moves(m)' # <<>> => nodes'[m].visits = 1 + ChildVisits(m)'
  BY <1>3, <1>5 DEF VisitsAdd
<1>8. Untried(m)' # {} => \A c \in Kids(m)' : nodes'[c].visits = 1
  BY <1>5, <1>6 DEF VisitsAdd
<1> QED BY <1>7, <1>8, CountedVisits

LEMMA LeafVisits ==
    ASSUME TreeTypes, Grown, PathsClimb, VisitsAdd, TriedFacts, TriedFacts',
           NEW n \in 1 .. Len(nodes), NEW r \in 0 .. 10, Counted(n, r), Len(nodes') = Len(nodes),
           Simulate(n), Untried(n) = {}
    PROVE  VisitsAdd'
<1>1. Moves(n) = <<>>
  <2>1. Kids(n) = {}
    BY DEF Simulate, Selectable
  <2>2. ASSUME 1 \in DOMAIN Moves(n) PROVE FALSE
    BY <2>1, <2>2 DEF Untried
  <2> QED BY <2>2, MovesLand
<1>2. \A m \in 1 .. Len(nodes) : Kids(m)' = Kids(m) /\ Moves(m)' = Moves(m)
  BY LeafKids, MovesStay
<1>3. \A m \in nodes[n].path \ {n} : Untried(m) = {} /\ m \in 1 .. Len(nodes)
  BY DEF Simulate, Selectable, PathsClimb, TreeTypes
<1>4. ASSUME NEW m \in 1 .. Len(nodes)
      PROVE  /\ nodes'[m].visits >= 1
             /\ Moves(m)' # <<>> => nodes'[m].visits = 1 + ChildVisits(m)'
             /\ nodes'[m].reward <= 10 * nodes'[m].visits
             /\ Untried(m)' # {} => \A c \in Kids(m)' : nodes'[c].visits = 1
  <2>1. CASE m \in nodes[n].path \ {n}
    BY <1>2, <1>3, <2>1, CountedOnPath
  <2>2. CASE m \notin nodes[n].path
    BY <1>2, <2>2, CountedOffPath
  <2>3. CASE m = n
    <3>1. Kids(n)' = {} /\ Moves(n)' = <<>>
      BY <1>1, <1>2 DEF Simulate, Selectable
    <3> QED BY <2>3, <3>1, CountedVisits
  <2> QED BY <2>1, <2>2, <2>3
<1>5. nodes'[1].visits = sims' + 1
  BY RootCounted
<1> QED BY <1>4, <1>5 DEF VisitsAdd

LEMMA ExpandVisits ==
    ASSUME TreeTypes, Grown, PathsClimb, VisitsAdd, TriedFacts, TriedFacts',
           NEW n \in 1 .. Len(nodes), NEW r \in 0 .. 10, NEW k \in Nat, Counted(n, r), Added(n, k, r),
           Simulate(n)
    PROVE  VisitsAdd'
<1>1. /\ 1 .. Len(nodes') = (1 .. Len(nodes)) \union {k} /\ k \notin 1 .. Len(nodes) /\ Kids(k)' = {}
      /\ \A m \in 1 .. Len(nodes) : m # n => Kids(m)' = Kids(m)
      /\ Kids(n)' = Kids(n) \union {k}
  <2>1. /\ k \notin 1 .. Len(nodes) /\ 1 .. Len(nodes') = (1 .. Len(nodes)) \union {k}
        /\ \A m \in 1 .. Len(nodes) : Kids(m)' = Kids(m) \union (IF m = n THEN {k} ELSE {})
        /\ Kids(k)' = {}
    BY ExpandKids
  <2> QED BY <2>1
<1>2. \A m \in 1 .. Len(nodes) : Moves(m)' = Moves(m)
  BY MovesStay
<1>3. \A m \in nodes[n].path \ {n} : Untried(m) = {} /\ m \in 1 .. Len(nodes)
  BY DEF Simulate, Selectable, PathsClimb, TreeTypes
<1>4. ASSUME NEW m \in 1 .. Len(nodes)
      PROVE  /\ nodes'[m].visits >= 1
             /\ Moves(m)' # <<>> => nodes'[m].visits = 1 + ChildVisits(m)'
             /\ nodes'[m].reward <= 10 * nodes'[m].visits
             /\ Untried(m)' # {} => \A c \in Kids(m)' : nodes'[c].visits = 1
  <2>1. CASE m \in nodes[n].path \ {n}
    BY <1>1, <1>2, <1>3, <2>1, CountedOnPath
  <2>2. CASE m \notin nodes[n].path
    <3>1. m # n
      BY <2>2 DEF PathsClimb
    <3> QED BY <1>1, <1>2, <2>2, <3>1, CountedOffPath
  <2>3. CASE m = n
    <3>1. nodes'[n].visits >= 1 /\ nodes'[n].reward <= 10 * nodes'[n].visits
      BY CountedVisits
    <3>2. nodes'[n].visits = nodes[n].visits + 1
      BY DEF Counted, PathsClimb
    <3>3. ChildVisits(n)' = ChildVisits(n) + 1 /\ ChildVisits(n) \in Nat
          /\ \A c \in Kids(n) : nodes'[c].visits = nodes[c].visits
      BY AtTheEnd
    <3>4. Moves(n)' # <<>> => nodes'[n].visits = 1 + ChildVisits(n)'
      <4>1. Moves(n) # <<>> => nodes[n].visits = 1 + ChildVisits(n)
        BY DEF VisitsAdd
      <4> QED BY <1>2, <3>2, <3>3, <4>1
    <3>5. Untried(n) # {}
      BY DEF Added
    <3>6. \A c \in Kids(n) : nodes'[c].visits = 1
      BY <3>3, <3>5 DEF VisitsAdd
    <3>7. nodes'[k].visits = 1
      BY DEF Added
    <3> QED BY <1>1, <2>3, <3>1, <3>4, <3>6, <3>7
  <2> QED BY <2>1, <2>2, <2>3
<1>5. nodes'[1].visits = sims' + 1
  BY RootCounted
<1>6. /\ nodes'[k].visits >= 1
      /\ Moves(k)' # <<>> => nodes'[k].visits = 1 + ChildVisits(k)'
      /\ nodes'[k].reward <= 10 * nodes'[k].visits
      /\ Untried(k)' # {} => \A c \in Kids(k)' : nodes'[c].visits = 1
  <2>1. nodes'[k].visits = 1 /\ nodes'[k].reward = r
    BY DEF Added
  <2>2. \A a \in Actions : Tried(k, a)' = 0
    BY <1>1 DEF TriedFacts
  <2>3. ChildVisits(k)' = Tried(k, "stay")' + Tried(k, "expand")' + Tried(k, "contract")'
    BY DEF ChildVisits
  <2>4. ChildVisits(k)' = 0
    BY <2>2, <2>3 DEF Actions
  <2> QED BY <1>1, <2>1, <2>4
<1> QED BY <1>1, <1>4, <1>5, <1>6 DEF VisitsAdd

LEMMA TriedIsNat ==
    ASSUME TreeTypes, Grown, TriedFacts, NEW m \in 1 .. Len(nodes), NEW a \in Actions
    PROVE  Tried(m, a) \in Nat
<1>1. CASE \A c \in Kids(m) : nodes[c].action # a
  BY <1>1 DEF TriedFacts
<1>2. ASSUME NEW c \in Kids(m), nodes[c].action = a PROVE Tried(m, a) \in Nat
  <2>1. c \in 1 .. Len(nodes)
    BY KidsAre
  <2>2. nodes[c].visits \in Nat
    BY <2>1, MovesAre DEF TreeNodes
  <2> QED BY <1>2, <2>2 DEF TriedFacts
<1> QED BY <1>1, <1>2


LEMMA InitTree == SearchInit => TreeInv
<1> SUFFICES ASSUME SearchInit PROVE TreeInv
  OBVIOUS
<1>1. PICK l \in 0 .. 5 : nodes = <<[Node(l, 0, "none", {1}) EXCEPT !.visits = 1]>>
  BY DEF SearchInit
<1>2. nodes = <<[level |-> l, parent |-> 0, action |-> "none", path |-> {1}, visits |-> 1, reward |-> 0]>>
  BY <1>1 DEF Node
<1>3. /\ Len(nodes) = 1 /\ DOMAIN nodes = {1} /\ nodes[1].level = l /\ nodes[1].parent = 0
      /\ nodes[1].path = {1} /\ nodes[1].visits = 1 /\ nodes[1].reward = 0
  BY <1>2
<1>4. nodes \in Seq(TreeNodes)
  <2>1. [level |-> l, parent |-> 0, action |-> "none", path |-> {1}, visits |-> 1, reward |-> 0] \in TreeNodes
    BY DEF TreeNodes
  <2> QED BY <1>2, <2>1
<1>5. sims = 0 /\ bestNode = 0 /\ guardUp \in BOOLEAN
  BY SearchAssumption DEF SearchInit
<1>6. TreeTypes
  BY <1>3, <1>4, <1>5, SearchAssumption DEF TreeTypes
<1>7. Kids(1) = {} /\ 1 .. Len(nodes) = {1} /\ 2 .. Len(nodes) = {}
  BY <1>3 DEF Kids
<1>8. Grown
  BY <1>3, <1>7 DEF Grown
<1>9. PathsClimb
  BY <1>3, <1>7 DEF PathsClimb
<1>10. ChildVisits(1) = 0
  <2>1. \A a \in Actions : Tried(1, a) = 0
    BY <1>6, <1>7, <1>8, TriedHere DEF TriedFacts
  <2> QED BY <2>1 DEF ChildVisits, Actions
<1>11. VisitsAdd
  BY <1>3, <1>5, <1>7, <1>10 DEF VisitsAdd
<1>12. AnswerCompares
  BY <1>5 DEF AnswerCompares
<1> QED BY <1>6, <1>8, <1>9, <1>11, <1>12 DEF TreeInv

LEMMA SimulateTree == ASSUME TreeInv, NEW n \in 1 .. Len(nodes), Simulate(n) PROVE TreeInv'
<1>1. TreeTypes /\ Grown /\ PathsClimb /\ VisitsAdd
  BY DEF TreeInv
<1>2. TriedFacts
  BY <1>1, TriedHere
<1>3. sims' \in 0 .. Budget /\ bestNode' = bestNode /\ bestNode = 0 /\ guardUp' = guardUp
  BY <1>1, SearchAssumption DEF Simulate, TreeTypes
<1>4. ASSUME NEW r, Counted(n, r) PROVE TreeTypes' /\ AnswerCompares'
  BY <1>1, <1>3, <1>4 DEF Counted, TreeTypes, AnswerCompares
<1>5. CASE Untried(n) = {}
  <2>1. PICK r \in 0 .. 10 : Counted(n, r) /\ Len(nodes') = Len(nodes)
    BY <1>1, <1>5, LeafStep
  <2>2. TreeTypes' /\ AnswerCompares'
    BY <1>4, <2>1
  <2>3. Grown'
    BY <1>1, <2>1, LeafGrown
  <2>4. PathsClimb'
    BY <1>1, <2>1, LeafClimbs
  <2>5. TriedFacts'
    BY <2>2, <2>3, TriedNext
  <2>6. VisitsAdd'
    BY <1>1, <1>2, <1>5, <2>1, <2>5, LeafVisits
  <2> QED BY <2>2, <2>3, <2>4, <2>6 DEF TreeInv
<1>6. CASE Untried(n) # {}
  <2>1. PICK r \in 0 .. 10, k \in Nat : Counted(n, r) /\ Added(n, k, r)
    BY <1>1, <1>6, ExpandStep
  <2>2. TreeTypes' /\ AnswerCompares'
    BY <1>4, <2>1
  <2>3. Grown'
    BY <1>1, <2>1, ExpandGrown
  <2>4. PathsClimb'
    BY <1>1, <2>1, ExpandClimbs
  <2>5. TriedFacts'
    BY <2>2, <2>3, TriedNext
  <2>6. VisitsAdd'
    BY <1>1, <1>2, <2>1, <2>5, ExpandVisits
  <2> QED BY <2>2, <2>3, <2>4, <2>6 DEF TreeInv
<1> QED BY <1>5, <1>6

\* With a visit for every move, the root has tried them all.
LEMMA AllTried == TreeInv /\ sims >= 3 => Untried(1) = {} /\ Kids(1) # {}
<1> SUFFICES ASSUME TreeInv, sims >= 3 PROVE Untried(1) = {} /\ Kids(1) # {}
  OBVIOUS
<1>1. TreeTypes /\ Grown /\ PathsClimb /\ VisitsAdd /\ TriedFacts /\ 1 \in 1 .. Len(nodes)
  BY TriedHere DEF TreeInv, TreeTypes
<1>2. Moves(1) # <<>>
  BY <1>1, MovesLand DEF Grown
<1>3. ChildVisits(1) = sims
  <2>1. nodes[1].visits = sims + 1 /\ nodes[1].visits = 1 + ChildVisits(1)
    BY <1>1, <1>2 DEF VisitsAdd
  <2>2. \A a \in Actions : Tried(1, a) \in Nat
    BY <1>1, TriedIsNat
  <2>3. ChildVisits(1) \in Nat /\ sims \in Nat
    BY <1>1, <2>2, SearchAssumption DEF ChildVisits, Actions, TreeTypes
  <2> QED BY <2>1, <2>3
<1>4. ASSUME Kids(1) = {} PROVE FALSE
  <2>1. \A a \in Actions : Tried(1, a) = 0
    BY <1>1, <1>4 DEF TriedFacts
  <2>2. ChildVisits(1) = 0
    BY <2>1 DEF ChildVisits, Actions
  <2> QED BY <1>3, <2>2
<1>5. ASSUME Untried(1) # {} PROVE FALSE
  <2>1. \A c \in Kids(1) : nodes[c].visits = 1
    BY <1>1, <1>5 DEF VisitsAdd
  <2>2. \A a \in Actions : Tried(1, a) \in 0 .. 1
    <3> SUFFICES ASSUME NEW a \in Actions PROVE Tried(1, a) \in 0 .. 1
      OBVIOUS
    <3>1. CASE \A c \in Kids(1) : nodes[c].action # a
      BY <1>1, <3>1 DEF TriedFacts
    <3>2. ASSUME NEW c \in Kids(1), nodes[c].action = a PROVE Tried(1, a) \in 0 .. 1
      BY <1>1, <2>1, <3>2 DEF TriedFacts
    <3> QED BY <3>1, <3>2
  <2>3. PICK u \in Untried(1) : TRUE
    BY <1>5
  <2>4. PICK b \in Actions : \A c \in Kids(1) : nodes[c].action # b
    BY <1>1, <2>3, UntriedIs
  <2>5. Tried(1, b) = 0
    BY <1>1, <2>4 DEF TriedFacts
  <2>6. Tried(1, "stay") = 0 \/ Tried(1, "expand") = 0 \/ Tried(1, "contract") = 0
    BY <2>4, <2>5 DEF Actions
  <2>7. Tried(1, "stay") \in 0 .. 1 /\ Tried(1, "expand") \in 0 .. 1 /\ Tried(1, "contract") \in 0 .. 1
    BY <2>2 DEF Actions
  <2>8. ChildVisits(1) <= 2
    BY <2>6, <2>7 DEF ChildVisits
  <2> QED BY <1>1, <1>3, <2>8 DEF TreeTypes
<1> QED BY <1>4, <1>5

\* The child with the most visits exists.
LEMMA RobustIs == ASSUME TreeInv, Kids(1) # {} PROVE Robust \in Kids(1)
<1> DEFINE S == {k \in Kids(1) : \A j \in Kids(1) : nodes[k].visits >= nodes[j].visits}
           V == {v \in Nat : \E k \in Kids(1) : v + nodes[k].visits = sims + 1}
<1>1. TreeTypes /\ Grown /\ PathsClimb /\ VisitsAdd /\ TriedFacts /\ 1 \in 1 .. Len(nodes) /\ sims \in Nat
  BY TriedHere, SearchAssumption DEF TreeInv, TreeTypes
<1>2. ASSUME NEW k \in Kids(1) PROVE nodes[k].visits \in Nat /\ nodes[k].visits <= sims
  <2>1. nodes[k].action \in Actions /\ Moves(1) # <<>> /\ k \in 1 .. Len(nodes)
    BY <1>1, KidsAre
  <2>2. nodes[1].visits = sims + 1 /\ nodes[1].visits = 1 + ChildVisits(1)
    BY <1>1, <2>1 DEF VisitsAdd
  <2>3. \A a \in Actions : Tried(1, a) \in Nat
    BY <1>1, TriedIsNat
  <2>4. Tried(1, nodes[k].action) = nodes[k].visits
    BY <1>1, <2>1 DEF TriedFacts
  <2>5. PICK x \in Nat, y \in Nat, z \in Nat :
           /\ x = Tried(1, "stay") /\ y = Tried(1, "expand") /\ z = Tried(1, "contract")
           /\ ChildVisits(1) = x + y + z
    BY <2>3 DEF ChildVisits, Actions
  <2>6. nodes[k].visits = x \/ nodes[k].visits = y \/ nodes[k].visits = z
    BY <2>1, <2>4, <2>5 DEF Actions
  <2>7. PICK v \in Nat : v = sims
    BY <1>1
  <2>8. x + y + z = v
    BY <2>2, <2>5, <2>7
  <2>9. x <= v /\ y <= v /\ z <= v
    BY <2>8
  <2> QED BY <2>6, <2>7, <2>9
<1>3. V # {} /\ V \subseteq Nat
  <2>1. PICK k \in Kids(1) : TRUE
    OBVIOUS
  <2>2. (sims + 1 - nodes[k].visits) \in Nat
        /\ (sims + 1 - nodes[k].visits) + nodes[k].visits = sims + 1
    BY <1>1, <1>2
  <2> QED BY <2>2
<1>4. PICK v \in V : \A w \in V : v <= w
  <2> HIDE DEF V
  <2> QED BY <1>3, LeastNat
<1>5. PICK k \in Kids(1) : v + nodes[k].visits = sims + 1
  OBVIOUS
<1>6. ASSUME NEW j \in Kids(1) PROVE nodes[k].visits >= nodes[j].visits
  <2>1. (sims + 1 - nodes[j].visits) \in Nat
        /\ (sims + 1 - nodes[j].visits) + nodes[j].visits = sims + 1
    BY <1>1, <1>2
  <2>2. v <= sims + 1 - nodes[j].visits
    BY <1>4, <2>1
  <2>3. v \in Nat /\ nodes[k].visits \in Nat /\ nodes[j].visits \in Nat
    BY <1>2
  <2>4. PICK x \in Nat, y \in Nat, z \in Nat :
           x = sims + 1 /\ y = nodes[k].visits /\ z = nodes[j].visits
    <3>1. sims + 1 \in Nat
      BY <1>1
    <3> QED BY <2>3, <3>1
  <2> HIDE DEF V, S
  <2>5. v + y = x
    BY <1>5, <2>4, Zenon
  <2>6. v <= x - z
    BY <1>1, <2>2, <2>3, <2>4
  <2>7. y >= z
    BY <2>3, <2>5, <2>6
  <2> QED BY <2>4, <2>7
<1>7. S # {} /\ S \subseteq Kids(1)
  BY <1>6
<1>8. Kids(1) \subseteq Nat
  BY <1>1, KidsAre
<1>9. Robust = Min(S)
  BY DEF Robust
<1> HIDE DEF S
<1> QED BY <1>7, <1>8, <1>9, MinIsIn

LEMMA SameTree ==
    ASSUME nodes' = nodes
    PROVE  \A m : /\ Kids(m)' = Kids(m) /\ Moves(m)' = Moves(m) /\ Untried(m)' = Untried(m)
                  /\ ChildVisits(m)' = ChildVisits(m)
<1> SUFFICES ASSUME NEW m
             PROVE  /\ Kids(m)' = Kids(m) /\ Moves(m)' = Moves(m) /\ Untried(m)' = Untried(m)
                    /\ ChildVisits(m)' = ChildVisits(m)
  OBVIOUS
<1>1. Kids(m)' = Kids(m) /\ Moves(m)' = Moves(m)
  BY DEF Kids, Moves
<1>2. Untried(m)' = Untried(m)
  BY <1>1 DEF Untried
<1>3. \A a : Tried(m, a)' = Tried(m, a)
  BY <1>1 DEF Tried
<1>4. ChildVisits(m)' = ChildVisits(m)
  BY <1>3 DEF ChildVisits
<1> QED BY <1>1, <1>2, <1>4

LEMMA ReturnsTree == ASSUME TreeInv, SearchReturns PROVE TreeInv'
<1>1. TreeTypes /\ Grown /\ PathsClimb /\ VisitsAdd /\ sims \in Nat /\ Budget \in Nat
  BY SearchAssumption DEF TreeInv, TreeTypes
<1>2. nodes' = nodes /\ guardUp' = guardUp /\ sims' = sims /\ sims = Budget /\ bestNode' = Robust
  BY DEF SearchReturns
<1>3. Robust \in 1 .. Len(nodes)
  <2>1. CASE Kids(1) = {}
    BY <1>1, <2>1 DEF Robust, TreeTypes
  <2>2. CASE Kids(1) # {}
    BY <1>1, <2>2, RobustIs DEF Kids, TreeTypes
  <2> QED BY <2>1, <2>2
<1>4. Budget >= 3 => nodes[Robust].parent = 1 /\ Untried(1) = {}
  <2> SUFFICES ASSUME Budget >= 3 PROVE nodes[Robust].parent = 1 /\ Untried(1) = {}
    OBVIOUS
  <2>1. Untried(1) = {} /\ Kids(1) # {}
    BY <1>2, AllTried
  <2>2. Robust \in Kids(1)
    BY <2>1, RobustIs
  <2> QED BY <2>1, <2>2 DEF Kids
<1>5. TreeTypes'
  BY <1>1, <1>2, <1>3 DEF TreeTypes
<1>6. Grown' /\ PathsClimb'
  BY <1>1, <1>2 DEF Grown, PathsClimb, Moves
<1>7. VisitsAdd'
  BY <1>1, <1>2, SameTree DEF VisitsAdd
<1>8. AnswerCompares'
  BY <1>2, <1>3, <1>4 DEF AnswerCompares, Untried, Moves, Kids
<1> QED BY <1>5, <1>6, <1>7, <1>8 DEF TreeInv

LEMMA NextTree == TreeInv /\ [SearchNext]_searchVars => TreeInv'
<1> SUFFICES ASSUME TreeInv, [SearchNext]_searchVars PROVE TreeInv'
  OBVIOUS
<1>1. ASSUME NEW n \in DOMAIN nodes, Simulate(n) PROVE TreeInv'
  <2>1. n \in 1 .. Len(nodes)
    BY DEF TreeInv, TreeTypes
  <2> QED BY <1>1, <2>1, SimulateTree
<1>2. CASE SearchReturns
  BY <1>2, ReturnsTree
<1>3. CASE UNCHANGED searchVars
  <2>1. nodes' = nodes /\ guardUp' = guardUp /\ sims' = sims /\ bestNode' = bestNode
    BY <1>3 DEF searchVars
  <2>2. TreeTypes'
    BY <2>1 DEF TreeInv, TreeTypes
  <2>3. Grown' /\ PathsClimb'
    BY <2>1 DEF TreeInv, Grown, PathsClimb, Moves
  <2>4. VisitsAdd'
    BY <2>1, SameTree DEF TreeInv, VisitsAdd
  <2>5. AnswerCompares'
    BY <2>1 DEF TreeInv, AnswerCompares, Untried, Moves, Kids
  <2> QED BY <2>2, <2>3, <2>4, <2>5 DEF TreeInv
<1> QED BY <1>1, <1>2, <1>3 DEF SearchNext

\* The search for a level alone: for any budget and whether or not the memory
\* trips the guard, its counts and its answer are sound (scope/mcts.go).
THEOREM SearchAlwaysSound == SearchSpec => [](SearchSound /\ SearchTypeOK)
<1>1. TreeInv => SearchSound /\ SearchTypeOK
  BY TreeIsSound
<1> QED BY <1>1, InitTree, NextTree, PTL DEF SearchSpec
=============================================================================
