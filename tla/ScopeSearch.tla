---------------------------- MODULE ScopeSearch ----------------------------
(***************************************************************************)
(* The tree search over scope levels (internal/scope/mcts.go): one         *)
(* simulation per step - selection, expansion, rollout, backpropagation -  *)
(* up to the budget, then the robust child of the root.                    *)
(*                                                                         *)
(* The UCB1 score is abstracted: a node whose moves are all tried passes   *)
(* the simulation to any of its children.  Rewards are in tenths.          *)
(***************************************************************************)
EXTENDS Naturals, Sequences, FiniteSetsExt

CONSTANTS Budget, Guarded \* rollouts; whether the wired memory's loop guard trips
ASSUME SearchAssumption == Budget \in Nat /\ Guarded \subseteq BOOLEAN

VARIABLES
    nodes,    \* nodes in creation order: level, parent (0: none), action, path, visits, reward
    guardUp, \* LoopGuard of the memory
    sims,    \* simulations run
    bestNode \* the node Search returned, 0 before

searchVars == <<nodes, guardUp, sims, bestNode>>

\* The path is what following Parent to the root visits, the node included.
Node(l, p, a, path) ==
    [level |-> l, parent |-> p, action |-> a, path |-> path, visits |-> 0, reward |-> 0]

SearchInit ==
    /\ \E l \in 0 .. 5 : nodes = <<[Node(l, 0, "none", {1}) EXCEPT !.visits = 1]>>
    /\ guardUp \in Guarded
    /\ sims = 0 /\ bestNode = 0

Kids(n) == {k \in DOMAIN nodes : nodes[k].parent = n}

\* applyAction: up the ladder by one or two, stopping at the task.
Reached(l, a) ==
    CASE a = "stay" -> l
      [] a = "expand" -> IF l = 0 THEN 0 ELSE l - 1
      [] a = "contract" -> IF l < 2 THEN 0 ELSE l - 2

\* candidateActions: every move lands on a level of its own.
Candidates(l) ==
    <<"stay">> \o (IF l >= 1 THEN <<"expand">> ELSE <<>>) \o (IF l >= 2 THEN <<"contract">> ELSE <<>>)

\* actionsFor: a node at the level of its parent is a leaf.
Moves(n) ==
    IF nodes[n].parent # 0 /\ nodes[n].level = nodes[nodes[n].parent].level THEN <<>>
    ELSE Candidates(nodes[n].level)

\* hasUntried: the places in actionsFor without a child.
Untried(n) == {i \in DOMAIN Moves(n) : \A k \in Kids(n) : nodes[k].action # Moves(n)[i]}

\* selectNode: down through nodes whose moves are all tried, to one with a move
\* left or to a leaf.
Selectable(n) ==
    /\ Untried(n) # {} \/ Kids(n) = {}
    /\ \A m \in nodes[n].path \ {n} : Untried(m) = {}

\* defaultRollout, with levelBonus.
Rollout(l) ==
    CASE guardUp -> 0
      [] ~ guardUp /\ l = 5 -> 10
      [] ~ guardUp /\ l \in {3, 4} -> 6
      [] OTHER -> 5

Backprop(t, path, reward) ==
    [i \in DOMAIN t |-> IF i \in path THEN [t[i] EXCEPT !.visits = @ + 1, !.reward = @ + reward] ELSE t[i]]

\* expand: the first move not yet tried.
Child(n) ==
    LET a == Moves(n)[Min(Untried(n))]
    IN  Node(Reached(nodes[n].level, a), n, a, nodes[n].path \union {Len(nodes) + 1})

Simulate(n) ==
    /\ sims < Budget /\ Selectable(n)
    /\ sims' = sims + 1
    /\ nodes' = IF Untried(n) # {}
                THEN Backprop(Append(nodes, Child(n)), Child(n).path, Rollout(Child(n).level))
                ELSE Backprop(nodes, nodes[n].path, Rollout(nodes[n].level))
    /\ UNCHANGED <<guardUp, bestNode>>

\* The child of the root with the most visits, the first of them; the root when
\* it has none.
Robust ==
    IF Kids(1) = {} THEN 1
    ELSE Min({k \in Kids(1) : \A j \in Kids(1) : nodes[k].visits >= nodes[j].visits})

SearchReturns ==
    /\ sims = Budget /\ bestNode = 0
    /\ bestNode' = Robust
    /\ UNCHANGED <<nodes, guardUp, sims>>

SearchNext == (\E n \in DOMAIN nodes : Simulate(n)) \/ SearchReturns

SearchSpec == SearchInit /\ [][SearchNext]_searchVars

-----------------------------------------------------------------------------
\* Properties

SearchTypeOK == sims \in 0 .. Budget /\ bestNode \in 0 .. Len(nodes) /\ \A n \in DOMAIN nodes : nodes[n].level \in 0 .. 5

\* The visits of the child an action made, none without one.
Tried(n, a) ==
    LET k == {j \in Kids(n) : nodes[j].action = a} IN IF k = {} THEN 0 ELSE nodes[Min(k)].visits
ChildVisits(n) == Tried(n, "stay") + Tried(n, "expand") + Tried(n, "contract")

\* Every simulation is counted on the whole path and nowhere else; a node is
\* entered once for itself and then for its children; siblings are on levels of
\* their own; and no child is entered a second time while a sibling is untried,
\* so with a budget for all of them the answer compares every move.
SearchSound ==
    /\ nodes[1].visits = sims + 1
    /\ \A n \in DOMAIN nodes :
          /\ Moves(n) # <<>> => nodes[n].visits = 1 + ChildVisits(n)
          /\ Moves(n) = <<>> => Kids(n) = {}
          /\ nodes[n].reward <= 10 * nodes[n].visits
          /\ Untried(n) # {} => \A k \in Kids(n) : nodes[k].visits = 1
          /\ \A j, k \in Kids(n) : j # k => nodes[j].level # nodes[k].level
    /\ bestNode # 0 /\ Budget >= 3 => nodes[bestNode].parent = 1 /\ Untried(1) = {}
=============================================================================
