------------------------- MODULE OrchestratorProofs -------------------------
(***************************************************************************)
(* Proofs about Orchestrator, for any plan, bounds and failures.           *)
(*                                                                         *)
(* The invariant follows the baton of a todo: the turn at work on it, or   *)
(* the event with which that turn handed over.  There is never more than   *)
(* one, which is what bounds the rework and keeps the verdict and the test *)
(* about the diff that is kept.  Where no turn fails after its event, a    *)
(* failure on its way to the loop is a baton too (Punctual): then a todo   *)
(* gets one outcome, and the run implements the board.  Elsewhere it may   *)
(* not (run resurrected).                                                  *)
(***************************************************************************)
EXTENDS Orchestrator, SequenceTheorems, FiniteSetTheorems, WellFoundedInduction, TLAPS

Vers == 1..(MaxRework + 1)

\* A turn fails only before its event: no deadline, and no error after it.
Punctual == Capped = {} /\ ~LateErrors

\* Turns: only a coder's is assigned, and an unlimited one does not expire.
TurnFields == [role : Roles, ver : Vers, ctx : {"live", "canceled", "expired"},
               pc : {"assign", "run", "published", "wait", "send"},
               spoke : BOOLEAN, timeout : BOOLEAN]
TurnRecs == {turn \in TurnFields :
                /\ turn.pc = "assign" => turn.role = "coder"
                /\ Punctual => turn.ctx # "expired"}

\* Events: those of an agent are about a todo of the plan.
EventFields == [kind : {"plan", "assign", "code", "verdict", "report"}, todo : Nat,
                ver : Nat, ok : BOOLEAN]
EventRecs == {e \in EventFields :
                e.kind \in {"code", "verdict", "report"} => e.todo \in Todos}
Statuses == {"Pending", "InProgress"} \union Outcomes

\* A turn that will hand over, and an event with which one has.
Live(turn) == turn.pc \in {"assign", "run"} \/ (Punctual /\ turn.pc = "send")
HandsOver(e, t) == e.kind \in {"code", "verdict", "report"} /\ e.todo = t

\* The todo may still be worked on.
Open(st, cy) ==
    /\ st \notin {"Pending", "Done"} /\ (Punctual => st = "InProgress")
    /\ cy <= MaxRework

\* Nothing is under way for the todo t: neither among its turns ts nor in the
\* queue q.
Resting(t, ts, q) ==
    /\ \A i \in DOMAIN ts : ~Live(ts[i])
    /\ \A n \in DOMAIN q : ~HandsOver(q[n], t)

\* One baton: its turns ts and the queue q hold at most one between them, and
\* a review or a test is about the diff that is kept, df, a test about the
\* diff that was approved, ap.
OneBaton(t, ts, q, st, cy, df, ap) ==
    /\ \A i, j \in DOMAIN ts : Live(ts[i]) /\ Live(ts[j]) => i = j
    /\ \A m, n \in DOMAIN q : HandsOver(q[m], t) /\ HandsOver(q[n], t) => m = n
    /\ \A i \in DOMAIN ts : Live(ts[i]) =>
          /\ Open(st, cy) /\ \A n \in DOMAIN q : ~HandsOver(q[n], t)
          /\ ts[i].role = "reviewer" => df = ts[i].ver
          /\ ts[i].role = "tester" => df = ts[i].ver /\ ap = ts[i].ver
    /\ \A n \in DOMAIN q : HandsOver(q[n], t) =>
          /\ Open(st, cy) /\ q[n].ver \in Vers
          /\ q[n].kind = "verdict" => df = q[n].ver
          /\ q[n].kind = "report" => df = q[n].ver /\ ap = q[n].ver
    /\ st = "Pending" => cy = 0

Batons ==
    pc = "loop" => \A t \in Todos :
        OneBaton(t, turns[t], queue, status[t], cycles[t], diffs[t], approved[t])

Typed ==
    /\ TypeOK /\ turns \in [Todos -> Seq(TurnRecs)] /\ queue \in Seq(EventRecs)
    /\ approved \in [Todos -> Nat] /\ tested \in [Todos -> Nat]
    /\ \A t \in Todos : status[t] = "InProgress" => t \in inflight

\* How far the run has got.
Staged ==
    /\ pc = "plan" => /\ \A t \in Todos : turns[t] = <<>> /\ cycles[t] = 0
                      /\ queue = <<>> /\ inflight = {}
    /\ pc = "plan" \/ (pc = "returned" /\ reason = "none") =>
          \A t \in Todos : status[t] = "Pending"
    /\ pc = "returned" /\ reason = "none" => errs /\ report = "none"
    /\ pc \in {"plan", "loop"} => reason = "none" /\ report = "none"
    /\ pc = "quiesce" => reason # "none" /\ report = "none"
    /\ reason # "none" => AllDone /\ pc \in {"quiesce", "returned"}
    /\ reason = "busclosed" => closed
    /\ report = "done" => reason = "complete" /\ FailedTodos = {}

Earned ==
    \A t \in Todos : status[t] = "Done" =>
        diffs[t] # 0 /\ approved[t] = diffs[t] /\ tested[t] = diffs[t]

\* A todo in progress has a turn that was not cancelled.
Watched ==
    pc = "loop" /\ ~canceled => \A t \in Todos : status[t] = "InProgress" =>
        \E i \in DOMAIN turns[t] : turns[t][i].ctx # "canceled"

RunInv == Typed /\ Staged /\ Batons /\ Earned /\ Watched /\ NilMeansGreen

\* What the loop's handlers may disturb of it.
Kept ==
    /\ status \in [Todos -> Statuses] /\ turns \in [Todos -> Seq(TurnRecs)]
    /\ cycles \in [Todos -> 0..(MaxRework + 1)]
    /\ inflight \subseteq Todos /\ Cardinality(inflight) <= Bound
    /\ \A t \in Todos : status[t] = "InProgress" => t \in inflight
    /\ Batons /\ Watched /\ Earned

-----------------------------------------------------------------------------
(* The sequences of turns.                                                 *)

\* Removing a turn keeps the others, in their order.
LEMMA RemoveAtFacts ==
  ASSUME NEW S, NEW s \in Seq(S), NEW i \in DOMAIN s
  PROVE  /\ RemoveAt(s, i) \in Seq(S)
         /\ DOMAIN RemoveAt(s, i) = 1..(Len(s) - 1)
         /\ \A j \in 1..(Len(s) - 1) : RemoveAt(s, i)[j] = IF j < i THEN s[j] ELSE s[j + 1]
<1> DEFINE a == SubSeq(s, 1, i - 1)
           b == SubSeq(s, i + 1, Len(s))
<1>1. Len(s) \in Nat /\ DOMAIN s = 1..Len(s) /\ i \in 1..Len(s)
  BY LenProperties
<1>2. a \in Seq(S) /\ Len(a) = i - 1 /\ \A j \in 1..(i - 1) : a[j] = s[j]
  <2>1. \A j \in 1..(i - 1) : s[j] \in S
    BY <1>1, ElementOfSeq
  <2> QED BY <1>1, <2>1, SubSeqProperties
<1>3. b \in Seq(S) /\ Len(b) = Len(s) - i /\ \A j \in 1..(Len(s) - i) : b[j] = s[i + j]
  <2>1. \A j \in (i + 1)..Len(s) : s[j] \in S
    BY <1>1, ElementOfSeq
  <2> QED BY <1>1, <2>1, SubSeqProperties
<1>4. RemoveAt(s, i) = a \o b
  BY DEF RemoveAt
<1> HIDE DEF a, b
<1>5. /\ a \o b \in Seq(S) /\ Len(a \o b) = Len(a) + Len(b)
      /\ \A j \in 1..(Len(a) + Len(b)) : (a \o b)[j] = IF j <= Len(a) THEN a[j] ELSE b[j - Len(a)]
  BY <1>2, <1>3, ConcatProperties
<1>6. Len(a) + Len(b) = Len(s) - 1
  BY <1>1, <1>2, <1>3
<1>7. ASSUME NEW j \in 1..(Len(s) - 1)
      PROVE  RemoveAt(s, i)[j] = IF j < i THEN s[j] ELSE s[j + 1]
  <2>1. CASE j < i
    BY <1>1, <1>2, <1>4, <1>5, <1>6, <2>1
  <2>2. CASE ~(j < i)
    <3>1. /\ j - Len(a) \in 1..(Len(s) - i) /\ i + (j - Len(a)) = j + 1 /\ ~(j <= Len(a))
          /\ j \in 1..(Len(a) + Len(b))
      BY <1>1, <1>2, <1>6, <2>2
    <3>2. (a \o b)[j] = b[j - Len(a)] /\ b[j - Len(a)] = s[i + (j - Len(a))]
      BY <1>3, <1>5, <3>1
    <3> QED BY <1>4, <2>2, <3>1, <3>2
  <2> QED BY <2>1, <2>2
<1>8. DOMAIN (a \o b) = 1..(Len(s) - 1)
  BY <1>5, <1>6, LenProperties
<1> QED BY <1>4, <1>5, <1>7, <1>8

\* Cancelling the turns changes their contexts only.
LEMMA DisarmFacts ==
  ASSUME NEW ts \in Seq(TurnRecs)
  PROVE  /\ Disarm(ts) \in Seq(TurnRecs) /\ DOMAIN Disarm(ts) = DOMAIN ts
         /\ Len(Disarm(ts)) = Len(ts)
         /\ \A i \in DOMAIN ts :
              /\ Disarm(ts)[i] \in TurnRecs
              /\ Disarm(ts)[i].pc = ts[i].pc /\ Disarm(ts)[i].role = ts[i].role
              /\ Disarm(ts)[i].ver = ts[i].ver
              /\ Disarm(ts)[i].ctx = IF ts[i].ctx = "live" THEN "canceled" ELSE ts[i].ctx
<1>1. Len(ts) \in Nat /\ DOMAIN ts = 1..Len(ts)
  BY LenProperties
<1>2. ASSUME NEW i \in DOMAIN ts PROVE Disarm(ts)[i] \in TurnRecs
  <2>1. ts[i] \in TurnRecs
    BY <1>1, <1>2, ElementOfSeq
  <2> QED BY <2>1 DEF Disarm, TurnRecs, TurnFields
<1>3. Disarm(ts) \in Seq(TurnRecs) /\ Len(Disarm(ts)) = Len(ts)
  BY <1>1, <1>2, IsASeq DEF Disarm
<1>4. ASSUME NEW i \in DOMAIN ts
      PROVE  /\ Disarm(ts)[i].pc = ts[i].pc /\ Disarm(ts)[i].role = ts[i].role
             /\ Disarm(ts)[i].ver = ts[i].ver
             /\ Disarm(ts)[i].ctx = IF ts[i].ctx = "live" THEN "canceled" ELSE ts[i].ctx
  <2>1. ts[i] \in TurnRecs
    BY <1>1, <1>4, ElementOfSeq
  <2> QED BY <2>1 DEF Disarm, TurnRecs, TurnFields
<1>5. DOMAIN Disarm(ts) = DOMAIN ts
  BY DEF Disarm
<1> QED BY <1>2, <1>3, <1>4, <1>5

\* Arming a turn cancels the others and adds it at the end.
LEMMA ArmedFacts ==
  ASSUME NEW ts \in Seq(TurnRecs), NEW turn \in TurnRecs
  PROVE  /\ Armed(ts, turn) \in Seq(TurnRecs) /\ Len(ts) \in Nat
         /\ DOMAIN ts = 1..Len(ts) /\ DOMAIN Armed(ts, turn) = 1..(Len(ts) + 1)
         /\ Armed(ts, turn)[Len(ts) + 1] = turn
         /\ \A i \in 1..Len(ts) : Armed(ts, turn)[i] = Disarm(ts)[i]
<1>1. Disarm(ts) \in Seq(TurnRecs) /\ Len(Disarm(ts)) = Len(ts)
  BY DisarmFacts
<1> QED BY <1>1, LenProperties, AppendProperties DEF Armed

-----------------------------------------------------------------------------
(* The bound on the todos in progress.                                     *)

\* A set of todos that is not empty has a last one.
LEMMA LastTodo ==
  ASSUME NEW W \in SUBSET Todos, W # {}
  PROVE  \E t \in W : \A u \in W : u <= t
<1> DEFINE T == {MaxTodo - t : t \in W}
<1>1. MaxTodo \in Nat /\ \A t \in W : t \in 1..MaxTodo
  BY OrchestratorAssumption DEF Todos
<1>2. T \subseteq Nat /\ T # {}
  BY <1>1
<1>3. PICK x \in T : \A y \in T : <<y, x>> \notin OpToRel(<, Nat)
  <2> HIDE DEF T
  <2> QED BY <1>2, WFMin, NatLessThanWellFounded
<1>4. \A y \in T : ~(y < x)
  BY <1>2, <1>3 DEF OpToRel
<1>5. PICK t \in W : x = MaxTodo - t
  OBVIOUS
<1>6. ASSUME NEW u \in W PROVE u <= t
  <2>1. ~(MaxTodo - u < MaxTodo - t)
    BY <1>4, <1>5
  <2> QED BY <1>1, <2>1
<1> QED BY <1>6

\* The wave that is dispatched fits in the slots that are free.
LEMMA WaveFits ==
  ASSUME NEW st, NEW inf \in SUBSET Todos, Cardinality(inf) <= Bound
  PROVE  Cardinality(inf \union Wave(st, inf)) <= Bound
<1> DEFINE Ready == {t \in Todos : st[t] = "Pending" /\ t \notin inf /\ DepsMet(st, t)}
           W == Wave(st, inf)
<1>1. IsFiniteSet(Todos) /\ Bound \in Nat
  BY FS_Interval, OrchestratorAssumption DEF Todos
<1>2. W \subseteq Ready /\ Ready \subseteq Todos /\ W \intersect inf = {}
      /\ \A t \in W : Cardinality({u \in Ready : u < t}) + Cardinality(inf) < Bound
  BY DEF Wave
<1> HIDE DEF Ready, W
<1>3. IsFiniteSet(W) /\ IsFiniteSet(inf) /\ Cardinality(W) \in Nat /\ Cardinality(inf) \in Nat
  BY <1>1, <1>2, FS_Subset, FS_CardinalityType
<1>4. Cardinality(W) + Cardinality(inf) <= Bound
  <2>1. CASE W = {}
    BY <1>1, <1>3, <2>1, FS_EmptySet
  <2>2. CASE W # {}
    <3>1. PICK t \in W : \A u \in W : u <= t
      BY <1>2, <2>2, LastTodo
    <3> DEFINE B == {u \in Ready : u < t}
    <3>2. W \subseteq B \union {t}
      BY <1>2, <3>1, OrchestratorAssumption DEF Todos
    <3>3. IsFiniteSet(B) /\ t \notin B
      <4>1. B \in SUBSET Todos
        BY <1>2
      <4>2. ~(t < t)
        BY <1>2, OrchestratorAssumption DEF Todos
      <4> HIDE DEF Todos
      <4> QED BY <1>1, <4>1, <4>2, FS_Subset
    <3>4. IsFiniteSet(B \union {t}) /\ Cardinality(B \union {t}) = Cardinality(B) + 1
          /\ Cardinality(B) \in Nat
      BY <3>3, FS_AddElement, FS_CardinalityType
    <3>5. Cardinality(W) <= Cardinality(B) + 1
      BY <3>2, <3>4, FS_Subset
    <3>6. Cardinality(B) + Cardinality(inf) < Bound
      BY <1>2
    <3> QED BY <1>1, <1>3, <3>4, <3>5, <3>6
  <2> QED BY <2>1, <2>2
<1>5. Cardinality(inf \union W) = Cardinality(inf) + Cardinality(W) - Cardinality(inf \intersect W)
  BY <1>3, FS_Union
<1>6. Cardinality(inf \intersect W) = 0
  BY <1>2, FS_EmptySet
<1> QED BY <1>1, <1>3, <1>4, <1>5, <1>6 DEF W

-----------------------------------------------------------------------------
(* The baton, operation by operation.                                      *)

\* A turn changes: it may lay the baton down, not pick it up.
LEMMA BatonFades ==
  ASSUME NEW t, NEW q, NEW st, NEW cy, NEW df, NEW ap,
         NEW ts \in Seq(TurnRecs), NEW i \in DOMAIN ts, NEW turn \in TurnRecs,
         Live(turn) => Live(ts[i]), turn.role = ts[i].role, turn.ver = ts[i].ver,
         OneBaton(t, ts, q, st, cy, df, ap)
  PROVE  OneBaton(t, [ts EXCEPT ![i] = turn], q, st, cy, df, ap)
<1> DEFINE new == [ts EXCEPT ![i] = turn]
<1>1. /\ DOMAIN new = DOMAIN ts
      /\ \A j \in DOMAIN ts : /\ Live(new[j]) => Live(ts[j])
                              /\ new[j].role = ts[j].role /\ new[j].ver = ts[j].ver
  OBVIOUS
<1> HIDE DEF new
<1> SUFFICES OneBaton(t, new, q, st, cy, df, ap)
  BY DEF new
<1> QED BY <1>1 DEF OneBaton

\* The turns of a todo are cancelled.
LEMMA BatonDisarmed ==
  ASSUME NEW t, NEW q, NEW st, NEW cy, NEW df, NEW ap, NEW ts \in Seq(TurnRecs),
         OneBaton(t, ts, q, st, cy, df, ap)
  PROVE  OneBaton(t, Disarm(ts), q, st, cy, df, ap)
<1> DEFINE new == Disarm(ts)
<1>1. /\ DOMAIN new = DOMAIN ts
      /\ \A j \in DOMAIN ts : /\ Live(new[j]) <=> Live(ts[j])
                              /\ new[j].role = ts[j].role /\ new[j].ver = ts[j].ver
  BY DisarmFacts DEF Live
<1> HIDE DEF new
<1> SUFFICES OneBaton(t, new, q, st, cy, df, ap)
  BY DEF new
<1> QED BY <1>1 DEF OneBaton

\* A turn ends; if it held the baton, nothing is under way any more.
LEMMA BatonRemoved ==
  ASSUME NEW t, NEW q, NEW st, NEW cy, NEW df, NEW ap,
         NEW ts \in Seq(TurnRecs), NEW i \in DOMAIN ts,
         OneBaton(t, ts, q, st, cy, df, ap)
  PROVE  /\ OneBaton(t, RemoveAt(ts, i), q, st, cy, df, ap)
         /\ Live(ts[i]) => Resting(t, RemoveAt(ts, i), q)
<1> DEFINE new == RemoveAt(ts, i)
           Old(j) == IF j < i THEN j ELSE j + 1
<1>1. Len(ts) \in Nat /\ DOMAIN ts = 1..Len(ts)
  BY LenProperties
<1>2. DOMAIN new = 1..(Len(ts) - 1) /\ \A j \in DOMAIN new : new[j] = ts[Old(j)]
  BY RemoveAtFacts
<1>3. \A j \in DOMAIN new : Old(j) \in DOMAIN ts /\ Old(j) # i
  BY <1>1, <1>2
<1>4. \A j, k \in DOMAIN new : Old(j) = Old(k) => j = k
  BY <1>1, <1>2
<1> HIDE DEF new, Old
<1>5. OneBaton(t, new, q, st, cy, df, ap)
  BY <1>2, <1>3, <1>4 DEF OneBaton
<1>6. Live(ts[i]) => Resting(t, new, q)
  BY <1>2, <1>3 DEF OneBaton, Resting
<1> QED BY <1>5, <1>6 DEF new

\* An event is taken from the queue; if it handed over, nothing is under way
\* until the loop arms the next turn.
LEMMA BatonTaken ==
  ASSUME NEW t, NEW st, NEW cy, NEW df, NEW ap,
         NEW ts \in Seq(TurnRecs), NEW q \in Seq(EventRecs), q # <<>>,
         OneBaton(t, ts, q, st, cy, df, ap)
  PROVE  /\ OneBaton(t, ts, Tail(q), st, cy, df, ap)
         /\ HandsOver(Head(q), t) =>
              /\ Resting(t, ts, Tail(q)) /\ Open(st, cy) /\ Head(q).ver \in Vers
              /\ Head(q).kind = "verdict" => df = Head(q).ver
              /\ Head(q).kind = "report" => df = Head(q).ver /\ ap = Head(q).ver
<1> DEFINE new == Tail(q)
<1>1. Len(q) \in Nat \ {0} /\ DOMAIN q = 1..Len(q) /\ Head(q) = q[1]
  BY LenProperties, EmptySeq
<1>2. DOMAIN new = 1..(Len(q) - 1) /\ \A n \in DOMAIN new : new[n] = q[n + 1]
  BY HeadTailProperties, LenProperties
<1>3. 1 \in DOMAIN q /\ \A n \in DOMAIN new : n + 1 \in DOMAIN q /\ n + 1 # 1
  BY <1>1, <1>2
<1>4. \A m, n \in DOMAIN new : m + 1 = n + 1 => m = n
  BY <1>1, <1>2
<1> HIDE DEF new
<1>5. OneBaton(t, ts, new, st, cy, df, ap)
  BY <1>2, <1>3, <1>4 DEF OneBaton
<1>6. HandsOver(q[1], t) => Resting(t, ts, new)
  BY <1>2, <1>3 DEF OneBaton, Resting
<1>7. HandsOver(q[1], t) =>
              /\ Open(st, cy) /\ q[1].ver \in Vers
              /\ q[1].kind = "verdict" => df = q[1].ver
              /\ q[1].kind = "report" => df = q[1].ver /\ ap = q[1].ver
  BY <1>3 DEF OneBaton
<1> QED BY <1>1, <1>5, <1>6, <1>7 DEF new

\* A todo at rest takes the baton up with its next turn.
LEMMA BatonArmed ==
  ASSUME NEW t, NEW q, NEW st, NEW cy, NEW df, NEW ap,
         NEW ts \in Seq(TurnRecs), NEW turn \in TurnRecs,
         Resting(t, ts, q), Open(st, cy),
         turn.role = "reviewer" => df = turn.ver,
         turn.role = "tester" => df = turn.ver /\ ap = turn.ver
  PROVE  OneBaton(t, Armed(ts, turn), q, st, cy, df, ap)
<1> DEFINE new == Armed(ts, turn)
           last == Len(ts) + 1
<1>1. /\ DOMAIN new = 1..last /\ new[last] = turn
      /\ \A j \in DOMAIN new : j # last => ~Live(new[j])
  <2>1. /\ DOMAIN new = 1..last /\ new[last] = turn /\ Len(ts) \in Nat
        /\ DOMAIN ts = 1..Len(ts) /\ \A j \in 1..Len(ts) : new[j] = Disarm(ts)[j]
    BY ArmedFacts
  <2>2. \A j \in DOMAIN ts : ~Live(Disarm(ts)[j])
    BY DisarmFacts DEF Resting, Live
  <2> QED BY <2>1, <2>2
<1> HIDE DEF new, last
<1>2. st # "Pending"
  BY DEF Open
<1>3. OneBaton(t, new, q, st, cy, df, ap)
  BY <1>1, <1>2 DEF OneBaton, Resting
<1> QED BY <1>3 DEF new

\* A todo at rest has no baton, and may stay so.
LEMMA BatonResting ==
  ASSUME NEW t, NEW q, NEW st, NEW cy, NEW df, NEW ap, NEW ts,
         Resting(t, ts, q), st # "Pending"
  PROVE  OneBaton(t, ts, q, st, cy, df, ap)
BY DEF OneBaton, Resting

\* An event joins the queue: of another todo, or one that hands nothing over.
LEMMA BatonPassedBy ==
  ASSUME NEW t, NEW st, NEW cy, NEW df, NEW ap, NEW ts,
         NEW q \in Seq(EventRecs), NEW e \in EventRecs, ~HandsOver(e, t),
         OneBaton(t, ts, q, st, cy, df, ap)
  PROVE  OneBaton(t, ts, Append(q, e), st, cy, df, ap)
<1> DEFINE new == Append(q, e)
<1>1. /\ Len(q) \in Nat /\ DOMAIN q = 1..Len(q) /\ DOMAIN new = 1..(Len(q) + 1)
      /\ \A n \in 1..Len(q) : new[n] = q[n]
      /\ new[Len(q) + 1] = e
  BY LenProperties, AppendProperties
<1>2. \A n \in DOMAIN new : HandsOver(new[n], t) => n \in DOMAIN q /\ new[n] = q[n]
  BY <1>1
<1> HIDE DEF new
<1>3. OneBaton(t, ts, new, st, cy, df, ap)
  BY <1>2 DEF OneBaton
<1> QED BY <1>3 DEF new

\* The turn that holds the baton hands over: it lays it down, its event
\* takes it along.
LEMMA BatonHandedOver ==
  ASSUME NEW t, NEW st, NEW cy, NEW df, NEW ap,
         NEW ts \in Seq(TurnRecs), NEW i \in DOMAIN ts, NEW turn \in TurnRecs,
         NEW q \in Seq(EventRecs), NEW e \in EventRecs,
         Live(ts[i]), ~Live(turn), HandsOver(e, t), e.ver = ts[i].ver,
         e.kind = "verdict" => ts[i].role = "reviewer",
         e.kind = "report" => ts[i].role = "tester",
         OneBaton(t, ts, q, st, cy, df, ap)
  PROVE  OneBaton(t, [ts EXCEPT ![i] = turn], Append(q, e), st, cy, df, ap)
<1> DEFINE new == Append(q, e)
           after == [ts EXCEPT ![i] = turn]
           last == Len(q) + 1
<1>1. /\ DOMAIN new = 1..last /\ new[last] = e
      /\ \A n \in DOMAIN new : n # last => n \in DOMAIN q /\ new[n] = q[n]
  BY LenProperties, AppendProperties
<1>2. \A n \in DOMAIN new : HandsOver(new[n], t) => n = last
  BY <1>1 DEF OneBaton
<1>3. DOMAIN after = DOMAIN ts /\ \A j \in DOMAIN after : ~Live(after[j])
  <2>1. \A j \in DOMAIN ts : j # i => ~Live(ts[j])
    BY DEF OneBaton
  <2> QED BY <2>1
<1>4. /\ Open(st, cy) /\ (st = "Pending" => cy = 0) /\ e.ver \in Vers
      /\ e.kind = "verdict" => df = e.ver
      /\ e.kind = "report" => df = e.ver /\ ap = e.ver
  <2>1. ts[i] \in TurnRecs
    BY LenProperties, ElementOfSeq
  <2>2. ts[i].ver \in Vers
    BY <2>1 DEF TurnRecs, TurnFields
  <2> QED BY <2>2 DEF OneBaton
<1> HIDE DEF new, after, last
<1>5. OneBaton(t, after, new, st, cy, df, ap)
  BY <1>1, <1>2, <1>3, <1>4 DEF OneBaton
<1> QED BY <1>5 DEF new, after

-----------------------------------------------------------------------------
(* A dispatch.                                                             *)

\* A turn that is armed is a turn.
LEMMA TurnType ==
  ASSUME NEW role \in Roles, NEW v \in Vers
  PROVE  /\ Turn(role, v) \in TurnRecs /\ Turn(role, v).role = role /\ Turn(role, v).ver = v
         /\ ~canceled => Turn(role, v).ctx = "live"
BY DEF Turn, TurnRecs, TurnFields, Roles

\* A todo of the wave was pending with its dependencies met, and starts with
\* its first coder; the others stay.
LEMMA DispatchFacts ==
  ASSUME NEW st \in [Todos -> Statuses], NEW inf \in SUBSET Todos, Cardinality(inf) <= Bound,
         NEW ts \in [Todos -> Seq(TurnRecs)], Dispatch(st, inf, ts)
  PROVE  /\ status' \in [Todos -> Statuses] /\ turns' \in [Todos -> Seq(TurnRecs)]
         /\ inflight' \subseteq Todos /\ Cardinality(inflight') <= Bound /\ inf \subseteq inflight'
         /\ \A t \in Todos :
              \/ /\ st[t] = "Pending" /\ DepsMet(st, t)
                 /\ status'[t] = "InProgress" /\ t \in inflight'
                 /\ turns'[t] = Armed(ts[t], Turn("coder", 1))
              \/ status'[t] = st[t] /\ turns'[t] = ts[t]
<1>1. Turn("coder", 1) \in TurnRecs
  BY TurnType, OrchestratorAssumption DEF Vers, Roles
<1>2. \A t \in Todos : Armed(ts[t], Turn("coder", 1)) \in Seq(TurnRecs)
  BY <1>1, ArmedFacts
<1>3. Wave(st, inf) \subseteq Todos
      /\ \A t \in Wave(st, inf) : st[t] = "Pending" /\ DepsMet(st, t)
  BY DEF Wave
<1>4. Cardinality(inflight') <= Bound
  BY WaveFits DEF Dispatch
<1> QED BY <1>2, <1>3, <1>4 DEF Dispatch, Statuses

\* Whatever makes the board and the batons right before the dispatch, the
\* dispatch keeps it so.
LEMMA DispatchKeeps ==
  ASSUME NEW st \in [Todos -> Statuses], NEW inf \in SUBSET Todos, Cardinality(inf) <= Bound,
         NEW ts \in [Todos -> Seq(TurnRecs)], Dispatch(st, inf, ts),
         pc' = "loop", canceled' = canceled,
         \A t \in Todos : st[t] = "InProgress" => t \in inf,
         \A t \in Todos :
            OneBaton(t, ts[t], queue', st[t], cycles'[t], diffs'[t], approved'[t]),
         \A t \in Todos : ~canceled /\ st[t] = "InProgress" =>
            \E i \in DOMAIN ts[t] : ts[t][i].ctx # "canceled",
         \A t \in Todos : st[t] = "Done" =>
            diffs'[t] # 0 /\ approved'[t] = diffs'[t] /\ tested'[t] = diffs'[t]
  PROVE  /\ \A t \in Todos : status'[t] = "InProgress" => t \in inflight'
         /\ Batons' /\ Watched' /\ Earned'
<1>1. Turn("coder", 1) \in TurnRecs /\ Turn("coder", 1).role = "coder"
      /\ (~canceled => Turn("coder", 1).ctx = "live")
  BY TurnType, OrchestratorAssumption DEF Vers, Roles
<1>2. ASSUME NEW t \in Todos
      PROVE  OneBaton(t, turns'[t], queue', status'[t], cycles'[t], diffs'[t], approved'[t])
  <2>1. CASE status'[t] = st[t] /\ turns'[t] = ts[t]
    BY <2>1
  <2>2. CASE /\ st[t] = "Pending" /\ status'[t] = "InProgress"
             /\ turns'[t] = Armed(ts[t], Turn("coder", 1))
    <3>1. Resting(t, ts[t], queue') /\ cycles'[t] = 0
      BY <2>2 DEF OneBaton, Open, Resting
    <3>2. Open("InProgress", cycles'[t])
      BY <3>1, OrchestratorAssumption DEF Open
    <3> QED BY <1>1, <2>2, <3>1, <3>2, BatonArmed
  <2> QED BY <2>1, <2>2, DispatchFacts
<1>3. ASSUME NEW t \in Todos, ~canceled, status'[t] = "InProgress"
      PROVE  \E i \in DOMAIN turns'[t] : turns'[t][i].ctx # "canceled"
  <2>1. CASE status'[t] = st[t] /\ turns'[t] = ts[t]
    BY <1>3, <2>1
  <2>2. CASE turns'[t] = Armed(ts[t], Turn("coder", 1))
    <3>1. /\ DOMAIN turns'[t] = 1..(Len(ts[t]) + 1) /\ Len(ts[t]) \in Nat
          /\ turns'[t][Len(ts[t]) + 1] = Turn("coder", 1)
      BY <1>1, <2>2, ArmedFacts
    <3> QED BY <1>1, <1>3, <3>1
  <2> QED BY <2>1, <2>2, DispatchFacts
<1>4. \A t \in Todos : status'[t] = "InProgress" => t \in inflight'
  BY DispatchFacts
<1>5. \A t \in Todos : status'[t] = "Done" => st[t] = "Done"
  BY DispatchFacts
<1> QED BY <1>2, <1>3, <1>4, <1>5 DEF Batons, Watched, Earned

-----------------------------------------------------------------------------
(* The handlers of the loop.                                               *)

\* What the types say of the plan.
LEMMA PlanTypes ==
  ASSUME Typed
  PROVE  /\ status \in [Todos -> Statuses] /\ cycles \in [Todos -> 0..(MaxRework + 1)]
         /\ diffs \in [Todos -> 0..(MaxRework + 1)]
         /\ inflight \in SUBSET Todos /\ Cardinality(inflight) <= Bound
         /\ turns \in [Todos -> Seq(TurnRecs)] /\ queue \in Seq(EventRecs)
         /\ Len(queue) <= QueueCap
         /\ approved \in [Todos -> Nat] /\ tested \in [Todos -> Nat]
BY DEF Typed, TypeOK, Statuses

\* The turns of the type invariant are those of the sequences.
LEMMA TurnsOK ==
  ASSUME NEW ts \in [Todos -> Seq(TurnRecs)]
  PROVE  \A t \in Todos : \A i \in DOMAIN ts[t] : ts[t][i] \in TurnRecs /\ TurnOK(ts[t][i])
<1> SUFFICES ASSUME NEW t \in Todos, NEW i \in DOMAIN ts[t]
             PROVE  ts[t][i] \in TurnRecs /\ TurnOK(ts[t][i])
  OBVIOUS
<1>1. ts[t][i] \in TurnRecs
  BY LenProperties, ElementOfSeq
<1> QED BY <1>1 DEF TurnRecs, TurnFields, TurnOK, Vers

\* The head of the queue, and the batons without it.
LEMMA HeadFacts ==
  ASSUME Typed, Batons, pc = "loop", queue # <<>>
  PROVE  /\ Head(queue) \in EventRecs /\ Tail(queue) \in Seq(EventRecs)
         /\ Len(Tail(queue)) <= QueueCap
         /\ \A u \in Todos : OneBaton(u, turns[u], Tail(queue), status[u], cycles[u],
                                      diffs[u], approved[u])
         /\ \A u \in Todos : HandsOver(Head(queue), u) =>
              /\ Resting(u, turns[u], Tail(queue)) /\ Open(status[u], cycles[u])
              /\ Head(queue).ver \in Vers
              /\ Head(queue).kind = "verdict" => diffs[u] = Head(queue).ver
              /\ Head(queue).kind = "report" =>
                    diffs[u] = Head(queue).ver /\ approved[u] = Head(queue).ver
<1>1. queue \in Seq(EventRecs) /\ Len(queue) <= QueueCap /\ turns \in [Todos -> Seq(TurnRecs)]
  BY PlanTypes
<1>2. /\ Head(queue) \in EventRecs /\ Tail(queue) \in Seq(EventRecs)
      /\ Len(Tail(queue)) = Len(queue) - 1 /\ Len(queue) \in Nat
  BY <1>1, HeadTailProperties, LenProperties
<1>3. Len(Tail(queue)) <= QueueCap
  BY <1>1, <1>2, OrchestratorAssumption
<1>4. \A u \in Todos : turns[u] \in Seq(TurnRecs)
      /\ OneBaton(u, turns[u], queue, status[u], cycles[u], diffs[u], approved[u])
  BY <1>1 DEF Batons
<1>5. ASSUME NEW u \in Todos
      PROVE  /\ OneBaton(u, turns[u], Tail(queue), status[u], cycles[u], diffs[u], approved[u])
             /\ HandsOver(Head(queue), u) =>
                  /\ Resting(u, turns[u], Tail(queue)) /\ Open(status[u], cycles[u])
                  /\ Head(queue).ver \in Vers
                  /\ Head(queue).kind = "verdict" => diffs[u] = Head(queue).ver
                  /\ Head(queue).kind = "report" =>
                        diffs[u] = Head(queue).ver /\ approved[u] = Head(queue).ver
  <2>1. turns[u] \in Seq(TurnRecs)
        /\ OneBaton(u, turns[u], queue, status[u], cycles[u], diffs[u], approved[u])
    BY <1>4
  <2> QED BY <1>1, <2>1, BatonTaken
<1> QED BY <1>2, <1>3, <1>5

\* The loop goes on: nothing is announced yet.
LEMMA LoopGoesOn ==
  ASSUME Staged, pc = "loop", UNCHANGED <<pc, reason, report>>
  PROVE  Staged' /\ NilMeansGreen'
BY DEF Staged, NilMeansGreen

\* A todo at rest that may be worked on gets its next turn.
LEMMA SpawnKeeps ==
  ASSUME RunInv, pc = "loop", UNCHANGED <<pc, status, inflight, canceled>>,
         cycles' \in [Todos -> 0..(MaxRework + 1)],
         NEW t \in Todos, NEW turn \in TurnRecs, Spawn(t, turn),
         ~canceled => turn.ctx = "live",
         \A u \in Todos \ {t} :
            /\ OneBaton(u, turns[u], queue', status[u], cycles'[u], diffs'[u], approved'[u])
            /\ diffs'[u] = diffs[u] /\ approved'[u] = approved[u] /\ tested'[u] = tested[u],
         Resting(t, turns[t], queue'), Open(status[t], cycles'[t]),
         turn.role = "reviewer" => diffs'[t] = turn.ver,
         turn.role = "tester" => diffs'[t] = turn.ver /\ approved'[t] = turn.ver
  PROVE  Kept'
<1>1. turns \in [Todos -> Seq(TurnRecs)]
  BY PlanTypes DEF RunInv
<1>2. Armed(turns[t], turn) \in Seq(TurnRecs)
  BY <1>1, ArmedFacts
<1>3. /\ turns'[t] = Armed(turns[t], turn) /\ turns' \in [Todos -> Seq(TurnRecs)]
      /\ \A u \in Todos \ {t} : turns'[u] = turns[u]
  BY <1>1, <1>2 DEF Spawn
<1>4. OneBaton(t, turns'[t], queue', status[t], cycles'[t], diffs'[t], approved'[t])
  BY <1>1, <1>3, BatonArmed
<1>5. Batons'
  BY <1>3, <1>4 DEF Batons
<1>6. Watched'
  <2> SUFFICES ASSUME ~canceled, NEW u \in Todos, status[u] = "InProgress"
               PROVE  \E i \in DOMAIN turns'[u] : turns'[u][i].ctx # "canceled"
    BY DEF Watched
  <2>1. CASE u = t
    <3>1. turns[t] \in Seq(TurnRecs) /\ turns'[t] = Armed(turns[t], turn)
      BY <1>1, <1>3
    <3>2. /\ Len(turns[t]) \in Nat /\ DOMAIN Armed(turns[t], turn) = 1..(Len(turns[t]) + 1)
          /\ Armed(turns[t], turn)[Len(turns[t]) + 1] = turn
      BY <3>1, ArmedFacts
    <3>3. Len(turns[t]) + 1 \in DOMAIN Armed(turns[t], turn)
      BY <3>2
    <3> QED BY <2>1, <3>1, <3>2, <3>3
  <2>2. CASE u # t
    BY <1>3, <2>2 DEF RunInv, Watched
  <2> QED BY <2>1, <2>2
<1>7. Earned'
  BY DEF RunInv, Earned, Open
<1>8. /\ status' \in [Todos -> Statuses]
      /\ inflight' \subseteq Todos /\ Cardinality(inflight') <= Bound
      /\ \A u \in Todos : status'[u] = "InProgress" => u \in inflight'
  BY PlanTypes DEF RunInv, Typed
<1> QED BY <1>3, <1>5, <1>6, <1>7, <1>8 DEF Kept

\* A todo gets its outcome, and the wave it lets start is dispatched.
LEMMA MarkKeeps ==
  ASSUME RunInv, pc = "loop", UNCHANGED <<pc, canceled>>,
         cycles' \in [Todos -> 0..(MaxRework + 1)],
         NEW t \in Todos, NEW result \in Outcomes, NEW ts \in [Todos -> Seq(TurnRecs)],
         MarkTerminal(t, result, ts),
         \A u \in Todos \ {t} :
            /\ ts[u] = turns[u]
            /\ OneBaton(u, turns[u], queue', status[u], cycles'[u], diffs'[u], approved'[u])
            /\ diffs'[u] = diffs[u] /\ approved'[u] = approved[u] /\ tested'[u] = tested[u],
         OneBaton(t, ts[t], queue', result, cycles'[t], diffs'[t], approved'[t]),
         result = "Done" =>
            diffs'[t] # 0 /\ approved'[t] = diffs'[t] /\ tested'[t] = diffs'[t]
  PROVE  Kept'
<1> DEFINE st == [status EXCEPT ![t] = result]
           inf == inflight \ {t}
           after == [ts EXCEPT ![t] = Disarm(@)]
<1>1. /\ status \in [Todos -> Statuses] /\ inflight \in SUBSET Todos
      /\ Cardinality(inflight) <= Bound /\ result \in Statuses /\ result \notin {"Pending", "InProgress"}
      /\ \A u \in Todos : status[u] = "InProgress" => u \in inflight
  BY PlanTypes DEF RunInv, Typed, Statuses, Outcomes
<1>2. st \in [Todos -> Statuses] /\ st[t] = result /\ \A u \in Todos \ {t} : st[u] = status[u]
  BY <1>1
<1>3. inf \in SUBSET Todos /\ Cardinality(inf) <= Bound
  <2>1. IsFiniteSet(Todos)
    BY FS_Interval, OrchestratorAssumption DEF Todos
  <2>2. IsFiniteSet(inflight) /\ inf \in SUBSET inflight
    BY <1>1, <2>1, FS_Subset
  <2>3. Cardinality(inf) <= Cardinality(inflight) /\ Cardinality(inf) \in Nat
        /\ Cardinality(inflight) \in Nat
    BY <2>2, FS_Subset, FS_CardinalityType
  <2> QED BY <1>1, <2>2, <2>3, OrchestratorAssumption
<1>4. /\ after \in [Todos -> Seq(TurnRecs)] /\ after[t] = Disarm(ts[t])
      /\ \A u \in Todos \ {t} : after[u] = turns[u]
  BY DisarmFacts
<1>5. Dispatch(st, inf, after)
  BY DEF MarkTerminal
<1>6. \A u \in Todos : st[u] = "InProgress" => u \in inf
  BY <1>1, <1>2
<1> HIDE DEF st, inf, after
<1>7. \A u \in Todos :
        OneBaton(u, after[u], queue', st[u], cycles'[u], diffs'[u], approved'[u])
  <2>1. OneBaton(t, after[t], queue', st[t], cycles'[t], diffs'[t], approved'[t])
    BY <1>2, <1>4, BatonDisarmed
  <2> QED BY <1>2, <1>4, <2>1
<1>8. ASSUME NEW u \in Todos, ~canceled, st[u] = "InProgress"
      PROVE  \E i \in DOMAIN after[u] : after[u][i].ctx # "canceled"
  <2>1. u # t /\ status[u] = "InProgress"
    BY <1>1, <1>2, <1>8
  <2>2. \E i \in DOMAIN turns[u] : turns[u][i].ctx # "canceled"
    BY <1>8, <2>1 DEF RunInv, Watched
  <2> QED BY <1>4, <2>1, <2>2
<1>9. \A u \in Todos : st[u] = "Done" =>
            diffs'[u] # 0 /\ approved'[u] = diffs'[u] /\ tested'[u] = diffs'[u]
  BY <1>2 DEF RunInv, Earned
<1>10. pc' = "loop" /\ canceled' = canceled
  OBVIOUS
<1>11. /\ status' \in [Todos -> Statuses] /\ turns' \in [Todos -> Seq(TurnRecs)]
       /\ inflight' \subseteq Todos /\ Cardinality(inflight') <= Bound
  BY <1>2, <1>3, <1>4, <1>5, DispatchFacts
<1>12. /\ \A u \in Todos : status'[u] = "InProgress" => u \in inflight'
       /\ Batons' /\ Watched' /\ Earned'
  <2>1. \A u \in Todos : ~canceled /\ st[u] = "InProgress" =>
            \E i \in DOMAIN after[u] : after[u][i].ctx # "canceled"
    BY <1>8
  <2> QED BY <1>2, <1>3, <1>4, <1>5, <1>6, <1>7, <1>9, <1>10, <2>1, DispatchKeeps, ZenonT(60)
<1> QED BY <1>11, <1>12 DEF Kept

\* A rework: the coder again, or, past the cap, a failure.
LEMMA ReworkKeeps ==
  ASSUME RunInv, pc = "loop", UNCHANGED <<pc, canceled, diffs, approved, tested>>,
         NEW t \in Todos, Rework(t),
         \A u \in Todos : OneBaton(u, turns[u], queue', status[u], cycles[u], diffs[u], approved[u]),
         Resting(t, turns[t], queue'), Open(status[t], cycles[t])
  PROVE  Kept'
<1>1. /\ cycles \in [Todos -> 0..(MaxRework + 1)] /\ turns \in [Todos -> Seq(TurnRecs)]
      /\ cycles[t] \in 0..MaxRework
  BY PlanTypes DEF RunInv, Open
<1>2. cycles' = [cycles EXCEPT ![t] = @ + 1]
  BY DEF Rework
<1>3. /\ cycles' \in [Todos -> 0..(MaxRework + 1)] /\ cycles'[t] = cycles[t] + 1
      /\ \A u \in Todos \ {t} : cycles'[u] = cycles[u]
  <2>1. cycles[t] + 1 \in 0..(MaxRework + 1)
    BY <1>1, OrchestratorAssumption
  <2> QED BY <1>1, <1>2, <2>1
<1>4. \A u \in Todos \ {t} :
        /\ OneBaton(u, turns[u], queue', status[u], cycles'[u], diffs'[u], approved'[u])
        /\ diffs'[u] = diffs[u] /\ approved'[u] = approved[u] /\ tested'[u] = tested[u]
  BY <1>3
<1>5. CASE MarkTerminal(t, "Failed", turns)
  <2>1. OneBaton(t, turns[t], queue', "Failed", cycles'[t], diffs'[t], approved'[t])
    BY BatonResting
  <2>2. "Failed" \in Outcomes /\ "Failed" # "Done"
    BY DEF Outcomes
  <2> QED BY <1>1, <1>3, <1>4, <1>5, <2>1, <2>2, MarkKeeps
<1>6. CASE /\ ~OverCap(cycles'[t]) /\ Spawn(t, Turn("coder", cycles'[t] + 1))
           /\ UNCHANGED <<status, inflight>>
  <2> DEFINE turn == Turn("coder", cycles'[t] + 1)
  <2>1. cycles'[t] <= MaxRework /\ cycles'[t] + 1 \in Vers
    BY <1>1, <1>3, <1>6, OrchestratorAssumption DEF OverCap, Vers
  <2>2. turn \in TurnRecs /\ turn.role = "coder" /\ (~canceled => turn.ctx = "live")
    BY <2>1, TurnType DEF Roles
  <2>3. Open(status[t], cycles'[t])
    BY <2>1 DEF Open
  <2>4. Spawn(t, turn)
    BY <1>6
  <2> HIDE DEF turn
  <2> QED BY <1>3, <1>4, <1>6, <2>2, <2>3, <2>4, SpawnKeeps
<1> QED BY <1>5, <1>6 DEF Rework

\* The handlers.
LEMMA HandlersKeep ==
  ASSUME RunInv, Handle PROVE Kept'
<1> DEFINE e == Head(queue)
           t == e.todo
<1> USE DEF RunInv
<1>1. /\ pc = "loop" /\ queue # <<>> /\ queue' = Tail(queue)
      /\ UNCHANGED <<pc, env, outcome>>
      /\ CodeReady(e) \/ Verdict(e) \/ TestReport(e) \/ OwnEvent(e)
  BY DEF Handle
<1>2. /\ cycles \in [Todos -> 0..(MaxRework + 1)] /\ turns \in [Todos -> Seq(TurnRecs)]
      /\ diffs \in [Todos -> 0..(MaxRework + 1)] /\ approved \in [Todos -> Nat]
      /\ tested \in [Todos -> Nat]
  BY PlanTypes
<1>3. canceled' = canceled
  BY <1>1 DEF env
<1>4. /\ e \in EventRecs
      /\ \A u \in Todos :
            OneBaton(u, turns[u], queue', status[u], cycles[u], diffs[u], approved[u])
  BY <1>1, HeadFacts
<1>5. ASSUME e.kind \in {"code", "verdict", "report"}
      PROVE  /\ t \in Todos /\ Resting(t, turns[t], queue') /\ Open(status[t], cycles[t])
             /\ e.ver \in Vers
             /\ e.kind = "verdict" => diffs[t] = e.ver
             /\ e.kind = "report" => diffs[t] = e.ver /\ approved[t] = e.ver
  <2>1. t \in Todos
    BY <1>4, <1>5 DEF EventRecs
  <2>2. HandsOver(Head(queue), t)
    BY <1>5 DEF HandsOver
  <2> QED BY <1>1, <2>1, <2>2, HeadFacts
<1> HIDE DEF e
<1>6. CASE CodeReady(e)
  <2> DEFINE turn == Turn("reviewer", e.ver)
  <2>1. /\ e.kind = "code" /\ diffs' = [diffs EXCEPT ![t] = e.ver] /\ Spawn(t, turn)
        /\ UNCHANGED <<status, cycles, inflight, approved, tested>>
    BY <1>6 DEF CodeReady, NewDiff, history
  <2>2. turn \in TurnRecs /\ turn.role = "reviewer" /\ turn.ver = e.ver
        /\ (~canceled => turn.ctx = "live")
    BY <1>5, <2>1, TurnType DEF Roles
  <2>3. diffs'[t] = e.ver /\ \A u \in Todos \ {t} : diffs'[u] = diffs[u]
    BY <1>2, <1>5, <2>1
  <2> HIDE DEF turn, t
  <2>4. \A u \in Todos \ {t} :
        /\ OneBaton(u, turns[u], queue', status[u], cycles'[u], diffs'[u], approved'[u])
        /\ diffs'[u] = diffs[u] /\ approved'[u] = approved[u] /\ tested'[u] = tested[u]
    BY <1>4, <2>1, <2>3
  <2> QED BY <1>1, <1>2, <1>3, <1>5, <2>1, <2>2, <2>3, <2>4, SpawnKeeps
<1>7. CASE Verdict(e)
  <2>1. CASE e.ok
    <3> DEFINE turn == Turn("tester", e.ver)
    <3>1. /\ e.kind = "verdict" /\ approved' = [approved EXCEPT ![t] = e.ver] /\ Spawn(t, turn)
          /\ UNCHANGED <<status, cycles, inflight, diffs, tested>>
      BY <1>7, <2>1 DEF Verdict
    <3>2. turn \in TurnRecs /\ turn.role = "tester" /\ turn.ver = e.ver
          /\ (~canceled => turn.ctx = "live")
      BY <1>5, <3>1, TurnType DEF Roles
    <3>3. approved'[t] = e.ver /\ \A u \in Todos \ {t} : approved'[u] = approved[u]
      BY <1>2, <1>5, <3>1
    <3> HIDE DEF turn, t
    <3>4. \A u \in Todos \ {t} :
          /\ OneBaton(u, turns[u], queue', status[u], cycles'[u], diffs'[u], approved'[u])
          /\ diffs'[u] = diffs[u] /\ approved'[u] = approved[u] /\ tested'[u] = tested[u]
      BY <1>4, <3>1, <3>3
    <3> QED BY <1>1, <1>2, <1>3, <1>5, <3>1, <3>2, <3>3, <3>4, SpawnKeeps
  <2>2. CASE ~e.ok
    <3>1. e.kind = "verdict" /\ Rework(t) /\ UNCHANGED <<diffs, approved, tested>>
      BY <1>7, <2>2 DEF Verdict
    <3> HIDE DEF t
    <3> QED BY <1>1, <1>3, <1>4, <1>5, <3>1, ReworkKeeps
  <2> QED BY <2>1, <2>2
<1>8. CASE TestReport(e)
  <2>1. CASE e.ok
    <3>1. /\ e.kind = "report" /\ tested' = [tested EXCEPT ![t] = e.ver]
          /\ MarkTerminal(t, "Done", turns) /\ UNCHANGED <<cycles, diffs, approved>>
      BY <1>8, <2>1 DEF TestReport
    <3>2. tested'[t] = e.ver /\ \A u \in Todos \ {t} : tested'[u] = tested[u]
      BY <1>2, <1>5, <3>1
    <3>3. "Done" \in Outcomes /\ e.ver # 0
      BY <1>5, <3>1 DEF Outcomes, Vers
    <3> HIDE DEF t
    <3>4. \A u \in Todos \ {t} :
          /\ turns[u] = turns[u]
          /\ OneBaton(u, turns[u], queue', status[u], cycles'[u], diffs'[u], approved'[u])
          /\ diffs'[u] = diffs[u] /\ approved'[u] = approved[u] /\ tested'[u] = tested[u]
      BY <1>4, <3>1, <3>2
    <3>5. OneBaton(t, turns[t], queue', "Done", cycles'[t], diffs'[t], approved'[t])
      BY <1>5, <3>1, BatonResting
    <3>6. diffs'[t] # 0 /\ approved'[t] = diffs'[t] /\ tested'[t] = diffs'[t]
      BY <1>5, <3>1, <3>2, <3>3
    <3> QED BY <1>1, <1>2, <1>3, <1>5, <3>1, <3>3, <3>4, <3>5, <3>6, MarkKeeps
  <2>2. CASE ~e.ok
    <3>1. e.kind = "report" /\ Rework(t) /\ UNCHANGED <<diffs, approved, tested>>
      BY <1>8, <2>2 DEF TestReport
    <3> HIDE DEF t
    <3> QED BY <1>1, <1>3, <1>4, <1>5, <3>1, ReworkKeeps
  <2> QED BY <2>1, <2>2
<1>9. CASE OwnEvent(e)
  <2>1. UNCHANGED <<status, cycles, inflight, diffs, turns, approved, tested>>
    BY <1>9 DEF OwnEvent, plan, history
  <2>2. Batons'
    BY <1>4, <2>1 DEF Batons
  <2>3. Watched' /\ Earned'
    BY <1>1, <1>3, <2>1 DEF Watched, Earned
  <2> QED BY <2>1, <2>2, <2>3, PlanTypes DEF Kept, Typed
<1> QED BY <1>1, <1>6, <1>7, <1>8, <1>9

\* What is kept, with the rest of the state, is typed.
LEMMA KeptTyped ==
  ASSUME Typed, Kept',
         diffs' \in [Todos -> 0..(MaxRework + 1)],
         approved' \in [Todos -> Nat], tested' \in [Todos -> Nat],
         queue' \in Seq(EventRecs), Len(queue') <= QueueCap,
         UNCHANGED <<reason, report>>, pc' \in {"loop", "quiesce"}
  PROVE  Typed'
<1>1. turns' \in [Todos -> Seq(TurnRecs)]
  BY DEF Kept
<1>2. \A t \in Todos : \A i \in DOMAIN turns'[t] : TurnOK(turns'[t][i])
  BY <1>1, TurnsOK
<1> QED BY <1>1, <1>2 DEF Kept, Typed, TypeOK, Statuses, TurnOK

\* Taking an event keeps the invariant.
LEMMA HandleKeeps == ASSUME RunInv, Handle PROVE RunInv'
<1>1. /\ pc = "loop" /\ queue # <<>> /\ queue' = Tail(queue) /\ UNCHANGED <<pc, reason, report>>
  BY DEF Handle, outcome
<1>2. Kept'
  BY HandlersKeep
<1>3. queue' \in Seq(EventRecs) /\ Len(queue') <= QueueCap
  BY <1>1, HeadFacts DEF RunInv
<1>4. /\ diffs' \in [Todos -> 0..(MaxRework + 1)]
      /\ approved' \in [Todos -> Nat] /\ tested' \in [Todos -> Nat]
  <2>1. /\ diffs \in [Todos -> 0..(MaxRework + 1)]
        /\ approved \in [Todos -> Nat] /\ tested \in [Todos -> Nat]
    BY PlanTypes DEF RunInv
  <2>2. /\ Head(queue).kind \in {"code", "verdict", "report"} =>
             /\ Head(queue).todo \in Todos
             /\ Head(queue).ver \in 0..(MaxRework + 1) /\ Head(queue).ver \in Nat
    <3>1. Head(queue) \in EventRecs
      BY <1>1, HeadFacts DEF RunInv
    <3>2. Head(queue).kind \in {"code", "verdict", "report"} =>
             Head(queue).todo \in Todos /\ HandsOver(Head(queue), Head(queue).todo)
      BY <3>1 DEF EventRecs, HandsOver
    <3>3. Head(queue).kind \in {"code", "verdict", "report"} => Head(queue).ver \in Vers
      BY <1>1, <3>2, HeadFacts DEF RunInv
    <3> QED BY <3>2, <3>3, OrchestratorAssumption DEF Vers
  <2> QED BY <2>1, <2>2 DEF Handle, CodeReady, Verdict, TestReport, OwnEvent, NewDiff, plan, history
<1>5. Typed'
  BY <1>1, <1>2, <1>3, <1>4, KeptTyped DEF RunInv
<1> QED BY <1>1, <1>2, <1>5, LoopGoesOn DEF RunInv, Kept

\* Taking a failure keeps the invariant: a todo without an outcome has failed,
\* and what is still under way for it cannot make it pass for pending.
LEMMA ResultKeeps ==
  ASSUME RunInv, NEW t \in Todos, NEW i \in DOMAIN turns[t], Result(t, i)
  PROVE  RunInv'
<1> DEFINE rest == RemoveAt(turns[t], i)
           ts == [turns EXCEPT ![t] = rest]
<1>1. /\ pc = "loop" /\ turns[t][i].pc = "send" /\ ApplyResult(t, ts)
      /\ UNCHANGED <<pc, cycles, diffs, queue, canceled, closed, reason, report, approved, tested>>
  BY DEF Result, env, history
<1>2. /\ turns \in [Todos -> Seq(TurnRecs)] /\ cycles \in [Todos -> 0..(MaxRework + 1)]
      /\ diffs \in [Todos -> 0..(MaxRework + 1)] /\ queue \in Seq(EventRecs)
      /\ Len(queue) <= QueueCap /\ status \in [Todos -> Statuses]
      /\ approved \in [Todos -> Nat] /\ tested \in [Todos -> Nat]
  BY PlanTypes DEF RunInv
<1>3. turns[t] \in Seq(TurnRecs)
  BY <1>2
<1>4. rest \in Seq(TurnRecs)
  BY <1>3, RemoveAtFacts
<1>5. /\ ts \in [Todos -> Seq(TurnRecs)] /\ ts[t] = rest
      /\ \A u \in Todos \ {t} : ts[u] = turns[u]
  BY <1>2, <1>4
<1>6. \A u \in Todos : OneBaton(u, turns[u], queue, status[u], cycles[u], diffs[u], approved[u])
  BY <1>1 DEF RunInv, Batons
<1>7. /\ OneBaton(t, rest, queue, status[t], cycles[t], diffs[t], approved[t])
      /\ Live(turns[t][i]) => Resting(t, rest, queue)
  BY <1>3, <1>6, BatonRemoved
<1> HIDE DEF rest, ts
<1>8. Kept'
  <2>1. CASE status[t] \notin Outcomes /\ MarkTerminal(t, "Failed", ts)
    <3>1. OneBaton(t, ts[t], queue', "Failed", cycles'[t], diffs'[t], approved'[t])
      <4>1. CASE Punctual
        <5>1. Resting(t, rest, queue)
          BY <1>1, <1>7, <4>1 DEF Live
        <5> QED BY <1>1, <1>5, <5>1, BatonResting
      <4>2. CASE ~Punctual
        BY <1>1, <1>5, <1>7, <4>2 DEF OneBaton, Open
      <4> QED BY <4>1, <4>2
    <3>2. "Failed" \in Outcomes /\ "Failed" # "Done"
      BY DEF Outcomes
    <3>3. \A u \in Todos \ {t} :
          /\ ts[u] = turns[u]
          /\ OneBaton(u, turns[u], queue', status[u], cycles'[u], diffs'[u], approved'[u])
          /\ diffs'[u] = diffs[u] /\ approved'[u] = approved[u] /\ tested'[u] = tested[u]
      BY <1>1, <1>5, <1>6
    <3> QED BY <1>1, <1>2, <1>5, <2>1, <3>1, <3>2, <3>3, MarkKeeps
  <2>2. CASE status[t] \in Outcomes /\ turns' = ts /\ UNCHANGED <<status, inflight>>
    <3>1. Batons'
      BY <1>1, <1>5, <1>6, <1>7, <2>2 DEF Batons
    <3>2. Watched'
      BY <1>1, <1>5, <2>2 DEF RunInv, Watched, Outcomes
    <3>3. Earned'
      BY <1>1, <2>2 DEF RunInv, Earned
    <3> QED BY <1>1, <1>2, <1>5, <2>2, <3>1, <3>2, <3>3 DEF Kept, RunInv, Typed, TypeOK
  <2> QED BY <1>1, <2>1, <2>2 DEF ApplyResult
<1>9. Typed'
  BY <1>1, <1>2, <1>8, KeptTyped DEF RunInv
<1> QED BY <1>1, <1>8, <1>9, LoopGoesOn DEF RunInv, Kept

\* The run begins.
LEMMA PlanKeeps == ASSUME RunInv, Plan PROVE RunInv'
<1>1. /\ pc = "plan" /\ \A t \in Todos : status[t] = "Pending" /\ turns[t] = <<>> /\ cycles[t] = 0
      /\ inflight = {} /\ reason = "none" /\ report = "none"
      /\ UNCHANGED <<canceled, closed, reason, report, approved, tested>>
  BY DEF RunInv, Staged, Plan, env, history
<1>2. CASE pc' = "returned" /\ errs' = TRUE /\ UNCHANGED <<plan, turns, queue>>
  <2>1. UNCHANGED <<status, cycles, inflight, diffs, turns, queue>>
    BY <1>2 DEF plan
  <2>2. Typed'
    BY <1>1, <1>2, <2>1 DEF RunInv, Typed, TypeOK, TurnOK
  <2>3. Staged'
    BY <1>1, <1>2, <2>1 DEF Staged
  <2> QED BY <1>1, <1>2, <2>1, <2>2, <2>3
      DEF RunInv, Batons, Watched, Earned, NilMeansGreen
<1>3. CASE /\ pc' = "loop" /\ queue' = <<Event("plan", 1, 0, TRUE)>>
           /\ Dispatch(status, inflight, turns) /\ UNCHANGED <<cycles, diffs, errs>>
  <2>1. /\ status \in [Todos -> Statuses] /\ cycles \in [Todos -> 0..(MaxRework + 1)]
        /\ diffs \in [Todos -> 0..(MaxRework + 1)]
        /\ inflight \in SUBSET Todos /\ Cardinality(inflight) <= Bound
        /\ turns \in [Todos -> Seq(TurnRecs)]
        /\ approved \in [Todos -> Nat] /\ tested \in [Todos -> Nat]
    BY PlanTypes DEF RunInv
  <2>2. /\ Event("plan", 1, 0, TRUE) \in EventRecs
        /\ \A t : ~HandsOver(Event("plan", 1, 0, TRUE), t)
    BY DEF Event, EventRecs, EventFields, HandsOver
  <2>3. queue' \in Seq(EventRecs) /\ Len(queue') = 1 /\ queue'[1] = Event("plan", 1, 0, TRUE)
        /\ DOMAIN queue' = {1}
    <3> DEFINE x == Event("plan", 1, 0, TRUE)
    <3>1. queue' = <<x>> /\ x \in EventRecs
      BY <1>3, <2>2
    <3> HIDE DEF x
    <3>2. queue' \in Seq(EventRecs) /\ Len(queue') = 1 /\ queue'[1] = x
      BY <3>1
    <3>3. DOMAIN queue' = 1..1
      BY <3>2, LenProperties
    <3> QED BY <3>2, <3>3 DEF x
  <2>4. \A t \in Todos :
          OneBaton(t, turns[t], queue', status[t], cycles'[t], diffs'[t], approved'[t])
    <3>1. \A t \in Todos : DOMAIN turns[t] = {}
      BY <1>1
    <3>2. \A t \in Todos : \A n \in DOMAIN queue' : ~HandsOver(queue'[n], t)
      BY <2>2, <2>3
    <3> QED BY <1>1, <1>3, <3>1, <3>2 DEF OneBaton
  <2>5. Kept'
    <3>1. /\ status' \in [Todos -> Statuses] /\ turns' \in [Todos -> Seq(TurnRecs)]
          /\ inflight' \subseteq Todos /\ Cardinality(inflight') <= Bound
      BY <1>3, <2>1, DispatchFacts
    <3>2. /\ \A t \in Todos : status'[t] = "InProgress" => t \in inflight'
          /\ Batons' /\ Watched' /\ Earned'
      <4>1. /\ \A t \in Todos : status[t] = "InProgress" => t \in inflight
            /\ \A t \in Todos : ~canceled /\ status[t] = "InProgress" =>
                  \E i \in DOMAIN turns[t] : turns[t][i].ctx # "canceled"
            /\ \A t \in Todos : status[t] = "Done" =>
                  diffs'[t] # 0 /\ approved'[t] = diffs'[t] /\ tested'[t] = diffs'[t]
        BY <1>1
      <4>2. Dispatch(status, inflight, turns) /\ pc' = "loop" /\ canceled' = canceled
        BY <1>1, <1>3
      <4> QED BY <2>1, <2>4, <4>1, <4>2, DispatchKeeps, ZenonT(60)
    <3> QED BY <1>3, <2>1, <3>1, <3>2 DEF Kept
  <2>6. Typed'
    BY <1>1, <1>3, <2>1, <2>3, <2>5, KeptTyped, OrchestratorAssumption DEF RunInv
  <2> QED BY <1>1, <1>3, <2>5, <2>6 DEF RunInv, Kept, Staged, NilMeansGreen
<1> QED BY <1>2, <1>3 DEF Plan
-----------------------------------------------------------------------------
(* The terminal path.                                                      *)

\* A step that leaves the rework, the slots and the diffs alone keeps the
\* types, if it does so for what it changes.
LEMMA RestTyped ==
  ASSUME Typed, UNCHANGED <<cycles, inflight, diffs, approved, tested>>,
         status' \in [Todos -> Statuses],
         \A t \in Todos : status'[t] = "InProgress" => status[t] = "InProgress",
         turns' \in [Todos -> Seq(TurnRecs)],
         queue' \in Seq(EventRecs), Len(queue') <= QueueCap,
         pc' \in {"plan", "loop", "quiesce", "returned"},
         reason' \in {"none", "complete", "canceled", "busclosed"},
         report' \in {"none", "done", "notdone"}
  PROVE  Typed'
<1>1. \A t \in Todos : \A i \in DOMAIN turns'[t] : TurnOK(turns'[t][i])
  BY TurnsOK
<1> QED BY <1>1 DEF Typed, TypeOK, Statuses, TurnOK

\* All the turns are cancelled.
LEMMA AllDisarmed ==
  ASSUME Typed, turns' = [t \in Todos |-> Disarm(turns[t])]
  PROVE  turns' \in [Todos -> Seq(TurnRecs)]
BY DisarmFacts DEF Typed

\* The loop ends: whatever has no outcome has failed.
LEMMA FinishKeeps == ASSUME RunInv, Finish PROVE RunInv'
<1> USE DEF RunInv
<1>1. /\ pc = "loop" /\ pc' = "quiesce" /\ turns' = [t \in Todos |-> Disarm(turns[t])]
      /\ reason' \in {"complete", "canceled", "busclosed"}
      /\ reason' = "busclosed" => closed
      /\ UNCHANGED <<cycles, inflight, diffs, queue, closed, errs, report, approved, tested>>
  BY DEF Finish, Leave, env, history
<1>2. status \in [Todos -> Statuses] /\ queue \in Seq(EventRecs) /\ Len(queue) <= QueueCap
  BY PlanTypes
<1>3. \/ AllDone /\ status' = status
      \/ FailOutstanding
  BY DEF Finish
<1>4. /\ status' \in [Todos -> Statuses] /\ \A t \in Todos : status'[t] \in Outcomes
      /\ \A t \in Todos : status'[t] = "Done" => status[t] = "Done"
  BY <1>2, <1>3 DEF AllDone, FailOutstanding, Statuses, Outcomes
<1>5. Typed'
  <2>1. turns' \in [Todos -> Seq(TurnRecs)]
    BY <1>1, AllDisarmed
  <2>2. report \in {"none", "done", "notdone"}
    BY DEF Typed, TypeOK
  <2>3. \A t \in Todos : status'[t] # "InProgress"
    BY <1>4 DEF Outcomes
  <2> QED BY <1>1, <1>2, <1>4, <2>1, <2>2, <2>3, RestTyped
<1>6. Staged'
  BY <1>1, <1>4 DEF Staged, AllDone
<1>7. Earned'
  BY <1>1, <1>4 DEF Earned
<1> QED BY <1>1, <1>5, <1>6, <1>7 DEF Batons, Watched, NilMeansGreen

\* After the loop events are dropped and failures recorded.
LEMMA DrainKeeps == ASSUME RunInv, Drain PROVE RunInv'
<1> USE DEF RunInv
<1>1. /\ pc = "quiesce"
      /\ UNCHANGED <<pc, status, cycles, inflight, diffs, canceled, closed, reason, report,
                     approved, tested>>
  BY DEF Drain, plan, env, history
<1>2. /\ turns \in [Todos -> Seq(TurnRecs)] /\ queue \in Seq(EventRecs)
      /\ status \in [Todos -> Statuses] /\ Len(queue) <= QueueCap
  BY PlanTypes
<1>3. turns' \in [Todos -> Seq(TurnRecs)] /\ queue' \in Seq(EventRecs) /\ Len(queue') <= QueueCap
  <2>1. CASE DrainEvent
    <3>1. queue # <<>> /\ queue' = Tail(queue) /\ turns' = turns
      BY <2>1 DEF DrainEvent
    <3>2. Tail(queue) \in Seq(EventRecs) /\ Len(Tail(queue)) = Len(queue) - 1 /\ Len(queue) \in Nat
      BY <1>2, <3>1, HeadTailProperties, LenProperties
    <3> QED BY <1>2, <3>1, <3>2, OrchestratorAssumption
  <2>2. CASE ReceiveResult
    <3> PICK t \in Todos : \E i \in DOMAIN turns[t] :
            turns' = [turns EXCEPT ![t] = RemoveAt(@, i)] /\ queue' = queue
      BY <2>2 DEF ReceiveResult
    <3>1. PICK i \in DOMAIN turns[t] :
            turns' = [turns EXCEPT ![t] = RemoveAt(@, i)] /\ queue' = queue
      OBVIOUS
    <3>2. turns[t] \in Seq(TurnRecs)
      BY <1>2
    <3>3. RemoveAt(turns[t], i) \in Seq(TurnRecs)
      BY <3>2, RemoveAtFacts
    <3> QED BY <1>2, <3>1, <3>3
  <2> QED BY <2>1, <2>2 DEF Drain
<1>4. Typed'
  <2>1. /\ reason \in {"none", "complete", "canceled", "busclosed"}
        /\ report \in {"none", "done", "notdone"}
    BY DEF Typed, TypeOK
  <2> QED BY <1>1, <1>2, <1>3, <2>1, RestTyped
<1> QED BY <1>1, <1>4 DEF Staged, AllDone, FailedTodos, Batons, Watched, Earned, NilMeansGreen

\* Run returns: nil only when plan.done went out, and said done.
LEMMA ReturnKeeps == ASSUME RunInv, Return PROVE RunInv'
<1> USE DEF RunInv
<1>1. /\ pc = "quiesce" /\ pc' = "returned" /\ reason # "none" /\ report = "none" /\ AllDone
      /\ UNCHANGED <<status, cycles, inflight, diffs, turns, queue, canceled, closed, reason,
                     approved, tested>>
  BY DEF Return, plan, env, history, Staged
<1>2. /\ turns \in [Todos -> Seq(TurnRecs)] /\ queue \in Seq(EventRecs)
      /\ status \in [Todos -> Statuses] /\ Len(queue) <= QueueCap
  BY PlanTypes
<1>3. reason \in {"complete", "canceled", "busclosed"}
  BY <1>1 DEF Typed, TypeOK
<1>4. PICK ok \in BOOLEAN :
        \/ /\ ~closed
           /\ report' = IF Done(ok) THEN "done" ELSE "notdone"
           /\ errs' = (errs \/ MergeError(ok) \/ reason = "canceled" \/ FailedTodos # {})
        \/ /\ report' = report
           /\ errs' = TRUE
  BY DEF Return
<1>5. report' = "done" => reason = "complete" /\ FailedTodos = {}
  BY <1>1, <1>4 DEF Done
<1>6. NilMeansGreen'
  <2> SUFFICES ASSUME ~errs' PROVE report' = "done"
    BY DEF NilMeansGreen
  <2>1. /\ ~closed /\ report' = IF Done(ok) THEN "done" ELSE "notdone"
        /\ ~MergeError(ok) /\ reason # "canceled" /\ FailedTodos = {}
    BY <1>4
  <2>2. reason = "complete"
    BY <1>3, <2>1 DEF Staged
  <2>3. ~Conflict /\ ok
    BY <2>1 DEF MergeError
  <2> QED BY <2>1, <2>2, <2>3 DEF Done
<1>7. Typed'
  <2>1. report' \in {"none", "done", "notdone"}
    BY <1>1, <1>4
  <2> QED BY <1>1, <1>2, <1>3, <2>1, RestTyped
<1>8. Staged'
  BY <1>1, <1>3, <1>5 DEF Staged, AllDone, FailedTodos
<1> QED BY <1>1, <1>6, <1>7, <1>8 DEF Batons, Watched, Earned

-----------------------------------------------------------------------------
(* The turns, and the caller.                                              *)

\* The steps of a turn and of the caller leave the plan and the outcome alone.
Aside == UNCHANGED <<pc, status, cycles, inflight, diffs, reason, errs, report,
                     approved, tested>> /\ (closed => closed')

\* Such a step keeps the invariant, if it does so for the types, the batons
\* and the turns that are not cancelled.
LEMMA AsideKeeps ==
  ASSUME RunInv, Aside, turns' \in [Todos -> Seq(TurnRecs)],
         queue' \in Seq(EventRecs), Len(queue') <= QueueCap,
         pc = "plan" => (\A t \in Todos : turns'[t] = <<>>) /\ queue' = <<>>,
         Batons', Watched'
  PROVE  RunInv'
<1>1. UNCHANGED <<pc, status, cycles, inflight, diffs, reason, errs, report, approved, tested>>
      /\ (closed => closed')
  BY DEF Aside
<1>2. Typed'
  <2>1. /\ reason \in {"none", "complete", "canceled", "busclosed"}
        /\ report \in {"none", "done", "notdone"}
        /\ pc \in {"plan", "loop", "quiesce", "returned"} /\ status \in [Todos -> Statuses]
    BY DEF RunInv, Typed, TypeOK, Statuses
  <2> QED BY <1>1, <2>1, RestTyped DEF RunInv
<1>3. Staged'
  BY <1>1 DEF RunInv, Staged, AllDone, FailedTodos
<1> QED BY <1>1, <1>2, <1>3 DEF RunInv, Earned, NilMeansGreen

\* A turn that there is has been armed: the run is past its plan.
LEMMA TurnFacts ==
  ASSUME RunInv, NEW t \in Todos, NEW i \in DOMAIN turns[t]
  PROVE  pc # "plan" /\ turns[t] \in Seq(TurnRecs) /\ turns[t][i] \in TurnRecs
<1>1. turns \in [Todos -> Seq(TurnRecs)]
  BY PlanTypes DEF RunInv
<1>2. turns[t][i] \in TurnRecs
  BY <1>1, TurnsOK
<1>3. turns[t] # <<>>
  OBVIOUS
<1> QED BY <1>1, <1>2, <1>3 DEF RunInv, Staged

\* A turn becomes another, which is cancelled only if it was.
LEMMA BecomesKeeps ==
  ASSUME RunInv, Aside, canceled' = canceled,
         NEW t \in Todos, NEW i \in DOMAIN turns[t], NEW turn \in TurnRecs, Becomes(t, i, turn),
         turn.ctx = "canceled" => turns[t][i].ctx = "canceled",
         queue' \in Seq(EventRecs), Len(queue') <= QueueCap,
         pc = "loop" => \A u \in Todos \ {t} :
            OneBaton(u, turns[u], queue', status[u], cycles[u], diffs[u], approved[u]),
         pc = "loop" =>
            OneBaton(t, [turns[t] EXCEPT ![i] = turn], queue', status[t], cycles[t], diffs[t],
                     approved[t])
  PROVE  RunInv'
<1> DEFINE ts == [turns[t] EXCEPT ![i] = turn]
<1>1. turns \in [Todos -> Seq(TurnRecs)] /\ turns[t] \in Seq(TurnRecs)
  BY PlanTypes DEF RunInv
<1>2. ts \in Seq(TurnRecs)
  BY <1>1, ExceptSeq
<1>3. /\ DOMAIN ts = DOMAIN turns[t] /\ ts[i] = turn
      /\ \A j \in DOMAIN turns[t] \ {i} : ts[j] = turns[t][j]
  OBVIOUS
<1>4. turns' = [turns EXCEPT ![t] = ts]
  BY DEF Becomes
<1> HIDE DEF ts
<1>5. /\ turns' \in [Todos -> Seq(TurnRecs)] /\ turns'[t] = ts
      /\ \A u \in Todos \ {t} : turns'[u] = turns[u]
  BY <1>1, <1>2, <1>4
<1>6. Batons'
  <2>1. pc = "loop" =>
            OneBaton(t, ts, queue', status[t], cycles[t], diffs[t], approved[t])
    BY DEF ts
  <2> QED BY <1>5, <2>1 DEF Batons, Aside
<1>7. Watched'
  <2> SUFFICES ASSUME pc = "loop", ~canceled, NEW u \in Todos, status[u] = "InProgress"
               PROVE  \E j \in DOMAIN turns'[u] : turns'[u][j].ctx # "canceled"
    BY DEF Watched, Aside
  <2>1. PICK j \in DOMAIN turns[u] : turns[u][j].ctx # "canceled"
    BY DEF RunInv, Watched
  <2>2. CASE u # t
    BY <1>5, <2>1, <2>2
  <2>3. CASE u = t
    <3>1. j \in DOMAIN ts /\ ts[j].ctx # "canceled"
      BY <1>3, <2>1, <2>3
    <3> QED BY <1>5, <2>3, <3>1
  <2> QED BY <2>2, <2>3
<1>8. pc # "plan"
  BY TurnFacts
<1> QED BY <1>5, <1>6, <1>7, <1>8, AsideKeeps

\* A turn goes on without an event.
LEMMA FadesKeeps ==
  ASSUME RunInv, Aside, UNCHANGED <<canceled, queue>>,
         NEW t \in Todos, NEW i \in DOMAIN turns[t], NEW turn \in TurnRecs, Becomes(t, i, turn),
         turn.ctx = "canceled" => turns[t][i].ctx = "canceled",
         Live(turn) => Live(turns[t][i]),
         turn.role = turns[t][i].role, turn.ver = turns[t][i].ver
  PROVE  RunInv'
<1>1. turns[t] \in Seq(TurnRecs)
  BY TurnFacts
<1>2. queue \in Seq(EventRecs) /\ Len(queue) <= QueueCap
  BY PlanTypes DEF RunInv
<1>3. pc = "loop" => \A u \in Todos :
        OneBaton(u, turns[u], queue, status[u], cycles[u], diffs[u], approved[u])
  BY DEF RunInv, Batons
<1>4. pc = "loop" =>
        OneBaton(t, [turns[t] EXCEPT ![i] = turn], queue, status[t], cycles[t], diffs[t],
                 approved[t])
  BY <1>1, <1>3, BatonFades
<1> QED BY <1>2, <1>3, <1>4, BecomesKeeps

\* A turn publishes, task.assign or the event that hands over.
LEMMA DeliversKeeps ==
  ASSUME RunInv, Aside, canceled' = canceled,
         NEW t \in Todos, NEW i \in DOMAIN turns[t], NEW e \in EventRecs, NEW spoke \in BOOLEAN,
         Delivers(t, i, e, spoke),
         \A u \in Todos \ {t} : ~HandsOver(e, u),
         \/ turns[t][i].pc = "assign" /\ ~HandsOver(e, t)
         \/ /\ turns[t][i].pc = "run" /\ HandsOver(e, t) /\ e.ver = turns[t][i].ver
            /\ e.kind = "verdict" => turns[t][i].role = "reviewer"
            /\ e.kind = "report" => turns[t][i].role = "tester"
  PROVE  RunInv'
<1> DEFINE old == turns[t][i]
           turn == [old EXCEPT !.pc = IF @ = "assign" THEN "run" ELSE "published", !.spoke = spoke]
<1>1. old \in TurnRecs /\ turns[t] \in Seq(TurnRecs)
  BY TurnFacts
<1>2. /\ turn \in TurnRecs /\ turn.ctx = old.ctx /\ turn.role = old.role /\ turn.ver = old.ver
      /\ turn.pc = IF old.pc = "assign" THEN "run" ELSE "published"
  BY <1>1 DEF TurnRecs, TurnFields
<1>3. Becomes(t, i, turn) /\ queue' = Append(queue, e) /\ Len(queue) < QueueCap
  BY DEF Delivers
<1>4. queue \in Seq(EventRecs)
  BY PlanTypes DEF RunInv
<1>5. queue' \in Seq(EventRecs) /\ Len(queue') <= QueueCap
  <2>1. Append(queue, e) \in Seq(EventRecs) /\ Len(Append(queue, e)) = Len(queue) + 1
        /\ Len(queue) \in Nat
    BY <1>4, AppendProperties, LenProperties
  <2> QED BY <1>3, <2>1, OrchestratorAssumption
<1> HIDE DEF turn
<1>6. ASSUME pc = "loop"
      PROVE  /\ \A u \in Todos \ {t} :
                  OneBaton(u, turns[u], queue', status[u], cycles[u], diffs[u], approved[u])
             /\ OneBaton(t, [turns[t] EXCEPT ![i] = turn], queue', status[t], cycles[t],
                         diffs[t], approved[t])
  <2>1. \A u \in Todos :
          OneBaton(u, turns[u], queue, status[u], cycles[u], diffs[u], approved[u])
    BY <1>6 DEF RunInv, Batons
  <2>2. \A u \in Todos \ {t} :
          OneBaton(u, turns[u], queue', status[u], cycles[u], diffs[u], approved[u])
    BY <1>3, <1>4, <2>1, BatonPassedBy
  <2>3. CASE old.pc = "assign" /\ ~HandsOver(e, t)
    <3>1. OneBaton(t, turns[t], queue', status[t], cycles[t], diffs[t], approved[t])
      BY <1>3, <1>4, <2>1, <2>3, BatonPassedBy
    <3>2. Live(turn) => Live(old)
      BY <2>3 DEF Live
    <3> QED BY <1>1, <1>2, <2>2, <3>1, <3>2, BatonFades
  <2>4. CASE /\ old.pc = "run" /\ HandsOver(e, t) /\ e.ver = old.ver
             /\ e.kind = "verdict" => old.role = "reviewer"
             /\ e.kind = "report" => old.role = "tester"
    <3>1. Live(old) /\ ~Live(turn)
      BY <1>2, <2>4 DEF Live
    <3> QED BY <1>1, <1>2, <1>3, <1>4, <2>1, <2>2, <2>4, <3>1, BatonHandedOver
  <2> QED BY <2>3, <2>4
<1> QED BY <1>2, <1>3, <1>5, <1>6, BecomesKeeps

\* A step of a turn keeps the invariant.
LEMMA TurnStepKeeps == ASSUME RunInv, NEW t \in Todos, TurnStep(t) PROVE RunInv'
<1>1. Aside /\ canceled' = canceled
  BY DEF TurnStep, Aside, plan, env, outcome, history
<1>2. PICK i \in DOMAIN turns[t] :
        Assigns(t, i) \/ Publishes(t, i) \/ Fails(t, i) \/ Returns(t, i) \/ Watchdog(t, i)
  BY DEF TurnStep
<1> DEFINE old == turns[t][i]
<1>3. old \in TurnRecs /\ turns[t] \in Seq(TurnRecs) /\ pc # "plan"
  BY TurnFacts
<1>4. t \in Nat
  BY OrchestratorAssumption DEF Todos
<1>5. CASE Assigns(t, i)
  <2> DEFINE e == Event("assign", t, 0, TRUE)
  <2>1. e \in EventRecs /\ \A u : ~HandsOver(e, u)
    BY <1>4 DEF Event, EventRecs, EventFields, HandsOver
  <2>2. old.pc = "assign" /\ Delivers(t, i, e, FALSE)
    BY <1>5 DEF Assigns
  <2> HIDE DEF e
  <2> QED BY <1>1, <2>1, <2>2, DeliversKeeps
<1>6. CASE Publishes(t, i)
  <2>1. PICK ok \in BOOLEAN :
          Delivers(t, i, Report(old.role, t, old.ver, ok), old.ctx = "live")
    BY <1>6 DEF Publishes
  <2> DEFINE e == Report(old.role, t, old.ver, ok)
  <2>2. old.ver \in Nat /\ old.role \in Roles
    BY <1>3, OrchestratorAssumption DEF TurnRecs, TurnFields, Vers
  <2>3. /\ e \in EventRecs /\ HandsOver(e, t) /\ e.ver = old.ver
        /\ \A u \in Todos \ {t} : ~HandsOver(e, u)
        /\ e.kind = "verdict" => old.role = "reviewer"
        /\ e.kind = "report" => old.role = "tester"
    BY <1>4, <2>2 DEF Report, Event, EventRecs, EventFields, HandsOver, Roles
  <2>4. old.pc = "run"
    BY <1>6 DEF Publishes
  <2>5. Delivers(t, i, e, old.ctx = "live") /\ (old.ctx = "live") \in BOOLEAN
    BY <2>1
  <2> HIDE DEF e
  <2> QED BY <1>1, <2>3, <2>4, <2>5, DeliversKeeps
<1>7. CASE Fails(t, i)
  <2> DEFINE turn == [old EXCEPT !.pc = "send"]
  <2>1. /\ turn \in TurnRecs /\ turn.ctx = old.ctx /\ turn.role = old.role
        /\ turn.ver = old.ver /\ turn.pc = "send"
    BY <1>3 DEF TurnRecs, TurnFields
  <2>2. Becomes(t, i, turn) /\ UNCHANGED queue
    BY <1>7 DEF Fails
  <2>3. old.pc \in {"assign", "run"} \/ LateErrors
    BY <1>7 DEF Fails
  <2>4. Live(turn) => Live(old)
    BY <2>1, <2>3 DEF Live, Punctual
  <2> HIDE DEF turn
  <2> QED BY <1>1, <2>1, <2>2, <2>4, FadesKeeps
<1>8. CASE Returns(t, i)
  <2> DEFINE turn == [old EXCEPT !.pc = "wait"]
  <2>1. /\ turn \in TurnRecs /\ turn.ctx = old.ctx /\ turn.role = old.role
        /\ turn.ver = old.ver /\ turn.pc = "wait"
    BY <1>3 DEF TurnRecs, TurnFields
  <2>2. Becomes(t, i, turn) /\ UNCHANGED queue
    BY <1>8 DEF Returns
  <2>3. ~Live(turn)
    BY <2>1 DEF Live
  <2> HIDE DEF turn
  <2> QED BY <1>1, <2>1, <2>2, <2>3, FadesKeeps
<1>9. CASE Watchdog(t, i) /\ old.ctx = "expired"
  <2> DEFINE turn == [old EXCEPT !.pc = "send", !.timeout = TRUE]
  <2>1. /\ turn \in TurnRecs /\ turn.ctx = old.ctx /\ turn.role = old.role
        /\ turn.ver = old.ver /\ turn.pc = "send"
    BY <1>3 DEF TurnRecs, TurnFields
  <2>2. Becomes(t, i, turn) /\ UNCHANGED queue
    BY <1>9 DEF Watchdog
  <2>3. ~Live(turn)
    BY <1>3, <1>9, <2>1 DEF Live, TurnRecs
  <2> HIDE DEF turn
  <2> QED BY <1>1, <2>1, <2>2, <2>3, FadesKeeps
<1>10. CASE Watchdog(t, i) /\ old.ctx = "canceled"
  <2> DEFINE rest == RemoveAt(turns[t], i)
  <2>1. turns' = [turns EXCEPT ![t] = rest] /\ queue' = queue
    BY <1>10 DEF Watchdog
  <2>2. turns \in [Todos -> Seq(TurnRecs)] /\ queue \in Seq(EventRecs) /\ Len(queue) <= QueueCap
    BY PlanTypes DEF RunInv
  <2>3. /\ rest \in Seq(TurnRecs) /\ DOMAIN rest = 1..(Len(turns[t]) - 1)
        /\ \A j \in 1..(Len(turns[t]) - 1) :
              rest[j] = IF j < i THEN turns[t][j] ELSE turns[t][j + 1]
    BY <1>3, RemoveAtFacts
  <2>4. pc = "loop" =>
          OneBaton(t, rest, queue, status[t], cycles[t], diffs[t], approved[t])
    BY <1>3, BatonRemoved DEF RunInv, Batons
  <2> HIDE DEF rest
  <2>5. /\ turns' \in [Todos -> Seq(TurnRecs)] /\ turns'[t] = rest
        /\ \A u \in Todos \ {t} : turns'[u] = turns[u]
    BY <2>1, <2>2, <2>3
  <2>6. Batons'
    BY <1>1, <2>1, <2>4, <2>5 DEF RunInv, Batons, Aside
  <2>7. Watched'
    <3> SUFFICES ASSUME pc = "loop", ~canceled, NEW u \in Todos, status[u] = "InProgress"
                 PROVE  \E j \in DOMAIN turns'[u] : turns'[u][j].ctx # "canceled"
      BY <1>1 DEF Watched, Aside
    <3>1. PICK j \in DOMAIN turns[u] : turns[u][j].ctx # "canceled"
      BY DEF RunInv, Watched
    <3>2. CASE u # t
      BY <2>5, <3>1, <3>2
    <3>3. CASE u = t
      <4> DEFINE k == IF j < i THEN j ELSE j - 1
      <4>1. /\ Len(turns[t]) \in Nat /\ i \in 1..Len(turns[t]) /\ j \in 1..Len(turns[t])
            /\ j # i
        BY <1>3, <1>10, <3>1, <3>3, LenProperties
      <4>2. k \in 1..(Len(turns[t]) - 1) /\ j = IF k < i THEN k ELSE k + 1
        BY <4>1
      <4> HIDE DEF k
      <4>3. rest[k] = turns[t][j]
        BY <2>3, <4>2
      <4>4. k \in DOMAIN turns'[u] /\ turns'[u][k].ctx # "canceled"
        BY <2>3, <2>5, <3>1, <3>3, <4>2, <4>3
      <4> QED BY <4>4
    <3> QED BY <3>2, <3>3
  <2> QED BY <1>1, <1>3, <2>1, <2>2, <2>5, <2>6, <2>7, AsideKeeps
<1> QED BY <1>2, <1>5, <1>6, <1>7, <1>8, <1>9, <1>10 DEF Watchdog

\* A deadline passes.
LEMMA ExpireKeeps == ASSUME RunInv, NEW t \in Todos, Expire(t) PROVE RunInv'
<1>1. Aside /\ UNCHANGED <<canceled, queue>>
  BY DEF Expire, Aside, plan, env, outcome, history
<1>2. PICK i \in DOMAIN turns[t] :
        /\ turns[t][i].role \in Capped /\ Becomes(t, i, [turns[t][i] EXCEPT !.ctx = "expired"])
  BY DEF Expire
<1> DEFINE old == turns[t][i]
           turn == [old EXCEPT !.ctx = "expired"]
<1>3. old \in TurnRecs
  BY TurnFacts
<1>4. ~Punctual
  BY <1>2 DEF Punctual
<1>5. /\ turn \in TurnRecs /\ turn.ctx = "expired" /\ turn.role = old.role
      /\ turn.ver = old.ver /\ turn.pc = old.pc
  BY <1>3, <1>4 DEF TurnRecs, TurnFields
<1>6. Live(turn) => Live(old)
  BY <1>5 DEF Live
<1>7. Becomes(t, i, turn)
  BY <1>2
<1> HIDE DEF turn
<1> QED BY <1>1, <1>5, <1>6, <1>7, FadesKeeps

\* The caller cancels the run.
LEMMA CancelKeeps == ASSUME RunInv, CancelRun PROVE RunInv'
<1>1. Aside /\ canceled' /\ UNCHANGED queue /\ turns' = [t \in Todos |-> Disarm(turns[t])]
  BY DEF CancelRun, Aside, plan, outcome, history
<1>2. /\ turns' \in [Todos -> Seq(TurnRecs)] /\ turns \in [Todos -> Seq(TurnRecs)]
      /\ queue \in Seq(EventRecs) /\ Len(queue) <= QueueCap
  BY <1>1, AllDisarmed, PlanTypes DEF RunInv
<1>3. pc = "plan" => (\A t \in Todos : turns'[t] = <<>>) /\ queue = <<>>
  <2> SUFFICES ASSUME pc = "plan", NEW t \in Todos PROVE Disarm(turns[t]) = <<>>
    BY <1>1 DEF RunInv, Staged
  <2>1. turns[t] = <<>>
    BY DEF RunInv, Staged
  <2>2. turns[t] \in Seq(TurnRecs)
    BY <1>2
  <2>3. Disarm(turns[t]) \in Seq(TurnRecs) /\ Len(Disarm(turns[t])) = 0
    BY <2>1, <2>2, DisarmFacts, EmptySeq
  <2> QED BY <2>1, <2>3, EmptySeq
<1>4. Batons'
  BY <1>1, <1>2, BatonDisarmed DEF RunInv, Batons, Aside
<1>5. Watched'
  BY <1>1 DEF Watched
<1> QED BY <1>1, <1>2, <1>3, <1>4, <1>5, AsideKeeps

\* The bus closes, or nothing happens.
LEMMA CloseKeeps ==
  ASSUME RunInv, UNCHANGED <<pc, plan, turns, queue, canceled, outcome, history>>,
         closed => closed'
  PROVE  RunInv'
<1>1. Aside /\ UNCHANGED <<turns, queue, canceled>>
  BY DEF Aside, plan, outcome, history
<1>2. turns \in [Todos -> Seq(TurnRecs)] /\ queue \in Seq(EventRecs) /\ Len(queue) <= QueueCap
  BY PlanTypes DEF RunInv
<1>3. Batons' /\ Watched'
  BY <1>1 DEF RunInv, Batons, Watched, Aside
<1> QED BY <1>1, <1>2, <1>3, AsideKeeps DEF RunInv, Staged

-----------------------------------------------------------------------------
(* The theorems.                                                           *)

\* The invariant holds when the run begins.
LEMMA InitRun == Init => RunInv
<1> SUFFICES ASSUME Init PROVE RunInv
  OBVIOUS
<1>1. /\ pc = "plan" /\ status = [t \in Todos |-> "Pending"]
      /\ cycles = [t \in Todos |-> 0] /\ inflight = {}
      /\ diffs = [t \in Todos |-> 0] /\ turns = [t \in Todos |-> <<>>] /\ queue = <<>>
      /\ reason = "none" /\ report = "none"
      /\ approved = diffs /\ tested = diffs
  BY DEF Init
<1>2. Typed
  <2>1. TypeOK
    <3>1. cycles \in [Todos -> 0..(MaxRework + 1)] /\ diffs \in [Todos -> 0..(MaxRework + 1)]
      BY <1>1, OrchestratorAssumption
    <3>2. Cardinality(inflight) <= Bound
      BY <1>1, FS_EmptySet, OrchestratorAssumption
    <3>3. Len(queue) <= QueueCap
      BY <1>1, OrchestratorAssumption
    <3> QED BY <1>1, <3>1, <3>2, <3>3 DEF TypeOK
  <2>2. /\ turns \in [Todos -> Seq(TurnRecs)] /\ queue \in Seq(EventRecs)
        /\ approved \in [Todos -> Nat] /\ tested \in [Todos -> Nat]
    BY <1>1
  <2> QED BY <1>1, <2>1, <2>2 DEF Typed
<1>3. Staged
  BY <1>1 DEF Staged
<1> QED BY <1>1, <1>2, <1>3 DEF RunInv, Batons, Watched, Earned, NilMeansGreen

\* Every step keeps it.
LEMMA NextRun == RunInv /\ [Next]_vars => RunInv'
<1> SUFFICES ASSUME RunInv, [Next]_vars PROVE RunInv'
  OBVIOUS
<1>1. CASE Plan
  BY <1>1, PlanKeeps
<1>2. CASE Handle
  BY <1>2, HandleKeeps
<1>3. CASE Finish
  BY <1>3, FinishKeeps
<1>4. CASE Drain
  BY <1>4, DrainKeeps
<1>5. CASE Return
  BY <1>5, ReturnKeeps
<1>6. ASSUME NEW t \in Todos, NEW i \in DOMAIN turns[t], Result(t, i) PROVE RunInv'
  BY <1>6, ResultKeeps
<1>7. ASSUME NEW t \in Todos, TurnStep(t) PROVE RunInv'
  BY <1>7, TurnStepKeeps
<1>8. ASSUME NEW t \in Todos, Expire(t) PROVE RunInv'
  BY <1>8, ExpireKeeps
<1>9. CASE CancelRun
  BY <1>9, CancelKeeps
<1>10. CASE CloseBus
  BY <1>10, CloseKeeps DEF CloseBus
<1>11. CASE UNCHANGED vars
  BY <1>11, CloseKeeps DEF vars, env
<1> QED BY <1>1, <1>2, <1>3, <1>4, <1>5, <1>6, <1>7, <1>8, <1>9, <1>10, <1>11
    DEF Next, LoopStep

\* The invariant always holds.
LEMMA AlwaysRun == Spec => []RunInv
BY InitRun, NextRun, PTL DEF Spec

\* The types hold, and with them the caps the code promises: no todo is
\* reworked beyond MaxReworkCycles but for the attempt that fails it, and no
\* more than Concurrency slots are taken.
THEOREM TypeCorrect == Spec => []TypeOK
<1>1. RunInv => TypeOK
  BY DEF RunInv, Typed
<1> QED BY <1>1, AlwaysRun, PTL

\* While the loop runs and is not cancelled, a todo in progress has a turn or
\* an event that will move it on: every event arms the next turn, and a turn
\* that is not cancelled leaves only by telling the loop.
THEOREM NobodyEverForgotten == Spec => []NobodyIsForgotten
<1>1. RunInv => NobodyIsForgotten
  BY DEF RunInv, Watched, NobodyIsForgotten
<1> QED BY <1>1, AlwaysRun, PTL

\* A green plan.done is earned: of each todo the diff that is merged was the
\* last one approved and the last one that passed its test.
THEOREM GreenAlwaysEarned == Spec => []GreenIsEarned
<1>1. ASSUME RunInv PROVE GreenIsEarned
  <2> SUFFICES ASSUME report = "done", NEW t \in Todos
               PROVE  diffs[t] # 0 /\ approved[t] = diffs[t] /\ tested[t] = diffs[t]
    BY DEF GreenIsEarned
  <2>1. AllDone /\ FailedTodos = {}
    BY <1>1 DEF RunInv, Staged
  <2>2. status[t] = "Done"
    BY <2>1 DEF AllDone, FailedTodos, Outcomes
  <2> QED BY <1>1, <2>2 DEF RunInv, Earned
<1> QED BY <1>1, AlwaysRun, PTL

\* Run returns nil only over a plan announced as done.
THEOREM NilAlwaysGreen == Spec => []NilMeansGreen
<1>1. RunInv => NilMeansGreen
  BY DEF RunInv
<1> QED BY <1>1, AlwaysRun, PTL

-----------------------------------------------------------------------------
(* The run implements the board.                                           *)

\* The board counts as the run does.
LEMMA BoardCounts == \A S : Board!Cardinality(S) = Cardinality(S)
BY DEF Board!Cardinality, Cardinality

\* Before Run returns, a dispatch after at most one todo in progress got its
\* outcome is a step of the board: what starts had its dependencies met, and
\* what is in progress has a slot.
LEMMA DispatchAdvances ==
  ASSUME RunInv, RunInv', pc # "returned", pc' # "returned",
         NEW ended \in SUBSET Board!Working(status), Cardinality(ended) <= 1,
         NEW st \in [Todos -> Statuses], NEW inf \in SUBSET Todos, Cardinality(inf) <= Bound,
         NEW ts \in [Todos -> Seq(TurnRecs)], Dispatch(st, inf, ts),
         \A t \in ended : st[t] \in Outcomes,
         \A t \in Todos \ ended : st[t] = status[t]
  PROVE  Board!Advance
<1>1. \A t \in Todos :
        \/ st[t] = "Pending" /\ DepsMet(st, t) /\ status'[t] = "InProgress"
        \/ status'[t] = st[t]
  BY DispatchFacts
<1>2. \A t \in Todos : st[t] \in Outcomes => status'[t] = st[t]
  BY <1>1 DEF Outcomes
<1>3. \A t \in ended : Board!Ended(status', t)
  BY <1>2 DEF Board!Ended, Board!Outcomes, Outcomes, Board!Working
<1>4. ASSUME NEW t \in Todos \ ended
      PROVE  \/ status'[t] = status[t]
             \/ /\ status[t] = "Pending" /\ status'[t] = "InProgress"
                /\ \A d \in Deps[t] : Board!Ended(status', d)
  <2>1. CASE status'[t] = st[t]
    BY <2>1
  <2>2. CASE st[t] = "Pending" /\ DepsMet(st, t) /\ status'[t] = "InProgress"
    <3>1. \A d \in Deps[t] : d \in Todos /\ st[d] \in Outcomes
      BY <2>2, OrchestratorAssumption DEF DepsMet
    <3>2. \A d \in Deps[t] : Board!Ended(status', d)
      BY <1>2, <3>1 DEF Board!Ended, Board!Outcomes, Outcomes
    <3> QED BY <2>2, <3>2
  <2> QED BY <1>1, <2>1, <2>2
<1>5. status' \in [Todos -> Board!Statuses]
  BY DispatchFacts DEF Board!Statuses, Board!Outcomes, Statuses, Outcomes
<1>6. Cardinality(Board!Working(status')) <= Bound
  <2>1. /\ inflight' \subseteq Todos /\ Cardinality(inflight') <= Bound
        /\ \A t \in Todos : status'[t] = "InProgress" => t \in inflight'
    BY DEF RunInv, Typed, TypeOK
  <2>2. IsFiniteSet(Todos)
    BY FS_Interval, OrchestratorAssumption DEF Todos
  <2>3. Board!Working(status') \in SUBSET inflight' /\ IsFiniteSet(inflight')
    BY <2>1, <2>2, FS_Subset DEF Board!Working
  <2>4. /\ Cardinality(Board!Working(status')) <= Cardinality(inflight')
        /\ IsFiniteSet(Board!Working(status'))
    BY <2>3, FS_Subset
  <2>5. Cardinality(Board!Working(status')) \in Nat /\ Cardinality(inflight') \in Nat
    BY <2>3, <2>4, FS_CardinalityType
  <2> QED BY <2>1, <2>4, <2>5, OrchestratorAssumption
<1>7. /\ Board!Cardinality(ended) <= 1
      /\ Board!Cardinality(Board!Working(status')) <= Bound
  BY <1>6, BoardCounts
<1> QED BY <1>3, <1>4, <1>5, <1>7 DEF Board!Advance

\* A todo in progress gets its outcome, and the wave it lets start.
LEMMA MarkAdvances ==
  ASSUME RunInv, RunInv', pc = "loop", pc' = "loop",
         NEW t \in Todos, status[t] = "InProgress", NEW result \in Outcomes,
         NEW ts \in [Todos -> Seq(TurnRecs)], MarkTerminal(t, result, ts)
  PROVE  Board!Advance
<1> DEFINE st == [status EXCEPT ![t] = result]
           inf == inflight \ {t}
           after == [ts EXCEPT ![t] = Disarm(@)]
<1>1. /\ status \in [Todos -> Statuses] /\ inflight \in SUBSET Todos
      /\ Cardinality(inflight) <= Bound /\ result \in Statuses
  BY PlanTypes DEF RunInv, Statuses
<1>2. /\ st \in [Todos -> Statuses] /\ st[t] = result
      /\ \A u \in Todos \ {t} : st[u] = status[u]
  BY <1>1
<1>3. inf \in SUBSET Todos /\ Cardinality(inf) <= Bound
  <2>1. IsFiniteSet(Todos)
    BY FS_Interval, OrchestratorAssumption DEF Todos
  <2>2. IsFiniteSet(inflight) /\ inf \in SUBSET inflight
    BY <1>1, <2>1, FS_Subset
  <2>3. Cardinality(inf) <= Cardinality(inflight) /\ Cardinality(inf) \in Nat
        /\ Cardinality(inflight) \in Nat
    BY <2>2, FS_Subset, FS_CardinalityType
  <2> QED BY <1>1, <2>2, <2>3, OrchestratorAssumption
<1>4. after \in [Todos -> Seq(TurnRecs)]
  BY DisarmFacts
<1>5. Dispatch(st, inf, after)
  BY DEF MarkTerminal
<1>6. {t} \in SUBSET Board!Working(status) /\ Cardinality({t}) <= 1
  <2>1. Cardinality({t}) = 1
    BY FS_Singleton
  <2> QED BY <2>1 DEF Board!Working
<1> HIDE DEF st, inf, after
<1>7. /\ \A u \in {t} : st[u] \in Outcomes
      /\ \A u \in Todos \ {t} : st[u] = status[u]
  BY <1>2
<1>8. pc # "returned" /\ pc' # "returned"
  OBVIOUS
<1> QED BY <1>2, <1>3, <1>4, <1>5, <1>6, <1>7, <1>8, DispatchAdvances, ZenonT(60)

\* Every step of a run without late failures is a step of the board.  That a
\* todo gets its outcome only while it is in progress is what the baton says:
\* the event or the failure that ends it is the only one there is.
LEMMA StepIsBoardStep ==
  ASSUME Punctual, RunInv, RunInv', [Next]_vars
  PROVE  [Board!Next]_<<status, pc = "returned">>
<1> DEFINE Still == UNCHANGED <<status, pc = "returned">>
<1> SUFFICES Board!Next \/ Still
  OBVIOUS
<1>1. /\ status \in [Todos -> Statuses] /\ inflight \in SUBSET Todos
      /\ Cardinality(inflight) <= Bound /\ turns \in [Todos -> Seq(TurnRecs)]
  BY PlanTypes DEF RunInv
<1>2. CASE Plan
  <2>1. pc = "plan" /\ \A t \in Todos : status[t] = "Pending"
    BY <1>2 DEF RunInv, Staged, Plan
  <2>2. CASE pc' = "returned" /\ UNCHANGED plan
    <3>1. Board!Close
      BY <2>1, <2>2 DEF Board!Close, plan
    <3> QED BY <3>1 DEF Board!Next
  <2>3. CASE pc' = "loop" /\ Dispatch(status, inflight, turns)
    <3>1. {} \in SUBSET Board!Working(status) /\ Cardinality({}) <= 1
      BY FS_EmptySet
    <3>2. /\ \A t \in {} : status[t] \in Outcomes
          /\ \A t \in Todos \ {} : status[t] = status[t]
          /\ pc # "returned" /\ pc' # "returned"
      BY <2>1, <2>3
    <3>3. Board!Advance
      BY <1>1, <2>3, <3>1, <3>2, DispatchAdvances, ZenonT(60)
    <3> QED BY <3>3 DEF Board!Next
  <2> QED BY <1>2, <2>2, <2>3 DEF Plan
<1>3. CASE Handle
  <2> DEFINE e == Head(queue)
             t == e.todo
  <2>1. /\ pc = "loop" /\ pc' = "loop" /\ queue # <<>>
        /\ CodeReady(e) \/ Verdict(e) \/ TestReport(e) \/ OwnEvent(e)
    BY <1>3 DEF Handle
  <2>2. ASSUME e.kind \in {"verdict", "report"} PROVE t \in Todos /\ status[t] = "InProgress"
    <3>1. e \in EventRecs
      BY <2>1, HeadFacts DEF RunInv
    <3>2. t \in Todos /\ HandsOver(Head(queue), t)
      BY <2>2, <3>1 DEF EventRecs, HandsOver
    <3>3. Open(status[t], cycles[t])
      BY <2>1, <3>2, HeadFacts DEF RunInv
    <3> QED BY <3>2, <3>3 DEF Open
  <2> HIDE DEF e
  <2>3. ASSUME e.kind \in {"verdict", "report"}, Rework(t) PROVE Board!Next \/ Still
    <3>1. CASE MarkTerminal(t, "Failed", turns)
      <4>1. "Failed" \in Outcomes
        BY DEF Outcomes
      <4>2. t \in Todos /\ status[t] = "InProgress"
        BY <2>2, <2>3
      <4> HIDE DEF t
      <4>3. Board!Advance
        BY <1>1, <2>1, <3>1, <4>1, <4>2, MarkAdvances
      <4> QED BY <4>3 DEF Board!Next
    <3>2. CASE UNCHANGED status
      BY <2>1, <3>2
    <3> QED BY <2>3, <3>1, <3>2 DEF Rework
  <2>4. CASE CodeReady(e) \/ OwnEvent(e)
    BY <2>1, <2>4 DEF CodeReady, OwnEvent, plan
  <2>5. CASE Verdict(e)
    <3>1. CASE UNCHANGED status
      BY <2>1, <3>1
    <3>2. CASE Rework(t)
      BY <2>3, <2>5, <3>2 DEF Verdict
    <3> QED BY <2>5, <3>1, <3>2 DEF Verdict
  <2>6. CASE TestReport(e)
    <3>1. CASE MarkTerminal(t, "Done", turns)
      <4>1. "Done" \in Outcomes
        BY DEF Outcomes
      <4>2. t \in Todos /\ status[t] = "InProgress"
        BY <2>2, <2>6 DEF TestReport
      <4> HIDE DEF t
      <4>3. Board!Advance
        BY <1>1, <2>1, <3>1, <4>1, <4>2, MarkAdvances
      <4> QED BY <4>3 DEF Board!Next
    <3>2. CASE Rework(t)
      BY <2>3, <2>6, <3>2 DEF TestReport
    <3> QED BY <2>6, <3>1, <3>2 DEF TestReport
  <2> QED BY <2>1, <2>4, <2>5, <2>6
<1>4. CASE Finish
  <2>1. pc = "loop" /\ pc' = "quiesce"
    BY <1>4 DEF Finish, Leave
  <2>2. CASE FailOutstanding
    <3>1. Board!Abandon
      BY <2>1, <2>2 DEF FailOutstanding, Board!Abandon, Board!Ended, Board!Outcomes, Outcomes
    <3> QED BY <3>1 DEF Board!Next
  <2>3. CASE UNCHANGED status
    BY <2>1, <2>3
  <2> QED BY <1>4, <2>2, <2>3 DEF Finish
<1>5. CASE Drain
  BY <1>5 DEF Drain, plan
<1>6. CASE Return
  <2>1. pc = "quiesce" /\ pc' = "returned" /\ status' = status
    BY <1>6 DEF Return, plan
  <2>2. AllDone
    BY <2>1 DEF RunInv, Staged
  <2>3. Board!Close
    BY <2>1, <2>2 DEF Board!Close, Board!Ended, Board!Outcomes, AllDone, Outcomes
  <2> QED BY <2>3 DEF Board!Next
<1>7. ASSUME NEW t \in Todos, NEW i \in DOMAIN turns[t], Result(t, i)
      PROVE  Board!Next \/ Still
  <2> DEFINE ts == [turns EXCEPT ![t] = RemoveAt(@, i)]
  <2>1. pc = "loop" /\ pc' = "loop" /\ turns[t][i].pc = "send" /\ ApplyResult(t, ts)
    BY <1>7 DEF Result
  <2>2. CASE UNCHANGED status
    BY <2>1, <2>2
  <2>3. CASE MarkTerminal(t, "Failed", ts)
    <3>1. Open(status[t], cycles[t])
      BY <2>1 DEF RunInv, Batons, OneBaton, Live
    <3>2. status[t] = "InProgress" /\ "Failed" \in Outcomes
      BY <3>1 DEF Open, Outcomes
    <3>3. ts \in [Todos -> Seq(TurnRecs)]
      <4>1. turns[t] \in Seq(TurnRecs)
        BY <1>1
      <4>2. RemoveAt(turns[t], i) \in Seq(TurnRecs)
        BY <4>1, RemoveAtFacts
      <4> QED BY <1>1, <4>2
    <3> HIDE DEF ts
    <3>4. Board!Advance
      BY <2>1, <2>3, <3>2, <3>3, MarkAdvances
    <3> QED BY <3>4 DEF Board!Next
  <2> QED BY <2>1, <2>2, <2>3 DEF ApplyResult
<1>8. ASSUME NEW t \in Todos, TurnStep(t) \/ Expire(t) PROVE Still
  BY <1>8 DEF TurnStep, Expire, plan
<1>9. CASE CancelRun \/ CloseBus \/ UNCHANGED vars
  BY <1>9 DEF CancelRun, CloseBus, vars, plan
<1> HIDE DEF Still
<1> QED BY <1>2, <1>3, <1>4, <1>5, <1>6, <1>7, <1>8, <1>9 DEF Next, LoopStep

\* Without timeouts, and without failures of a turn after its event, a run
\* does what the board promises: no todo starts before its dependencies have
\* their outcomes or beyond the bound, each gets one outcome, and Run returns
\* with an outcome for all of them.
THEOREM RunImplementsBoard == ASSUME Punctual PROVE Spec => ImplementsBoard
<1>1. Init => Board!Init
  BY DEF Init, Board!Init
<1>2. RunInv /\ RunInv' /\ [Next]_vars => [Board!Next]_<<status, pc = "returned">>
  BY StepIsBoardStep
<1> QED BY <1>1, <1>2, AlwaysRun, PTL DEF Spec, ImplementsBoard, Board!Spec

\* There a todo's outcome stays, whoever is still at work on it.
THEOREM OutcomesStay == ASSUME Punctual PROVE Spec => OutcomeIsFinal
<1>1. ASSUME RunInv, RunInv', [Next]_vars, NEW t \in Todos, status[t] \in Outcomes
      PROVE  status'[t] = status[t]
  <2>1. \/ Board!Advance \/ Board!Abandon \/ Board!Close \/ UNCHANGED status
    BY <1>1, StepIsBoardStep DEF Board!Next
  <2>2. CASE Board!Advance
    <3>1. PICK ended \in SUBSET Board!Working(status) :
            \A u \in Todos \ ended :
               status'[u] = status[u] \/ status[u] = "Pending"
      BY <2>2 DEF Board!Advance
    <3>2. t \notin ended /\ status[t] # "Pending"
      BY <1>1 DEF Board!Working, Outcomes
    <3> QED BY <3>1, <3>2
  <2>3. CASE Board!Abandon
    BY <1>1, <2>3 DEF Board!Abandon, Board!Ended, Board!Outcomes, Outcomes
  <2>4. CASE Board!Close
    BY <2>4 DEF Board!Close
  <2> QED BY <2>1, <2>2, <2>3, <2>4
<1>2. RunInv /\ RunInv' /\ [Next]_vars =>
        [\A t \in Todos : status[t] \in Outcomes => status'[t] = status[t]]_vars
  BY <1>1
<1> QED BY <1>2, AlwaysRun, PTL DEF Spec, OutcomeIsFinal

=============================================================================
