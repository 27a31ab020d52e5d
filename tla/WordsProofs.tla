---------------------------- MODULE WordsProofs ----------------------------
(***************************************************************************)
(* Proofs about the parts that work on words, for any values of their      *)
(* constants: the transcript of the talk with the model (Conversation),    *)
(* the class of a command line (ShellRisk), the plan of a goal (GoalPlan)  *)
(* and the prompt (PromptFit).                                             *)
(*                                                                         *)
(* All are algorithms that go through a sequence one element at a time,    *)
(* written as recursive functions; the first section shows that such a     *)
(* function exists and that what each step keeps holds after all of them,  *)
(* by induction from the library's well-founded order of the naturals.     *)
(*                                                                         *)
(* TalkInv:    every result stands behind the reply that asked for it,     *)
(*             with nothing but results of that reply between them; the    *)
(*             calls left to dispatch are asks of the last reply, all      *)
(*             still unanswered.                                           *)
(* LineInv:    a line is made of words; every claim about its class        *)
(*             follows from where the peeling of a segment stands after    *)
(*             each word.                                                  *)
(* GoalIsKept: a plan's titles are the clauses of its goal; what is said   *)
(*             of them follows from where a text is cut.                   *)
(* FitIsKept:  a package is what the walk keeps of what was gathered, and  *)
(*             a prompt one of the ways in which a package is cut; what    *)
(*             is said of them follows from where the walk stands after    *)
(*             each offer.                                                 *)
(***************************************************************************)
EXTENDS Conversation, ShellRisk, GoalPlan, PromptFit,
        FiniteSetTheorems, SequenceTheorems, WellFoundedInduction, TLAPS

-----------------------------------------------------------------------------
(* Recursion and induction.                                                *)

\* What holds of 0 and goes from each number to the next holds of every number.
LEMMA NatSet ==
  ASSUME NEW S, 0 \in S, \A n \in Nat : n \in S => n + 1 \in S
  PROVE  Nat \subseteq S
<1> DEFINE R == {ss \in Nat \X Nat : ss[1] < ss[2]}
           U == Nat \ S
<1>1. SUFFICES ASSUME U # {} PROVE FALSE
  OBVIOUS
<1>2. IsWellFoundedOn(R, Nat)
  BY NatLessThanWellFounded DEF OpToRel
<1> HIDE DEF R
<1>3. PICK x \in U : \A y \in U : ~ (<<y, x>> \in R)
  BY <1>1, <1>2, WFMin
<1>4. \A y \in U : ~ (y < x)
  BY <1>3 DEF R
<1>5. x # 0 /\ x - 1 \in Nat
  OBVIOUS
<1>6. x - 1 \in S
  BY <1>4, <1>5
<1> QED BY <1>5, <1>6

\* A set of numbers that is not empty has a least one.
LEMMA NatMin ==
  ASSUME NEW S \in SUBSET Nat, S # {}
  PROVE  \E m \in S : \A k \in S : m <= k
<1> DEFINE T == {n \in Nat : \A k \in S : n <= k}
<1>1. SUFFICES ASSUME \A m \in S : \E k \in S : k < m PROVE FALSE
  OBVIOUS
<1>2. 0 \in T
  OBVIOUS
<1>3. ASSUME NEW n \in Nat, n \in T PROVE n + 1 \in T
  <2>1. n \notin S
    BY <1>1, <1>3
  <2>2. ASSUME NEW k \in S PROVE n + 1 <= k
    <3>1. n <= k /\ n # k /\ k \in Nat
      BY <1>3, <2>1
    <3> QED BY <3>1
  <2> QED BY <2>2
<1>4. Nat \subseteq T
  <2> HIDE DEF T
  <2> QED BY <1>2, <1>3, NatSet
<1>5. PICK k \in S : TRUE
  OBVIOUS
<1>6. k + 1 \in T
  <2> HIDE DEF T
  <2> QED BY <1>4
<1> QED BY <1>5, <1>6

\* n steps from v0, the k-th from V[k - 1] to V[k], and a g that takes them.
Steps(V, v0, n, step) ==
    n \in Nat /\ v0 \in V[0] /\ \A k \in 1 .. n : \A v \in V[k - 1] : step[k][v] \in V[k]

Takes(V, v0, n, step, g) ==
    g[0] = v0 /\ \A k \in 1 .. n : g[k - 1] \in V[k - 1] => g[k] = step[k][g[k - 1]]

\* What takes such steps is, after k of them, in the k-th set.
LEMMA StepsReach ==
  ASSUME NEW V, NEW v0, NEW n, NEW step, NEW g, Steps(V, v0, n, step), Takes(V, v0, n, step, g)
  PROVE  \A k \in 0 .. n : g[k] \in V[k]
<1> DEFINE S == {k \in Nat : k <= n => g[k] \in V[k]}
<1>1. 0 \in S
  BY DEF Steps, Takes
<1>2. ASSUME NEW k \in Nat, k \in S PROVE k + 1 \in S
  <2> SUFFICES ASSUME k + 1 <= n PROVE g[k + 1] \in V[k + 1]
    OBVIOUS
  <2>1. n \in Nat
    BY DEF Steps
  <2>2. k + 1 \in 1 .. n /\ (k + 1) - 1 = k /\ g[k] \in V[k]
    BY <1>2, <2>1
  <2>3. g[k + 1] = step[k + 1][g[k]] /\ step[k + 1][g[k]] \in V[k + 1]
    BY <2>2 DEF Steps, Takes
  <2> QED BY <2>3
<1>3. Nat \subseteq S
  <2> HIDE DEF S
  <2> QED BY <1>1, <1>2, NatSet
<1> QED BY <1>3 DEF Steps

\* There is a function that takes them.
LEMMA StepsExist ==
  ASSUME NEW V, NEW v0, NEW n, NEW step, Steps(V, v0, n, step)
  PROVE  \E f : f = [k \in 0 .. n |-> f[k]] /\ Takes(V, v0, n, step, f)
<1> DEFINE Is(f, m) == f = [k \in 0 .. m |-> f[k]] /\ f[0] = v0 /\ \A k \in 1 .. m : f[k] = step[k][f[k - 1]]
           S == {m \in Nat : \E f : Is(f, m)}
<1>1. 0 \in S
  <2> DEFINE f == [k \in 0 .. 0 |-> v0]
  <2>1. Is(f, 0)
    OBVIOUS
  <2> HIDE DEF f, Is
  <2> QED BY <2>1
<1>2. ASSUME NEW m \in Nat, m \in S PROVE m + 1 \in S
  <2>1. PICK f : Is(f, m)
    BY <1>2
  <2> DEFINE g == [k \in 0 .. m + 1 |-> IF k = m + 1 THEN step[m + 1][f[m]] ELSE f[k]]
  <2>2. \A k \in 0 .. m : g[k] = f[k]
    OBVIOUS
  <2>3. g[m + 1] = step[m + 1][f[m]]
    OBVIOUS
  <2>4. g = [k \in 0 .. m + 1 |-> g[k]]
    OBVIOUS
  <2> HIDE DEF g
  <2>5. ASSUME NEW k \in 1 .. m + 1 PROVE g[k] = step[k][g[k - 1]]
    <3>1. CASE k = m + 1
      BY <2>2, <2>3, <3>1
    <3>2. CASE k # m + 1
      <4>1. k \in 1 .. m /\ k \in 0 .. m /\ k - 1 \in 0 .. m
        BY <3>2
      <4> QED BY <2>1, <2>2, <4>1
    <3> QED BY <3>1, <3>2
  <2>6. g[0] = v0
    BY <2>1, <2>2
  <2>7. Is(g, m + 1)
    BY <2>4, <2>5, <2>6
  <2> HIDE DEF Is
  <2> QED BY <2>7
<1>3. n \in S
  <2>1. n \in Nat
    BY DEF Steps
  <2> HIDE DEF S
  <2> QED BY <1>1, <1>2, <2>1, NatSet
<1>4. PICK f : Is(f, n)
  BY <1>3
<1> QED BY <1>4 DEF Takes

-----------------------------------------------------------------------------
(* The talk.                                                               *)

\* A reply with all its results fits the history beside the frame.  The code does not
\* limit the calls of a reply; 200 messages hold any a model is known to send.
TurnFits == MaxParallel + 2 <= MaxMessages

\* A call as a reply shows it, an entry of the queue, a message.
Calls == [id : Nat, tool : ModelTools, nth : Nat]
Asks  == [id : Nat, tool : ModelTools \union {"patch"}, nth : Nat]
Messages ==
    [role : {"system", "user", "assistant", "result"},
     what : {"frame", "files"} \union TaskGoals \union Nat, calls : Seq(Calls), of : Nat]

\* The reply at j is the one its results stand behind.
Heads(h, j, i) ==
    /\ j \in 1 .. i - 1 /\ h[j].role = "assistant" /\ h[j].what = h[i].what
    /\ \E k \in 1 .. Len(h[j].calls) : h[j].calls[k] = h[i].calls[1]
    /\ \A m \in j + 1 .. i : h[m].role = "result"

\* Every result is of one call, and has a reply at its head.
Paired(h) ==
    \A i \in 1 .. Len(h) : h[i].role = "result" =>
        /\ Len(h[i].calls) = 1 /\ h[i].calls[1].nth = h[i].of
        /\ \E j \in 1 .. Len(h) : Heads(h, j, i)

\* No two results are of the same call.
Apart(h) ==
    \A i, j \in 1 .. Len(h) : (i < j /\ h[i].role = "result" /\ h[j].role = "result") =>
        h[i].what # h[j].what \/ h[i].of # h[j].of

\* The ids of a reply's calls are distinct.
Distinct(calls) == \A j, k \in 1 .. Len(calls) : j # k => calls[j].id # calls[k].id

\* The message a transcript opens with.
Opening == Said("system", "frame")

\* A transcript up to turn t, of a task with this goal.
Transcript(aim, h, t) ==
    /\ h \in Seq(Messages)
    /\ h # <<>> => h[1] = Opening
    /\ \A i \in 1 .. Len(h) : i > 1 => h[i].role # "system"
    /\ \A i \in 1 .. Len(h) : h[i].role = "user" => h[i].what \in {aim, "files"}
    /\ \A i \in 1 .. Len(h) : h[i].role \in {"assistant", "result"} => h[i].what \in 1 .. t
    /\ \A i \in 1 .. Len(h) : Distinct(h[i].calls)
    /\ Paired(h) /\ Apart(h)

\* g is h without what a trim cuts: the messages 2 to cut.
CutTo(g, h, cut) ==
    /\ cut \in 1 .. Len(h) /\ Len(g) = 1 + Len(h) - cut
    /\ cut = Len(h) \/ cut = 1 \/ h[cut + 1].role # "result"
    /\ g[1] = h[1] /\ \A i \in 2 .. Len(g) : g[i] = h[i + cut - 1]

\* What a trim does to a transcript that is too long, and what it leaves.
LEMMA TrimCuts ==
  ASSUME NEW h \in Seq(Messages), h # <<>>, h[1].role = "system"
  PROVE  /\ Trim(h) \in Seq(Messages) /\ Len(Trim(h)) <= MaxMessages
         /\ \E cut \in 1 .. Len(h) :
               /\ CutTo(Trim(h), h, cut)
               /\ Len(h) <= MaxMessages => cut = 1
               /\ \A i \in 2 .. Len(h) : (i > Len(h) - MaxMessages /\ i < cut) => h[i + 1].role = "result"
<1>1. CASE Len(h) <= MaxMessages
  <2>1. Trim(h) = h
    BY <1>1 DEF Trim
  <2>2. CutTo(h, h, 1)
    BY DEF CutTo
  <2> QED BY <1>1, <2>1, <2>2
<1>2. CASE Len(h) > MaxMessages
  <2> DEFINE cuts == {i \in 1 + Len(h) - MaxMessages .. Len(h) : i = Len(h) \/ h[i + 1].role # "result"}
             cut == Min(cuts)
  <2>1. Len(h) \in cuts /\ cuts \subseteq Nat /\ Len(h) \in Nat
    BY <1>2, TalkAssumption
  <2>2. cut \in cuts /\ \A i \in cuts : cut <= i
    <3>1. \E m \in cuts : \A k \in cuts : m <= k
      BY <2>1, NatMin
    <3> QED BY <3>1 DEF Min
  <2>3. Trim(h) = SubSeq(h, 1, 1) \o SubSeq(h, cut + 1, Len(h))
    <3> DEFINE pin == IF Head(h).role = "system" THEN 1 ELSE 0
               all == {i \in pin + Len(h) - MaxMessages .. Len(h) : i = Len(h) \/ h[i + 1].role # "result"}
    <3>1. pin = 1
      OBVIOUS
    <3>2. Trim(h) = SubSeq(h, 1, pin) \o SubSeq(h, Min(all) + 1, Len(h))
      <4>1. ~ (Len(h) <= MaxMessages)
        BY <1>2, TalkAssumption
      <4> QED BY <4>1, Zenon DEF Trim
    <3>3. all = cuts
      <4> HIDE DEF pin
      <4> QED BY <3>1
    <3> HIDE DEF pin, all, cuts
    <3> QED BY <3>1, <3>2, <3>3
  <2>4. cut \in 2 .. Len(h)
    BY <1>2, <2>1, <2>2, TalkAssumption
  <2>5. /\ SubSeq(h, 1, 1) \in Seq(Messages) /\ Len(SubSeq(h, 1, 1)) = 1 /\ SubSeq(h, 1, 1)[1] = h[1]
        /\ SubSeq(h, cut + 1, Len(h)) \in Seq(Messages) /\ Len(SubSeq(h, cut + 1, Len(h))) = Len(h) - cut
        /\ \A i \in 1 .. Len(h) - cut : SubSeq(h, cut + 1, Len(h))[i] = h[i + cut]
    <3> HIDE DEF cut
    <3> QED BY <2>4, <2>1
  <2>6. CutTo(Trim(h), h, cut) /\ Trim(h) \in Seq(Messages) /\ Len(Trim(h)) <= MaxMessages
    <3>1. Len(Trim(h)) = 1 + Len(h) - cut /\ Trim(h) \in Seq(Messages) /\ Trim(h)[1] = h[1]
      <4> HIDE DEF cut
      <4> QED BY <2>3, <2>4, <2>5
    <3>2. ASSUME NEW i \in 2 .. Len(Trim(h)) PROVE Trim(h)[i] = h[i + cut - 1]
      <4> HIDE DEF cut
      <4>1. i - 1 \in 1 .. Len(h) - cut
        BY <2>4, <3>1
      <4>2. Trim(h)[i] = SubSeq(h, cut + 1, Len(h))[i - 1]
        BY <2>3, <2>4, <2>5, <3>1, <4>1
      <4>3. SubSeq(h, cut + 1, Len(h))[i - 1] = h[(i - 1) + cut] /\ (i - 1) + cut = i + cut - 1
        BY <2>4, <2>5, <4>1
      <4> QED BY <4>2, <4>3
    <3>3. cut = Len(h) \/ h[cut + 1].role # "result"
      BY <2>2
    <3>4. Len(Trim(h)) <= MaxMessages
      <4>1. cut >= 1 + Len(h) - MaxMessages
        BY <2>2, <2>1, TalkAssumption
      <4> HIDE DEF cut
      <4> QED BY <3>1, <2>4, <4>1, TalkAssumption
    <3> HIDE DEF cut
    <3> QED BY <2>4, <3>1, <3>2, <3>3, <3>4 DEF CutTo
  <2>7. ASSUME NEW i \in 2 .. Len(h), i > Len(h) - MaxMessages, i < cut PROVE h[i + 1].role = "result"
    <3>1. i \notin cuts
      BY <2>2, <2>7, <2>1
    <3>2. i \in 1 + Len(h) - MaxMessages .. Len(h) /\ i # Len(h)
      BY <2>7, <2>4, TalkAssumption
    <3> QED BY <3>1, <3>2
  <2> HIDE DEF cut, cuts
  <2> QED BY <1>2, <2>4, <2>6, <2>7, TalkAssumption
<1> QED BY <1>1, <1>2, TalkAssumption

\* A cut transcript is a transcript.
LEMMA CutKept ==
  ASSUME NEW g \in Seq(Messages), NEW h \in Seq(Messages), NEW t \in Nat, NEW cut \in Nat, NEW aim,
         Transcript(aim, h, t), CutTo(g, h, cut), h # <<>>
  PROVE  Transcript(aim, g, t)
<1> DEFINE at(i) == IF i = 1 THEN 1 ELSE i + cut - 1
<1>0. /\ Len(h) \in Nat /\ Len(g) \in Nat
      /\ cut \in 1 .. Len(h) /\ Len(g) = 1 + Len(h) - cut
  BY DEF CutTo, Transcript
<1>1. \A i \in 1 .. Len(g) : at(i) \in 1 .. Len(h) /\ g[i] = h[at(i)] /\ (i > 1 => at(i) > 1)
  <2> SUFFICES ASSUME NEW i \in 1 .. Len(g) PROVE at(i) \in 1 .. Len(h) /\ g[i] = h[at(i)] /\ (i > 1 => at(i) > 1)
    OBVIOUS
  <2>1. CASE i = 1
    BY <1>0, <2>1 DEF CutTo
  <2>2. CASE i # 1
    <3>1. i \in 2 .. Len(g) /\ at(i) = i + cut - 1
      BY <1>0, <2>2
    <3> QED BY <1>0, <3>1 DEF CutTo
  <2> QED BY <2>1, <2>2
<1>2. \A i, j \in 1 .. Len(g) : i < j => at(i) < at(j)
  BY <1>0
<1>3. \A i \in 1 .. Len(g) : g[i].role = "result" => i > 1
  BY <1>1 DEF Transcript, Opening, Said
<1>4. Paired(g)
  <2> SUFFICES ASSUME NEW i \in 1 .. Len(g), g[i].role = "result"
               PROVE  /\ Len(g[i].calls) = 1 /\ g[i].calls[1].nth = g[i].of
                      /\ \E j \in 1 .. Len(g) : Heads(g, j, i)
    BY <1>0 DEF Paired
  <2>1. /\ h[at(i)].role = "result" /\ at(i) \in 1 .. Len(h) /\ at(i) = i + cut - 1 /\ i > 1
    BY <1>1, <1>3
  <2>2. PICK j \in 1 .. Len(h) : Heads(h, j, at(i))
    BY <1>0, <2>1 DEF Transcript, Paired
  <2>3. j > cut
    <3>1. j # 1
      BY <2>2 DEF Heads, Transcript, Opening, Said
    <3>2. CASE cut < Len(h) /\ cut # 1
      <4>1. h[cut + 1].role # "result" /\ cut + 1 <= at(i)
        BY <3>2, <2>1 DEF CutTo
      <4>2. cut + 1 \notin j + 1 .. at(i)
        BY <4>1, <2>2 DEF Heads
      <4> HIDE DEF at
      <4> QED BY <1>0, <4>1, <4>2, <2>1
    <3>3. CASE cut = 1
      BY <1>0, <3>1, <3>3
    <3>4. CASE cut = Len(h)
      BY <1>0, <3>4, <2>1
    <3> QED BY <1>0, <3>2, <3>3, <3>4
  <2> DEFINE k == j - cut + 1
  <2>4. k \in 2 .. i - 1 /\ k \in 1 .. Len(g) /\ at(k) = j
    <3>1. j \in 1 .. at(i) - 1 /\ at(i) = i + cut - 1
      BY <2>1, <2>2 DEF Heads
    <3> HIDE DEF at
    <3>2. k \in 2 .. i - 1 /\ k \in 1 .. Len(g)
      BY <1>0, <2>3, <3>1
    <3> QED BY <3>1, <3>2, <1>0 DEF at
  <2>5. g[k] = h[j] /\ g[i] = h[at(i)]
    BY <1>1, <2>4
  <2>6. \A m \in k + 1 .. i : g[m].role = "result"
    <3> SUFFICES ASSUME NEW m \in k + 1 .. i PROVE g[m].role = "result"
      OBVIOUS
    <3>1. m \in 1 .. Len(g) /\ m > 1 /\ at(m) = m + cut - 1
      BY <1>0, <2>4
    <3>2. at(m) \in j + 1 .. at(i)
      BY <1>0, <2>1, <2>4, <3>1
    <3> HIDE DEF at
    <3> QED BY <3>1, <3>2, <2>2, <1>1 DEF Heads
  <2>7. Heads(g, k, i)
    <3> HIDE DEF k
    <3> QED BY <2>2, <2>4, <2>5, <2>6 DEF Heads
  <2> QED BY <2>1, <2>4, <2>5, <2>7 DEF Transcript, Paired
<1>5. Apart(g)
  <2> HIDE DEF at
  <2> SUFFICES ASSUME NEW i \in 1 .. Len(g), NEW j \in 1 .. Len(g), i < j, g[i].role = "result", g[j].role = "result"
               PROVE  g[i].what # g[j].what \/ g[i].of # g[j].of
    BY DEF Apart
  <2>1. at(i) < at(j) /\ at(i) \in 1 .. Len(h) /\ at(j) \in 1 .. Len(h) /\ g[i] = h[at(i)] /\ g[j] = h[at(j)]
    BY <1>1, <1>2
  <2> QED BY <2>1 DEF Apart, Transcript
<1>6. g # <<>> => g[1] = Opening
  BY DEF CutTo, Transcript
<1> HIDE DEF at
<1> QED BY <1>1, <1>4, <1>5, <1>6 DEF Transcript

-----------------------------------------------------------------------------
\* A sequence without one of its members.
LEMMA Removed ==
  ASSUME NEW T, NEW w \in Seq(T), NEW i \in 1 .. Len(w)
  PROVE  /\ RemoveAt(w, i) \in Seq(T) /\ Len(RemoveAt(w, i)) = Len(w) - 1
         /\ \A k \in 1 .. Len(w) - 1 : RemoveAt(w, i)[k] = IF k < i THEN w[k] ELSE w[k + 1]
<1> DEFINE a == SubSeq(w, 1, i - 1)
           b == SubSeq(w, i + 1, Len(w))
<1>1. /\ a \in Seq(T) /\ Len(a) = i - 1 /\ \A k \in 1 .. i - 1 : a[k] = w[k]
      /\ b \in Seq(T) /\ Len(b) = Len(w) - i /\ \A k \in 1 .. Len(w) - i : b[k] = w[k + i]
  OBVIOUS
<1>2. RemoveAt(w, i) = a \o b
  BY DEF RemoveAt
<1> HIDE DEF a, b
<1>3. /\ Len(a \o b) = Len(w) - 1 /\ a \o b \in Seq(T)
      /\ \A k \in 1 .. Len(w) - 1 : (a \o b)[k] = IF k <= i - 1 THEN a[k] ELSE b[k - (i - 1)]
  <2>1. Len(a) + Len(b) = Len(w) - 1
    BY <1>1
  <2>2. /\ a \o b \in Seq(T) /\ Len(a \o b) = Len(a) + Len(b)
        /\ \A k \in 1 .. Len(a) + Len(b) : (a \o b)[k] = IF k <= Len(a) THEN a[k] ELSE b[k - Len(a)]
    BY <1>1, ConcatProperties
  <2> QED BY <1>1, <2>1, <2>2
<1>4. ASSUME NEW k \in 1 .. Len(w) - 1 PROVE (a \o b)[k] = IF k < i THEN w[k] ELSE w[k + 1]
  <2>1. CASE k < i
    BY <1>1, <1>3, <2>1
  <2>2. CASE ~ (k < i)
    <3>1. k - (i - 1) \in 1 .. Len(w) - i /\ (a \o b)[k] = b[k - (i - 1)]
      BY <1>1, <1>3, <2>2
    <3>2. b[k - (i - 1)] = w[(k - (i - 1)) + i]
      BY <1>1, <3>1
    <3>3. (k - (i - 1)) + i = k + 1
      OBVIOUS
    <3>4. b[k - (i - 1)] = w[k + 1]
      BY <3>2, <3>3
    <3> QED BY <2>2, <3>1, <3>4
  <2> QED BY <2>1, <2>2
<1> QED BY <1>2, <1>3, <1>4

\* The calls w of turn t still wait for their result: the reply that made them
\* stands, with the results of the turn behind it and none of theirs among them.
Open(h, w, t) ==
    /\ \A i, k \in 1 .. Len(w) : i # k => w[i].nth # w[k].nth
    /\ \E j \in 1 .. Len(h) :
          /\ h[j].role = "assistant" /\ h[j].what = t
          /\ \A m \in j + 1 .. Len(h) : h[m].role = "result"
          /\ Len(h) - j + Len(w) <= MaxParallel
          /\ \A i \in 1 .. Len(w) : \E k \in 1 .. Len(h[j].calls) : h[j].calls[k] = w[i]
    /\ \A m \in 1 .. Len(h) : (h[m].role = "result" /\ h[m].what = t) =>
          \A i \in 1 .. Len(w) : w[i].nth # h[m].of

\* The result of a call of turn t.
Result(t, call) == [role |-> "result", what |-> t, calls |-> <<call>>, of |-> call.nth]

\* A result is filed: the transcript is one, and the other calls still wait.
LEMMA Filed ==
  ASSUME NEW h \in Seq(Messages), NEW t \in Nat, NEW aim, NEW w \in Seq(Calls), NEW i \in 1 .. Len(w),
         TurnFits, t > 0, Transcript(aim, h, t), Open(h, w, t)
  PROVE  LET g == Trim(Append(h, Result(t, w[i])))
         IN  /\ g \in Seq(Messages) /\ Len(g) <= MaxMessages
             /\ Transcript(aim, g, t) /\ Open(g, RemoveAt(w, i), t)
<1> DEFINE r == Result(t, w[i])
           a == Append(h, r)
           g == Trim(a)
           v == RemoveAt(w, i)
<1>1. r \in Messages /\ r.role = "result" /\ r.what = t /\ Len(r.calls) = 1 /\ r.calls[1] = w[i] /\ r.of = w[i].nth
  <2>1. w[i] \in Calls
    OBVIOUS
  <2>2. <<w[i]>> \in Seq(Calls) /\ Len(<<w[i]>>) = 1 /\ <<w[i]>>[1] = w[i] /\ w[i].nth \in Nat
    BY <2>1 DEF Calls
  <2> QED BY <2>2 DEF Messages, Result
<1> HIDE DEF r
<1>2. /\ a \in Seq(Messages) /\ Len(a) = Len(h) + 1 /\ a[Len(a)] = r
      /\ \A m \in 1 .. Len(h) : a[m] = h[m]
  BY <1>1
<1> HIDE DEF a
<1>0. Len(h) \in Nat /\ Len(a) \in Nat /\ Len(w) \in Nat
  BY <1>2, LenProperties
<1>d. \A n \in 1 .. Len(a) : n \in 1 .. Len(h) \/ n = Len(h) + 1
  BY <1>0, <1>2
<1>3. PICK j \in 1 .. Len(h) :
          /\ h[j].role = "assistant" /\ h[j].what = t
          /\ \A m \in j + 1 .. Len(h) : h[m].role = "result"
          /\ Len(h) - j + Len(w) <= MaxParallel
          /\ \A x \in 1 .. Len(w) : \E k \in 1 .. Len(h[j].calls) : h[j].calls[k] = w[x]
  BY DEF Open
<1>4. h # <<>> /\ h[1].role = "system" /\ j > 1
  BY <1>3 DEF Transcript, Opening, Said
<1>5. a # <<>> /\ a[1] = h[1] /\ a[1].role = "system"
  BY <1>2, <1>3, <1>4
<1>6. Transcript(aim, a, t)
  <2>1. ASSUME NEW m \in 1 .. Len(a) PROVE m \in 1 .. Len(h) \/ (m = Len(h) + 1 /\ a[m] = r)
    <3>1. a[Len(a)] = r /\ Len(a) = Len(h) + 1
      BY <1>2
    <3> QED BY <1>d, <3>1, SMTT(30)
  <2>2. Heads(a, j, Len(a))
    <3>1. ASSUME NEW m \in j + 1 .. Len(a) PROVE a[m].role = "result"
      <4>1. CASE m = Len(a)
        BY <1>1, <1>2, <4>1
      <4>2. CASE m \in j + 1 .. Len(h)
        BY <1>2, <1>3, <4>2
      <4> QED BY <1>2, <4>1, <4>2
    <3>2. a[j] = h[j] /\ j \in 1 .. Len(a) - 1
      BY <1>0, <1>2, <1>3
    <3>3. j < Len(a) /\ a[j].role = "assistant" /\ a[j].what = t /\ a[Len(a)].what = t
      BY <1>0, <1>1, <1>2, <1>3, <3>2
    <3>4. \E k \in 1 .. Len(a[j].calls) : a[j].calls[k] = a[Len(a)].calls[1]
      <4>1. a[Len(a)].calls[1] = w[i]
        BY <1>1, <1>2
      <4>2. PICK k \in 1 .. Len(h[j].calls) : h[j].calls[k] = w[i]
        BY <1>3
      <4> QED BY <3>2, <4>1, <4>2
    <3> QED BY <3>1, <3>3, <3>4 DEF Heads
  <2>3. Paired(a)
    <3> SUFFICES ASSUME NEW m \in 1 .. Len(a), a[m].role = "result"
                 PROVE  Len(a[m].calls) = 1 /\ a[m].calls[1].nth = a[m].of /\ \E k \in 1 .. Len(a) : Heads(a, k, m)
      BY DEF Paired
    <3>1. CASE m \in 1 .. Len(h)
      <4>1. PICK k \in 1 .. Len(h) : a[m] = h[m] /\ Heads(h, k, m)
        BY <1>2, <3>1 DEF Transcript, Paired
      <4>2. k \in 1 .. Len(a) /\ a[k] = h[k]
        BY <1>2
      <4>3. \A x \in k + 1 .. m : a[x] = h[x]
        BY <1>2, <3>1
      <4>4. Heads(a, k, m)
        BY <4>1, <4>2, <4>3 DEF Heads
      <4>5. Len(h[m].calls) = 1 /\ h[m].calls[1].nth = h[m].of
        BY <3>1, <4>1 DEF Transcript, Paired
      <4> QED BY <4>1, <4>2, <4>4, <4>5
    <3>2. CASE m = Len(h) + 1
      BY <1>1, <1>2, <2>2, <3>2
    <3> QED BY <2>1, <3>1, <3>2
  <2>4. Apart(a)
    <3> SUFFICES ASSUME NEW m \in 1 .. Len(a), NEW n \in 1 .. Len(a), m < n, a[m].role = "result", a[n].role = "result"
                 PROVE  a[m].what # a[n].what \/ a[m].of # a[n].of
      BY DEF Apart
    <3>1. m \in 1 .. Len(h) /\ a[m] = h[m]
      BY <1>2
    <3>2. CASE n \in 1 .. Len(h)
      BY <1>2, <3>1, <3>2 DEF Transcript, Apart
    <3>3. CASE n = Len(h) + 1
      BY <1>1, <1>2, <3>1, <3>3 DEF Open
    <3> QED BY <2>1, <3>2, <3>3
  <2>5. ASSUME NEW m \in 1 .. Len(a)
        PROVE  /\ Distinct(a[m].calls)
               /\ m > 1 => a[m].role # "system"
               /\ a[m].role = "user" => a[m].what \in {aim, "files"}
               /\ a[m].role \in {"assistant", "result"} => a[m].what \in 1 .. t
    <3>1. CASE m \in 1 .. Len(h)
      <4>1. a[m] = h[m]
        BY <1>2, <3>1
      <4> QED BY <3>1, <4>1 DEF Transcript
    <3>2. CASE a[m] = r
      <4>1. Distinct(r.calls)
        BY <1>1 DEF Distinct
      <4>2. t \in 1 .. t
        OBVIOUS
      <4> QED BY <1>1, <3>2, <4>1, <4>2
    <3> QED BY <2>1, <3>1, <3>2
  <2>6. a \in Seq(Messages) /\ a[1] = Opening
    BY <1>2, <1>4, <1>5 DEF Transcript
  <2>7. /\ \A m \in 1 .. Len(a) : m > 1 => a[m].role # "system"
        /\ \A m \in 1 .. Len(a) : a[m].role = "user" => a[m].what \in {aim, "files"}
        /\ \A m \in 1 .. Len(a) : a[m].role \in {"assistant", "result"} => a[m].what \in 1 .. t
        /\ \A m \in 1 .. Len(a) : Distinct(a[m].calls)
    BY <1>0, <2>5
  <2> QED BY <2>3, <2>4, <2>6, <2>7, Zenon DEF Transcript
<1>7. /\ g \in Seq(Messages) /\ Len(g) <= MaxMessages
      /\ \E cut \in 1 .. Len(a) :
               /\ CutTo(g, a, cut)
               /\ Len(a) <= MaxMessages => cut = 1
               /\ \A x \in 2 .. Len(a) : (x > Len(a) - MaxMessages /\ x < cut) => a[x + 1].role = "result"
  BY <1>2, <1>5, TrimCuts
<1>8. PICK cut \in 1 .. Len(a) :
               /\ CutTo(g, a, cut)
               /\ Len(a) <= MaxMessages => cut = 1
               /\ \A x \in 2 .. Len(a) : (x > Len(a) - MaxMessages /\ x < cut) => a[x + 1].role = "result"
  BY <1>7
<1> HIDE DEF g
<1>c. Len(g) = 1 + Len(a) - cut /\ g[1] = a[1] /\ \A m \in 2 .. Len(g) : g[m] = a[m + cut - 1]
  BY <1>8 DEF CutTo
<1>9. Transcript(aim, g, t)
  BY <1>2, <1>5, <1>6, <1>7, <1>8, CutKept
<1>10. /\ v \in Seq(Calls) /\ Len(v) = Len(w) - 1
       /\ \A k \in 1 .. Len(w) - 1 : v[k] = IF k < i THEN w[k] ELSE w[k + 1]
  BY Removed
<1> HIDE DEF v
<1>11. cut < j
  <2>1. Len(a) - MaxMessages < j - 1 /\ Len(w) >= 1
    BY <1>2, <1>3, TalkAssumption DEF TurnFits
  <2>2. CASE j = 2
    BY <1>2, <1>3, <1>8, <2>1, <2>2, TalkAssumption
  <2>3. CASE j > 2 /\ ~ (cut < j)
    <3>1. j - 1 \in 2 .. Len(a) /\ j - 1 > Len(a) - MaxMessages /\ j - 1 < cut
      BY <1>2, <2>1, <2>3, TalkAssumption
    <3>2. a[(j - 1) + 1].role = "result" /\ (j - 1) + 1 = j
      BY <1>8, <3>1
    <3> QED BY <1>2, <1>3, <3>2
  <2> QED BY <1>4, <2>2, <2>3
<1>12. Open(g, v, t)
  <2> DEFINE k == j - cut + 1
  <2>1. k \in 2 .. Len(g) /\ Len(g) = 1 + Len(a) - cut /\ k + cut - 1 = j
    BY <1>2, <1>3, <1>c, <1>11, SMTT(30)
  <2>2. g[k] = h[j]
    <3>1. g[k] = a[k + cut - 1]
      BY <1>c, <2>1
    <3> QED BY <1>2, <2>1, <3>1
  <2>3. ASSUME NEW m \in k + 1 .. Len(g) PROVE g[m].role = "result"
    <3>1. m \in 2 .. Len(g) /\ m + cut - 1 \in j + 1 .. Len(h) + 1
      BY <1>2, <2>1
    <3>2. g[m] = a[m + cut - 1]
      BY <1>c, <3>1
    <3>3. CASE m + cut - 1 = Len(h) + 1
      BY <1>1, <1>2, <3>2, <3>3
    <3>4. ASSUME NEW x \in j + 1 .. Len(h), x = m + cut - 1 PROVE g[m].role = "result"
      <4>1. a[x] = h[x] /\ h[x].role = "result"
        BY <1>2, <1>3, <3>4
      <4> QED BY <3>2, <3>4, <4>1
    <3>5. m + cut - 1 = Len(h) + 1 \/ m + cut - 1 \in j + 1 .. Len(h)
      BY <1>0, <3>1
    <3> QED BY <3>3, <3>4, <3>5
  <2>4. Len(g) - k + Len(v) <= MaxParallel
    BY <1>2, <1>3, <1>10, <2>1, TalkAssumption
  <2>5. ASSUME NEW x \in 1 .. Len(v) PROVE \E y \in 1 .. Len(w) : y # i /\ v[x] = w[y] /\ (y = x \/ y = x + 1)
    <3>1. x \in 1 .. Len(w) - 1 /\ x \in 1 .. Len(w) /\ x + 1 \in 1 .. Len(w) /\ x + 1 # x
      BY <1>0, <1>10
    <3>2. CASE x < i
      BY <1>10, <3>1, <3>2
    <3>3. CASE ~ (x < i)
      <4>1. x + 1 # i
        BY <3>1, <3>3
      <4>2. v[x] = w[x + 1]
        BY <1>10, <3>1, <3>3
      <4> QED BY <3>1, <4>1, <4>2
    <3> QED BY <3>2, <3>3
  <2>6. ASSUME NEW x \in 1 .. Len(v) PROVE \E y \in 1 .. Len(g[k].calls) : g[k].calls[y] = v[x]
    <3>1. PICK y \in 1 .. Len(w) : v[x] = w[y]
      BY <2>5
    <3> QED BY <1>3, <2>2, <3>1
  <2>7. ASSUME NEW x \in 1 .. Len(v), NEW y \in 1 .. Len(v), x # y PROVE v[x].nth # v[y].nth
    <3>1. \E p, q \in 1 .. Len(w) : p # q /\ v[x] = w[p] /\ v[y] = w[q]
      <4>1. x \in 1 .. Len(w) - 1 /\ y \in 1 .. Len(w) - 1
        BY <1>10
      <4> DEFINE p == IF x < i THEN x ELSE x + 1
                 q == IF y < i THEN y ELSE y + 1
      <4>2. p \in 1 .. Len(w) /\ q \in 1 .. Len(w) /\ p # q
        BY <2>7, <4>1
      <4>3. v[x] = w[p] /\ v[y] = w[q]
        BY <1>10, <4>1
      <4> QED BY <4>2, <4>3
    <3> QED BY <3>1 DEF Open
  <2>8. ASSUME NEW m \in 1 .. Len(g), g[m].role = "result", g[m].what = t, NEW x \in 1 .. Len(v)
        PROVE  v[x].nth # g[m].of
    <3>1. PICK y \in 1 .. Len(w) : y # i /\ v[x] = w[y]
      BY <2>5
    <3>2. \E n \in 1 .. Len(a) : g[m] = a[n]
      <4>1. CASE m = 1
        BY <1>2, <1>c, <4>1
      <4>2. CASE m # 1
        <5>1. m \in 2 .. Len(g) /\ m + cut - 1 \in 1 .. Len(a)
          BY <1>2, <1>c, <4>2
        <5> QED BY <1>c, <5>1
      <4> QED BY <4>1, <4>2
    <3>3. PICK n \in 1 .. Len(a) : g[m] = a[n]
      BY <3>2
    <3>4. CASE n \in 1 .. Len(h)
      <4>1. h[n].role = "result" /\ h[n].what = t /\ g[m] = h[n]
        BY <1>2, <2>8, <3>3, <3>4
      <4> QED BY <3>1, <3>4, <4>1 DEF Open
    <3>5. CASE n = Len(h) + 1
      BY <1>1, <1>2, <3>1, <3>3, <3>5, SMTT(30) DEF Open
    <3>6. n \in 1 .. Len(h) \/ n = Len(h) + 1
      BY <1>d
    <3> QED BY <3>4, <3>5, <3>6
  <2>9. k \in 1 .. Len(g) /\ g[k].role = "assistant" /\ g[k].what = t
    <3>1. k \in 1 .. Len(g)
      BY <2>1
    <3> QED BY <1>3, <2>2, <3>1
  <2> HIDE DEF k
  <2> QED BY <2>3, <2>4, <2>6, <2>7, <2>8, <2>9 DEF Open
<1> QED BY <1>7, <1>9, <1>12 DEF r, a, g, v

\* A message of the user or of the model is added.
LEMMA ReplyAppended ==
  ASSUME NEW h \in Seq(Messages), NEW t \in Nat, NEW aim, NEW r \in Messages,
         Transcript(aim, h, t), h # <<>>, Distinct(r.calls),
         \/ r.role = "user" /\ r.what \in {aim, "files"}
         \/ r.role = "assistant" /\ r.what \in 1 .. t
  PROVE  Append(h, r) \in Seq(Messages) /\ Transcript(aim, Append(h, r), t)
<1> DEFINE a == Append(h, r)
<1>1. /\ a \in Seq(Messages) /\ Len(a) = Len(h) + 1 /\ a[Len(a)] = r
      /\ \A m \in 1 .. Len(h) : a[m] = h[m]
  OBVIOUS
<1> HIDE DEF a
<1>2. a # <<>> /\ a[1] = Opening /\ Len(h) >= 1 /\ Len(h) \in Nat
  BY <1>1 DEF Transcript
<1>3. ASSUME NEW m \in 1 .. Len(a) PROVE m \in 1 .. Len(h) \/ (m = Len(h) + 1 /\ a[m] = r)
  BY <1>1
<1>4. ASSUME NEW m \in 1 .. Len(a)
      PROVE  /\ Distinct(a[m].calls)
             /\ m > 1 => a[m].role # "system"
             /\ a[m].role = "user" => a[m].what \in {aim, "files"}
             /\ a[m].role \in {"assistant", "result"} => a[m].what \in 1 .. t
  <2>1. CASE m \in 1 .. Len(h)
    <3>1. a[m] = h[m]
      BY <1>1, <2>1
    <3> QED BY <2>1, <3>1 DEF Transcript
  <2>2. CASE a[m] = r
    BY <2>2
  <2> QED BY <1>3, <2>1, <2>2
<1>5. ASSUME NEW m \in 1 .. Len(a), a[m].role = "result" PROVE m \in 1 .. Len(h) /\ a[m] = h[m]
  BY <1>1, <1>3, <1>5
<1>6. Paired(a)
  <2> SUFFICES ASSUME NEW m \in 1 .. Len(a), a[m].role = "result"
               PROVE  Len(a[m].calls) = 1 /\ a[m].calls[1].nth = a[m].of /\ \E k \in 1 .. Len(a) : Heads(a, k, m)
    BY DEF Paired
  <2>1. m \in 1 .. Len(h) /\ a[m] = h[m]
    BY <1>5
  <2>2. PICK k \in 1 .. Len(h) : Heads(h, k, m)
    BY <2>1 DEF Transcript, Paired
  <2>3. k \in 1 .. Len(a) /\ a[k] = h[k] /\ \A x \in k + 1 .. m : a[x] = h[x]
    BY <1>1, <2>1
  <2>4. Heads(a, k, m)
    BY <2>1, <2>2, <2>3 DEF Heads
  <2>5. Len(h[m].calls) = 1 /\ h[m].calls[1].nth = h[m].of
    BY <2>1 DEF Transcript, Paired
  <2> QED BY <2>1, <2>3, <2>4, <2>5
<1>7. Apart(a)
  BY <1>5 DEF Transcript, Apart
<1> QED BY <1>1, <1>2, <1>4, <1>6, <1>7 DEF Transcript, a

\* A trim leaves a transcript, and of the newest MaxMessages - 1 messages every
\* one from the first that is no result.
LEMMA Trimmed ==
  ASSUME NEW h \in Seq(Messages), NEW t \in Nat, NEW aim, Transcript(aim, h, t), h # <<>>
  PROVE  /\ Trim(h) \in Seq(Messages) /\ Trim(h) # <<>> /\ Len(Trim(h)) <= MaxMessages
         /\ Transcript(aim, Trim(h), t)
         /\ \A i \in 1 .. Len(Trim(h)) : \E n \in 1 .. Len(h) : Trim(h)[i] = h[n]
         /\ \A n \in 2 .. Len(h) : (h[n].role # "result" /\ n >= Len(h) - MaxMessages + 2) =>
               \E i \in 2 .. Len(Trim(h)) : Len(Trim(h)) - i = Len(h) - n /\ Trim(h)[i] = h[n]
<1> DEFINE g == Trim(h)
<1>1. h[1].role = "system" /\ h[1] = Opening
  BY DEF Transcript, Opening, Said
<1>2. /\ g \in Seq(Messages) /\ Len(g) <= MaxMessages
      /\ \E cut \in 1 .. Len(h) :
               /\ CutTo(g, h, cut)
               /\ Len(h) <= MaxMessages => cut = 1
               /\ \A x \in 2 .. Len(h) : (x > Len(h) - MaxMessages /\ x < cut) => h[x + 1].role = "result"
  BY <1>1, TrimCuts
<1>3. PICK cut \in 1 .. Len(h) :
               /\ CutTo(g, h, cut)
               /\ Len(h) <= MaxMessages => cut = 1
               /\ \A x \in 2 .. Len(h) : (x > Len(h) - MaxMessages /\ x < cut) => h[x + 1].role = "result"
  BY <1>2
<1> HIDE DEF g
<1>4. Transcript(aim, g, t)
  BY <1>2, <1>3, CutKept
<1>5. Len(g) = 1 + Len(h) - cut /\ \A m \in 2 .. Len(g) : g[m] = h[m + cut - 1]
  BY <1>3 DEF CutTo
<1>6. ASSUME NEW n \in 2 .. Len(h), h[n].role # "result", n >= Len(h) - MaxMessages + 2
      PROVE  \E i \in 2 .. Len(g) : Len(g) - i = Len(h) - n /\ g[i] = h[n]
  <2>1. cut < n
    <3>1. CASE n = 2
      BY <1>3, <1>6, <3>1, TalkAssumption
    <3>2. CASE n > 2 /\ ~ (cut < n)
      <4>1. n - 1 \in 2 .. Len(h) /\ n - 1 > Len(h) - MaxMessages /\ n - 1 < cut
        BY <1>6, <3>2, TalkAssumption
      <4>2. h[(n - 1) + 1].role = "result" /\ (n - 1) + 1 = n
        BY <1>3, <4>1
      <4> QED BY <1>6, <4>2
    <3> QED BY <3>1, <3>2
  <2> DEFINE i == n - cut + 1
  <2>2. i \in 2 .. Len(g) /\ i + cut - 1 = n /\ Len(g) - i = Len(h) - n
    BY <1>5, <2>1
  <2> HIDE DEF i
  <2>3. g[i] = h[n]
    BY <1>5, <2>2
  <2> QED BY <2>2, <2>3
<1>7. g # <<>>
  BY <1>2, <1>5
<1>8. ASSUME NEW i \in 1 .. Len(g) PROVE \E n \in 1 .. Len(h) : g[i] = h[n]
  <2>1. CASE i = 1
    BY <1>3, <2>1 DEF CutTo
  <2>2. CASE i # 1
    <3>1. i \in 2 .. Len(g) /\ i + cut - 1 \in 1 .. Len(h)
      BY <1>5, <2>2
    <3> QED BY <1>5, <3>1
  <2> QED BY <2>1, <2>2
<1> QED BY <1>2, <1>4, <1>6, <1>7, <1>8 DEF g

\* The transcript of a new task is empty.
LEMMA NoTranscript ==
  ASSUME NEW t, NEW aim
  PROVE  <<>> \in Seq(Messages) /\ Transcript(aim, <<>>, t)
<1>1. <<>> \in Seq(Messages) /\ Len(<<>>) = 0
  OBVIOUS
<1> QED BY <1>1 DEF Transcript, Paired, Apart

\* What the merge makes of a transcript: it leads with the frame, and it holds
\* the goal or ends with the files.
LEMMA MergeKept ==
  ASSUME NEW t \in Nat, talk \in Seq(Messages), Len(talk) <= MaxMessages, Transcript(goalNow, talk, t),
         goalNow \in TaskGoals
  PROVE  /\ Merged \in Seq(Messages) /\ Merged # <<>> /\ Len(Merged) <= MaxMessages
         /\ Transcript(goalNow, Merged, t)
         /\ \/ \E i \in 1 .. Len(Merged) : Merged[i] = Compiled[2]
            \/ Merged[Len(Merged)] = Compiled[3]
<1> DEFINE h1 == talk \o Missing(1)
           h2 == h1 \o Missing(2)
           h3 == h2 \o Missing(3)
<1>1. /\ Compiled[1] = Opening
      /\ \A k \in 1 .. 3 : Compiled[k] \in Messages /\ Distinct(Compiled[k].calls)
      /\ \A k \in 2 .. 3 : Compiled[k].role = "user" /\ Compiled[k].what \in {goalNow, "files"}
  <2>1. <<>> \in Seq(Calls) /\ Len(<<>>) = 0
    OBVIOUS
  <2>2. Opening \in Messages /\ Said("user", goalNow) \in Messages /\ Said("user", "files") \in Messages
    BY <2>1 DEF Opening, Said, Messages
  <2>3. /\ Compiled[1] = Opening /\ Compiled[2] = Said("user", goalNow) /\ Compiled[3] = Said("user", "files")
    BY DEF Compiled, Opening
  <2>4. \A k \in 1 .. 3 : k = 1 \/ k = 2 \/ k = 3
    OBVIOUS
  <2>5. \A role, what : Distinct(Said(role, what).calls) /\ Said(role, what).role = role /\ Said(role, what).what = what
    BY <2>1 DEF Said, Distinct
  <2> QED BY <2>2, <2>3, <2>4, <2>5 DEF Opening
<1>2. \A k \in 1 .. 3 : Missing(k) = <<>> \/ Missing(k) = <<Compiled[k]>>
  BY DEF Missing
<1>3. h1 \in Seq(Messages) /\ h1 # <<>> /\ Transcript(goalNow, h1, t) /\ (talk # <<>> => h1 = talk)
  <2>1. CASE talk # <<>>
    <3>1. talk[1] = Compiled[1] /\ 1 \in DOMAIN talk
      BY <1>1, <2>1 DEF Transcript
    <3>2. Missing(1) = <<>>
      BY <3>1 DEF Missing
    <3>3. h1 = talk
      BY <3>2
    <3> QED BY <2>1, <3>3
  <2>2. CASE talk = <<>>
    <3>1. Missing(1) = <<Compiled[1]>>
      BY <2>2 DEF Missing
    <3>2. h1 = <<Opening>>
      BY <1>1, <2>2, <3>1
    <3>3. <<Opening>> \in Seq(Messages) /\ Len(<<Opening>>) = 1 /\ <<Opening>>[1] = Opening
      BY <1>1
    <3>4. Opening.role = "system" /\ Distinct(Opening.calls)
      BY <1>1 DEF Opening, Said
    <3>5. Transcript(goalNow, <<Opening>>, t)
      <4> DEFINE f == <<Opening>>
      <4>1. f \in Seq(Messages) /\ f[1] = Opening /\ \A i \in 1 .. Len(f) : i = 1
        BY <3>3
      <4> HIDE DEF f
      <4>2. \A i \in 1 .. Len(f) : f[i].role = "system" /\ Distinct(f[i].calls)
        BY <3>4, <4>1
      <4>3. Paired(f) /\ Apart(f)
        BY <4>2 DEF Paired, Apart
      <4>4. Transcript(goalNow, f, t)
        BY <4>1, <4>2, <4>3 DEF Transcript
      <4> QED BY <4>4 DEF f
    <3>6. <<Opening>> # <<>>
      OBVIOUS
    <3> HIDE DEF h1
    <3> QED BY <2>2, <3>2, <3>3, <3>5, <3>6, Zenon
  <2> QED BY <2>1, <2>2
<1> HIDE DEF h1
<1>4. ASSUME NEW h \in Seq(Messages), h # <<>>, Transcript(goalNow, h, t), NEW k \in 2 .. 3
      PROVE  LET g == h \o Missing(k)
             IN  /\ g \in Seq(Messages) /\ g # <<>> /\ Transcript(goalNow, g, t)
                 /\ Missing(k) = <<>> => g = h
                 /\ Missing(k) # <<>> => Len(g) >= 2 /\ g[Len(g)] = Compiled[k]
  <2>1. CASE Missing(k) = <<>>
    <3>1. h \o Missing(k) = h
      BY <2>1
    <3> QED BY <1>4, <2>1, <3>1
  <2>2. CASE Missing(k) = <<Compiled[k]>>
    <3>1. h \o Missing(k) = Append(h, Compiled[k]) /\ Compiled[k] \in Messages
      BY <1>1, <2>2
    <3> DEFINE a == Append(h, Compiled[k])
    <3>2. a \in Seq(Messages) /\ Transcript(goalNow, a, t)
      BY <1>1, <1>4, ReplyAppended
    <3>3. Len(a) = Len(h) + 1 /\ a[Len(a)] = Compiled[k] /\ Len(h) >= 1 /\ Len(h) \in Nat
      BY <1>4, <3>1
    <3> HIDE DEF a
    <3>4. a # <<>> /\ Len(a) >= 2
      BY <3>2, <3>3
    <3>5. <<Compiled[k]>> # <<>>
      OBVIOUS
    <3> QED BY <2>2, <3>1, <3>2, <3>3, <3>4, <3>5 DEF a
  <2> QED BY <1>2, <2>1, <2>2
<1>5. /\ h2 \in Seq(Messages) /\ h2 # <<>> /\ Transcript(goalNow, h2, t)
      /\ Missing(2) = <<>> => h2 = h1
      /\ Missing(2) # <<>> => Len(h2) >= 2 /\ h2[Len(h2)] = Compiled[2]
  BY <1>3, <1>4
<1> HIDE DEF h2
<1>6. /\ h3 \in Seq(Messages) /\ h3 # <<>> /\ Transcript(goalNow, h3, t)
      /\ Missing(3) = <<>> => h3 = h2
      /\ Missing(3) # <<>> => Len(h3) >= 2 /\ h3[Len(h3)] = Compiled[3]
  BY <1>4, <1>5
<1> HIDE DEF h3
<1>7. Merged = Trim(h3)
  BY DEF Merged, h1, h2, h3
<1>8. /\ Merged \in Seq(Messages) /\ Merged # <<>> /\ Len(Merged) <= MaxMessages /\ Transcript(goalNow, Merged, t)
  BY <1>6, <1>7, Trimmed
<1>9. ASSUME NEW k \in 2 .. 3, Len(h3) >= 2, h3[Len(h3)] = Compiled[k]
      PROVE  Merged[Len(Merged)] = Compiled[k]
  <2>1. Len(h3) \in 2 .. Len(h3) /\ h3[Len(h3)].role # "result" /\ Len(h3) >= Len(h3) - MaxMessages + 2
    BY <1>1, <1>6, <1>9, TalkAssumption
  <2>2. PICK i \in 2 .. Len(Merged) : Len(Merged) - i = Len(h3) - Len(h3) /\ Merged[i] = h3[Len(h3)]
    BY <1>6, <1>7, <2>1, Trimmed
  <2>3. i = Len(Merged)
    BY <1>6, <1>8, <2>2
  <2> QED BY <1>9, <2>2, <2>3
<1>10. CASE Missing(3) # <<>>
  BY <1>6, <1>8, <1>9, <1>10
<1>11. CASE Missing(3) = <<>> /\ Missing(2) # <<>>
  <2>1. Merged[Len(Merged)] = Compiled[2]
    BY <1>5, <1>6, <1>9, <1>11
  <2>2. Len(Merged) \in 1 .. Len(Merged)
    BY <1>8
  <2> QED BY <1>8, <2>1, <2>2
<1>12. CASE Missing(3) = <<>> /\ Missing(2) = <<>>
  <2>1. PICK i \in DOMAIN talk : talk[i] = Compiled[2]
    <3>1. <<Compiled[2]>> # <<>>
      OBVIOUS
    <3> QED BY <1>12, <3>1 DEF Missing
  <2>2. talk # <<>> /\ i \in 1 .. Len(talk)
    BY <2>1
  <2>3. h3 = talk
    BY <1>3, <1>5, <1>6, <1>12, <2>2
  <2>4. Merged = talk
    BY <1>7, <2>3 DEF Trim
  <2> QED BY <1>8, <2>1, <2>2, <2>4
<1> QED BY <1>10, <1>11, <1>12

-----------------------------------------------------------------------------
\* A function on 1 to n is a sequence.
LEMMA FunctionIsSeq ==
  ASSUME NEW R, NEW n \in Nat, NEW f \in [1 .. n -> R]
  PROVE  f \in Seq(R) /\ Len(f) = n
<1>1. f \in Seq(R)
  OBVIOUS
<1>2. DOMAIN f = 1 .. n /\ DOMAIN f = 1 .. Len(f) /\ Len(f) \in Nat
  BY <1>1
<1> QED BY <1>1, <1>2

\* The n calls of a reply.
Reply(n, calls) == calls \in [1 .. n -> [id : CallIds, tool : ModelTools]]

\* A call of a reply names a tool by an id.
LEMMA ReplyTyped ==
  ASSUME NEW n \in Nat, NEW calls, Reply(n, calls), NEW k \in 1 .. n
  PROVE  calls[k].id \in Nat /\ calls[k].tool \in ModelTools /\ k \in Nat
<1>1. calls[k] \in [id : CallIds, tool : ModelTools] /\ CallIds \subseteq Nat
  BY TalkAssumption DEF Reply
<1>2. calls[k].id \in CallIds /\ calls[k].tool \in ModelTools
  BY <1>1
<1>3. calls[k].id \in Nat
  BY <1>1, <1>2
<1>4. k \in Nat
  OBVIOUS
<1> QED BY <1>2, <1>3, <1>4

\* k numbers in a row are more than k - 1 places.
LEMMA RowIsLonger ==
  ASSUME NEW q \in Nat, NEW k \in Nat, k > 0, NEW f \in [q + 1 .. q + k -> 1 .. (k - 1)]
  PROVE  \E x, y \in q + 1 .. q + k : x # y /\ f[x] = f[y]
<1> DEFINE A == q + 1 .. q + k
           B == 1 .. (k - 1)
<1>1. IsFiniteSet(A) /\ Cardinality(A) = k
  <2>1. /\ IsFiniteSet(A)
        /\ Cardinality(A) = IF q + 1 > q + k THEN 0 ELSE q + k - (q + 1) + 1
    BY FS_Interval
  <2> QED BY <2>1
<1>2. IsFiniteSet(B) /\ Cardinality(B) = k - 1
  <2>1. /\ IsFiniteSet(B)
        /\ Cardinality(B) = IF 1 > k - 1 THEN 0 ELSE k - 1 - 1 + 1
    BY FS_Interval
  <2> QED BY <2>1
<1>3. IsFiniteSet(A) /\ IsFiniteSet(B) /\ Cardinality(B) < Cardinality(A) /\ f \in [A -> B]
  BY <1>1, <1>2
<1> HIDE DEF A, B
<1>4. \E x, y \in A : x # y /\ f[x] = f[y]
  BY <1>3, FS_PigeonHole
<1> QED BY <1>4 DEF A

\* Of k numbers in a row, one is no id of k - 1 calls.
LeavesFree(q, k, id, free) ==
    /\ q \in Nat /\ k \in Nat /\ k > 0 /\ free \in SUBSET Nat
    /\ \A n \in q + 1 .. q + k : n \in free \/ \E j \in 1 .. (k - 1) : id[j] = n

\* So the least of those left is one.
LEMMA FreshId ==
  ASSUME NEW q, NEW k, NEW id, NEW free, LeavesFree(q, k, id, free)
  PROVE  Min(free) \in free
<1> USE DEF LeavesFree
<1>1. free # {}
  <2> SUFFICES ASSUME \A n \in q + 1 .. q + k : \E j \in 1 .. (k - 1) : id[j] = n PROVE FALSE
    OBVIOUS
  <2> DEFINE f == [n \in q + 1 .. q + k |-> CHOOSE j \in 1 .. (k - 1) : id[j] = n]
  <2>1. ASSUME NEW n \in q + 1 .. q + k PROVE f[n] \in 1 .. (k - 1) /\ id[f[n]] = n
    <3>1. f[n] = CHOOSE j \in 1 .. (k - 1) : id[j] = n
      OBVIOUS
    <3> HIDE DEF f
    <3> QED BY <3>1
  <2>2. f \in [q + 1 .. q + k -> 1 .. (k - 1)]
    BY <2>1
  <2> HIDE DEF f
  <2>3. \E x, y \in q + 1 .. q + k : x # y /\ f[x] = f[y]
    BY <2>2, RowIsLonger
  <2> QED BY <2>1, <2>3
<1>2. \E m \in free : \A n \in free : m <= n
  BY <1>1, NatMin
<1> QED BY <1>2 DEF Min

\* The calls of a reply as they are recorded: every one keeps its tool and its
\* place, no two have one id, and none has the id the provider gave an earlier.
LEMMA NamedApart ==
  ASSUME NEW n \in Nat, NEW calls, Reply(n, calls), minted \in Nat
  PROVE  /\ Named(calls).seq \in Nat /\ Named(calls).calls \in Seq(Calls) /\ Len(Named(calls).calls) = n
         /\ \A k \in 1 .. n : Named(calls).calls[k].tool = calls[k].tool /\ Named(calls).calls[k].nth = k
         /\ \A j, k \in 1 .. n : j < k =>
               /\ Named(calls).calls[j].id # Named(calls).calls[k].id
               /\ calls[j].id # 0 => Named(calls).calls[k].id # calls[j].id
<1> DEFINE taken(k, b) == {b.calls[j].id : j \in 1 .. (k - 1)}
           fresh(k, b) == Min({x \in b.seq + 1 .. b.seq + k : x \notin taken(k, b)})
           own(k, b) == calls[k].id # 0 /\ calls[k].id \notin taken(k, b)
           next(k, b) == [calls |-> Append(b.calls, [id |-> IF own(k, b) THEN calls[k].id ELSE fresh(k, b),
                                                     tool |-> calls[k].tool, nth |-> k]),
                          seq |-> IF own(k, b) THEN b.seq ELSE fresh(k, b)]
           Is(f) == f = [k \in 0 .. n |-> IF k = 0 THEN [calls |-> <<>>, seq |-> minted] ELSE next(k, f[k - 1])]
           named == CHOOSE f : Is(f)
           Good(k, b) ==
             /\ b \in [calls : Seq(Calls), seq : Nat] /\ Len(b.calls) = k
             /\ \A j \in 1 .. k : b.calls[j].tool = calls[j].tool /\ b.calls[j].nth = j
             /\ \A i, j \in 1 .. k : i < j =>
                   /\ b.calls[i].id # b.calls[j].id
                   /\ calls[i].id # 0 => b.calls[j].id # calls[i].id
             /\ \A j \in 1 .. k : calls[j].id # 0 => \E i \in 1 .. j : b.calls[i].id = calls[j].id
           W == [calls : Seq(Calls), seq : Nat]
           V == [k \in 0 .. n |-> {b \in W : Good(k, b)}]
           v0 == [calls |-> <<>>, seq |-> minted]
           step == [k \in 1 .. n |-> [b \in V[k - 1] |-> next(k, b)]]
<1>1. v0 \in V[0]
  <2>1. v0 \in W /\ Len(v0.calls) = 0
    OBVIOUS
  <2> HIDE DEF v0
  <2> QED BY <2>1
<1>2. ASSUME NEW k \in 1 .. n, NEW b, Good(k - 1, b) PROVE Good(k, next(k, b))
  <2> DEFINE id == IF own(k, b) THEN calls[k].id ELSE fresh(k, b)
             c == [id |-> id, tool |-> calls[k].tool, nth |-> k]
             a == next(k, b)
  <2>1. b \in W /\ b.calls \in Seq(Calls) /\ b.seq \in Nat /\ Len(b.calls) = k - 1
    BY <1>2
  <2>2. calls[k] \in [id : CallIds, tool : ModelTools] /\ CallIds \subseteq Nat
    BY TalkAssumption DEF Reply
  <2>3. fresh(k, b) \in Nat /\ fresh(k, b) \notin taken(k, b)
    <3> DEFINE q == b.seq
               ids == [j \in 1 .. (k - 1) |-> b.calls[j].id]
               had == taken(k, b)
               free == {x \in q + 1 .. q + k : x \notin had}
    <3>1. q \in Nat /\ k \in Nat /\ k > 0
      BY <2>1
    <3>2. \A x \in had : \E j \in 1 .. (k - 1) : ids[j] = x
      OBVIOUS
    <3> HIDE DEF q, ids, had
    <3>3. /\ free \in SUBSET Nat /\ \A x \in free : x \notin had
          /\ \A m \in q + 1 .. q + k : m \in free \/ \E j \in 1 .. (k - 1) : ids[j] = m
      BY <3>1, <3>2
    <3> HIDE DEF free
    <3>4. Min(free) \in free
      <4>1. LeavesFree(q, k, ids, free)
        BY <3>1, <3>3 DEF LeavesFree
      <4> QED BY <4>1, FreshId, Zenon
    <3>5. fresh(k, b) = Min(free)
      BY Zenon DEF q, free, had
    <3> QED BY <3>3, <3>4, <3>5 DEF had
  <2>4. \A j \in 1 .. k - 1 : b.calls[j].id # id
    BY <2>3
  <2>5. calls[k].id # 0 => id = calls[k].id \/ \E j \in 1 .. k - 1 : b.calls[j].id = calls[k].id
    BY <2>3
  <2>6. id \in Nat /\ (IF own(k, b) THEN b.seq ELSE fresh(k, b)) \in Nat
    BY <2>1, <2>2, <2>3
  <2>7. a.calls = Append(b.calls, c) /\ a.seq = IF own(k, b) THEN b.seq ELSE fresh(k, b)
    <3> HIDE DEF own, fresh
    <3> QED OBVIOUS
  <2>8. a = [calls |-> a.calls, seq |-> a.seq]
    <3> HIDE DEF own, fresh
    <3> QED OBVIOUS
  <2> HIDE DEF own, fresh, id
  <2>9. c \in Calls /\ c.id = id /\ c.tool = calls[k].tool /\ c.nth = k
    BY <2>2, <2>6 DEF Calls
  <2> HIDE DEF c, a, next, Good
  <2>10. /\ a.calls \in Seq(Calls) /\ Len(a.calls) = k /\ a.calls[k] = c
         /\ \A j \in 1 .. k - 1 : a.calls[j] = b.calls[j]
    BY <2>1, <2>7, <2>9
  <2>11. a \in W
    BY <2>6, <2>7, <2>8, <2>10
  <2>12. /\ \A j \in 1 .. k - 1 : b.calls[j].tool = calls[j].tool /\ b.calls[j].nth = j
         /\ \A i, j \in 1 .. k - 1 : i < j =>
                   /\ b.calls[i].id # b.calls[j].id
                   /\ calls[i].id # 0 => b.calls[j].id # calls[i].id
         /\ \A j \in 1 .. k - 1 : calls[j].id # 0 => \E i \in 1 .. j : b.calls[i].id = calls[j].id
    BY <1>2 DEF Good
  <2>13. ASSUME NEW j \in 1 .. k PROVE j \in 1 .. k - 1 \/ j = k
    OBVIOUS
  <2>14. ASSUME NEW j \in 1 .. k PROVE a.calls[j].tool = calls[j].tool /\ a.calls[j].nth = j
    BY <2>9, <2>10, <2>12, <2>13
  <2>15. ASSUME NEW j \in 1 .. k, calls[j].id # 0 PROVE \E i \in 1 .. j : a.calls[i].id = calls[j].id
    <3>1. CASE j \in 1 .. k - 1
      BY <2>10, <2>12, <2>15, <3>1
    <3>2. CASE j = k
      <4>1. id = calls[j].id => a.calls[j].id = calls[j].id
        BY <2>9, <2>10, <3>2
      <4>2. id # calls[j].id => \E i \in 1 .. k - 1 : a.calls[i].id = calls[j].id
        BY <2>5, <2>10, <2>15, <3>2
      <4> QED BY <3>2, <4>1, <4>2
    <3> QED BY <2>13, <3>1, <3>2
  <2>16. ASSUME NEW i \in 1 .. k, NEW j \in 1 .. k, i < j
         PROVE  a.calls[i].id # a.calls[j].id /\ (calls[i].id # 0 => a.calls[j].id # calls[i].id)
    <3>1. i \in 1 .. k - 1 /\ a.calls[i] = b.calls[i]
      BY <2>10, <2>16
    <3>2. CASE j \in 1 .. k - 1
      BY <2>10, <2>12, <2>16, <3>1, <3>2
    <3>3. CASE j = k
      <4>1. a.calls[j].id = id
        BY <2>9, <2>10, <3>3
      <4>2. calls[i].id # 0 => \E x \in 1 .. k - 1 : b.calls[x].id = calls[i].id
        BY <2>12, <3>1
      <4> QED BY <2>4, <3>1, <4>1, <4>2
    <3> QED BY <2>13, <3>2, <3>3
  <2> HIDE DEF W
  <2>17. Good(k, a)
    BY <2>10, <2>11, <2>14, <2>15, <2>16 DEF Good, W
  <2> QED BY <2>17 DEF a
<1> HIDE DEF Good, next
<1>3. ASSUME NEW k \in 1 .. n, NEW b \in V[k - 1] PROVE step[k][b] = next(k, b) /\ next(k, b) \in V[k]
  <2>1. Good(k - 1, b) /\ k - 1 \in 0 .. n
    BY <1>3
  <2>2. Good(k, next(k, b))
    BY <1>2, <2>1
  <2>3. next(k, b) \in W
    BY <2>2 DEF Good
  <2>4. step[k][b] = next(k, b)
    <3> HIDE DEF V
    <3> QED OBVIOUS
  <2> QED BY <2>2, <2>3, <2>4
<1> HIDE DEF V, step
<1>4. Steps(V, v0, n, step)
  BY <1>1, <1>3 DEF Steps
<1>5. \E f : Is(f)
  <2> HIDE DEF v0
  <2>1. PICK f : f = [k \in 0 .. n |-> f[k]] /\ Takes(V, v0, n, step, f)
    BY <1>4, StepsExist, Zenon
  <2>2. \A k \in 0 .. n : f[k] \in V[k]
    BY <1>4, <2>1, StepsReach, Zenon
  <2>3. ASSUME NEW k \in 1 .. n PROVE f[k] = next(k, f[k - 1])
    <3>1. k - 1 \in 0 .. n
      OBVIOUS
    <3>2. f[k - 1] \in V[k - 1]
      BY <2>2, <3>1
    <3> QED BY <1>3, <2>1, <3>2 DEF Takes
  <2>4. f[0] = v0
    BY <2>1 DEF Takes
  <2>5. ASSUME NEW k \in 0 .. n PROVE f[k] = IF k = 0 THEN v0 ELSE next(k, f[k - 1])
    BY <2>3, <2>4
  <2>6. f = [k \in 0 .. n |-> IF k = 0 THEN v0 ELSE next(k, f[k - 1])]
    BY <2>1, <2>5
  <2> QED BY <2>6 DEF v0
<1>6. Is(named)
  <2> HIDE DEF Is
  <2> QED BY <1>5
<1>7. Named(calls) = named[n]
  <2>1. Len(calls) = n
    BY FunctionIsSeq DEF Reply
  <2> QED BY <2>1, Zenon DEF Named, next
<1>8. named[0] = v0 /\ \A k \in 1 .. n : named[k] = next(k, named[k - 1])
  <2> HIDE DEF named
  <2> QED BY <1>6
<1> HIDE DEF named, v0
<1>9. Takes(V, v0, n, step, named)
  BY <1>3, <1>8 DEF Takes
<1>10. named[n] \in V[n]
  <2>1. \A k \in 0 .. n : named[k] \in V[k]
    BY <1>4, <1>9, StepsReach, Zenon
  <2> QED BY <2>1
<1>11. Good(n, named[n])
  BY <1>10 DEF V
<1> QED BY <1>7, <1>11 DEF Good

-----------------------------------------------------------------------------
\* Of the calls w that wait, the nth call of the turn is at q, the first of its
\* tool, and no other has the id.
First(w, q, id, tool, nth) ==
    /\ w \in Seq(Calls) /\ q \in 1 .. Len(w) /\ w[q].tool = tool /\ w[q].nth = nth
    /\ \A i \in 1 .. Len(w) : i < q => w[i].tool # tool
    /\ \A i \in 1 .. Len(w) : i # q /\ id # 0 => w[i].id # id

\* It is the one that is answered.
LEMMA AnsweredAt ==
  ASSUME NEW w, NEW q, NEW id, NEW tool, NEW nth, First(w, q, id, tool, nth)
  PROVE  Answered(w, id, tool) = q
<1> USE DEF First
<1> DEFINE byId == {i \in DOMAIN w : id # 0 /\ w[i].id = id}
           byTool == {i \in DOMAIN w : w[i].tool = tool}
<1>1. \A i : i \in DOMAIN w <=> i \in 1 .. Len(w)
  OBVIOUS
<1>2. \A i \in byId : i = q
  BY <1>1
<1>3. q \in byTool /\ \A i \in byTool : q <= i
  BY <1>1
<1>4. byId # {} => Min(byId) = q
  BY <1>2 DEF Min
<1>5. Min(byTool) = q
  <2>1. byTool \subseteq Int /\ q \in Int
    BY <1>1
  <2> HIDE DEF byTool
  <2>2. ASSUME NEW i \in byTool, \A k \in byTool : i <= k PROVE i = q
    <3>1. i <= q /\ q <= i /\ i \in Int
      BY <1>3, <2>1, <2>2
    <3> QED BY <2>1, <3>1
  <2> QED BY <1>3, <2>2 DEF Min
<1>6. byTool # {}
  BY <1>3
<1>7. Answered(w, id, tool) =
        CASE byId # {} -> Min(byId)
          [] byId = {} /\ byTool # {} -> Min(byTool)
          [] OTHER -> IF w = <<>> THEN 0 ELSE 1
  BY Zenon DEF Answered
<1> HIDE DEF byId, byTool
<1> QED BY <1>4, <1>5, <1>6, <1>7

\* s with the result of that call filed.
WithResult(s, t, q) ==
    [s EXCEPT !.talk = Trim(Append(s.talk, Result(t, s.waiting[q]))), !.waiting = RemoveAt(s.waiting, q)]

\* A result whose call is the one found at q is filed there.
LEMMA RecordedAt ==
  ASSUME NEW s, NEW q, NEW t, NEW id, NEW tool, NEW nth, First(s.waiting, q, id, tool, nth)
  PROVE  Record(s, t, id, tool, nth) = WithResult(s, t, q)
<1>1. Answered(s.waiting, id, tool) = q /\ q # 0 /\ s.waiting[q].nth = nth
  <2>1. Answered(s.waiting, id, tool) = q
    BY AnsweredAt, Zenon
  <2> QED BY <2>1 DEF First
<1> QED BY <1>1, Zenon DEF Record, Result, WithResult

\* The queue d of the loop is the calls w that wait, in order, and a call is
\* not given the id of one before it.
Queue(d, w) ==
    /\ Len(d) = Len(w)
    /\ \A i \in 1 .. Len(w) : d[i].nth = w[i].nth /\ d[i].tool = w[i].tool
    /\ \A i, j \in 1 .. Len(w) : (i < j /\ d[i].id # 0) => w[j].id # d[i].id

\* The calls of a reply and what was recorded of them.
Given(n, calls, named) ==
    /\ Reply(n, calls) /\ named \in Seq(Calls) /\ Len(named) = n
    /\ \A k \in 1 .. n : named[k].tool = calls[k].tool /\ named[k].nth = k
    /\ \A j, k \in 1 .. n : (j < k /\ calls[j].id # 0) => named[k].id # calls[j].id

\* The policy leaves the admitted calls waiting, in the order of the queue, and
\* files a result for every other.
LEMMA PolicyKept ==
  ASSUME NEW n \in Nat, NEW calls, NEW named, Given(n, calls, named), TurnFits,
         NEW h \in Seq(Messages), NEW t \in Nat, NEW aim, t > 0,
         Len(h) <= MaxMessages, Transcript(aim, h, t), Open(h, named, t)
  PROVE  LET s == EnforceToolPolicy([talk |-> h, waiting |-> named, admitted |-> <<>>], t, calls)
         IN  /\ s.talk \in Seq(Messages) /\ Len(s.talk) <= MaxMessages /\ Transcript(aim, s.talk, t)
             /\ s.waiting \in Seq(Calls) /\ s.admitted \in Seq(Asks)
             /\ Open(s.talk, s.waiting, t) /\ Queue(s.admitted, s.waiting)
<1> DEFINE ask(k) == [id |-> calls[k].id, tool |-> calls[k].tool, nth |-> k]
           next(k, b) == IF calls[k].tool \in RoutableTools
                         THEN [b EXCEPT !.admitted = Append(@, ask(k))]
                         ELSE Record(b, t, 0, calls[k].tool, k)
           v0 == [talk |-> h, waiting |-> named, admitted |-> <<>>]
           Is(f) == f = [k \in 0 .. n |-> IF k = 0 THEN v0 ELSE next(k, f[k - 1])]
           after == CHOOSE f : Is(f)
           W == [talk : Seq(Messages), waiting : Seq(Calls), admitted : Seq(Asks)]
           Placed(k, w, d) ==
             /\ Len(d) <= k /\ Len(w) = Len(d) + (n - k)
             /\ \A i \in 1 .. Len(d) : d[i].nth \in 1 .. k /\ d[i] = ask(d[i].nth)
                                       /\ d[i].tool \in RoutableTools /\ w[i] = named[d[i].nth]
             /\ \A i, j \in 1 .. Len(d) : i < j => d[i].nth < d[j].nth
             /\ \A i \in 1 .. n - k : w[Len(d) + i] = named[k + i]
           Good(k, b) ==
             /\ b \in W /\ Len(b.talk) <= MaxMessages /\ Transcript(aim, b.talk, t) /\ Open(b.talk, b.waiting, t)
             /\ Placed(k, b.waiting, b.admitted)
           V == [k \in 0 .. n |-> {b \in W : Good(k, b)}]
           step == [k \in 1 .. n |-> [b \in V[k - 1] |-> next(k, b)]]
<1>g. /\ named \in Seq(Calls) /\ Len(named) = n
      /\ \A k \in 1 .. n : named[k].tool = calls[k].tool /\ named[k].nth = k
      /\ \A j, k \in 1 .. n : (j < k /\ calls[j].id # 0) => named[k].id # calls[j].id
  BY DEF Given
<1>1. v0 \in V[0]
  <2>1. v0 \in W /\ v0.talk = h /\ v0.waiting = named /\ v0.admitted = <<>> /\ Len(<<>>) = 0
    BY <1>g
  <2> HIDE DEF v0
  <2>2. Placed(0, named, <<>>)
    BY <1>g, <2>1
  <2> QED BY <2>1, <2>2
<1>2. ASSUME NEW k \in 1 .. n, NEW b, Good(k - 1, b) PROVE Good(k, next(k, b))
  <2> DEFINE w == b.waiting
             d == b.admitted
             q == Len(d) + 1
  <2>1. b \in W /\ w \in Seq(Calls) /\ d \in Seq(Asks) /\ b.talk \in Seq(Messages) /\ Len(d) \in Nat
    BY <1>2
  <2>2. calls[k].id \in Nat /\ calls[k].tool \in ModelTools /\ k \in Nat
    <3> HIDE DEF Good, next, V
    <3> QED BY ReplyTyped DEF Given
  <2>3. q \in 1 .. Len(w) /\ w[q] = named[k] /\ Placed(k - 1, w, d)
    <3>1. Placed(k - 1, w, d)
      BY <1>2
    <3> HIDE DEF w, d, ask
    <3>2. 1 \in 1 .. n - (k - 1) /\ (k - 1) + 1 = k
      OBVIOUS
    <3>3. w[Len(d) + 1] = named[(k - 1) + 1] /\ Len(w) = Len(d) + (n - (k - 1))
      BY <3>1, <3>2
    <3>4. Len(d) + 1 \in 1 .. Len(w)
      BY <2>1, <3>3
    <3> QED BY <3>1, <3>2, <3>3, <3>4
  <2>4. CASE calls[k].tool \in RoutableTools
    <3> DEFINE e == Append(d, ask(k))
               a == [b EXCEPT !.admitted = e]
    <3>1. next(k, b) = a
      <4> HIDE DEF ask
      <4> QED BY <2>4
    <3>2. ask(k) \in Asks
      BY <2>2 DEF Asks
    <3>3. ask(k).nth = k /\ ask(k).tool = calls[k].tool
      OBVIOUS
    <3> HIDE DEF ask, w, d
    <3>4. /\ e \in Seq(Asks) /\ Len(e) = q /\ e[q] = ask(k)
          /\ \A i \in 1 .. Len(d) : e[i] = d[i]
      BY <2>1, <3>2
    <3> HIDE DEF e
    <3>5. a \in W /\ a.talk = b.talk /\ a.waiting = w /\ a.admitted = e
      BY <2>1, <3>4 DEF w
    <3>6. Placed(k, w, e)
      <4>1. Len(e) <= k /\ Len(w) = Len(e) + (n - k)
        BY <2>1, <2>3, <3>4
      <4>2. ASSUME NEW i \in 1 .. Len(e) PROVE i \in 1 .. Len(d) \/ i = q
        BY <2>1, <3>4
      <4>3. ASSUME NEW i \in 1 .. Len(e)
            PROVE  e[i].nth \in 1 .. k /\ e[i] = ask(e[i].nth) /\ e[i].tool \in RoutableTools /\ w[i] = named[e[i].nth]
        <5>1. CASE i \in 1 .. Len(d)
          <6>1. d[i].nth \in 1 .. k - 1 /\ d[i] = ask(d[i].nth) /\ d[i].tool \in RoutableTools /\ w[i] = named[d[i].nth]
            BY <2>3, <5>1
          <6> QED BY <3>4, <5>1, <6>1
        <5>2. CASE i = q
          BY <2>3, <2>4, <3>3, <3>4, <5>2
        <5> QED BY <4>2, <5>1, <5>2
      <4>4. ASSUME NEW i \in 1 .. Len(e), NEW j \in 1 .. Len(e), i < j PROVE e[i].nth < e[j].nth
        <5>1. i \in 1 .. Len(d)
          BY <2>1, <3>4, <4>4
        <5>d. e[i] = d[i] /\ d[i].nth \in 1 .. k - 1
          BY <2>3, <3>4, <5>1
        <5>2. CASE j \in 1 .. Len(d)
          <6>1. d[i].nth < d[j].nth /\ e[j] = d[j]
            BY <2>3, <3>4, <4>4, <5>1, <5>2
          <6> QED BY <5>d, <6>1
        <5>3. CASE j = q
          BY <3>3, <3>4, <5>d, <5>3
        <5> QED BY <4>2, <5>2, <5>3
      <4>5. ASSUME NEW i \in 1 .. n - k PROVE w[Len(e) + i] = named[k + i]
        <5>1. i + 1 \in 1 .. n - (k - 1)
          OBVIOUS
        <5>2. w[Len(d) + (i + 1)] = named[(k - 1) + (i + 1)]
          BY <2>3, <5>1
        <5>3. Len(d) + (i + 1) = Len(e) + i /\ (k - 1) + (i + 1) = k + i
          BY <2>1, <3>4
        <5> QED BY <5>2, <5>3
      <4> QED BY <4>1, <4>3, <4>4, <4>5
    <3> HIDE DEF Placed, W, a
    <3>7. Good(k, a)
      BY <1>2, <3>5, <3>6 DEF w
    <3> QED BY <3>1, <3>7
  <2>5. CASE calls[k].tool \notin RoutableTools
    <3> DEFINE g == Trim(Append(b.talk, Result(t, w[q])))
               v == RemoveAt(w, q)
               a == [b EXCEPT !.talk = g, !.waiting = v]
    <3>1. First(w, q, 0, calls[k].tool, k)
      <4>1. w[q].tool = calls[k].tool
        BY <1>g, <2>3
      <4>2. \A i \in 1 .. Len(w) : i < q => w[i].tool # calls[k].tool
        <5> SUFFICES ASSUME NEW i \in 1 .. Len(w), i < q PROVE w[i].tool # calls[k].tool
          OBVIOUS
        <5>1. i \in 1 .. Len(d)
          BY <2>1
        <5> HIDE DEF ask, w, d
        <5>2. d[i].nth \in 1 .. k - 1 /\ d[i] = ask(d[i].nth) /\ d[i].tool \in RoutableTools /\ w[i] = named[d[i].nth]
          BY <2>3, <5>1
        <5>3. d[i].tool = calls[d[i].nth].tool
          BY <5>2 DEF ask
        <5> QED BY <1>g, <2>5, <5>2, <5>3
      <4>3. w[q].nth = k
        BY <1>g, <2>3
      <4> HIDE DEF w, q, Placed, Good
      <4>4. w \in Seq(Calls) /\ q \in 1 .. Len(w)
        BY <2>1, <2>3
      <4> QED BY <4>1, <4>2, <4>3, <4>4 DEF First
    <3>3. Record(b, t, 0, calls[k].tool, k) = a
      <4>1. First(b.waiting, q, 0, calls[k].tool, k)
        BY <3>1
      <4> HIDE DEF q, Placed, Good
      <4>2. Record(b, t, 0, calls[k].tool, k) = WithResult(b, t, q)
        BY <4>1, RecordedAt, Zenon
      <4> QED BY <4>2 DEF WithResult
    <3>4. next(k, b) = a
      <4> HIDE DEF a, ask
      <4> QED BY <2>5, <3>3
    <3>5. Transcript(aim, b.talk, t) /\ Open(b.talk, w, t)
      BY <1>2
    <3>6. /\ g \in Seq(Messages) /\ Len(g) <= MaxMessages
          /\ Transcript(aim, g, t) /\ Open(g, v, t)
      <4> HIDE DEF w, q
      <4> QED BY <2>1, <2>3, <3>5, Filed
    <3>7. /\ v \in Seq(Calls) /\ Len(v) = Len(w) - 1
          /\ \A i \in 1 .. Len(w) - 1 : v[i] = IF i < q THEN w[i] ELSE w[i + 1]
      <4>1. w \in Seq(Calls) /\ q \in 1 .. Len(w)
        BY <2>1, <2>3
      <4> HIDE DEF w, q
      <4>2. /\ RemoveAt(w, q) \in Seq(Calls) /\ Len(RemoveAt(w, q)) = Len(w) - 1
            /\ \A i \in 1 .. Len(w) - 1 : RemoveAt(w, q)[i] = IF i < q THEN w[i] ELSE w[i + 1]
        BY <4>1, Removed, Zenon
      <4> QED BY <4>2
    <3> HIDE DEF g, v, w, d
    <3>8. a \in W /\ a.talk = g /\ a.waiting = v /\ a.admitted = d
      BY <2>1, <3>6, <3>7 DEF d
    <3>9. Placed(k, v, d)
      <4> HIDE DEF ask
      <4>1. Len(d) <= k /\ Len(v) = Len(d) + (n - k) /\ Len(w) = Len(d) + (n - k) + 1
        BY <2>1, <2>3, <3>7
      <4>2. ASSUME NEW i \in 1 .. Len(d)
            PROVE  d[i].nth \in 1 .. k /\ d[i] = ask(d[i].nth) /\ d[i].tool \in RoutableTools /\ v[i] = named[d[i].nth]
        <5>1. d[i].nth \in 1 .. k - 1 /\ d[i] = ask(d[i].nth) /\ d[i].tool \in RoutableTools /\ w[i] = named[d[i].nth]
          BY <2>3
        <5>2. v[i] = w[i]
          <6>1. i \in 1 .. Len(w) - 1 /\ i < q
            BY <2>1, <4>1
          <6> QED BY <3>7, <6>1
        <5>3. d[i].nth \in 1 .. k
          BY <5>1
        <5> QED BY <5>1, <5>2, <5>3
      <4>3. \A i, j \in 1 .. Len(d) : i < j => d[i].nth < d[j].nth
        BY <2>3
      <4>4. ASSUME NEW i \in 1 .. n - k PROVE v[Len(d) + i] = named[k + i]
        <5>1. i + 1 \in 1 .. n - (k - 1)
          OBVIOUS
        <5>2. w[Len(d) + (i + 1)] = named[(k - 1) + (i + 1)]
          BY <2>3, <5>1
        <5>5. (k - 1) + (i + 1) = k + i
          OBVIOUS
        <5>3. Len(d) + i \in 1 .. Len(w) - 1 /\ ~ (Len(d) + i < q) /\ (Len(d) + i) + 1 = Len(d) + (i + 1)
          BY <2>1, <4>1
        <5>4. v[Len(d) + i] = w[(Len(d) + i) + 1]
          BY <3>7, <5>3
        <5> QED BY <5>2, <5>3, <5>4, <5>5
      <4> QED BY <4>1, <4>2, <4>3, <4>4
    <3> HIDE DEF Placed, W, a
    <3>10. Good(k, a)
      BY <3>6, <3>8, <3>9
    <3> QED BY <3>4, <3>10
  <2> QED BY <2>4, <2>5
<1> HIDE DEF Good, next
<1>3. ASSUME NEW k \in 1 .. n, NEW b \in V[k - 1] PROVE step[k][b] = next(k, b) /\ next(k, b) \in V[k]
  <2>1. Good(k - 1, b) /\ k - 1 \in 0 .. n
    BY <1>3
  <2>2. Good(k, next(k, b))
    BY <1>2, <2>1
  <2>3. next(k, b) \in W
    BY <2>2 DEF Good
  <2>4. step[k][b] = next(k, b)
    <3> HIDE DEF V
    <3> QED OBVIOUS
  <2> QED BY <2>2, <2>3, <2>4
<1> HIDE DEF V, step
<1>4. Steps(V, v0, n, step)
  BY <1>1, <1>3 DEF Steps
<1>5. \E f : Is(f)
  <2> HIDE DEF v0
  <2>1. PICK f : f = [k \in 0 .. n |-> f[k]] /\ Takes(V, v0, n, step, f)
    BY <1>4, StepsExist, Zenon
  <2>2. \A k \in 0 .. n : f[k] \in V[k]
    BY <1>4, <2>1, StepsReach, Zenon
  <2>3. ASSUME NEW k \in 1 .. n PROVE f[k] = next(k, f[k - 1])
    <3>1. k - 1 \in 0 .. n
      OBVIOUS
    <3>2. f[k - 1] \in V[k - 1]
      BY <2>2, <3>1
    <3> QED BY <1>3, <2>1, <3>2 DEF Takes
  <2>4. f[0] = v0
    BY <2>1 DEF Takes
  <2>5. ASSUME NEW k \in 0 .. n PROVE f[k] = IF k = 0 THEN v0 ELSE next(k, f[k - 1])
    BY <2>3, <2>4
  <2>6. f = [k \in 0 .. n |-> IF k = 0 THEN v0 ELSE next(k, f[k - 1])]
    BY <2>1, <2>5
  <2> QED BY <2>6 DEF v0
<1>6. Is(after)
  <2> HIDE DEF Is
  <2> QED BY <1>5
<1>7. EnforceToolPolicy(v0, t, calls) = after[n]
  <2>1. Len(calls) = n
    BY FunctionIsSeq DEF Given, Reply
  <2> QED BY <2>1, Zenon DEF EnforceToolPolicy, next
<1>8. after[0] = v0 /\ \A k \in 1 .. n : after[k] = next(k, after[k - 1])
  <2> HIDE DEF after
  <2> QED BY <1>6
<1> HIDE DEF after, v0
<1>9. Takes(V, v0, n, step, after)
  BY <1>3, <1>8 DEF Takes
<1>10. after[n] \in V[n]
  <2>1. \A k \in 0 .. n : after[k] \in V[k]
    BY <1>4, <1>9, StepsReach, Zenon
  <2> QED BY <2>1
<1>11. Good(n, after[n])
  BY <1>10 DEF V
<1> DEFINE s == after[n]
<1>12. Placed(n, s.waiting, s.admitted) /\ s \in W
  BY <1>11 DEF Good
<1>13. Queue(s.admitted, s.waiting)
  <2> DEFINE d == s.admitted
             w == s.waiting
  <2>1. d \in Seq(Asks) /\ w \in Seq(Calls) /\ Len(w) = Len(d)
    BY <1>12
  <2>2. ASSUME NEW i \in 1 .. Len(d)
        PROVE  d[i].nth \in 1 .. n /\ d[i].id = calls[d[i].nth].id /\ d[i].tool = calls[d[i].nth].tool /\ w[i] = named[d[i].nth]
    <3>1. d[i].nth \in 1 .. n /\ d[i] = ask(d[i].nth) /\ w[i] = named[d[i].nth]
      BY <1>12
    <3> HIDE DEF d, w, s, Placed
    <3> QED BY <3>1
  <2>3. \A i, j \in 1 .. Len(d) : i < j => d[i].nth < d[j].nth
    BY <1>12
  <2> HIDE DEF d, w
  <2>4. ASSUME NEW i \in 1 .. Len(w) PROVE d[i].nth = w[i].nth /\ d[i].tool = w[i].tool
    BY <1>g, <2>1, <2>2, SMTT(30)
  <2>5. ASSUME NEW i \in 1 .. Len(w), NEW j \in 1 .. Len(w), i < j, d[i].id # 0 PROVE w[j].id # d[i].id
    <3>1. d[i].nth \in 1 .. n /\ d[j].nth \in 1 .. n /\ d[i].nth < d[j].nth
      BY <2>1, <2>2, <2>3, <2>5
    <3> QED BY <1>g, <2>1, <2>2, <2>5, <3>1, SMTT(30)
  <2> QED BY <2>1, <2>4, <2>5 DEF Queue, d, w
<1> QED BY <1>7, <1>11, <1>12, <1>13 DEF Good, v0

-----------------------------------------------------------------------------
\* The conversation

\* A call is under way: the loop has calls to run.
SomeQueued == stage = "execute" \/ (stage = "verify" /\ dispatches # <<>>)

\* The loop has none: the next step asks the model, or ends.
NoneQueued == stage = "plan" \/ (stage = "verify" /\ dispatches = <<>>)

\* The invariant of the talk.
TalkInv ==
    /\ stage \in {"none", "plan", "asked", "execute", "verify", "patch", "over"}
    /\ goalNow \in TaskGoals /\ minted \in Nat /\ hasMore \in BOOLEAN
    /\ unanswered \in Seq(Calls) /\ dispatches \in Seq(Asks)
    /\ denials \in 0 .. 3 /\ turns \in 0 .. MaxTurns /\ reflected \in 0 .. MaxReflections
    /\ talk \in Seq(Messages) /\ Len(talk) <= MaxMessages
    /\ Transcript(goalNow, talk, turns)
    /\ stage = "asked" =>
          /\ talk # <<>> /\ turns < MaxTurns
          /\ \/ \E i \in 1 .. Len(talk) : talk[i] = Compiled[2]
             \/ talk[Len(talk)] = Compiled[3]
    /\ stage # "over" => denials <= 2
    /\ SomeQueued => Open(talk, unanswered, turns) /\ Queue(dispatches, unanswered)
    /\ NoneQueued /\ unanswered # <<>> => reflected > 0
    /\ stage = "patch" => reflected > 0

\* What was a transcript a turn ago is one.
LEMMA LaterTranscript ==
  ASSUME NEW h \in Seq(Messages), NEW aim, NEW t \in Nat, Transcript(aim, h, t)
  PROVE  Transcript(aim, h, t + 1)
<1>1. 1 .. t \subseteq 1 .. t + 1
  OBVIOUS
<1> QED BY <1>1 DEF Transcript

\* It holds at first.
LEMMA InitTalk == TalkInit => TalkInv
<1> SUFFICES ASSUME TalkInit PROVE TalkInv
  OBVIOUS
<1>1. /\ <<>> \in Seq(Messages) /\ Len(<<>>) = 0 /\ <<>> \in Seq(Calls) /\ <<>> \in Seq(Asks)
      /\ Transcript(goalNow, <<>>, 0)
  BY NoTranscript
<1> QED BY <1>1, TalkAssumption DEF TalkInit, TalkInv, SomeQueued, NoneQueued

\* Every step keeps it.
LEMMA NextTalk == ASSUME TurnFits PROVE TalkInv /\ [TalkNext]_talkVars => TalkInv'
<1> SUFFICES ASSUME TalkInv, [TalkNext]_talkVars PROVE TalkInv'
  OBVIOUS
<1>0. /\ turns \in Nat /\ turns + 1 \in Nat /\ talk \in Seq(Messages) /\ Transcript(goalNow, talk, turns)
      /\ goalNow \in TaskGoals /\ Len(talk) <= MaxMessages
  BY TalkAssumption DEF TalkInv
<1>1. ASSUME NEW g \in TaskGoals, SubmitGoal(g) PROVE TalkInv'
  <2>1. /\ <<>> \in Seq(Messages) /\ Len(<<>>) = 0 /\ <<>> \in Seq(Calls) /\ <<>> \in Seq(Asks)
        /\ Transcript(g, <<>>, 0)
    BY NoTranscript
  <2> QED BY <1>1, <2>1, TalkAssumption DEF SubmitGoal, TalkInv, SomeQueued, NoneQueued
<1>2. ASSUME AskModel PROVE TalkInv'
  <2>1. /\ stage = "plan" /\ turns < MaxTurns /\ stage' = "asked" /\ talk' = Merged
        /\ UNCHANGED <<goalNow, unanswered, minted, denials, hasMore, dispatches, turns, reflected>>
    BY <1>2 DEF AskModel
  <2>2. /\ Merged \in Seq(Messages) /\ Merged # <<>> /\ Len(Merged) <= MaxMessages
        /\ Transcript(goalNow, Merged, turns)
        /\ \/ \E i \in 1 .. Len(Merged) : Merged[i] = Compiled[2]
           \/ Merged[Len(Merged)] = Compiled[3]
    BY <1>0, MergeKept
  <2>3. Compiled' = Compiled
    BY <2>1 DEF Compiled
  <2> QED BY <2>1, <2>2, <2>3 DEF TalkInv, SomeQueued, NoneQueued
<1>3. ASSUME ThinkFails PROVE TalkInv'
  BY <1>3 DEF ThinkFails, TalkInv, SomeQueued, NoneQueued
<1>4. ASSUME NEW text \in BOOLEAN, ModelAnswers(text) PROVE TalkInv'
  <2> DEFINE r == Said("assistant", turns + 1)
  <2>1. /\ stage = "asked" /\ stage' = "over" /\ turns' = turns + 1 /\ unanswered' = <<>> /\ denials' = 0
        /\ hasMore' = FALSE /\ UNCHANGED <<goalNow, minted, dispatches, reflected>>
        /\ talk' = IF text THEN Trim(Append(talk, r)) ELSE talk
    BY <1>4 DEF ModelAnswers
  <2>2. <<>> \in Seq(Calls) /\ Len(<<>>) = 0
    OBVIOUS
  <2>3. r \in Messages /\ r.role = "assistant" /\ r.what = turns + 1 /\ Distinct(r.calls)
    BY <1>0, <2>2 DEF Said, Messages, Distinct
  <2> HIDE DEF r
  <2>4. talk # <<>> /\ turns + 1 \in 0 .. MaxTurns /\ turns + 1 \in 1 .. turns + 1
    BY <1>0, <2>1, TalkAssumption DEF TalkInv
  <2>5. Transcript(goalNow, talk, turns + 1)
    BY <1>0, LaterTranscript
  <2>6. Append(talk, r) \in Seq(Messages) /\ Append(talk, r) # <<>> /\ Transcript(goalNow, Append(talk, r), turns + 1)
    <3>1. Append(talk, r) # <<>>
      BY <1>0, <2>3
    <3> QED BY <1>0, <2>3, <2>4, <2>5, <3>1, ReplyAppended
  <2>7. talk' \in Seq(Messages) /\ Len(talk') <= MaxMessages /\ Transcript(goalNow, talk', turns + 1)
    BY <1>0, <2>1, <2>5, <2>6, Trimmed
  <2>8. /\ stage' = "over" /\ turns' = turns + 1 /\ unanswered' = <<>> /\ denials' = 0
        /\ hasMore' = FALSE /\ UNCHANGED <<goalNow, minted, dispatches, reflected>>
    BY <2>1
  <2>9. Transcript(goalNow', talk', turns') /\ goalNow' \in TaskGoals /\ minted' \in Nat
        /\ dispatches' \in Seq(Asks) /\ reflected' \in 0 .. MaxReflections
    BY <2>7, <2>8 DEF TalkInv
  <2> HIDE DEF r
  <2>10. unanswered' \in Seq(Calls) /\ turns' \in 0 .. MaxTurns /\ denials' \in 0 .. 3 /\ hasMore' \in BOOLEAN
    <3>1. unanswered' = <<>> /\ turns' = turns + 1 /\ denials' = 0 /\ hasMore' = FALSE
      BY <2>8
    <3>2. <<>> \in Seq(Calls) /\ turns + 1 \in 0 .. MaxTurns
      BY <2>2, <2>4
    <3>3. 0 \in 0 .. 3 /\ FALSE \in BOOLEAN
      OBVIOUS
    <3> QED BY <3>1, <3>2, <3>3
  <2>11. ~ SomeQueued' /\ ~ NoneQueued' /\ stage' = "over"
    BY <2>8 DEF SomeQueued, NoneQueued
  <2> QED BY <2>7, <2>9, <2>10, <2>11 DEF TalkInv
<1>5. ASSUME NEW calls \in Replies, ModelCalls(calls) PROVE TalkInv'
  <2>1. PICK n \in 1 .. MaxParallel : Reply(n, calls)
    BY DEF Replies, Reply
  <2> DEFINE named == Named(calls)
             r == [role |-> "assistant", what |-> turns + 1, calls |-> named.calls, of |-> 0]
             a == Append(talk, r)
             h == Trim(a)
             s == EnforceToolPolicy([talk |-> h, waiting |-> named.calls, admitted |-> <<>>], turns + 1, calls)
  <2>2. /\ stage = "asked" /\ turns' = turns + 1 /\ minted' = named.seq
        /\ talk' = s.talk /\ unanswered' = s.waiting /\ dispatches' = s.admitted
        /\ denials' = (IF s.admitted = <<>> THEN denials + 1 ELSE 0) /\ hasMore' = TRUE
        /\ stage' = (IF s.admitted # <<>> THEN "execute" ELSE IF denials' >= 3 THEN "over" ELSE "plan")
        /\ UNCHANGED <<goalNow, reflected>>
    BY <1>5, Zenon DEF ModelCalls
  <2>3. /\ named.seq \in Nat /\ named.calls \in Seq(Calls) /\ Len(named.calls) = n
        /\ \A k \in 1 .. n : named.calls[k].tool = calls[k].tool /\ named.calls[k].nth = k
        /\ \A j, k \in 1 .. n : j < k =>
               /\ named.calls[j].id # named.calls[k].id
               /\ calls[j].id # 0 => named.calls[k].id # calls[j].id
    <3>1. n \in Nat /\ minted \in Nat
      BY TalkAssumption DEF TalkInv
    <3> QED BY <2>1, <3>1, NamedApart
  <2> HIDE DEF named
  <2>4. Given(n, calls, named.calls)
    BY <2>1, <2>3 DEF Given
  <2>5. Distinct(named.calls)
    <3> SUFFICES ASSUME NEW j \in 1 .. n, NEW k \in 1 .. n, j # k PROVE named.calls[j].id # named.calls[k].id
      BY <2>3 DEF Distinct
    <3> QED BY <2>3
  <2>6. /\ r \in Messages /\ r.role = "assistant" /\ r.what = turns + 1 /\ r.calls = named.calls
    BY <1>0, <2>3 DEF Messages
  <2> HIDE DEF r
  <2>7. talk # <<>> /\ turns + 1 \in 0 .. MaxTurns /\ turns + 1 \in 1 .. turns + 1 /\ n \in Nat /\ n <= MaxParallel
    BY <1>0, <2>2, TalkAssumption DEF TalkInv
  <2>8. Transcript(goalNow, talk, turns + 1)
    BY <1>0, LaterTranscript
  <2>9. a \in Seq(Messages) /\ a # <<>> /\ Transcript(goalNow, a, turns + 1)
    BY <1>0, <2>5, <2>6, <2>7, <2>8, ReplyAppended
  <2>a. Len(a) = Len(talk) + 1 /\ a[Len(talk) + 1] = r /\ \A k \in 1 .. Len(talk) : a[k] = talk[k]
    BY <1>0, <2>6
  <2> HIDE DEF a
  <2>10. /\ h \in Seq(Messages) /\ h # <<>> /\ Len(h) <= MaxMessages /\ Transcript(goalNow, h, turns + 1)
         /\ \A i \in 1 .. Len(h) : \E k \in 1 .. Len(a) : h[i] = a[k]
         /\ \A k \in 2 .. Len(a) :
               (a[k].role # "result" /\ k >= Len(a) - MaxMessages + 2) =>
               \E i \in 2 .. Len(h) : Len(h) - i = Len(a) - k /\ h[i] = a[k]
    BY <1>0, <2>9, Trimmed
  <2> HIDE DEF h
  <2>11. Open(h, named.calls, turns + 1)
    <3>1. /\ Len(a) = Len(talk) + 1 /\ a[Len(talk) + 1] = r /\ Len(talk) >= 1
          /\ \A k \in 1 .. Len(talk) : a[k] = talk[k]
      BY <1>0, <2>7, <2>a
    <3>2. h[Len(h)] = r /\ Len(h) \in 1 .. Len(h)
      <4>1. Len(talk) + 1 \in 2 .. Len(talk) + 1 /\ Len(talk) + 1 >= Len(talk) + 1 - MaxMessages + 2
        BY <1>0, <3>1, TalkAssumption
      <4>2. PICK i \in 2 .. Len(h) : Len(h) - i = Len(talk) + 1 - (Len(talk) + 1) /\ h[i] = r
        <5>1. a[Len(talk) + 1].role # "result"
          BY <2>6, <3>1
        <5> DEFINE x == Len(talk) + 1
        <5>2. x \in 2 .. Len(a) /\ x >= Len(a) - MaxMessages + 2 /\ a[x].role # "result" /\ Len(a) = x /\ a[x] = r
          <6>1. Len(a) = x /\ a[x] = r
            BY <3>1
          <6>2. x \in 2 .. x /\ x >= x - MaxMessages + 2 /\ a[x].role # "result"
            BY <4>1, <5>1, TalkAssumption
          <6> HIDE DEF x
          <6> QED BY <6>1, <6>2
        <5> HIDE DEF x
        <5>3. PICK i \in 2 .. Len(h) : Len(h) - i = Len(a) - x /\ h[i] = a[x]
          BY <2>10, <5>2
        <5> QED BY <5>2, <5>3 DEF x
      <4>3. i = Len(h)
        BY <1>0, <2>10, <4>2
      <4> QED BY <4>2, <4>3
    <3>3. ASSUME NEW m \in 1 .. Len(h), h[m].role = "result" PROVE h[m].what # turns + 1
      <4>1. PICK k \in 1 .. Len(talk) + 1 : h[m] = a[k]
        BY <2>10, <3>1
      <4>2. k \in 1 .. Len(talk)
        BY <1>0, <2>6, <3>1, <3>3, <4>1
      <4>3. h[m] = talk[k]
        BY <3>1, <4>1, <4>2
      <4>4. h[m].what \in 1 .. turns
        BY <1>0, <3>3, <4>2, <4>3 DEF Transcript
      <4> QED BY <1>0, <4>4
    <3>4. \A i, k \in 1 .. Len(named.calls) : i # k => named.calls[i].nth # named.calls[k].nth
      BY <2>3
    <3>5. \A i \in 1 .. Len(named.calls) : \E k \in 1 .. Len(h[Len(h)].calls) : h[Len(h)].calls[k] = named.calls[i]
      BY <2>6, <3>2
    <3>6. Len(h) - Len(h) + Len(named.calls) <= MaxParallel /\ \A m \in Len(h) + 1 .. Len(h) : h[m].role = "result"
      BY <2>3, <2>7, <2>10
    <3> QED BY <2>6, <3>2, <3>3, <3>4, <3>5, <3>6 DEF Open
  <2>12. /\ s.talk \in Seq(Messages) /\ Len(s.talk) <= MaxMessages /\ Transcript(goalNow, s.talk, turns + 1)
         /\ s.waiting \in Seq(Calls) /\ s.admitted \in Seq(Asks)
         /\ Open(s.talk, s.waiting, turns + 1) /\ Queue(s.admitted, s.waiting)
    <3>1. turns + 1 > 0
      BY <1>0
    <3> QED BY <1>0, <2>4, <2>7, <2>10, <2>11, <3>1, PolicyKept
  <2> HIDE DEF s
  <2>13. s.admitted = <<>> => s.waiting = <<>>
    <3> SUFFICES ASSUME s.admitted = <<>> PROVE s.waiting = <<>>
      OBVIOUS
    <3>1. Len(s.waiting) = 0
      BY <2>12 DEF Queue
    <3> QED BY <2>12, <3>1
  <2>14. denials' \in 0 .. 3 /\ (stage' # "over" => denials' <= 2)
    BY <2>2 DEF TalkInv
  <2>15. /\ stage' \in {"execute", "over", "plan"}
         /\ stage' = "plan" => s.waiting = <<>>
    BY <2>2, <2>13
  <2> QED BY <2>2, <2>3, <2>7, <2>12, <2>14, <2>15 DEF TalkInv, SomeQueued, NoneQueued
<1>6. ASSUME DispatchNext PROVE TalkInv'
  <2> DEFINE c == Head(dispatches)
             v == [talk |-> talk, waiting |-> unanswered]
             s == Record(v, turns, c.id, c.tool, c.nth)
  <2>1. /\ stage = "execute" /\ dispatches # <<>> /\ talk' = s.talk /\ unanswered' = s.waiting
        /\ dispatches' = Tail(dispatches) /\ stage' = "verify"
        /\ UNCHANGED <<goalNow, minted, denials, hasMore, turns, reflected>>
    BY <1>6, Zenon DEF DispatchNext
  <2>2. /\ Open(talk, unanswered, turns) /\ Queue(dispatches, unanswered)
        /\ unanswered \in Seq(Calls) /\ dispatches \in Seq(Asks)
    BY <2>1 DEF TalkInv, SomeQueued
  <2>3. /\ Len(dispatches) = Len(unanswered) /\ Len(dispatches) >= 1 /\ c = dispatches[1]
        /\ Len(Tail(dispatches)) = Len(dispatches) - 1 /\ Tail(dispatches) \in Seq(Asks)
        /\ \A i \in 1 .. Len(dispatches) - 1 : Tail(dispatches)[i] = dispatches[i + 1]
    BY <2>1, <2>2 DEF Queue
  <2> HIDE DEF c
  <2>4. First(unanswered, 1, c.id, c.tool, c.nth)
    <3>1. 1 \in 1 .. Len(unanswered)
      BY <2>2, <2>3
    <3>2. unanswered[1].tool = c.tool /\ unanswered[1].nth = c.nth
      BY <2>2, <2>3, <3>1 DEF Queue
    <3>3. ASSUME NEW i \in 1 .. Len(unanswered), i # 1, c.id # 0 PROVE unanswered[i].id # c.id
      <4>1. 1 < i
        BY <3>3
      <4> QED BY <2>2, <2>3, <3>1, <3>3, <4>1 DEF Queue
    <3> QED BY <2>2, <3>1, <3>2, <3>3 DEF First
  <2> DEFINE g == Trim(Append(talk, Result(turns, unanswered[1])))
             w == RemoveAt(unanswered, 1)
  <2>5. s.talk = g /\ s.waiting = w
    <3>1. v.talk = talk /\ v.waiting = unanswered
      OBVIOUS
    <3>2. s = WithResult(v, turns, 1)
      <4> HIDE DEF v
      <4> QED BY <2>4, <3>1, RecordedAt
    <3> QED BY <3>1, <3>2 DEF WithResult
  <2> HIDE DEF s
  <2>6. turns > 0
    <3>1. PICK j \in 1 .. Len(talk) : talk[j].role = "assistant" /\ talk[j].what = turns
      BY <2>2 DEF Open
    <3>2. turns \in 1 .. turns
      BY <1>0, <3>1 DEF Transcript
    <3> QED BY <1>0, <3>2
  <2>7. /\ g \in Seq(Messages) /\ Len(g) <= MaxMessages
        /\ Transcript(goalNow, g, turns) /\ Open(g, w, turns)
    <3>1. 1 \in 1 .. Len(unanswered)
      BY <2>2, <2>3
    <3> QED BY <1>0, <2>2, <2>6, <3>1, Filed
  <2>8. /\ w \in Seq(Calls) /\ Len(w) = Len(unanswered) - 1
        /\ \A i \in 1 .. Len(unanswered) - 1 : w[i] = unanswered[i + 1]
    <3>1. 1 \in 1 .. Len(unanswered)
      BY <2>2, <2>3
    <3>2. /\ w \in Seq(Calls) /\ Len(w) = Len(unanswered) - 1
          /\ \A i \in 1 .. Len(unanswered) - 1 : w[i] = IF i < 1 THEN unanswered[i] ELSE unanswered[i + 1]
      BY <2>2, <3>1, Removed
    <3> QED BY <3>2
  <2> HIDE DEF g, w
  <2> DEFINE d == Tail(dispatches)
  <2>9. Queue(d, w)
    <3>1. Len(d) = Len(w)
      BY <2>3, <2>8
    <3>2. ASSUME NEW i \in 1 .. Len(w)
          PROVE  i + 1 \in 1 .. Len(unanswered) /\ w[i] = unanswered[i + 1] /\ d[i] = dispatches[i + 1]
      BY <2>2, <2>3, <2>8
    <3> HIDE DEF d
    <3>3. ASSUME NEW i \in 1 .. Len(w) PROVE d[i].nth = w[i].nth /\ d[i].tool = w[i].tool
      BY <2>2, <3>2 DEF Queue
    <3>4. ASSUME NEW i \in 1 .. Len(w), NEW j \in 1 .. Len(w), i < j, d[i].id # 0 PROVE w[j].id # d[i].id
      <4>1. i + 1 < j + 1
        BY <3>4
      <4> QED BY <2>2, <3>2, <3>4, <4>1 DEF Queue
    <3> QED BY <3>1, <3>3, <3>4 DEF Queue
  <2>10. d = <<>> => w = <<>>
    <3> SUFFICES ASSUME d = <<>> PROVE w = <<>>
      OBVIOUS
    <3>1. Len(w) = 0
      BY <2>9 DEF Queue
    <3> QED BY <2>8, <3>1
  <2> HIDE DEF d
  <2>11. dispatches' = d /\ d \in Seq(Asks)
    BY <2>1, <2>3 DEF d
  <2> QED BY <2>1, <2>5, <2>7, <2>8, <2>9, <2>10, <2>11 DEF TalkInv, SomeQueued, NoneQueued
<1>7. ASSUME TaskFails PROVE TalkInv'
  BY <1>7 DEF TaskFails, TalkInv, SomeQueued, NoneQueued
<1>8. ASSUME VerdictPasses PROVE TalkInv'
  <2>1. /\ stage = "verify"
        /\ stage' = (IF dispatches # <<>> THEN "execute" ELSE IF hasMore THEN "plan" ELSE "over")
        /\ UNCHANGED <<goalNow, talk, unanswered, minted, denials, hasMore, dispatches, turns, reflected>>
    BY <1>8 DEF VerdictPasses
  <2>2. CASE dispatches # <<>>
    BY <2>1, <2>2 DEF TalkInv, SomeQueued, NoneQueued
  <2>3. CASE dispatches = <<>>
    BY <2>1, <2>3 DEF TalkInv, SomeQueued, NoneQueued
  <2> QED BY <2>2, <2>3
<1>9. ASSUME CorrectivePatch PROVE TalkInv'
  <2>1. <<>> \in Seq(Asks)
    OBVIOUS
  <2> QED BY <1>9, <2>1 DEF CorrectivePatch, TalkInv, SomeQueued, NoneQueued
<1>10. ASSUME NEW d \in {"replan", "patch", "abort"}, VerdictFails(d) PROVE TalkInv'
  <2> DEFINE p == [id |-> 0, tool |-> "patch", nth |-> 0]
  <2>1. p \in Asks
    BY DEF Asks
  <2>2. <<p>> \in Seq(Asks)
    BY <2>1
  <2>3. CASE CapReached
    BY <1>10, <2>3 DEF VerdictFails, TalkInv, SomeQueued, NoneQueued
  <2>4. CASE ~ CapReached
    <3>1. /\ reflected' = reflected + 1 /\ stage = "verify"
          /\ stage' = (CASE d = "replan" -> "plan" [] d = "patch" -> "patch" [] OTHER -> "over")
          /\ dispatches' = IF d = "patch" THEN <<p>> ELSE dispatches
          /\ UNCHANGED <<goalNow, talk, unanswered, minted, denials, hasMore, turns>>
      BY <1>10, <2>4 DEF VerdictFails
    <3>2. reflected + 1 \in 0 .. MaxReflections /\ reflected + 1 > 0
      BY <2>4, TalkAssumption DEF CapReached, TalkInv
    <3>3. stage' \in {"plan", "patch", "over"}
      BY <3>1
    <3>4. dispatches' \in Seq(Asks)
      BY <2>2, <3>1 DEF TalkInv
    <3> HIDE DEF p
    <3> QED BY <3>1, <3>2, <3>3, <3>4 DEF TalkInv, SomeQueued, NoneQueued
  <2> QED BY <2>3, <2>4
<1>11. ASSUME UNCHANGED talkVars PROVE TalkInv'
  <2>1. Compiled' = Compiled
    BY <1>11 DEF talkVars, Compiled
  <2> QED BY <1>11, <2>1 DEF talkVars, TalkInv, SomeQueued, NoneQueued
<1> QED BY <1>1, <1>2, <1>3, <1>4, <1>5, <1>6, <1>7, <1>8, <1>9, <1>10, <1>11 DEF TalkNext

\* TalkInv says what the run checks.
LEMMA TalkIsSound == TalkInv => TalkSound /\ TalkTypeOK
<1> SUFFICES ASSUME TalkInv PROVE TalkSound /\ TalkTypeOK
  OBVIOUS
<1>1. talk \in Seq(Messages) /\ \A i : i \in DOMAIN talk <=> i \in 1 .. Len(talk)
  BY DEF TalkInv
<1>2. Transcript(goalNow, talk, turns)
  BY DEF TalkInv
<1>3. ResultsArePaired
  <2> SUFFICES ASSUME NEW i \in 1 .. Len(talk), talk[i].role = "result"
               PROVE  /\ talk[i].calls # <<>>
                      /\ talk[i].calls[1].nth = talk[i].of
                      /\ \E j \in 1 .. i - 1 :
                            /\ talk[j].role = "assistant" /\ talk[j].what = talk[i].what
                            /\ \E k \in DOMAIN talk[j].calls : talk[j].calls[k] = talk[i].calls[1]
                      /\ \A j \in 1 .. i - 1 : talk[j] # talk[i]
    BY <1>1 DEF ResultsArePaired
  <2>1. Len(talk[i].calls) = 1 /\ talk[i].calls[1].nth = talk[i].of
    BY <1>2 DEF Transcript, Paired
  <2>2. talk[i].calls # <<>>
    BY <2>1
  <2>3. PICK j \in 1 .. Len(talk) : Heads(talk, j, i)
    BY <1>2 DEF Transcript, Paired
  <2>4. \E k \in DOMAIN talk[j].calls : talk[j].calls[k] = talk[i].calls[1]
    <3>1. talk[j].calls \in Seq(Calls)
      <4>1. talk[j] \in Messages
        BY <1>1
      <4> QED BY <4>1 DEF Messages
    <3>2. DOMAIN talk[j].calls = 1 .. Len(talk[j].calls)
      BY <3>1
    <3> QED BY <2>3, <3>2 DEF Heads
  <2>5. ASSUME NEW m \in 1 .. i - 1 PROVE talk[m] # talk[i]
    <3>1. m \in 1 .. Len(talk) /\ m < i
      BY <1>1
    <3> QED BY <1>2, <3>1 DEF Transcript, Apart
  <2> QED BY <2>1, <2>2, <2>3, <2>4, <2>5 DEF Heads
<1>4. IdsAreDistinct
  <2> SUFFICES ASSUME NEW i \in 1 .. Len(talk), NEW j \in DOMAIN talk[i].calls, NEW k \in DOMAIN talk[i].calls, j # k
               PROVE  talk[i].calls[j].id # talk[i].calls[k].id
    BY <1>1 DEF IdsAreDistinct
  <2>1. talk[i].calls \in Seq(Calls)
    <3>1. talk[i] \in Messages
      BY <1>1
    <3> QED BY <3>1 DEF Messages
  <2>2. j \in 1 .. Len(talk[i].calls) /\ k \in 1 .. Len(talk[i].calls)
    BY <2>1
  <2> QED BY <1>2, <2>2 DEF Transcript, Distinct
<1>5. FrameLeads
  <2>1. Compiled[1] = Opening
    BY DEF Compiled, Opening
  <2>2. stage = "asked" =>
          /\ talk[1] = Compiled[1]
          /\ (\E i \in DOMAIN talk : talk[i] = Compiled[2]) \/ Last(talk) = Compiled[3]
    BY <1>1, <1>2, <2>1 DEF TalkInv, Transcript, Last
  <2>3. \A i \in DOMAIN talk : talk[i].role = "user" => talk[i].what \in {goalNow, "files"}
    BY <1>1, <1>2 DEF Transcript
  <2> QED BY <2>2, <2>3 DEF FrameLeads
<1>6. NothingLeftUnsaid
  BY DEF TalkInv, NoneQueued, NothingLeftUnsaid
<1>7. TalkTypeOK
  BY TalkAssumption DEF TalkInv, TalkTypeOK
<1> QED BY <1>3, <1>4, <1>5, <1>6, <1>7 DEF TalkSound

-----------------------------------------------------------------------------
(* The line.                                                               *)

\* The four classes are the numbers 0 to 3.
LEMMA LevelsAre == Levels = {0, 1, 2, 3} /\ Low = 0 /\ Medium = 1 /\ High = 2 /\ Critical = 3
BY DEF Levels, Low, Medium, High, Critical

\* The worse of two classes, and the worst of some.
LEMMA MaxRiskFacts ==
  ASSUME NEW a \in Levels, NEW b \in Levels
  PROVE  /\ MaxRisk(a, b) \in Levels /\ MaxRisk(a, b) >= a /\ MaxRisk(a, b) >= b
         /\ MaxRisk(a, b) \in {a, b}
BY LevelsAre DEF MaxRisk

\* The worse of two grows with both.
LEMMA MaxRiskGrows ==
  ASSUME NEW a \in Levels, NEW b \in Levels, NEW c \in Levels, NEW d \in Levels, c >= a, d >= b
  PROVE  MaxRisk(c, d) >= MaxRisk(a, b)
BY LevelsAre DEF MaxRisk

\* The worst of some is one of them and none is above it.
LEMMA WorstFacts ==
  ASSUME NEW S \in SUBSET Levels, S # {}
  PROVE  WorstOf(S) \in S /\ \A q \in S : q <= WorstOf(S)
<1>1. \E r \in S : \A q \in S : q <= r
  <2>1. CASE 3 \in S
    BY <2>1, LevelsAre
  <2>2. CASE 3 \notin S /\ 2 \in S
    BY <2>2, LevelsAre
  <2>3. CASE 3 \notin S /\ 2 \notin S /\ 1 \in S
    BY <2>3, LevelsAre
  <2>4. CASE 3 \notin S /\ 2 \notin S /\ 1 \notin S
    <3>1. \A q \in S : q = 0
      BY <2>4, LevelsAre
    <3> QED BY <3>1
  <2> QED BY <2>1, <2>2, <2>3, <2>4
<1> QED BY <1>1 DEF WorstOf

-----------------------------------------------------------------------------
\* Where the peeling may stand.
Peels == [mode : {"head", "target", "wrapper", "value", "command"}, wrapper : Wrappers,
          operands : {0, 1}, floor : Levels, at : Nat]

\* The tables of a wrapper.
LEMMA WrapperFacts ==
  ASSUME NEW w \in Wrappers PROVE Operands[w] \in {0, 1} /\ Floor[w] \in Levels
BY LevelsAre DEF Wrappers, Operands, Floor

\* A word as the head of a command: what it is depends on the word alone.
LEMMA HeadTyped ==
  ASSUME NEW s \in Peels, NEW w, NEW i \in Nat
  PROVE  /\ PeelHead(s, w, i) \in Peels
         /\ PeelHead(s, w, i).mode = "command" <=> ~ IsPrefixWord(w)
         /\ ~ IsPrefixWord(w) => PeelHead(s, w, i).at = i /\ PeelHead(s, w, i).floor = s.floor
<1>0. s.floor \in Levels /\ Low \in Levels /\ Medium \in Levels
  BY LevelsAre DEF Peels
<1>1. CASE w \in ShellKeywords \union Assignments
  <2>1. PeelHead(s, w, i) = [s EXCEPT !.mode = "head"] /\ IsPrefixWord(w)
    BY <1>1 DEF PeelHead, ShellKeywords, Assignments, Redirections, Base, Wrappers, IsPrefixWord
  <2> QED BY <2>1 DEF Peels
<1>2. CASE w \in Redirections
  <2> DEFINE f == IF w \in OutRedirects THEN MaxRisk(s.floor, Medium) ELSE s.floor
  <2>1. PeelHead(s, w, i) = [s EXCEPT !.mode = IF w \in BareRedirects THEN "target" ELSE "head", !.floor = f]
        /\ IsPrefixWord(w)
    BY <1>2 DEF PeelHead, ShellKeywords, Assignments, Redirections, Base, Wrappers, IsPrefixWord
  <2>2. f \in Levels
    BY <1>0, MaxRiskFacts
  <2> HIDE DEF f
  <2> QED BY <2>1, <2>2 DEF Peels
<1>3. CASE Base(w) \in Wrappers
  <2> DEFINE f == MaxRisk(s.floor, Floor[Base(w)])
  <2>1. PeelHead(s, w, i) = [s EXCEPT !.mode = "wrapper", !.wrapper = Base(w), !.operands = Operands[Base(w)], !.floor = f]
        /\ IsPrefixWord(w)
    BY <1>3 DEF PeelHead, ShellKeywords, Assignments, Redirections, Base, Wrappers, IsPrefixWord
  <2>2. f \in Levels /\ Operands[Base(w)] \in {0, 1}
    BY <1>0, <1>3, MaxRiskFacts, WrapperFacts
  <2> HIDE DEF f
  <2> QED BY <1>3, <2>1, <2>2 DEF Peels
<1>4. CASE ~ IsPrefixWord(w)
  <2>1. PeelHead(s, w, i) = [s EXCEPT !.mode = "command", !.at = i]
    BY <1>4 DEF PeelHead, IsPrefixWord
  <2> QED BY <1>4, <2>1 DEF Peels
<1> QED BY <1>1, <1>2, <1>3, <1>4 DEF IsPrefixWord

\* A word takes a standing to a standing.
LEMMA WordTyped ==
  ASSUME NEW s \in Peels, NEW w, NEW i \in Nat PROVE PeelWord(s, w, i) \in Peels
<1>1. PeelHead(s, w, i) \in Peels
  BY HeadTyped
<1>2. s.mode \in {"head", "target", "wrapper", "value", "command"} /\ s.operands \in {0, 1}
  BY DEF Peels
<1>3. CASE s.mode = "command"
  BY <1>3 DEF PeelWord
<1>4. CASE s.mode = "head"
  BY <1>1, <1>4 DEF PeelWord
<1>5. CASE s.mode = "target"
  BY <1>5 DEF PeelWord, Peels
<1>6. CASE s.mode = "value"
  BY <1>6 DEF PeelWord, Peels
<1>7. CASE s.mode = "wrapper"
  <2>1. CASE w = "--"
    BY <1>7, <2>1 DEF PeelWord, Peels
  <2>2. CASE w # "--" /\ w \in Flags
    BY <1>7, <2>2 DEF PeelWord, Peels
  <2>3. CASE w # "--" /\ w \notin Flags /\ s.operands > 0
    <3>1. PeelWord(s, w, i) = [s EXCEPT !.operands = s.operands - 1] /\ s.operands - 1 = 0
      BY <1>2, <1>7, <2>3 DEF PeelWord
    <3> QED BY <3>1 DEF Peels
  <2>4. CASE w # "--" /\ w \notin Flags /\ ~ (s.operands > 0)
    BY <1>1, <1>7, <2>4 DEF PeelWord
  <2> QED BY <2>1, <2>2, <2>3, <2>4
<1> QED BY <1>2, <1>3, <1>4, <1>5, <1>6, <1>7

\* After i words a command that was found is at one of them.
UpTo(i) == {s \in Peels : s.mode = "command" => s.at \in 1 .. i}

\* And so it stays over the next word.
LEMMA WordUpTo ==
  ASSUME NEW i \in Nat, i > 0, NEW s \in UpTo(i - 1), NEW w PROVE PeelWord(s, w, i) \in UpTo(i)
<1>1. s \in Peels /\ PeelWord(s, w, i) \in Peels
  BY WordTyped DEF UpTo
<1>2. PeelHead(s, w, i).mode = "command" => PeelHead(s, w, i).at = i
  BY <1>1, HeadTyped
<1>3. CASE s.mode = "command"
  BY <1>1, <1>3 DEF PeelWord, UpTo
<1>4. CASE s.mode # "command" /\ PeelWord(s, w, i) = PeelHead(s, w, i)
  BY <1>1, <1>2, <1>4 DEF UpTo
<1>5. CASE s.mode # "command" /\ PeelWord(s, w, i) # PeelHead(s, w, i)
  <2>1. PeelWord(s, w, i).mode # "command"
    BY <1>1, <1>5 DEF PeelWord, Peels
  <2> QED BY <1>1, <2>1 DEF UpTo
<1> QED BY <1>3, <1>4, <1>5

\* p is how the words of seg are peeled, one after the other.
Peeled(seg, p) ==
    /\ p[0] = NotPeeled
    /\ \A i \in 1 .. Len(seg) : p[i] = PeelWord(p[i - 1], seg[i], i)

\* The peeling of a segment goes through it word by word.
LEMMA Peeling ==
  ASSUME NEW S, NEW seg \in Seq(S)
  PROVE  \E p : /\ Peeled(seg, p) /\ PeelPrefixes(seg) = p[Len(seg)]
                /\ \A i \in 0 .. Len(seg) : p[i] \in UpTo(i)
<1> DEFINE n == Len(seg)
           Is(f) == f = [i \in 0 .. n |-> IF i = 0 THEN NotPeeled ELSE PeelWord(f[i - 1], seg[i], i)]
           peeled == CHOOSE f : Is(f)
           V == [i \in 0 .. n |-> UpTo(i)]
           step == [i \in 1 .. n |-> [s \in UpTo(i - 1) |-> PeelWord(s, seg[i], i)]]
<1>0. n \in Nat
  OBVIOUS
<1>1. NotPeeled \in UpTo(0)
  BY LevelsAre DEF NotPeeled, UpTo, Peels, Wrappers
<1>2. Steps(V, NotPeeled, n, step)
  <2>1. ASSUME NEW i \in 1 .. n, NEW s \in UpTo(i - 1)
        PROVE  step[i][s] = PeelWord(s, seg[i], i) /\ PeelWord(s, seg[i], i) \in UpTo(i)
    BY <1>0, WordUpTo
  <2>2. NotPeeled \in V[0]
    BY <1>0, <1>1
  <2>3. \A i \in 1 .. n : V[i] = UpTo(i) /\ V[i - 1] = UpTo(i - 1)
    BY <1>0
  <2> HIDE DEF V, step
  <2> QED BY <1>0, <2>1, <2>2, <2>3 DEF Steps
<1>3. \A i \in 1 .. n : \A s \in UpTo(i - 1) : step[i][s] = PeelWord(s, seg[i], i)
  OBVIOUS
<1>4. \A i \in 0 .. n : V[i] = UpTo(i)
  OBVIOUS
<1> HIDE DEF V, step
<1>5. PICK f : f = [i \in 0 .. n |-> f[i]] /\ Takes(V, NotPeeled, n, step, f)
  BY <1>2, StepsExist
<1>6. \A i \in 0 .. n : f[i] \in UpTo(i)
  BY <1>2, <1>4, <1>5, StepsReach
<1>7. Is(f)
  <2>1. ASSUME NEW i \in 1 .. n PROVE f[i] = PeelWord(f[i - 1], seg[i], i)
    <3>1. i - 1 \in 0 .. n
      BY <1>0
    <3>2. f[i - 1] \in UpTo(i - 1) /\ V[i - 1] = UpTo(i - 1)
      BY <1>4, <1>6, <3>1
    <3>3. f[i] = step[i][f[i - 1]]
      BY <1>5, <3>2 DEF Takes
    <3> QED BY <1>3, <3>2, <3>3
  <2>2. f[0] = NotPeeled
    BY <1>5 DEF Takes
  <2>3. \A i \in 0 .. n : f[i] = IF i = 0 THEN NotPeeled ELSE PeelWord(f[i - 1], seg[i], i)
    <3>1. \A i \in 0 .. n : i = 0 \/ i \in 1 .. n
      BY <1>0
    <3> QED BY <2>1, <2>2, <3>1
  <2> QED BY <1>5, <2>3
<1>8. Is(peeled)
  <2> HIDE DEF Is
  <2> QED BY <1>7
<1>9. /\ peeled[0] = NotPeeled
      /\ \A i \in 1 .. n : peeled[i] = PeelWord(peeled[i - 1], seg[i], i)
  <2>1. \A i \in 0 .. n : peeled[i] = IF i = 0 THEN NotPeeled ELSE PeelWord(peeled[i - 1], seg[i], i)
    <3> DEFINE g == peeled
    <3>1. g = [i \in 0 .. n |-> IF i = 0 THEN NotPeeled ELSE PeelWord(g[i - 1], seg[i], i)]
      BY <1>8
    <3> HIDE DEF g
    <3>2. \A i \in 0 .. n : g[i] = IF i = 0 THEN NotPeeled ELSE PeelWord(g[i - 1], seg[i], i)
      BY <3>1
    <3> QED BY <3>2 DEF g
  <2> HIDE DEF peeled
  <2> QED BY <1>0, <2>1
<1>10. PeelPrefixes(seg) = peeled[n]
  BY DEF PeelPrefixes
<1> HIDE DEF peeled, Is
<1>11. Takes(V, NotPeeled, n, step, peeled)
  BY <1>0, <1>3, <1>4, <1>9 DEF Takes
<1>12. \A i \in 0 .. n : peeled[i] \in UpTo(i)
  BY <1>2, <1>4, <1>11, StepsReach
<1> QED BY <1>9, <1>10, <1>12 DEF Peeled

-----------------------------------------------------------------------------
\* a is b, m words later and with a floor that is not lower.
Follows(a, b, m) ==
    /\ a \in Peels /\ b \in Peels
    /\ a.mode = b.mode /\ a.floor >= b.floor
    /\ a.mode \in {"wrapper", "value"} => a.wrapper = b.wrapper /\ a.operands = b.operands
    /\ a.mode = "command" => a.at = b.at + m

\* A word at the head of both keeps the one behind the other.
LEMMA HeadFollows ==
  ASSUME NEW m \in Nat, NEW i \in Nat, NEW w, NEW a \in Peels, NEW b \in Peels, a.floor >= b.floor
  PROVE  Follows(PeelHead(a, w, i + m), PeelHead(b, w, i), m)
<1>0. /\ a.floor \in Levels /\ b.floor \in Levels /\ Medium \in Levels
      /\ PeelHead(a, w, i + m) \in Peels /\ PeelHead(b, w, i) \in Peels
  BY LevelsAre, HeadTyped DEF Peels
<1>a. DOMAIN a = {"mode", "wrapper", "operands", "floor", "at"} /\ DOMAIN b = DOMAIN a
  BY DEF Peels
<1>1. CASE w \in ShellKeywords \union Assignments
  <2>1. PeelHead(a, w, i + m) = [a EXCEPT !.mode = "head"] /\ PeelHead(b, w, i) = [b EXCEPT !.mode = "head"]
    BY <1>1 DEF PeelHead, ShellKeywords, Assignments, Redirections, Base, Wrappers, IsPrefixWord
  <2> QED BY <1>0, <1>a, <2>1 DEF Follows
<1>2. CASE w \in Redirections
  <2> DEFINE f(s) == IF w \in OutRedirects THEN MaxRisk(s.floor, Medium) ELSE s.floor
             mode == IF w \in BareRedirects THEN "target" ELSE "head"
  <2>1. /\ PeelHead(a, w, i + m) = [a EXCEPT !.mode = mode, !.floor = f(a)]
        /\ PeelHead(b, w, i) = [b EXCEPT !.mode = mode, !.floor = f(b)]
    BY <1>2 DEF PeelHead, ShellKeywords, Assignments, Redirections, Base, Wrappers, IsPrefixWord
  <2>2. f(a) >= f(b)
    BY <1>0, MaxRiskGrows, LevelsAre
  <2>3. mode \in {"target", "head"}
    OBVIOUS
  <2> HIDE DEF f, mode
  <2> QED BY <1>0, <1>a, <2>1, <2>2, <2>3 DEF Follows
<1>3. CASE Base(w) \in Wrappers
  <2> DEFINE f(s) == MaxRisk(s.floor, Floor[Base(w)])
             k == Operands[Base(w)]
  <2>1. /\ PeelHead(a, w, i + m) = [a EXCEPT !.mode = "wrapper", !.wrapper = Base(w), !.operands = k, !.floor = f(a)]
        /\ PeelHead(b, w, i) = [b EXCEPT !.mode = "wrapper", !.wrapper = Base(w), !.operands = k, !.floor = f(b)]
    BY <1>3 DEF PeelHead, ShellKeywords, Assignments, Redirections, Base, Wrappers, IsPrefixWord
  <2>2. f(a) >= f(b)
    BY <1>0, <1>3, MaxRiskGrows, WrapperFacts, LevelsAre
  <2> HIDE DEF f, k
  <2> QED BY <1>0, <1>a, <2>1, <2>2 DEF Follows
<1>4. CASE ~ IsPrefixWord(w)
  <2>1. PeelHead(a, w, i + m) = [a EXCEPT !.mode = "command", !.at = i + m] /\ PeelHead(b, w, i) = [b EXCEPT !.mode = "command", !.at = i]
    BY <1>4 DEF PeelHead, IsPrefixWord
  <2> QED BY <1>0, <1>a, <2>1 DEF Follows
<1> QED BY <1>1, <1>2, <1>3, <1>4 DEF IsPrefixWord

\* And so does any word.
LEMMA WordFollows ==
  ASSUME NEW m \in Nat, NEW i \in Nat, NEW w, NEW a, NEW b, Follows(a, b, m)
  PROVE  Follows(PeelWord(a, w, i + m), PeelWord(b, w, i), m)
<1>0. /\ a \in Peels /\ b \in Peels /\ a.mode = b.mode /\ a.floor >= b.floor
      /\ PeelWord(a, w, i + m) \in Peels /\ PeelWord(b, w, i) \in Peels
  BY WordTyped DEF Follows
<1>a. /\ DOMAIN a = {"mode", "wrapper", "operands", "floor", "at"} /\ DOMAIN b = DOMAIN a
      /\ a.mode \in {"head", "target", "wrapper", "value", "command"}
      /\ a.operands \in {0, 1} /\ b.operands \in {0, 1}
  BY <1>0 DEF Peels
<1>1. Follows(PeelHead(a, w, i + m), PeelHead(b, w, i), m)
  BY <1>0, HeadFollows
<1>2. CASE a.mode = "command"
  BY <1>0, <1>2 DEF PeelWord, Follows
<1>3. CASE a.mode = "head"
  BY <1>0, <1>1, <1>3 DEF PeelWord
<1>4. CASE a.mode = "target"
  <2>1. PeelWord(a, w, i + m) = [a EXCEPT !.mode = "head"] /\ PeelWord(b, w, i) = [b EXCEPT !.mode = "head"]
    BY <1>0, <1>4 DEF PeelWord
  <2> QED BY <1>0, <1>a, <2>1 DEF Follows
<1>5. CASE a.mode = "value"
  <2>1. PeelWord(a, w, i + m) = [a EXCEPT !.mode = "wrapper"] /\ PeelWord(b, w, i) = [b EXCEPT !.mode = "wrapper"]
    BY <1>0, <1>5 DEF PeelWord
  <2>2. a.wrapper = b.wrapper /\ a.operands = b.operands
    BY <1>5 DEF Follows
  <2> QED BY <1>0, <1>a, <2>1, <2>2 DEF Follows
<1>6. CASE a.mode = "wrapper"
  <2>0. a.wrapper = b.wrapper /\ a.operands = b.operands
    BY <1>6 DEF Follows
  <2>1. CASE w = "--"
    <3>1. PeelWord(a, w, i + m) = [a EXCEPT !.mode = "head"] /\ PeelWord(b, w, i) = [b EXCEPT !.mode = "head"]
      BY <1>0, <1>6, <2>1 DEF PeelWord
    <3> QED BY <1>0, <1>a, <3>1 DEF Follows
  <2>2. CASE w # "--" /\ w \in Flags
    <3> DEFINE mode == IF w = ValueFlag[a.wrapper] THEN "value" ELSE "wrapper"
    <3>1. PeelWord(a, w, i + m) = [a EXCEPT !.mode = mode] /\ PeelWord(b, w, i) = [b EXCEPT !.mode = mode]
      BY <1>0, <1>6, <2>0, <2>2 DEF PeelWord
    <3>2. mode \in {"value", "wrapper"}
      OBVIOUS
    <3> HIDE DEF mode
    <3> QED BY <1>0, <1>a, <2>0, <3>1, <3>2 DEF Follows
  <2>3. CASE w # "--" /\ w \notin Flags /\ a.operands > 0
    <3>1. /\ PeelWord(a, w, i + m) = [a EXCEPT !.operands = a.operands - 1]
          /\ PeelWord(b, w, i) = [b EXCEPT !.operands = a.operands - 1]
      BY <1>0, <1>6, <2>0, <2>3 DEF PeelWord
    <3> QED BY <1>0, <1>a, <1>6, <2>0, <3>1 DEF Follows
  <2>4. CASE w # "--" /\ w \notin Flags /\ ~ (a.operands > 0)
    BY <1>0, <1>1, <1>6, <2>0, <2>4 DEF PeelWord
  <2> QED BY <2>1, <2>2, <2>3, <2>4
<1> QED BY <1>a, <1>2, <1>3, <1>4, <1>5, <1>6

\* What is behind the words so far is the head of a command.
Ready(s) == s \in Peels /\ (s.mode = "head" \/ (s.mode = "wrapper" /\ s.operands = 0))

\* From where a command may begin the peeling goes on as from its start.
LEMMA ReadyFollows ==
  ASSUME NEW m \in Nat, NEW w, w \notin Flags, NEW a, Ready(a)
  PROVE  Follows(PeelWord(a, w, m + 1), PeelWord(NotPeeled, w, 1), m)
<1>1. PeelWord(a, w, m + 1) = PeelHead(a, w, m + 1)
  BY DEF Ready, PeelWord, Flags
<1>2. NotPeeled \in Peels /\ NotPeeled.mode = "head" /\ NotPeeled.floor = 0
  BY LevelsAre DEF NotPeeled, Peels, Wrappers
<1>3. PeelWord(NotPeeled, w, 1) = PeelHead(NotPeeled, w, 1)
  BY <1>2 DEF PeelWord
<1>4. a \in Peels /\ a.floor >= NotPeeled.floor
  BY <1>2, LevelsAre DEF Ready, Peels
<1>5. Follows(PeelHead(a, w, 1 + m), PeelHead(NotPeeled, w, 1), m)
  BY <1>2, <1>4, HeadFollows
<1> QED BY <1>1, <1>3, <1>5

\* Two peelings that agree on the first word agree on the rest.
LEMMA Onward ==
  ASSUME NEW d, NEW t, NEW m \in Nat, Len(t) \in Nat, Len(t) > 0, Len(d) = m + Len(t),
         \A k \in 2 .. Len(t) : d[m + k] = t[k],
         NEW f, Peeled(d, f), NEW g, Peeled(t, g), Follows(f[m + 1], g[1], m)
  PROVE  Follows(f[m + Len(t)], g[Len(t)], m)
<1> DEFINE n == Len(t)
           K == {k \in Nat : k < n => Follows(f[m + k + 1], g[k + 1], m)}
<1>0. n \in Nat /\ n > 0 /\ Len(d) = m + n
  OBVIOUS
<1>1. \A k \in 2 .. n : m + k \in 1 .. Len(d) /\ k \in 1 .. n /\ m + k - 1 = m + (k - 1)
  OBVIOUS
<1>2. \A k \in 2 .. n : /\ f[m + k] = PeelWord(f[m + k - 1], t[k], m + k)
                        /\ g[k] = PeelWord(g[k - 1], t[k], k)
  BY <1>1 DEF Peeled
<1>a. Follows(f[m + 1], g[1], m)
  OBVIOUS
<1> HIDE DEF n
<1>3. 0 \in K
  <2>1. m + 0 + 1 = m + 1 /\ 0 + 1 = 1
    OBVIOUS
  <2> QED BY <1>a, <2>1
<1>4. ASSUME NEW k \in Nat, k \in K PROVE k + 1 \in K
  <2> SUFFICES ASSUME k + 1 < n PROVE Follows(f[m + (k + 1) + 1], g[(k + 1) + 1], m)
    OBVIOUS
  <2> DEFINE i == k + 2
  <2>1. i \in 2 .. n /\ m + (k + 1) + 1 = m + i /\ (k + 1) + 1 = i /\ m + i - 1 = m + k + 1 /\ i - 1 = k + 1 /\ i + m = m + i
    BY <1>0
  <2>2. Follows(f[m + k + 1], g[k + 1], m)
    BY <1>0, <1>4
  <2>3. f[m + i] = PeelWord(f[m + k + 1], t[i], i + m) /\ g[i] = PeelWord(g[k + 1], t[i], i)
    <3>1. f[m + i] = PeelWord(f[m + i - 1], t[i], m + i) /\ g[i] = PeelWord(g[i - 1], t[i], i)
      BY <1>2, <2>1
    <3> QED BY <2>1, <3>1
  <2>a. i \in Nat
    BY <2>1
  <2> HIDE DEF i
  <2>4. Follows(f[m + i], g[i], m)
    BY <2>a, <2>2, <2>3, WordFollows
  <2> QED BY <2>1, <2>4
<1>5. n - 1 \in K
  <2>1. n - 1 \in Nat
    BY <1>0
  <2> HIDE DEF K
  <2> QED BY <1>3, <1>4, <2>1, NatSet
<1>6. m + (n - 1) + 1 = m + n /\ (n - 1) + 1 = n /\ n - 1 < n
  BY <1>0
<1> QED BY <1>5, <1>6 DEF n

\* So t behind p is peeled as t alone, once p leaves the peeling ready.
LEMMA PeeledBehind ==
  ASSUME NEW S, NEW p \in Seq(S), NEW t \in Seq(S), t # <<>>, t[1] \notin Flags,
         NEW f, Peeled(p \o t, f), NEW g, Peeled(t, g), Ready(f[Len(p)])
  PROVE  Follows(f[Len(p) + Len(t)], g[Len(t)], Len(p))
<1> DEFINE m == Len(p)
           d == p \o t
<1>0. /\ m \in Nat /\ Len(t) \in Nat /\ Len(t) > 0 /\ Len(d) = m + Len(t)
      /\ \A k \in 1 .. Len(t) : d[m + k] = t[k]
  OBVIOUS
<1>1. f[m + 1] = PeelWord(f[m], t[1], m + 1) /\ g[1] = PeelWord(NotPeeled, t[1], 1)
  <2>1. 1 \in 1 .. Len(t) /\ m + 1 \in 1 .. Len(d) /\ m + 1 - 1 = m /\ 1 - 1 = 0 /\ d[m + 1] = t[1]
    BY <1>0
  <2>2. g[0] = NotPeeled
    BY DEF Peeled
  <2> HIDE DEF m, d
  <2>3. f[m + 1] = PeelWord(f[m], d[m + 1], m + 1)
    <3>1. \A i \in 1 .. Len(d) : f[i] = PeelWord(f[i - 1], d[i], i)
      BY DEF d, Peeled
    <3> DEFINE k == m + 1
    <3>2. k \in 1 .. Len(d) /\ k - 1 = m
      BY <1>0 DEF m
    <3> HIDE DEF k, Peeled
    <3>3. f[k] = PeelWord(f[k - 1], d[k], k)
      BY <3>1, <3>2
    <3> QED BY <3>2, <3>3 DEF k
  <2>4. g[1] = PeelWord(g[1 - 1], t[1], 1)
    BY <2>1 DEF Peeled
  <2> QED BY <2>1, <2>2, <2>3, <2>4
<1>2. Follows(f[m + 1], g[1], m)
  <2> HIDE DEF m
  <2> QED BY <1>0, <1>1, ReadyFollows DEF m
<1>3. \A k \in 2 .. Len(t) : d[m + k] = t[k]
  BY <1>0
<1>4. Peeled(d, f)
  OBVIOUS
<1> HIDE DEF d
<1> QED BY <1>0, <1>2, <1>3, <1>4, Onward

\* And its command has the same arguments.
LEMMA BehindKept ==
  ASSUME NEW S, NEW p \in Seq(S), NEW t \in Seq(S), NEW i \in 1 .. Len(t)
  PROVE  From(p \o t, i + Len(p)) = From(t, i)
<1>1. From(p \o t, i + Len(p)) \in Seq(S) /\ Len(From(p \o t, i + Len(p))) = Len(t) + 1 - i
  BY DEF From
<1>2. From(t, i) \in Seq(S) /\ Len(From(t, i)) = Len(t) + 1 - i
  BY DEF From
<1>3. ASSUME NEW k \in 1 .. Len(t) + 1 - i PROVE From(p \o t, i + Len(p))[k] = From(t, i)[k]
  BY DEF From
<1> QED BY <1>1, <1>2, <1>3, SeqEqual

\* The class of a program and its arguments is a class.
LEMMA TokensTyped ==
  ASSUME NEW t PROVE HeadRisk(t) \in Levels /\ SearchFlagRisk(t) \in Levels
BY LevelsAre, Zenon DEF HeadRisk, SearchFlagRisk

\* The class of a segment, by the peeling of its words.
LEMMA SegmentRisk ==
  ASSUME NEW S, NEW seg \in Seq(S)
  PROVE  /\ ClassifySegment(seg) \in Levels
         /\ \E f : /\ Peeled(seg, f) /\ f[Len(seg)] \in UpTo(Len(seg))
                   /\ ClassifySegment(seg) =
                        IF f[Len(seg)].mode # "command" THEN f[Len(seg)].floor
                        ELSE MaxRisk(f[Len(seg)].floor,
                                     MaxRisk(HeadRisk(From(seg, f[Len(seg)].at)), SearchFlagRisk(From(seg, f[Len(seg)].at))))
<1>1. PICK f : /\ Peeled(seg, f) /\ PeelPrefixes(seg) = f[Len(seg)]
               /\ \A i \in 0 .. Len(seg) : f[i] \in UpTo(i)
  BY Peeling
<1>2. f[Len(seg)] \in UpTo(Len(seg)) /\ f[Len(seg)].floor \in Levels
  BY <1>1 DEF UpTo, Peels
<1> DEFINE t == From(seg, f[Len(seg)].at)
<1>3. ClassifySegment(seg) = IF f[Len(seg)].mode # "command" THEN f[Len(seg)].floor
                             ELSE MaxRisk(f[Len(seg)].floor, MaxRisk(HeadRisk(t), SearchFlagRisk(t)))
  BY <1>1, Zenon DEF ClassifySegment
<1>4. MaxRisk(f[Len(seg)].floor, MaxRisk(HeadRisk(t), SearchFlagRisk(t))) \in Levels
  <2> HIDE DEF t
  <2> QED BY <1>2, TokensTyped, MaxRiskFacts
<1> QED BY <1>1, <1>2, <1>3, <1>4

\* What is before a command that runs it all the same never lowers its class.
LEMMA BehindRisk ==
  ASSUME NEW S, NEW p \in Seq(S), NEW t \in Seq(S), t # <<>>, t[1] \notin Flags,
         \A f : Peeled(p \o t, f) => Ready(f[Len(p)])
  PROVE  ClassifySegment(p \o t) >= ClassifySegment(t)
<1> DEFINE m == Len(p)
           n == Len(t)
<1>0. p \o t \in Seq(S) /\ Len(p \o t) = m + n /\ m \in Nat /\ n \in Nat
  OBVIOUS
<1>1. PICK f : /\ Peeled(p \o t, f) /\ f[m + n] \in UpTo(m + n)
               /\ ClassifySegment(p \o t) =
                        IF f[m + n].mode # "command" THEN f[m + n].floor
                        ELSE MaxRisk(f[m + n].floor,
                                     MaxRisk(HeadRisk(From(p \o t, f[m + n].at)), SearchFlagRisk(From(p \o t, f[m + n].at))))
  <2> HIDE DEF m, n
  <2> QED BY <1>0, SegmentRisk
<1>2. PICK g : /\ Peeled(t, g) /\ g[n] \in UpTo(n)
               /\ ClassifySegment(t) =
                        IF g[n].mode # "command" THEN g[n].floor
                        ELSE MaxRisk(g[n].floor, MaxRisk(HeadRisk(From(t, g[n].at)), SearchFlagRisk(From(t, g[n].at))))
  BY SegmentRisk
<1>3. Follows(f[m + n], g[n], m)
  BY <1>1, <1>2, PeeledBehind
<1>4. CASE g[n].mode # "command"
  <2>1. f[m + n].mode # "command" /\ f[m + n].floor >= g[n].floor
    BY <1>3, <1>4 DEF Follows
  <2> QED BY <1>1, <1>2, <1>4, <2>1
<1>5. CASE g[n].mode = "command"
  <2>1. f[m + n].mode = "command" /\ f[m + n].floor >= g[n].floor /\ f[m + n].at = g[n].at + m
        /\ g[n].at \in 1 .. n /\ f[m + n].floor \in Levels /\ g[n].floor \in Levels
    BY <1>2, <1>3, <1>5 DEF Follows, UpTo, Peels
  <2>2. From(p \o t, f[m + n].at) = From(t, g[n].at)
    BY <2>1, BehindKept
  <2> DEFINE u == From(t, g[n].at)
             r == MaxRisk(HeadRisk(u), SearchFlagRisk(u))
  <2>3. r \in Levels
    <3> HIDE DEF u
    <3> QED BY TokensTyped, MaxRiskFacts
  <2>4. ClassifySegment(p \o t) = MaxRisk(f[m + n].floor, r) /\ ClassifySegment(t) = MaxRisk(g[n].floor, r)
    BY <1>1, <1>2, <1>5, <2>1, <2>2
  <2> HIDE DEF r
  <2>5. r >= r
    BY <2>3, LevelsAre
  <2> QED BY <2>1, <2>3, <2>4, <2>5, MaxRiskGrows
<1> QED BY <1>4, <1>5

-----------------------------------------------------------------------------
\* Where the peeling is after some words.
StandsAt(s, mode) == s \in Peels /\ s.mode = mode
StandsWithin(s, mode, w, n) == StandsAt(s, mode) /\ s.wrapper = w /\ s.operands = n

\* What a wrapper leaves the peeling at.
LEMMA WrapperHead ==
  ASSUME NEW s \in Peels, NEW i \in Nat, NEW w \in {"sudo", "/bin/sudo", "timeout", "nice"}
  PROVE  StandsWithin(PeelHead(s, w, i), "wrapper", Base(w), Operands[Base(w)])
<1>0. DOMAIN s = {"mode", "wrapper", "operands", "floor", "at"} /\ PeelHead(s, w, i) \in Peels
  BY HeadTyped DEF Peels
<1>1. Base(w) \in Wrappers /\ w \notin ShellKeywords \union Assignments \union Redirections
  BY DEF Base, Wrappers, ShellKeywords, Assignments, Redirections
<1> DEFINE b == Base(w)
<1>2. PeelHead(s, w, i) = [s EXCEPT !.mode = "wrapper", !.wrapper = b, !.operands = Operands[b],
                                    !.floor = MaxRisk(s.floor, Floor[b])]
  BY <1>1 DEF PeelHead, IsPrefixWord
<1> HIDE DEF b
<1>3. /\ PeelHead(s, w, i).mode = "wrapper" /\ PeelHead(s, w, i).wrapper = b
      /\ PeelHead(s, w, i).operands = Operands[b]
  BY <1>0, <1>2
<1> QED BY <1>0, <1>3 DEF StandsAt, StandsWithin, b

\* What the words of the fronts do at the head, and elsewhere.
LEMMA HeadWords ==
  ASSUME NEW s, StandsAt(s, "head"), NEW i \in Nat
  PROVE  /\ StandsWithin(PeelWord(s, "sudo", i), "wrapper", "sudo", 0)
         /\ StandsWithin(PeelWord(s, "/bin/sudo", i), "wrapper", "sudo", 0)
         /\ StandsWithin(PeelWord(s, "timeout", i), "wrapper", "timeout", 1)
         /\ StandsWithin(PeelWord(s, "nice", i), "wrapper", "nice", 0)
         /\ StandsAt(PeelWord(s, "A=1", i), "head") /\ StandsAt(PeelWord(s, "then", i), "head")
         /\ StandsAt(PeelWord(s, ">out", i), "head") /\ StandsAt(PeelWord(s, "<in", i), "head")
         /\ StandsAt(PeelWord(s, ">", i), "target")
<1>1. \A w : PeelWord(s, w, i) = PeelHead(s, w, i) /\ PeelHead(s, w, i) \in Peels
  BY HeadTyped DEF StandsAt, PeelWord
<1>2. DOMAIN s = {"mode", "wrapper", "operands", "floor", "at"}
  BY DEF StandsAt, Peels
<1>3. \A w \in {"A=1", "then"} : PeelHead(s, w, i).mode = "head"
  <2>1. \A w \in {"A=1", "then"} : PeelHead(s, w, i) = [s EXCEPT !.mode = "head"]
    BY DEF PeelHead, ShellKeywords, Assignments, Redirections, Base, Wrappers, IsPrefixWord
  <2> QED BY <1>2, <2>1
<1>4. PeelHead(s, ">", i).mode = "target" /\ \A w \in {">out", "<in"} : PeelHead(s, w, i).mode = "head"
  <2> DEFINE f(w) == IF w \in OutRedirects THEN MaxRisk(s.floor, Medium) ELSE s.floor
  <2>1. \A w \in {">", ">out", "<in"} :
           PeelHead(s, w, i) = [s EXCEPT !.mode = IF w \in BareRedirects THEN "target" ELSE "head", !.floor = f(w)]
    BY DEF PeelHead, ShellKeywords, Assignments, Redirections, Base, Wrappers, IsPrefixWord
  <2> HIDE DEF f
  <2>2. PeelHead(s, ">", i) = [s EXCEPT !.mode = "target", !.floor = f(">")]
    BY <2>1 DEF BareRedirects
  <2>3. /\ PeelHead(s, ">out", i) = [s EXCEPT !.mode = "head", !.floor = f(">out")]
        /\ PeelHead(s, "<in", i) = [s EXCEPT !.mode = "head", !.floor = f("<in")]
    BY <2>1 DEF BareRedirects
  <2> QED BY <1>2, <2>2, <2>3
<1>5. \A w \in {"sudo", "/bin/sudo", "timeout", "nice"} :
         StandsWithin(PeelHead(s, w, i), "wrapper", Base(w), Operands[Base(w)])
  BY WrapperHead DEF StandsAt
<1>6. /\ Base("sudo") = "sudo" /\ Base("/bin/sudo") = "sudo" /\ Base("timeout") = "timeout" /\ Base("nice") = "nice"
      /\ Operands["sudo"] = 0 /\ Operands["timeout"] = 1 /\ Operands["nice"] = 0
  BY DEF Base, Operands
<1>7. /\ StandsAt(PeelWord(s, "A=1", i), "head") /\ StandsAt(PeelWord(s, "then", i), "head")
      /\ StandsAt(PeelWord(s, ">out", i), "head") /\ StandsAt(PeelWord(s, "<in", i), "head")
      /\ StandsAt(PeelWord(s, ">", i), "target")
  BY <1>1, <1>3, <1>4 DEF StandsAt
<1>8. \A w \in {"sudo", "/bin/sudo", "timeout", "nice"} :
         StandsWithin(PeelWord(s, w, i), "wrapper", Base(w), Operands[Base(w)])
  BY <1>1, <1>5
<1> QED BY <1>6, <1>7, <1>8

\* What the others do: flags, operands, values and targets.
LEMMA OtherWords ==
  ASSUME NEW s, NEW i \in Nat
  PROVE  /\ StandsAt(s, "target") => StandsAt(PeelWord(s, "w", i), "head")
         /\ StandsWithin(s, "value", "sudo", 0) => StandsWithin(PeelWord(s, "w", i), "wrapper", "sudo", 0)
         /\ StandsWithin(s, "value", "timeout", 1) => StandsWithin(PeelWord(s, "w", i), "wrapper", "timeout", 1)
         /\ StandsWithin(s, "value", "nice", 0) => StandsWithin(PeelWord(s, "w", i), "wrapper", "nice", 0)
         /\ StandsWithin(s, "wrapper", "sudo", 0) => StandsWithin(PeelWord(s, "-u", i), "value", "sudo", 0)
         /\ StandsWithin(s, "wrapper", "timeout", 1) => StandsWithin(PeelWord(s, "-s", i), "value", "timeout", 1)
         /\ StandsWithin(s, "wrapper", "nice", 0) => StandsWithin(PeelWord(s, "-n", i), "value", "nice", 0)
         /\ StandsWithin(s, "wrapper", "sudo", 0) => StandsAt(PeelWord(s, "--", i), "head")
         /\ StandsWithin(s, "wrapper", "timeout", 1) => StandsWithin(PeelWord(s, "w", i), "wrapper", "timeout", 0)
         /\ StandsWithin(s, "wrapper", "timeout", 0) => StandsWithin(PeelWord(s, "sudo", i), "wrapper", "sudo", 0)
<1>1. \A w : s \in Peels => PeelWord(s, w, i) \in Peels /\ DOMAIN s = {"mode", "wrapper", "operands", "floor", "at"}
  BY WordTyped DEF Peels
<1>2. StandsAt(s, "target") => StandsAt(PeelWord(s, "w", i), "head")
  BY <1>1 DEF StandsAt, PeelWord
<1>3. \A w, n : StandsWithin(s, "value", w, n) => StandsWithin(PeelWord(s, "w", i), "wrapper", w, n)
  BY <1>1 DEF StandsAt, StandsWithin, PeelWord
<1>4. ASSUME NEW w \in Wrappers, NEW n, StandsWithin(s, "wrapper", w, n), NEW x \in Flags, x # "--", x = ValueFlag[w]
      PROVE  StandsWithin(PeelWord(s, x, i), "value", w, n)
  <2>1. PeelWord(s, x, i) = [s EXCEPT !.mode = "value"]
    BY <1>4 DEF StandsAt, StandsWithin, PeelWord
  <2> QED BY <1>1, <1>4, <2>1 DEF StandsAt, StandsWithin
<1>5. /\ ValueFlag["sudo"] = "-u" /\ ValueFlag["timeout"] = "-s" /\ ValueFlag["nice"] = "-n"
      /\ {"-u", "-s", "-n"} \subseteq Flags /\ {"sudo", "timeout", "nice"} \subseteq Wrappers
  BY DEF ValueFlag, Flags, Wrappers
<1>6. StandsWithin(s, "wrapper", "sudo", 0) => StandsAt(PeelWord(s, "--", i), "head")
  BY <1>1 DEF StandsAt, StandsWithin, PeelWord
<1>7. ASSUME StandsWithin(s, "wrapper", "timeout", 1) PROVE StandsWithin(PeelWord(s, "w", i), "wrapper", "timeout", 0)
  <2>1. PeelWord(s, "w", i) = [s EXCEPT !.operands = 0]
    BY <1>7 DEF StandsAt, StandsWithin, PeelWord, Flags
  <2> QED BY <1>1, <1>7, <2>1 DEF StandsAt, StandsWithin
<1>8. ASSUME StandsWithin(s, "wrapper", "timeout", 0) PROVE StandsWithin(PeelWord(s, "sudo", i), "wrapper", "sudo", 0)
  <2>1. PeelWord(s, "sudo", i) = PeelHead(s, "sudo", i)
    BY <1>8 DEF StandsAt, StandsWithin, PeelWord, Flags
  <2>2. Base("sudo") = "sudo" /\ Operands["sudo"] = 0
    BY DEF Base, Operands
  <2>3. s \in Peels
    BY <1>8 DEF StandsAt, StandsWithin
  <2> QED BY <2>1, <2>2, <2>3, WrapperHead
<1> QED BY <1>2, <1>3, <1>4, <1>5, <1>6, <1>7, <1>8

\* Every front leaves the peeling ready for a command.
LEMMA FrontIsReady ==
  ASSUME NEW S, NEW p \in Seq(S), p \in Fronts, NEW t \in Seq(S), NEW f, Peeled(p \o t, f)
  PROVE  Ready(f[Len(p)])
<1>0. \A i \in 1 .. Len(p) : f[i] = PeelWord(f[i - 1], p[i], i)
  <2>1. \A i \in 1 .. Len(p) : i \in 1 .. Len(p \o t) /\ (p \o t)[i] = p[i]
    OBVIOUS
  <2> QED BY <2>1 DEF Peeled
<1>00. StandsAt(f[0], "head")
  BY LevelsAre DEF Peeled, NotPeeled, StandsAt, Peels, Wrappers
<1>1. CASE p = <<"sudo">>
  <2>1. Len(p) = 1 /\ p[1] = "sudo"
    BY <1>1
  <2>2. f[1] = PeelWord(f[0], "sudo", 1)
    BY <1>0, <2>1
  <2>3. StandsWithin(f[1], "wrapper", "sudo", 0)
    BY <2>2, <1>00, HeadWords
  <2> QED BY <2>1, <2>3 DEF StandsAt, StandsWithin, Ready
<1>2. CASE p = <<"sudo", "-u", "w">>
  <2>1. Len(p) = 3 /\ p[1] = "sudo" /\ p[2] = "-u" /\ p[3] = "w"
    BY <1>2
  <2>2. f[1] = PeelWord(f[0], "sudo", 1) /\ f[2] = PeelWord(f[1], "-u", 2) /\ f[3] = PeelWord(f[2], "w", 3)
    BY <1>0, <2>1
  <2>3. StandsWithin(f[1], "wrapper", "sudo", 0)
    BY <2>2, <1>00, HeadWords
  <2>4. StandsWithin(f[2], "value", "sudo", 0)
    BY <2>2, <2>3, OtherWords
  <2>5. StandsWithin(f[3], "wrapper", "sudo", 0)
    BY <2>2, <2>4, OtherWords
  <2> QED BY <2>1, <2>5 DEF StandsAt, StandsWithin, Ready
<1>3. CASE p = <<"/bin/sudo", "-u", "w", "--">>
  <2>1. Len(p) = 4 /\ p[1] = "/bin/sudo" /\ p[2] = "-u" /\ p[3] = "w" /\ p[4] = "--"
    BY <1>3
  <2>2. f[1] = PeelWord(f[0], "/bin/sudo", 1) /\ f[2] = PeelWord(f[1], "-u", 2) /\ f[3] = PeelWord(f[2], "w", 3) /\ f[4] = PeelWord(f[3], "--", 4)
    BY <1>0, <2>1
  <2>3. StandsWithin(f[1], "wrapper", "sudo", 0)
    BY <2>2, <1>00, HeadWords
  <2>4. StandsWithin(f[2], "value", "sudo", 0)
    BY <2>2, <2>3, OtherWords
  <2>5. StandsWithin(f[3], "wrapper", "sudo", 0)
    BY <2>2, <2>4, OtherWords
  <2>6. StandsAt(f[4], "head")
    BY <2>2, <2>5, OtherWords
  <2> QED BY <2>1, <2>6 DEF StandsAt, StandsWithin, Ready
<1>4. CASE p = <<"timeout", "w">>
  <2>1. Len(p) = 2 /\ p[1] = "timeout" /\ p[2] = "w"
    BY <1>4
  <2>2. f[1] = PeelWord(f[0], "timeout", 1) /\ f[2] = PeelWord(f[1], "w", 2)
    BY <1>0, <2>1
  <2>3. StandsWithin(f[1], "wrapper", "timeout", 1)
    BY <2>2, <1>00, HeadWords
  <2>4. StandsWithin(f[2], "wrapper", "timeout", 0)
    BY <2>2, <2>3, OtherWords
  <2> QED BY <2>1, <2>4 DEF StandsAt, StandsWithin, Ready
<1>5. CASE p = <<"timeout", "-s", "w", "w">>
  <2>1. Len(p) = 4 /\ p[1] = "timeout" /\ p[2] = "-s" /\ p[3] = "w" /\ p[4] = "w"
    BY <1>5
  <2>2. f[1] = PeelWord(f[0], "timeout", 1) /\ f[2] = PeelWord(f[1], "-s", 2) /\ f[3] = PeelWord(f[2], "w", 3) /\ f[4] = PeelWord(f[3], "w", 4)
    BY <1>0, <2>1
  <2>3. StandsWithin(f[1], "wrapper", "timeout", 1)
    BY <2>2, <1>00, HeadWords
  <2>4. StandsWithin(f[2], "value", "timeout", 1)
    BY <2>2, <2>3, OtherWords
  <2>5. StandsWithin(f[3], "wrapper", "timeout", 1)
    BY <2>2, <2>4, OtherWords
  <2>6. StandsWithin(f[4], "wrapper", "timeout", 0)
    BY <2>2, <2>5, OtherWords
  <2> QED BY <2>1, <2>6 DEF StandsAt, StandsWithin, Ready
<1>6. CASE p = <<"nice", "-n", "w">>
  <2>1. Len(p) = 3 /\ p[1] = "nice" /\ p[2] = "-n" /\ p[3] = "w"
    BY <1>6
  <2>2. f[1] = PeelWord(f[0], "nice", 1) /\ f[2] = PeelWord(f[1], "-n", 2) /\ f[3] = PeelWord(f[2], "w", 3)
    BY <1>0, <2>1
  <2>3. StandsWithin(f[1], "wrapper", "nice", 0)
    BY <2>2, <1>00, HeadWords
  <2>4. StandsWithin(f[2], "value", "nice", 0)
    BY <2>2, <2>3, OtherWords
  <2>5. StandsWithin(f[3], "wrapper", "nice", 0)
    BY <2>2, <2>4, OtherWords
  <2> QED BY <2>1, <2>5 DEF StandsAt, StandsWithin, Ready
<1>7. CASE p = <<"A=1">>
  <2>1. Len(p) = 1 /\ p[1] = "A=1"
    BY <1>7
  <2>2. f[1] = PeelWord(f[0], "A=1", 1)
    BY <1>0, <2>1
  <2>3. StandsAt(f[1], "head")
    BY <2>2, <1>00, HeadWords
  <2> QED BY <2>1, <2>3 DEF StandsAt, StandsWithin, Ready
<1>8. CASE p = <<">out">>
  <2>1. Len(p) = 1 /\ p[1] = ">out"
    BY <1>8
  <2>2. f[1] = PeelWord(f[0], ">out", 1)
    BY <1>0, <2>1
  <2>3. StandsAt(f[1], "head")
    BY <2>2, <1>00, HeadWords
  <2> QED BY <2>1, <2>3 DEF StandsAt, StandsWithin, Ready
<1>9. CASE p = <<">", "w">>
  <2>1. Len(p) = 2 /\ p[1] = ">" /\ p[2] = "w"
    BY <1>9
  <2>2. f[1] = PeelWord(f[0], ">", 1) /\ f[2] = PeelWord(f[1], "w", 2)
    BY <1>0, <2>1
  <2>3. StandsAt(f[1], "target")
    BY <2>2, <1>00, HeadWords
  <2>4. StandsAt(f[2], "head")
    BY <2>2, <2>3, OtherWords
  <2> QED BY <2>1, <2>4 DEF StandsAt, StandsWithin, Ready
<1>10. CASE p = <<"<in">>
  <2>1. Len(p) = 1 /\ p[1] = "<in"
    BY <1>10
  <2>2. f[1] = PeelWord(f[0], "<in", 1)
    BY <1>0, <2>1
  <2>3. StandsAt(f[1], "head")
    BY <2>2, <1>00, HeadWords
  <2> QED BY <2>1, <2>3 DEF StandsAt, StandsWithin, Ready
<1>11. CASE p = <<"then">>
  <2>1. Len(p) = 1 /\ p[1] = "then"
    BY <1>11
  <2>2. f[1] = PeelWord(f[0], "then", 1)
    BY <1>0, <2>1
  <2>3. StandsAt(f[1], "head")
    BY <2>2, <1>00, HeadWords
  <2> QED BY <2>1, <2>3 DEF StandsAt, StandsWithin, Ready
<1>12. CASE p = <<"A=1", "nice">>
  <2>1. Len(p) = 2 /\ p[1] = "A=1" /\ p[2] = "nice"
    BY <1>12
  <2>2. f[1] = PeelWord(f[0], "A=1", 1) /\ f[2] = PeelWord(f[1], "nice", 2)
    BY <1>0, <2>1
  <2>3. StandsAt(f[1], "head")
    BY <2>2, <1>00, HeadWords
  <2>4. StandsWithin(f[2], "wrapper", "nice", 0)
    BY <2>2, <2>3, HeadWords
  <2> QED BY <2>1, <2>4 DEF StandsAt, StandsWithin, Ready
<1>13. CASE p = <<">out", "timeout", "w", "sudo">>
  <2>1. Len(p) = 4 /\ p[1] = ">out" /\ p[2] = "timeout" /\ p[3] = "w" /\ p[4] = "sudo"
    BY <1>13
  <2>2. f[1] = PeelWord(f[0], ">out", 1) /\ f[2] = PeelWord(f[1], "timeout", 2) /\ f[3] = PeelWord(f[2], "w", 3) /\ f[4] = PeelWord(f[3], "sudo", 4)
    BY <1>0, <2>1
  <2>3. StandsAt(f[1], "head")
    BY <2>2, <1>00, HeadWords
  <2>4. StandsWithin(f[2], "wrapper", "timeout", 1)
    BY <2>2, <2>3, HeadWords
  <2>5. StandsWithin(f[3], "wrapper", "timeout", 0)
    BY <2>2, <2>4, OtherWords
  <2>6. StandsWithin(f[4], "wrapper", "sudo", 0)
    BY <2>2, <2>5, OtherWords
  <2> QED BY <2>1, <2>6 DEF StandsAt, StandsWithin, Ready
<1> QED BY <1>1, <1>2, <1>3, <1>4, <1>5, <1>6, <1>7, <1>8, <1>9, <1>10, <1>11, <1>12, <1>13 DEF Fronts

-----------------------------------------------------------------------------
\* The words i to j of a line are one of its segments.
Span(c, i, j) ==
    /\ i \in 1 .. Len(c) /\ j \in 1 .. Len(c) /\ i <= j
    /\ \A k \in i .. j : c[k] \notin Separators
    /\ i = 1 \/ c[i - 1] \in Separators
    /\ j = Len(c) \/ c[j + 1] \in Separators

\* The class of a stretch of a line.
ClassOf(c, i, j) == ClassifySegment(SubSeq(c, i, j))

\* The segments of a line are its spans.
LEMMA SegmentsAre ==
  ASSUME NEW c, NEW seg
  PROVE  seg \in Segments(c) <=> \E i, j : Span(c, i, j) /\ seg = SubSeq(c, i, j)
<1>1. ASSUME seg \in Segments(c) PROVE \E i, j : Span(c, i, j) /\ seg = SubSeq(c, i, j)
  <2>1. PICK q \in (1 .. Len(c)) \X (1 .. Len(c)) :
           /\ q[1] <= q[2] /\ \A k \in q[1] .. q[2] : c[k] \notin Separators
           /\ q[1] = 1 \/ c[q[1] - 1] \in Separators
           /\ q[2] = Len(c) \/ c[q[2] + 1] \in Separators
           /\ seg = SubSeq(c, q[1], q[2])
    BY <1>1 DEF Segments
  <2>2. Span(c, q[1], q[2])
    BY <2>1 DEF Span
  <2> QED BY <2>1, <2>2
<1>2. ASSUME NEW i, NEW j, Span(c, i, j), seg = SubSeq(c, i, j) PROVE seg \in Segments(c)
  <2> DEFINE q == <<i, j>>
  <2>1. /\ q \in (1 .. Len(c)) \X (1 .. Len(c)) /\ q[1] = i /\ q[2] = j
    BY <1>2 DEF Span
  <2> HIDE DEF q
  <2> QED BY <1>2, <2>1 DEF Span, Segments
<1> QED BY <1>1, <1>2

\* The class of a segment is a class.
LEMMA SegmentTyped ==
  ASSUME NEW S, NEW c \in Seq(S), NEW i, NEW j, Span(c, i, j)
  PROVE  /\ SubSeq(c, i, j) \in Seq(S) /\ Len(SubSeq(c, i, j)) = j + 1 - i /\ SubSeq(c, i, j) # <<>>
         /\ \A k \in 1 .. j + 1 - i : SubSeq(c, i, j)[k] = c[i + k - 1]
         /\ SubSeq(c, i, j)[1] = c[i] /\ ClassOf(c, i, j) \in Levels
         /\ ClassOf(c, i, j) >= ClassOf(c, i, j)
<1>1. i \in Nat /\ j \in Nat /\ i <= j /\ 1 <= i /\ j <= Len(c)
  BY DEF Span
<1>2. SubSeq(c, i, j) \in Seq(S) /\ Len(SubSeq(c, i, j)) = j + 1 - i
  BY <1>1
<1>3. \A k \in 1 .. j + 1 - i : SubSeq(c, i, j)[k] = c[i + k - 1]
  BY <1>1
<1>4. 1 \in 1 .. j + 1 - i /\ i + 1 - 1 = i /\ SubSeq(c, i, j) # <<>>
  BY <1>1, <1>2
<1>5. ClassOf(c, i, j) \in Levels
  BY <1>2, SegmentRisk DEF ClassOf
<1>6. ClassOf(c, i, j) >= ClassOf(c, i, j)
  BY <1>5, LevelsAre
<1> QED BY <1>2, <1>3, <1>4, <1>5, <1>6

\* The classes of a line's segments.
LEMMA ClassesTyped ==
  ASSUME NEW S, NEW c \in Seq(S)
  PROVE  /\ ({Low} \union {ClassifySegment(seg) : seg \in Segments(c)}) \in SUBSET Levels
         /\ Classify(c) \in Levels
         /\ (\E i \in 1 .. Len(c) : c[i] \in Substitutions) => Classify(c) = Critical
         /\ (\A i \in 1 .. Len(c) : c[i] \notin Substitutions) =>
               /\ \A i, j : Span(c, i, j) => ClassOf(c, i, j) <= Classify(c)
               /\ Classify(c) = Low \/ \E i, j : Span(c, i, j) /\ ClassOf(c, i, j) = Classify(c)
<1> DEFINE R == {Low} \union {ClassifySegment(seg) : seg \in Segments(c)}
<1>1. R \in SUBSET Levels
  <2>1. ASSUME NEW seg \in Segments(c) PROVE ClassifySegment(seg) \in Levels
    <3>1. PICK i, j : Span(c, i, j) /\ seg = SubSeq(c, i, j)
      BY SegmentsAre
    <3> QED BY <3>1, SegmentTyped DEF ClassOf
  <2> QED BY <2>1, LevelsAre
<1>2. WorstOf(R) \in R /\ \A q \in R : q <= WorstOf(R)
  <2>1. R # {}
    OBVIOUS
  <2> HIDE DEF R
  <2> QED BY <1>1, <2>1, WorstFacts
<1>3. Classify(c) = IF \E i \in 1 .. Len(c) : c[i] \in Substitutions THEN Critical ELSE WorstOf(R)
  BY DEF Classify
<1>4. \A i, j : Span(c, i, j) => ClassOf(c, i, j) \in R
  BY SegmentsAre DEF ClassOf
<1>5. \A q \in R : q = Low \/ \E i, j : Span(c, i, j) /\ ClassOf(c, i, j) = q
  <2> SUFFICES ASSUME NEW seg \in Segments(c)
               PROVE  \E i, j : Span(c, i, j) /\ ClassOf(c, i, j) = ClassifySegment(seg)
    OBVIOUS
  <2>1. PICK i, j : Span(c, i, j) /\ seg = SubSeq(c, i, j)
    BY SegmentsAre
  <2> QED BY <2>1 DEF ClassOf
<1>6. R \in SUBSET Levels /\ R = {Low} \union {ClassifySegment(seg) : seg \in Segments(c)}
  BY <1>1
<1> HIDE DEF R
<1> QED BY <1>2, <1>3, <1>4, <1>5, <1>6, LevelsAre

\* A line whose segments answer to those of another is classified as high.
LEMMA LineCovered ==
  ASSUME NEW S, NEW c \in Seq(S), NEW d \in Seq(S),
         (\E i \in 1 .. Len(c) : c[i] \in Substitutions) => \E i \in 1 .. Len(d) : d[i] \in Substitutions,
         (\A i \in 1 .. Len(c) : c[i] \notin Substitutions) =>
            \A i, j : Span(c, i, j) =>
               \E k, l : Span(d, k, l) /\ ClassOf(d, k, l) >= ClassOf(c, i, j)
  PROVE  Classify(d) >= Classify(c)
<1>0. Classify(c) \in Levels /\ Classify(d) \in Levels
  BY ClassesTyped
<1>1. CASE \E i \in 1 .. Len(d) : d[i] \in Substitutions
  <2>1. Classify(d) = Critical
    BY <1>1, ClassesTyped
  <2> QED BY <1>0, <2>1, LevelsAre
<1>2. CASE \A i \in 1 .. Len(d) : d[i] \notin Substitutions
  <2>1. \A i \in 1 .. Len(c) : c[i] \notin Substitutions
    BY <1>2
  <2>2. CASE Classify(c) = Low
    BY <1>0, <2>2, LevelsAre
  <2>3. CASE \E i, j : Span(c, i, j) /\ ClassOf(c, i, j) = Classify(c)
    <3>1. PICK i, j : Span(c, i, j) /\ ClassOf(c, i, j) = Classify(c)
      BY <2>3
    <3>2. PICK k, l : Span(d, k, l) /\ ClassOf(d, k, l) >= ClassOf(c, i, j)
      BY <2>1, <3>1
    <3>3. ClassOf(d, k, l) <= Classify(d) /\ ClassOf(d, k, l) \in Levels
      BY <1>2, <3>2, ClassesTyped, SegmentTyped
    <3> QED BY <1>0, <3>1, <3>2, <3>3, LevelsAre
  <2> QED BY <2>1, <2>2, <2>3, ClassesTyped
<1> QED BY <1>1, <1>2

\* The words of c stand in d behind m others, and end there or at an operator.
Stands(c, d, m) ==
    /\ m \in Nat /\ m + Len(c) <= Len(d) /\ \A k \in 1 .. Len(c) : d[m + k] = c[k]
    /\ m + Len(c) = Len(d) \/ d[m + Len(c) + 1] \in Separators

\* What begins at word i of c begins a segment of d too.
Begins(d, m, i) == i > 1 \/ m = 0 \/ d[m] \in Separators

\* The words i to j of c are a segment of it that stays one in d, m words later.
Stays(S, c, d, m, i, j) ==
    c \in Seq(S) /\ d \in Seq(S) /\ Stands(c, d, m) /\ Span(c, i, j) /\ Begins(d, m, i)

\* A segment of a line is one of a longer line, when it ends where it did.
LEMMA SpanShift ==
  ASSUME NEW S, NEW c, NEW d, NEW m, NEW i, NEW j, Stays(S, c, d, m, i, j)
  PROVE  Span(d, m + i, m + j) /\ ClassOf(d, m + i, m + j) = ClassOf(c, i, j)
<1> USE DEF Stays
<1>0. /\ i \in Nat /\ j \in Nat /\ i <= j /\ 1 <= i /\ j <= Len(c) /\ Len(c) \in Nat /\ Len(d) \in Nat
      /\ i \in 1 .. Len(c) /\ j \in 1 .. Len(c)
      /\ m + i \in 1 .. Len(d) /\ m + j \in 1 .. Len(d) /\ m + i <= m + j
      /\ m \in Nat /\ \A k \in 1 .. Len(c) : d[m + k] = c[k]
  BY DEF Span, Stands
<1>1. \A k \in m + i .. m + j : d[k] \notin Separators
  <2> SUFFICES ASSUME NEW k \in m + i .. m + j PROVE d[k] \notin Separators
    OBVIOUS
  <2>1. k - m \in i .. j /\ k - m \in 1 .. Len(c) /\ m + (k - m) = k
    BY <1>0
  <2>2. d[k] = c[k - m]
    BY <1>0, <2>1
  <2> QED BY <2>1, <2>2 DEF Span
<1>2. m + i = 1 \/ d[m + i - 1] \in Separators
  <2>1. CASE i > 1
    <3>1. i - 1 \in 1 .. Len(c) /\ m + (i - 1) = m + i - 1 /\ c[i - 1] \in Separators
      BY <1>0, <2>1 DEF Span
    <3> QED BY <1>0, <3>1
  <2>2. CASE i = 1
    <3>1. m + i - 1 = m /\ (m = 0 \/ d[m] \in Separators)
      BY <1>0, <2>2 DEF Begins
    <3> QED BY <2>2, <3>1
  <2> QED BY <1>0, <2>1, <2>2 DEF Begins
<1>3. m + j = Len(d) \/ d[m + j + 1] \in Separators
  <2>1. CASE j < Len(c)
    <3>1. j + 1 \in 1 .. Len(c) /\ m + (j + 1) = m + j + 1 /\ c[j + 1] \in Separators
      BY <1>0, <2>1 DEF Span
    <3> QED BY <1>0, <3>1
  <2>2. CASE j = Len(c)
    BY <2>2 DEF Stands
  <2> QED BY <1>0, <2>1, <2>2
<1>4. Span(d, m + i, m + j)
  BY <1>0, <1>1, <1>2, <1>3 DEF Span
<1>5. SubSeq(d, m + i, m + j) = SubSeq(c, i, j)
  <2>1. /\ SubSeq(d, m + i, m + j) \in Seq(S) /\ Len(SubSeq(d, m + i, m + j)) = j + 1 - i
        /\ \A k \in 1 .. j + 1 - i : SubSeq(d, m + i, m + j)[k] = d[m + i + k - 1]
    BY <1>0
  <2>2. /\ SubSeq(c, i, j) \in Seq(S) /\ Len(SubSeq(c, i, j)) = j + 1 - i
        /\ \A k \in 1 .. j + 1 - i : SubSeq(c, i, j)[k] = c[i + k - 1]
    BY SegmentTyped
  <2>3. \A k \in 1 .. j + 1 - i : i + k - 1 \in 1 .. Len(c) /\ m + (i + k - 1) = m + i + k - 1
    BY <1>0, SMTT(30)
  <2>4. \A k \in 1 .. j + 1 - i : SubSeq(d, m + i, m + j)[k] = SubSeq(c, i, j)[k]
    BY <1>0, <2>1, <2>2, <2>3
  <2> HIDE DEF Span
  <2> QED BY <2>1, <2>2, <2>4, SeqEqual
<1> QED BY <1>4, <1>5 DEF ClassOf

-----------------------------------------------------------------------------
\* Two lines with an operator between are classified no lower than either.
LEMMA BesideIsSound ==
  ASSUME NEW S, NEW l \in Seq(S), NEW s \in S, s \in Separators, NEW c \in Seq(S)
  PROVE  /\ Classify(l \o <<s>> \o c) >= Classify(l) /\ Classify(l \o <<s>> \o c) >= Classify(c)
         /\ Classify(l \o <<s>> \o c) \in Levels
<1> DEFINE d == l \o <<s>> \o c
<1>0. /\ d \in Seq(S) /\ Len(d) = Len(l) + 1 + Len(c) /\ Len(l) \in Nat /\ Len(c) \in Nat
      /\ \A k \in 1 .. Len(l) : d[k] = l[k]
      /\ d[Len(l) + 1] = s
      /\ \A k \in 1 .. Len(c) : d[Len(l) + 1 + k] = c[k]
  OBVIOUS
<1> HIDE DEF d
<1>1. Classify(d) >= Classify(l)
  <2>1. ASSUME NEW i, NEW j, Span(l, i, j)
        PROVE  \E k, m : Span(d, k, m) /\ ClassOf(d, k, m) >= ClassOf(l, i, j)
    <3>1. Stays(S, l, d, 0, i, j)
      <4>1. Stands(l, d, 0) /\ Begins(d, 0, i)
        BY <1>0 DEF Stands, Begins
      <4> QED BY <1>0, <2>1, <4>1 DEF Stays
    <3>2. Span(d, 0 + i, 0 + j) /\ ClassOf(d, 0 + i, 0 + j) = ClassOf(l, i, j)
      BY <3>1, SpanShift
    <3>3. ClassOf(l, i, j) >= ClassOf(l, i, j)
      BY <2>1, SegmentTyped, Zenon
    <3> QED BY <3>2, <3>3
  <2>2. \A i \in 1 .. Len(l) : i \in 1 .. Len(d)
    BY <1>0
  <2> QED BY <1>0, <2>1, <2>2, LineCovered
<1>2. Classify(d) >= Classify(c)
  <2>1. ASSUME NEW i, NEW j, Span(c, i, j)
        PROVE  \E k, m : Span(d, k, m) /\ ClassOf(d, k, m) >= ClassOf(c, i, j)
    <3>2. Span(d, Len(l) + 1 + i, Len(l) + 1 + j) /\ ClassOf(d, Len(l) + 1 + i, Len(l) + 1 + j) = ClassOf(c, i, j)
      <4> DEFINE m == Len(l) + 1
      <4>1. Stays(S, c, d, m, i, j)
        <5>1. m \in Nat /\ m + Len(c) = Len(d)
          BY <1>0
        <5>2. \A k \in 1 .. Len(c) : d[m + k] = c[k]
          BY <1>0
        <5>3. Stands(c, d, m)
          BY <1>0, <5>1, <5>2 DEF Stands
        <5>4. Begins(d, m, i)
          BY <1>0 DEF Begins
        <5> QED BY <1>0, <2>1, <5>3, <5>4 DEF Stays
      <4> HIDE DEF m
      <4>2. Span(d, m + i, m + j) /\ ClassOf(d, m + i, m + j) = ClassOf(c, i, j)
        BY <4>1, SpanShift
      <4> QED BY <4>2 DEF m
    <3>3. ClassOf(c, i, j) >= ClassOf(c, i, j)
      BY <2>1, SegmentTyped, Zenon
    <3> QED BY <3>2, <3>3
  <2>2. \A i \in 1 .. Len(c) : Len(l) + 1 + i \in 1 .. Len(d)
    BY <1>0
  <2> QED BY <1>0, <2>1, <2>2, LineCovered
<1>3. Classify(d) \in Levels
  BY <1>0, ClassesTyped
<1> QED BY <1>1, <1>2, <1>3 DEF d

\* Another command beside a line never lowers its class.
LEMMA CompanySound == ASSUME line \in Seq(Words) PROVE CompanyNeverLowers
<1> DEFINE S == Words \union {";", "&", "|", "ls", "grep", "-r", "rm", "-f", "w"}
<1>1. line \in Seq(S)
  BY SeqMonotonic, Zenon
<1>2. ASSUME NEW s \in Separators, NEW c \in {<<"ls">>, <<"grep", "-r">>, <<"rm", "-r", "-f", "w">>}
      PROVE  /\ Classify(line \o <<s>> \o c) >= MaxRisk(Classify(line), Classify(c))
             /\ Classify(c \o <<s>> \o line) >= MaxRisk(Classify(line), Classify(c))
  <2>1. s \in S
    BY DEF Separators
  <2>2. c \in Seq(S)
    <3>1. CASE c = <<"ls">>
      BY <3>1
    <3>2. CASE c = <<"grep", "-r">>
      BY <3>2
    <3>3. CASE c = <<"rm", "-r", "-f", "w">>
      BY <3>3
    <3> QED BY <3>1, <3>2, <3>3
  <2> HIDE DEF S
  <2>3. MaxRisk(Classify(line), Classify(c)) \in {Classify(line), Classify(c)}
    BY DEF MaxRisk
  <2> QED BY <1>1, <2>1, <2>2, <2>3, BesideIsSound
<1> QED BY <1>2 DEF CompanyNeverLowers

-----------------------------------------------------------------------------
\* The fronts are words, and no operator is among them.
LEMMA FrontFacts ==
  ASSUME NEW p \in Fronts
  PROVE  /\ p \in Seq({"sudo", "/bin/sudo", "-u", "w", "--", "timeout", "-s", "nice", "-n", "A=1", ">out", ">", "<in", "then"})
         /\ \A i \in 1 .. Len(p) : p[i] \notin Separators
<1> DEFINE W == {"sudo", "/bin/sudo", "-u", "w", "--", "timeout", "-s", "nice", "-n", "A=1", ">out", ">", "<in", "then"}
<1>1. p \in Seq(W)
  <2>1. CASE p = <<"sudo">>
    BY <2>1
  <2>2. CASE p = <<"sudo", "-u", "w">>
    BY <2>2
  <2>3. CASE p = <<"/bin/sudo", "-u", "w", "--">>
    BY <2>3
  <2>4. CASE p = <<"timeout", "w">>
    BY <2>4
  <2>5. CASE p = <<"timeout", "-s", "w", "w">>
    BY <2>5
  <2>6. CASE p = <<"nice", "-n", "w">>
    BY <2>6
  <2>7. CASE p = <<"A=1">>
    BY <2>7
  <2>8. CASE p = <<">out">>
    BY <2>8
  <2>9. CASE p = <<">", "w">>
    BY <2>9
  <2>10. CASE p = <<"<in">>
    BY <2>10
  <2>11. CASE p = <<"then">>
    BY <2>11
  <2>12. CASE p = <<"A=1", "nice">>
    BY <2>12
  <2>13. CASE p = <<">out", "timeout", "w", "sudo">>
    BY <2>13
  <2> QED BY <2>1, <2>2, <2>3, <2>4, <2>5, <2>6, <2>7, <2>8, <2>9, <2>10, <2>11, <2>12, <2>13 DEF Fronts
<1>2. \A i \in 1 .. Len(p) : p[i] \in {"sudo", "/bin/sudo", "-u", "w", "--", "timeout", "-s", "nice", "-n", "A=1", ">out", ">", "<in", "then"}
  BY <1>1
<1>3. \A w \in {"sudo", "/bin/sudo", "-u", "w", "--", "timeout", "-s", "nice", "-n", "A=1", ">out", ">", "<in", "then"} : w \notin Separators
  BY DEF Separators
<1> QED BY <1>1, <1>2, <1>3

\* The segment a front is put before is still one, with the front before it.
LEMMA FrontSpan ==
  ASSUME NEW S, NEW c \in Seq(S), NEW p \in Seq(S), p # <<>>, \A i \in 1 .. Len(p) : p[i] \notin Separators,
         NEW j, Span(c, 1, j)
  PROVE  Span(p \o c, 1, Len(p) + j) /\ SubSeq(p \o c, 1, Len(p) + j) = p \o SubSeq(c, 1, j)
<1> DEFINE d == p \o c
           m == Len(p)
<1>0. /\ d \in Seq(S) /\ Len(d) = m + Len(c) /\ Len(c) \in Nat /\ m \in Nat /\ m > 0
      /\ \A k \in 1 .. m : d[k] = p[k]
      /\ \A k \in 1 .. Len(c) : d[m + k] = c[k]
  OBVIOUS
<1>1. j \in Nat /\ 1 <= j /\ j <= Len(c) /\ j \in 1 .. Len(c) /\ \A k \in 1 .. j : c[k] \notin Separators
  BY DEF Span
<1> HIDE DEF d, m
<1>2. \A k \in 1 .. m + j : d[k] \notin Separators
  <2> SUFFICES ASSUME NEW k \in 1 .. m + j PROVE d[k] \notin Separators
    OBVIOUS
  <2>1. CASE k <= m
    BY <1>0, <2>1 DEF m
  <2>2. CASE k > m
    <3>1. k - m \in 1 .. j /\ k - m \in 1 .. Len(c) /\ m + (k - m) = k
      BY <1>0, <1>1, <2>2
    <3>2. d[k] = c[k - m]
      BY <1>0, <3>1
    <3> QED BY <1>1, <3>1, <3>2
  <2> QED BY <1>0, <2>1, <2>2
<1>3. m + j = Len(d) \/ d[m + j + 1] \in Separators
  <2>1. CASE j = Len(c)
    BY <1>0, <2>1
  <2>2. CASE j # Len(c)
    <3>1. j + 1 \in 1 .. Len(c) /\ m + (j + 1) = m + j + 1 /\ c[j + 1] \in Separators
      BY <1>0, <1>1, <2>2 DEF Span
    <3> QED BY <1>0, <3>1
  <2> QED BY <2>1, <2>2
<1>4. Span(d, 1, m + j)
  <2>1. 1 \in 1 .. Len(d) /\ m + j \in 1 .. Len(d) /\ 1 <= m + j
    BY <1>0, <1>1
  <2> QED BY <1>2, <1>3, <2>1 DEF Span
<1>5. SubSeq(d, 1, m + j) = p \o SubSeq(c, 1, j)
  <2>1. /\ SubSeq(d, 1, m + j) \in Seq(S) /\ Len(SubSeq(d, 1, m + j)) = m + j
        /\ \A k \in 1 .. m + j : SubSeq(d, 1, m + j)[k] = d[k]
    BY <1>0, <1>1
  <2>2. /\ SubSeq(c, 1, j) \in Seq(S) /\ Len(SubSeq(c, 1, j)) = j
        /\ \A k \in 1 .. j : SubSeq(c, 1, j)[k] = c[k]
    BY <1>1
  <2>3. /\ p \o SubSeq(c, 1, j) \in Seq(S) /\ Len(p \o SubSeq(c, 1, j)) = m + j
        /\ \A k \in 1 .. m : (p \o SubSeq(c, 1, j))[k] = p[k]
        /\ \A k \in 1 .. j : (p \o SubSeq(c, 1, j))[m + k] = c[k]
    BY <2>2 DEF m
  <2>4. ASSUME NEW k \in 1 .. m + j PROVE SubSeq(d, 1, m + j)[k] = (p \o SubSeq(c, 1, j))[k]
    <3>1. CASE k <= m
      BY <1>0, <2>1, <2>3, <3>1
    <3>2. CASE k > m
      <4>1. k - m \in 1 .. j /\ k - m \in 1 .. Len(c) /\ m + (k - m) = k
        BY <1>0, <1>1, <3>2
      <4>2. d[k] = c[k - m] /\ (p \o SubSeq(c, 1, j))[k] = c[k - m]
        BY <1>0, <2>3, <4>1
      <4> QED BY <2>1, <4>2
    <3>3. k <= m \/ k > m
      BY <1>0, <1>1
    <3> QED BY <3>1, <3>2, <3>3
  <2> QED BY <2>1, <2>3, <2>4, SeqEqual
<1> QED BY <1>4, <1>5 DEF d, m

\* A front before a line never lowers its class.
LEMMA PrefixSound == ASSUME line \in Seq(Words) PROVE PrefixNeverLowers
<1> DEFINE S == Words \union {"sudo", "/bin/sudo", "-u", "w", "--", "timeout", "-s", "nice", "-n", "A=1", ">out", ">", "<in", "then"}
<1>1. line \in Seq(S)
  BY SeqMonotonic, Zenon
<1> SUFFICES ASSUME BeginsCommand(line), NEW p \in Fronts PROVE Classify(p \o line) >= Classify(line)
  BY DEF PrefixNeverLowers
<1>2. p \in Seq(S) /\ p # <<>> /\ \A i \in 1 .. Len(p) : p[i] \notin Separators
  <2>1. Seq({"sudo", "/bin/sudo", "-u", "w", "--", "timeout", "-s", "nice", "-n", "A=1", ">out", ">", "<in", "then"}) \subseteq Seq(S)
    OBVIOUS
  <2>2. p # <<>>
    BY SMTT(30) DEF Fronts
  <2> HIDE DEF S
  <2> QED BY <2>1, <2>2, FrontFacts
<1> HIDE DEF S
<1> DEFINE d == p \o line
           m == Len(p)
<1>0. /\ d \in Seq(S) /\ Len(d) = m + Len(line) /\ Len(line) \in Nat /\ m \in Nat
      /\ \A k \in 1 .. Len(line) : d[m + k] = line[k] /\ m + k \in 1 .. Len(d)
      /\ m + Len(line) <= Len(d)
  BY <1>1, <1>2
<1>3. line # <<>> /\ 1 \in 1 .. Len(line)
  BY <1>1 DEF BeginsCommand
<1>4. line[1] \in Substitutions \/ line[1] \notin Flags
  <2>1. \A w \in Commands : w \notin Flags
    BY DEF Commands, Flags
  <2>2. \A w \in Flags : ~ IsPrefixWord(w)
    BY DEF Flags, IsPrefixWord, ShellKeywords, Assignments, Redirections, Base, Wrappers
  <2> QED BY <2>1, <2>2 DEF BeginsCommand
<1>5. ASSUME NEW i, NEW j, Span(line, i, j), line[1] \notin Flags
      PROVE  \E k, l : Span(d, k, l) /\ ClassOf(d, k, l) >= ClassOf(line, i, j)
  <2>0. /\ SubSeq(line, i, j) \in Seq(S) /\ SubSeq(line, i, j) # <<>> /\ SubSeq(line, i, j)[1] = line[i]
        /\ ClassOf(line, i, j) \in Levels
    BY <1>1, <1>5, SegmentTyped, SMTT(30)
  <2>1. CASE i = 1
    <3> DEFINE t == SubSeq(line, i, j)
    <3>1. Span(d, 1, m + j) /\ SubSeq(d, 1, m + j) = p \o t
      BY <1>1, <1>2, <1>5, <2>1, FrontSpan
    <3>2. t \in Seq(S) /\ t # <<>> /\ t[1] \notin Flags
      BY <1>5, <2>0, <2>1
    <3> HIDE DEF t
    <3>3. ClassifySegment(p \o t) >= ClassifySegment(t)
      <4>1. \A f : Peeled(p \o t, f) => Ready(f[Len(p)])
        BY <1>2, <3>2, FrontIsReady
      <4> QED BY <1>2, <3>2, <4>1, BehindRisk
    <3> QED BY <3>1, <3>3 DEF t, ClassOf
  <2>2. CASE i # 1
    <3>1. i > 1
      BY <1>5, <2>2 DEF Span
    <3>2. Span(d, m + i, m + j) /\ ClassOf(d, m + i, m + j) = ClassOf(line, i, j)
      <4>1. Stands(line, d, m) /\ Begins(d, m, i)
        BY <1>0, <3>1 DEF Stands, Begins
      <4>2. Stays(S, line, d, m, i, j)
        BY <1>0, <1>1, <1>5, <4>1 DEF Stays
      <4> HIDE DEF d, m
      <4> QED BY <4>2, SpanShift
    <3>3. ClassOf(line, i, j) >= ClassOf(line, i, j)
      BY <2>0, LevelsAre DEF ClassOf
    <3> HIDE DEF d
    <3> QED BY <3>2, <3>3
  <2> QED BY <2>1, <2>2
<1>6. (\A k \in 1 .. Len(line) : line[k] \notin Substitutions) => line[1] \notin Flags
  BY <1>3, <1>4
<1> HIDE DEF d
<1>7. Classify(d) >= Classify(line)
  BY <1>0, <1>1, <1>5, <1>6, LineCovered
<1> QED BY <1>7 DEF d

-----------------------------------------------------------------------------
\* A path before a name changes nothing but the tables that ask for bare names.
LEMMA QualifiedFacts ==
  ASSUME NEW w
  PROVE  /\ Base(Qualified(w)) = Base(w)
         /\ Qualified(w) \in Separators <=> w \in Separators
         /\ w \in Substitutions => Qualified(w) = w
         /\ Qualified(w) \in SafeRead \union BuildTest => Qualified(w) = w
         /\ \A s, i : PeelHead(s, Qualified(w), i) = PeelHead(s, w, i)
<1>1. CASE w \in {"rm", "dd", "ls", "rg", "sudo"}
  <2>1. Base(Qualified(w)) = Base(w)
    BY <1>1 DEF Base, Qualified
  <2>2. Qualified(w) \in {"/bin/rm", "/bin/dd", "/bin/ls", "/bin/rg", "/bin/sudo"}
    BY <1>1 DEF Qualified
  <2>3. /\ Qualified(w) \notin ShellKeywords \union Assignments \union Redirections
        /\ w \notin ShellKeywords \union Assignments \union Redirections
    BY <1>1, <2>2 DEF ShellKeywords, Assignments, Redirections
  <2>4. \A s, i : PeelHead(s, Qualified(w), i) = PeelHead(s, w, i)
    BY <2>1, <2>3 DEF PeelHead, IsPrefixWord
  <2> QED BY <1>1, <2>1, <2>2, <2>4 DEF Separators, Substitutions, SafeRead, BuildTest
<1>2. CASE w \notin {"rm", "dd", "ls", "rg", "sudo"}
  <2>1. Qualified(w) = w
    BY <1>2 DEF Qualified
  <2> QED BY <2>1
<1> QED BY <1>1, <1>2

\* u is t with a path before its first word.
Respelt(S, t, u) ==
    /\ t \in Seq(S) /\ u \in Seq(S) /\ Len(t) > 0 /\ Len(u) = Len(t)
    /\ u[1] = Qualified(t[1]) /\ \A k \in 2 .. Len(t) : u[k] = t[k]

\* A program spelt with its path is no more benign, with the same flags.
LEMMA RespeltTokens ==
  ASSUME NEW S, NEW t, NEW u, Respelt(S, t, u)
  PROVE  HeadRisk(u) >= HeadRisk(t) /\ SearchFlagRisk(u) = SearchFlagRisk(t)
<1>0. Len(t) \in Nat /\ Len(u) = Len(t) /\ \A k \in 2 .. Len(t) : u[k] = t[k]
  BY DEF Respelt
<1>1. Base(u[1]) = Base(t[1]) /\ Name(u[1]) = Name(t[1])
  BY QualifiedFacts DEF Name, Respelt
<1>2. LiveArgs(u) = LiveArgs(t) /\ {u[i] : i \in 2 .. Len(u)} = {t[i] : i \in 2 .. Len(t)}
  <2>1. {k \in 2 .. Len(u) : \A j \in 2 .. k : u[j] # "--"} = {k \in 2 .. Len(t) : \A j \in 2 .. k : t[j] # "--"}
    <3>1. \A k \in 2 .. Len(t) : \A j \in 2 .. k : j \in 2 .. Len(t)
      BY <1>0
    <3> QED BY <1>0, <3>1
  <2> QED BY <1>0, <2>1 DEF LiveArgs
<1>3. SearchFlagRisk(u) = SearchFlagRisk(t)
  BY <1>1, <1>2 DEF SearchFlagRisk
<1>4. HasRecursiveForce(u) = HasRecursiveForce(t)
  BY <1>2 DEF HasRecursiveForce
<1>5. u[1] \in SafeRead \union BuildTest => t[1] \in SafeRead \union BuildTest
  BY QualifiedFacts DEF Respelt
<1>6. HeadRisk(u) = HeadRisk(t) \/ (HeadRisk(u) = Medium /\ HeadRisk(t) = Low)
  BY <1>0, <1>1, <1>2, <1>4, <1>5 DEF HeadRisk
<1>7. HeadRisk(u) \in Levels /\ HeadRisk(t) \in Levels
  BY TokensTyped
<1> QED BY <1>3, <1>6, <1>7, LevelsAre

\* And its segment is classified no lower.
LEMMA RespeltRisk ==
  ASSUME NEW S, NEW t, NEW u, Respelt(S, t, u)
  PROVE  ClassifySegment(u) >= ClassifySegment(t)
<1> DEFINE n == Len(t)
<1>0. /\ t \in Seq(S) /\ u \in Seq(S) /\ n \in Nat /\ n > 0 /\ Len(u) = n
      /\ u[1] = Qualified(t[1]) /\ \A k \in 2 .. n : u[k] = t[k]
  BY DEF Respelt
<1>1. PICK f : /\ Peeled(u, f) /\ f[n] \in UpTo(n)
               /\ ClassifySegment(u) =
                        IF f[n].mode # "command" THEN f[n].floor
                        ELSE MaxRisk(f[n].floor, MaxRisk(HeadRisk(From(u, f[n].at)), SearchFlagRisk(From(u, f[n].at))))
  <2> HIDE DEF n
  <2> QED BY <1>0, SegmentRisk
<1>2. PICK g : /\ Peeled(t, g) /\ g[n] \in UpTo(n)
               /\ ClassifySegment(t) =
                        IF g[n].mode # "command" THEN g[n].floor
                        ELSE MaxRisk(g[n].floor, MaxRisk(HeadRisk(From(t, g[n].at)), SearchFlagRisk(From(t, g[n].at))))
  <2> HIDE DEF n
  <2> QED BY <1>0, SegmentRisk DEF n
<1> HIDE DEF n
<1>3. Follows(f[n], g[n], 0)
  <2>1. f[1] = PeelWord(NotPeeled, u[1], 1) /\ g[1] = PeelWord(NotPeeled, t[1], 1)
    <3>1. 1 \in 1 .. n /\ 1 - 1 = 0
      BY <1>0
    <3> QED BY <1>0, <1>1, <1>2, <3>1 DEF Peeled, n
  <2>2. NotPeeled \in Peels /\ NotPeeled.mode = "head" /\ NotPeeled.floor >= NotPeeled.floor
    BY LevelsAre DEF NotPeeled, Peels, Wrappers
  <2>3. f[1] = PeelHead(NotPeeled, t[1], 1) /\ g[1] = PeelHead(NotPeeled, t[1], 1)
    BY <1>0, <2>1, <2>2, QualifiedFacts DEF PeelWord
  <2>4. Follows(PeelHead(NotPeeled, t[1], 1 + 0), PeelHead(NotPeeled, t[1], 1), 0)
    BY <2>2, HeadFollows
  <2>5. Follows(f[0 + 1], g[1], 0)
    BY <2>3, <2>4
  <2>6. \A k \in 2 .. Len(t) : u[0 + k] = t[k]
    BY <1>0 DEF n
  <2>7. Len(u) = 0 + Len(t) /\ 0 + Len(t) = Len(t) /\ Len(t) \in Nat /\ Len(t) > 0
    BY <1>0 DEF n
  <2>8. Follows(f[0 + Len(t)], g[Len(t)], 0)
    BY <1>1, <1>2, <2>5, <2>6, <2>7, Onward
  <2> QED BY <2>7, <2>8 DEF n
<1>4. CASE g[n].mode # "command"
  <2>1. f[n].mode # "command" /\ f[n].floor >= g[n].floor
    BY <1>3, <1>4 DEF Follows
  <2> QED BY <1>1, <1>2, <1>4, <2>1
<1>5. CASE g[n].mode = "command"
  <2> DEFINE at == g[n].at
             tu == From(u, at)
             tt == From(t, at)
  <2>1. f[n].mode = "command" /\ f[n].floor >= g[n].floor /\ f[n].at = at
        /\ at \in 1 .. n /\ f[n].floor \in Levels /\ g[n].floor \in Levels
    BY <1>2, <1>3, <1>5 DEF Follows, UpTo, Peels
  <2>2. HeadRisk(tu) >= HeadRisk(tt) /\ SearchFlagRisk(tu) >= SearchFlagRisk(tt)
    <3> HIDE DEF at
    <3>1. /\ tu \in Seq(S) /\ tt \in Seq(S) /\ Len(tu) = n + 1 - at /\ Len(tt) = n + 1 - at
          /\ \A k \in 1 .. n + 1 - at : tu[k] = u[at + k - 1] /\ tt[k] = t[at + k - 1]
      BY <1>0, <2>1 DEF From, n
    <3>2. SearchFlagRisk(tu) \in Levels /\ HeadRisk(tu) \in Levels
      <4> HIDE DEF tu
      <4> QED BY TokensTyped
    <3> HIDE DEF tu, tt
    <3>3. CASE at = 1
      <4>1. n + 1 - at = n /\ \A k \in 1 .. n : tu[k] = u[k] /\ tt[k] = t[k]
        BY <1>0, <2>1, <3>1, <3>3
      <4>2. 1 \in 1 .. n /\ \A k \in 2 .. n : k \in 1 .. n
        BY <1>0
      <4>3. Respelt(S, tt, tu)
        BY <1>0, <3>1, <4>1, <4>2 DEF Respelt
      <4> QED BY <3>2, <4>3, RespeltTokens, LevelsAre
    <3>4. CASE at # 1
      <4>1. \A k \in 1 .. n + 1 - at : at + k - 1 \in 2 .. n
        BY <1>0, <2>1, <3>4
      <4>2. \A k \in 1 .. n + 1 - at : tu[k] = tt[k]
        BY <1>0, <3>1, <4>1
      <4>3. tu = tt
        BY <3>1, <4>2, SeqEqual
      <4> QED BY <3>2, <4>3, LevelsAre
    <3> QED BY <3>3, <3>4
  <2>3. /\ ClassifySegment(u) = MaxRisk(f[n].floor, MaxRisk(HeadRisk(tu), SearchFlagRisk(tu)))
        /\ ClassifySegment(t) = MaxRisk(g[n].floor, MaxRisk(HeadRisk(tt), SearchFlagRisk(tt)))
    BY <1>1, <1>2, <1>5, <2>1
  <2> HIDE DEF tu, tt
  <2>4. /\ HeadRisk(tu) \in Levels /\ SearchFlagRisk(tu) \in Levels
        /\ HeadRisk(tt) \in Levels /\ SearchFlagRisk(tt) \in Levels
    BY TokensTyped
  <2>5. /\ MaxRisk(HeadRisk(tu), SearchFlagRisk(tu)) >= MaxRisk(HeadRisk(tt), SearchFlagRisk(tt))
        /\ MaxRisk(HeadRisk(tu), SearchFlagRisk(tu)) \in Levels /\ MaxRisk(HeadRisk(tt), SearchFlagRisk(tt)) \in Levels
    BY <2>2, <2>4, MaxRiskGrows, MaxRiskFacts
  <2> QED BY <2>1, <2>3, <2>5, MaxRiskGrows
<1> QED BY <1>4, <1>5

\* A line whose first program is spelt with its path is classified no lower.
LEMMA PathSound == ASSUME line \in Seq(Words) PROVE PathNeverLowers
<1> SUFFICES ASSUME line # <<>> PROVE Classify(<<Qualified(line[1])>> \o Tail(line)) >= Classify(line)
  BY DEF PathNeverLowers
<1> DEFINE S == Words \union {Qualified(line[1])}
           d == <<Qualified(line[1])>> \o Tail(line)
           n == Len(line)
<1>0. line \in Seq(S) /\ n \in Nat /\ n > 0
  BY SeqMonotonic
<1>1. d \in Seq(S) /\ Len(d) = n /\ d[1] = Qualified(line[1]) /\ \A k \in 2 .. n : d[k] = line[k]
  <2>1. Tail(line) \in Seq(S) /\ Len(Tail(line)) = n - 1 /\ \A k \in 1 .. n - 1 : Tail(line)[k] = line[k + 1]
    BY <1>0
  <2>2. <<Qualified(line[1])>> \in Seq(S)
    OBVIOUS
  <2>3. d \in Seq(S) /\ Len(d) = n /\ d[1] = Qualified(line[1])
    BY <1>0, <2>1, <2>2
  <2>4. ASSUME NEW k \in 2 .. n PROVE d[k] = line[k]
    <3>1. k - 1 \in 1 .. n - 1 /\ (k - 1) + 1 = k
      BY <1>0
    <3>2. d[k] = Tail(line)[k - 1]
      BY <1>0, <2>1, <3>1
    <3> QED BY <2>1, <3>1, <3>2
  <2> QED BY <2>3, <2>4
<1> HIDE DEF S, d
<1>2. \A k \in 1 .. n : (d[k] \in Separators <=> line[k] \in Separators) /\ (line[k] \in Substitutions => d[k] \in Substitutions)
  <2>1. \A k \in 1 .. n : k = 1 \/ k \in 2 .. n
    BY <1>0
  <2> QED BY <1>1, <2>1, QualifiedFacts
<1>3. ASSUME NEW i, NEW j, Span(line, i, j)
      PROVE  Span(d, i, j) /\ ClassOf(d, i, j) >= ClassOf(line, i, j)
  <2>0. i \in Nat /\ j \in Nat /\ 1 <= i /\ i <= j /\ j <= n /\ i \in 1 .. n /\ j \in 1 .. n
    BY <1>0, <1>3 DEF Span
  <2>1. Span(d, i, j)
    <3>1. \A k \in i .. j : k \in 1 .. n
      BY <1>0, <2>0
    <3>2. \A k \in i .. j : d[k] \notin Separators
      BY <1>2, <1>3, <3>1 DEF Span
    <3>3. i = 1 \/ (i - 1 \in 1 .. n /\ d[i - 1] \in Separators)
      <4>1. i = 1 \/ (i - 1 \in 1 .. n /\ line[i - 1] \in Separators)
        BY <1>0, <1>3, <2>0 DEF Span
      <4> QED BY <1>2, <4>1
    <3>4. j = n \/ (j + 1 \in 1 .. n /\ d[j + 1] \in Separators)
      <4>1. j = n \/ (j + 1 \in 1 .. n /\ line[j + 1] \in Separators)
        BY <1>0, <1>3, <2>0 DEF Span
      <4> QED BY <1>2, <4>1
    <3> QED BY <1>1, <2>0, <3>2, <3>3, <3>4 DEF Span
  <2> DEFINE t == SubSeq(line, i, j)
             u == SubSeq(d, i, j)
  <2>2. /\ t \in Seq(S) /\ Len(t) = j + 1 - i /\ \A k \in 1 .. j + 1 - i : t[k] = line[i + k - 1]
        /\ ClassOf(line, i, j) >= ClassOf(line, i, j)
    BY <1>0, <1>3, SegmentTyped
  <2>3. /\ u \in Seq(S) /\ Len(u) = j + 1 - i /\ \A k \in 1 .. j + 1 - i : u[k] = d[i + k - 1]
    BY <1>1, <2>1, SegmentTyped
  <2> HIDE DEF t, u, n
  <2>4. CASE i = 1
    <3>1. \A k \in 1 .. j : k \in 1 .. n /\ i + k - 1 = k
      BY <1>0, <2>0, <2>4
    <3>2. j + 1 - i = j /\ 1 \in 1 .. j /\ j > 0 /\ \A k \in 2 .. j : k \in 1 .. j /\ k \in 2 .. n
      BY <1>0, <2>0, <2>4
    <3>3. \A k \in 1 .. j : t[k] = line[k] /\ u[k] = d[k]
      BY <2>2, <2>3, <3>1, <3>2
    <3>4. Respelt(S, t, u)
      BY <1>1, <2>2, <2>3, <3>2, <3>3 DEF Respelt
    <3>5. ClassifySegment(u) >= ClassifySegment(t)
      BY <3>4, RespeltRisk
    <3> QED BY <2>1, <3>5 DEF ClassOf, t, u
  <2>5. CASE i # 1
    <3>1. \A k \in 1 .. j + 1 - i : i + k - 1 \in 2 .. n
      BY <1>0, <2>0, <2>5
    <3>2. \A k \in 1 .. j + 1 - i : u[k] = t[k]
      BY <1>1, <2>2, <2>3, <3>1
    <3>3. u = t
      BY <2>2, <2>3, <3>2, SeqEqual
    <3>4. ClassOf(d, i, j) = ClassOf(line, i, j)
      BY <3>3 DEF ClassOf, t, u
    <3> QED BY <2>1, <2>2, <3>4
  <2> QED BY <2>4, <2>5
<1>4. Classify(d) >= Classify(line)
  BY <1>0, <1>1, <1>2, <1>3, LineCovered
<1> QED BY <1>4 DEF d

-----------------------------------------------------------------------------
\* A segment that begins with a command has nothing to peel.
LEMMA CommandRisk ==
  ASSUME NEW S, NEW t \in Seq(S), t # <<>>, ~ IsPrefixWord(t[1])
  PROVE  ClassifySegment(t) = MaxRisk(Low, MaxRisk(HeadRisk(t), SearchFlagRisk(t)))
<1> DEFINE n == Len(t)
<1>0. n \in Nat /\ n > 0
  OBVIOUS
<1>1. PICK f : /\ Peeled(t, f) /\ f[n] \in UpTo(n)
               /\ ClassifySegment(t) =
                        IF f[n].mode # "command" THEN f[n].floor
                        ELSE MaxRisk(f[n].floor, MaxRisk(HeadRisk(From(t, f[n].at)), SearchFlagRisk(From(t, f[n].at))))
  BY SegmentRisk
<1> HIDE DEF n
<1>2. f[1].mode = "command" /\ f[1].floor = Low /\ f[1].at = 1
  <2>1. f[1] = PeelWord(NotPeeled, t[1], 1)
    <3>1. 1 \in 1 .. n /\ 1 - 1 = 0
      BY <1>0
    <3> QED BY <1>1, <3>1 DEF Peeled, n
  <2>2. NotPeeled \in Peels /\ NotPeeled.mode = "head" /\ NotPeeled.floor = Low
    BY LevelsAre DEF NotPeeled, Peels, Wrappers
  <2>3. f[1] = PeelHead(NotPeeled, t[1], 1)
    BY <2>1, <2>2 DEF PeelWord
  <2> QED BY <2>2, <2>3, HeadTyped
<1>3. f[n] = f[1]
  <2> DEFINE K == {k \in Nat : k < n => f[k + 1] = f[1]}
  <2>1. 0 \in K
    BY <1>0
  <2>2. ASSUME NEW k \in Nat, k \in K PROVE k + 1 \in K
    <3> SUFFICES ASSUME k + 1 < n PROVE f[(k + 1) + 1] = f[1]
      OBVIOUS
    <3>1. k + 2 \in 1 .. n /\ (k + 1) + 1 = k + 2 /\ k + 2 - 1 = k + 1 /\ k < n
      BY <1>0
    <3>2. f[k + 2] = PeelWord(f[k + 1], t[k + 2], k + 2)
      BY <1>1, <3>1 DEF Peeled, n
    <3>3. f[k + 1] = f[1]
      BY <2>2, <3>1
    <3> QED BY <1>2, <3>1, <3>2, <3>3 DEF PeelWord
  <2>3. n - 1 \in K
    <3>1. n - 1 \in Nat
      BY <1>0
    <3> HIDE DEF K
    <3> QED BY <2>1, <2>2, <3>1, NatSet
  <2>4. (n - 1) + 1 = n /\ n - 1 < n
    BY <1>0
  <2> QED BY <2>3, <2>4
<1>4. From(t, 1) = t
  BY DEF From
<1> QED BY <1>1, <1>2, <1>3, <1>4

\* Two arguments that change places leave the class as it is.
LEMMA OrderSound == ASSUME line \in Seq(Words) PROVE OrderIsIrrelevant
<1> SUFFICES ASSUME line # <<>>, line[1] \in Commands,
                    \A i \in 1 .. Len(line) : line[i] \notin Separators \union {"--"},
                    NEW a \in 2 .. Len(line), NEW b \in 2 .. Len(line)
             PROVE  Classify([line EXCEPT ![a] = line[b], ![b] = line[a]]) = Classify(line)
  BY DEF OrderIsIrrelevant
<1> DEFINE d == [line EXCEPT ![a] = line[b], ![b] = line[a]]
           n == Len(line)
           Plain(c) == /\ c \in Seq(Words) /\ Len(c) = n /\ c[1] = line[1]
                       /\ \A i \in 1 .. n : c[i] \notin Separators \union {"--"}
           Args(c) == {c[i] : i \in 2 .. n}
           Class(t) == MaxRisk(Low, MaxRisk(HeadRisk(t), SearchFlagRisk(t)))
<1>0. n \in Nat /\ n > 1 /\ a \in 1 .. n /\ b \in 1 .. n /\ a # 1 /\ b # 1
  OBVIOUS
<1>1. Plain(line)
  OBVIOUS
<1>2. Plain(d) /\ Args(d) = Args(line)
  <2>0. \A i \in 1 .. n : line[i] \in Words
    OBVIOUS
  <2>1. DOMAIN line = 1 .. n
    OBVIOUS
  <2>2. \A i \in 1 .. n : d[i] = IF i = b THEN line[a] ELSE IF i = a THEN line[b] ELSE line[i]
    BY <2>1
  <2>3. d \in Seq(Words) /\ Len(d) = n
    <3>1. [line EXCEPT ![a] = line[b]] \in Seq(Words) /\ Len([line EXCEPT ![a] = line[b]]) = n
      BY <1>0, <2>0, ExceptSeq
    <3> DEFINE e == [line EXCEPT ![a] = line[b]]
    <3>2. [e EXCEPT ![b] = line[a]] \in Seq(Words) /\ Len([e EXCEPT ![b] = line[a]]) = n
      <4> HIDE DEF e
      <4>1. e \in Seq(Words) /\ Len(e) = n
        BY <3>1 DEF e
      <4>2. b \in 1 .. Len(e) /\ line[a] \in Words
        BY <1>0, <2>0, <4>1
      <4> QED BY <4>1, <4>2, ExceptSeq
    <3> QED BY <3>2
  <2> HIDE DEF d, n
  <2>4. d[1] = line[1]
    BY <1>0, <2>2
  <2>5. \A i \in 1 .. n : d[i] \notin Separators \union {"--"}
    BY <1>0, <1>1, <2>2
  <2>6. Args(d) \subseteq Args(line)
    <3>1. \A i \in 2 .. n : \E k \in 2 .. n : d[i] = line[k]
      <4>1. \A i \in 2 .. n : i \in 1 .. n
        OBVIOUS
      <4>2. a \in 2 .. n /\ b \in 2 .. n
        BY DEF n
      <4> QED BY <2>2, <4>1, <4>2
    <3> QED BY <3>1
  <2>7. Args(line) \subseteq Args(d)
    <3>1. \A i \in 2 .. n : \E k \in 2 .. n : line[i] = d[k]
      <4>1. \A i \in 2 .. n : i \in 1 .. n
        OBVIOUS
      <4>2. a \in 2 .. n /\ b \in 2 .. n
        BY DEF n
      <4>3. ASSUME NEW i \in 2 .. n PROVE line[i] = d[IF i = a THEN b ELSE IF i = b THEN a ELSE i]
        BY <2>2, <4>1, <4>2
      <4> QED BY <4>2, <4>3
    <3> QED BY <3>1
  <2> QED BY <2>3, <2>4, <2>5, <2>6, <2>7
<1> HIDE DEF d, n
\* The class of such a line is that of its one segment, by its arguments as a set.
<1>3. ASSUME NEW c, Plain(c)
      PROVE  /\ LiveArgs(c) = Args(c)
             /\ Classify(c) = IF line[1] \in Substitutions \/ Args(c) \intersect Substitutions # {} THEN Critical
                              ELSE WorstOf({Low} \union {Class(c)})
  <2>1. LiveArgs(c) = Args(c)
    <3>1. {k \in 2 .. Len(c) : \A j \in 2 .. k : c[j] # "--"} = 2 .. n
      <4>1. \A k \in 2 .. n : \A j \in 2 .. k : j \in 1 .. n
        BY <1>0
      <4> QED BY <1>3, <4>1
    <3> QED BY <3>1 DEF LiveArgs
  <2>2. Segments(c) = {c}
    <3>0. Len(c) = n /\ c \in Seq(Words) /\ \A i \in 1 .. n : c[i] \notin Separators
      BY <1>3
    <3>1. Span(c, 1, n)
      BY <1>0, <3>0 DEF Span
    <3>2. \A i, j : Span(c, i, j) => i = 1 /\ j = n
      <4> SUFFICES ASSUME NEW i, NEW j, Span(c, i, j) PROVE i = 1 /\ j = n
        OBVIOUS
      <4>1. i \in 1 .. n /\ j \in 1 .. n
        BY <3>0 DEF Span
      <4>2. i - 1 \in 1 .. n => i = 1
        BY <3>0 DEF Span
      <4>3. j + 1 \in 1 .. n => j = n
        BY <3>0 DEF Span
      <4> QED BY <1>0, <4>1, <4>2, <4>3
    <3>3. SubSeq(c, 1, n) = c
      BY <3>0
    <3>4. c \in Segments(c)
      BY <3>1, <3>3, SegmentsAre
    <3>5. ASSUME NEW seg \in Segments(c) PROVE seg = c
      <4>1. PICK i, j : Span(c, i, j) /\ seg = SubSeq(c, i, j)
        BY SegmentsAre
      <4> QED BY <3>2, <3>3, <4>1
    <3> QED BY <3>4, <3>5
  <2>3. ClassifySegment(c) = Class(c)
    <3>1. ~ IsPrefixWord(c[1])
      <4>1. c[1] \in Commands
        BY <1>3
      <4> QED BY <4>1 DEF Commands, IsPrefixWord, ShellKeywords, Assignments, Redirections, Base, Wrappers
    <3>2. c \in Seq(Words) /\ c # <<>>
      BY <1>0, <1>3
    <3> QED BY <3>1, <3>2, CommandRisk
  <2>4. (\E i \in 1 .. Len(c) : c[i] \in Substitutions) <=> line[1] \in Substitutions \/ Args(c) \intersect Substitutions # {}
    <3>1. /\ Len(c) = n /\ c[1] = line[1] /\ 1 \in 1 .. n
          /\ \A i \in 1 .. n : i = 1 \/ i \in 2 .. n
          /\ \A i \in 2 .. n : i \in 1 .. n
      BY <1>0, <1>3
    <3> QED BY <3>1
  <2> HIDE DEF Class
  <2>5. {ClassifySegment(seg) : seg \in Segments(c)} = {Class(c)}
    BY <2>2, <2>3
  <2> QED BY <2>1, <2>4, <2>5 DEF Classify
<1>4. Class(d) = Class(line)
  <2>1. LiveArgs(d) = LiveArgs(line) /\ Len(d) = Len(line) /\ d[1] = line[1]
    BY <1>1, <1>2, <1>3 DEF n
  <2>2. HasRecursiveForce(d) = HasRecursiveForce(line)
    BY <2>1 DEF HasRecursiveForce
  <2>3. {d[i] : i \in 2 .. Len(d)} = {line[i] : i \in 2 .. Len(line)}
    BY <1>2, <2>1 DEF n
  <2>4. HeadRisk(d) = HeadRisk(line)
    BY <2>1, <2>2, <2>3 DEF HeadRisk
  <2>5. SearchFlagRisk(d) = SearchFlagRisk(line)
    BY <2>1 DEF SearchFlagRisk
  <2> QED BY <2>4, <2>5
<1>5. Classify(d) = Classify(line)
  <2> HIDE DEF Plain, Args, Class
  <2> QED BY <1>1, <1>2, <1>3, <1>4
<1> QED BY <1>5 DEF d

\* The invariant of the line.
LineInv == line \in Seq(Words)

\* It holds at first.
LEMMA InitLine == LineInit => LineInv
BY DEF LineInit, LineInv

\* A word more keeps it.
LEMMA NextLine == LineInv /\ [LineNext]_line => LineInv'
BY DEF LineInv, LineNext, TypeWord

\* It makes the class sound.
LEMMA LineIsSound == LineInv => LineTypeOK /\ RiskSound
<1> SUFFICES ASSUME LineInv PROVE LineTypeOK /\ RiskSound
  OBVIOUS
<1>1. line \in Seq(Words)
  BY DEF LineInv
<1>2. Classify(line) \in Levels
  BY <1>1, ClassesTyped
<1> QED BY <1>1, <1>2, PrefixSound, CompanySound, PathSound, OrderSound DEF LineTypeOK, RiskSound

\* What holds of 0 and goes from each number to the next up to n holds up to n.
LEMMA NatUpTo ==
  ASSUME NEW n \in Nat, NEW S, 0 \in S, \A k \in 1 .. n : k - 1 \in S => k \in S
  PROVE  0 .. n \subseteq S
<1> DEFINE R == {k \in Nat : k <= n => k \in S}
<1>1. 0 \in R
  OBVIOUS
<1>2. ASSUME NEW k \in Nat, k \in R PROVE k + 1 \in R
  <2> SUFFICES ASSUME k + 1 <= n PROVE k + 1 \in S
    OBVIOUS
  <2>1. k \in S /\ k + 1 \in 1 .. n /\ (k + 1) - 1 = k
    BY <1>2
  <2> QED BY <2>1
<1>3. Nat \subseteq R
  <2> HIDE DEF R
  <2> QED BY <1>1, <1>2, NatSet
<1> QED BY <1>3

\* A function that takes the steps wherever they lead.
LEMMA StepsTaken ==
  ASSUME NEW V, NEW v0, NEW n, NEW step, Steps(V, v0, n, step)
  PROVE  \E f : /\ f = [k \in 0 .. n |-> f[k]] /\ f[0] = v0
                /\ \A k \in 1 .. n : f[k] = step[k][f[k - 1]]
                /\ \A k \in 0 .. n : f[k] \in V[k]
<1>1. PICK f : f = [k \in 0 .. n |-> f[k]] /\ Takes(V, v0, n, step, f)
  BY StepsExist
<1>2. \A k \in 0 .. n : f[k] \in V[k]
  BY <1>1, StepsReach
<1>3. ASSUME NEW k \in 1 .. n PROVE f[k] = step[k][f[k - 1]]
  <2>1. k - 1 \in 0 .. n
    BY DEF Steps
  <2> QED BY <1>1, <1>2, <2>1 DEF Takes
<1> QED BY <1>1, <1>2, <1>3 DEF Takes

-----------------------------------------------------------------------------
(* Keeping some elements of a sequence.                                    *)

\* p is what is kept of s at the positions in P, after each position.
Picks(s, P, p) ==
    /\ p[0] = <<>>
    /\ \A i \in 1 .. Len(s) : p[i] = IF i \in P THEN Append(p[i - 1], s[i]) ELSE p[i - 1]

\* Picked goes through s and keeps what it meets at the positions in P.
LEMMA Picking ==
  ASSUME NEW T, NEW s \in Seq(T), NEW P
  PROVE  \E p : /\ Picks(s, P, p) /\ Picked(s, P) = p[Len(s)]
                /\ \A i \in 0 .. Len(s) : p[i] \in Seq(T)
<1> DEFINE n == Len(s)
           Is(f) == f = [i \in 0 .. n |->
                            IF i = 0 THEN <<>> ELSE IF i \in P THEN Append(f[i - 1], s[i]) ELSE f[i - 1]]
           picked == CHOOSE f : Is(f)
           V == [i \in 0 .. n |-> Seq(T)]
           step == [i \in 1 .. n |-> [q \in Seq(T) |-> IF i \in P THEN Append(q, s[i]) ELSE q]]
<1>0. n \in Nat /\ 0 \in 0 .. n
  OBVIOUS
<1>e. <<>> \in Seq(T)
  OBVIOUS
<1>1. \A i \in 0 .. n : V[i] = Seq(T)
  OBVIOUS
<1>2. \A i \in 1 .. n : \A q \in Seq(T) : step[i][q] = IF i \in P THEN Append(q, s[i]) ELSE q
  OBVIOUS
<1> HIDE DEF V, step
<1>3. Steps(V, <<>>, n, step)
  <2>1. ASSUME NEW i \in 1 .. n, NEW q \in V[i - 1] PROVE step[i][q] \in V[i]
    <3>1. i - 1 \in 0 .. n /\ i \in 0 .. n /\ s[i] \in T
      BY <1>0
    <3>2. q \in Seq(T) /\ V[i] = Seq(T)
      BY <1>1, <3>1
    <3>3. Append(q, s[i]) \in Seq(T)
      BY <3>1, <3>2
    <3> QED BY <1>2, <3>2, <3>3
  <2>2. <<>> \in V[0]
    BY <1>0, <1>1, <1>e
  <2> QED BY <1>0, <2>1, <2>2 DEF Steps
<1>4. PICK f : /\ f = [i \in 0 .. n |-> f[i]] /\ f[0] = <<>>
               /\ \A i \in 1 .. n : f[i] = step[i][f[i - 1]]
               /\ \A i \in 0 .. n : f[i] \in V[i]
  BY <1>3, StepsTaken
<1>5. \A i \in 0 .. n : f[i] \in Seq(T)
  BY <1>1, <1>4
<1>6. \A i \in 1 .. n : f[i] = IF i \in P THEN Append(f[i - 1], s[i]) ELSE f[i - 1]
  <2> SUFFICES ASSUME NEW i \in 1 .. n
               PROVE  f[i] = IF i \in P THEN Append(f[i - 1], s[i]) ELSE f[i - 1]
    OBVIOUS
  <2>1. i - 1 \in 0 .. n
    BY <1>0
  <2>2. f[i - 1] \in Seq(T)
    BY <1>5, <2>1
  <2> QED BY <1>2, <1>4, <2>2
<1>7. Is(f)
  <2>1. ASSUME NEW i \in 0 .. n
        PROVE  f[i] = IF i = 0 THEN <<>> ELSE IF i \in P THEN Append(f[i - 1], s[i]) ELSE f[i - 1]
    <3>1. i = 0 \/ i \in 1 .. n
      BY <1>0
    <3> QED BY <1>4, <1>6, <3>1
  <2>2. f = [i \in 0 .. n |-> IF i = 0 THEN <<>> ELSE IF i \in P THEN Append(f[i - 1], s[i]) ELSE f[i - 1]]
    BY <1>4, <2>1
  <2> QED BY <2>2
<1>8. Is(picked)
  <2> HIDE DEF Is
  <2> QED BY <1>7
<1>9. picked[0] = <<>> /\ \A i \in 1 .. n : picked[i] = IF i \in P THEN Append(picked[i - 1], s[i]) ELSE picked[i - 1]
  <2>1. ASSUME NEW i \in 0 .. n
        PROVE  picked[i] = IF i = 0 THEN <<>>
                           ELSE IF i \in P THEN Append(picked[i - 1], s[i]) ELSE picked[i - 1]
    <3> HIDE DEF picked
    <3> QED BY <1>8
  <2>2. 0 \in 0 .. n /\ \A i \in 1 .. n : i \in 0 .. n /\ i # 0
    BY <1>0
  <2> HIDE DEF picked
  <2> QED BY <2>1, <2>2
<1>10. Picked(s, P) = picked[n]
  BY DEF Picked
<1> HIDE DEF picked
<1>11. \A i \in 0 .. n : picked[i] \in Seq(T)
  <2> DEFINE S == {i \in 0 .. n : picked[i] \in Seq(T)}
  <2>1. 0 \in S
    BY <1>0, <1>9, <1>e
  <2>2. ASSUME NEW i \in 1 .. n, i - 1 \in S PROVE i \in S
    <3>1. s[i] \in T /\ picked[i - 1] \in Seq(T) /\ i \in 0 .. n
      BY <1>0, <2>2
    <3>2. Append(picked[i - 1], s[i]) \in Seq(T)
      BY <3>1
    <3> QED BY <1>9, <3>1, <3>2
  <2>3. 0 .. n \subseteq S
    <3> HIDE DEF S
    <3> QED BY <1>0, <2>1, <2>2, NatUpTo
  <2> QED BY <2>3
<1> QED BY <1>9, <1>10, <1>11 DEF Picks

\* What is kept depends on what there is and on what is to be kept.
LEMMA PicksAgree ==
  ASSUME NEW s, NEW t, NEW P, NEW Q, NEW p, NEW q, NEW m \in Nat,
         Len(s) \in Nat, Len(t) \in Nat, m <= Len(s), m <= Len(t), Picks(s, P, p), Picks(t, Q, q),
         \A i \in 1 .. m : s[i] = t[i] /\ (i \in P <=> i \in Q)
  PROVE  \A i \in 0 .. m : p[i] = q[i]
<1> DEFINE S == {i \in 0 .. m : p[i] = q[i]}
<1>1. 0 \in S
  BY DEF Picks
<1>2. ASSUME NEW i \in 1 .. m, i - 1 \in S PROVE i \in S
  <2>1. i \in 1 .. Len(s) /\ i \in 1 .. Len(t) /\ p[i - 1] = q[i - 1] /\ i \in 0 .. m
    BY <1>2
  <2>2. p[i] = IF i \in P THEN Append(p[i - 1], s[i]) ELSE p[i - 1]
    BY <2>1 DEF Picks
  <2>3. q[i] = IF i \in Q THEN Append(q[i - 1], t[i]) ELSE q[i - 1]
    BY <2>1 DEF Picks
  <2> QED BY <2>1, <2>2, <2>3
<1>3. 0 .. m \subseteq S
  <2> HIDE DEF S
  <2> QED BY <1>1, <1>2, NatUpTo
<1> QED BY <1>3

\* One element more.
LEMMA PickedMore ==
  ASSUME NEW T, NEW s \in Seq(T), NEW x \in T, NEW P, NEW Q, \A i \in 1 .. Len(s) : i \in P <=> i \in Q
  PROVE  Picked(Append(s, x), P) =
             IF Len(s) + 1 \in P THEN Append(Picked(s, Q), x) ELSE Picked(s, Q)
<1> DEFINE t == Append(s, x)
<1>1. t \in Seq(T) /\ Len(t) = Len(s) + 1 /\ t[Len(s) + 1] = x /\ \A i \in 1 .. Len(s) : t[i] = s[i]
  OBVIOUS
<1>0. Len(s) \in Nat /\ (Len(s) + 1) - 1 = Len(s)
  OBVIOUS
<1> HIDE DEF t
<1>2. PICK p : Picks(t, P, p) /\ Picked(t, P) = p[Len(t)]
  BY <1>1, Picking
<1>3. PICK q : Picks(s, Q, q) /\ Picked(s, Q) = q[Len(s)]
  BY Picking
<1>4. p[Len(s)] = q[Len(s)]
  <2>1. \A i \in 0 .. Len(s) : p[i] = q[i]
    BY <1>0, <1>1, <1>2, <1>3, PicksAgree
  <2> QED BY <1>0, <2>1
<1>5. Len(s) + 1 \in 1 .. Len(t)
  BY <1>0, <1>1
<1>6. p[Len(s) + 1] = IF Len(s) + 1 \in P THEN Append(p[Len(s)], x) ELSE p[Len(s)]
  BY <1>0, <1>1, <1>2, <1>5 DEF Picks
<1> QED BY <1>1, <1>2, <1>3, <1>4, <1>6 DEF t

\* One element more is kept, unless it is to be left out.
LEMMA OmittingMore ==
  ASSUME NEW T, NEW s \in Seq(T), NEW x \in T, NEW S
  PROVE  Omitting(Append(s, x), S) = IF x \in S THEN Omitting(s, S) ELSE Append(Omitting(s, S), x)
<1> DEFINE t == Append(s, x)
           P == {i \in DOMAIN t : t[i] \notin S}
           Q == {i \in DOMAIN s : s[i] \notin S}
<1>1. t \in Seq(T) /\ Len(t) = Len(s) + 1 /\ t[Len(s) + 1] = x /\ \A i \in 1 .. Len(s) : t[i] = s[i]
  OBVIOUS
<1>0. Len(s) \in Nat
  OBVIOUS
<1>2. \A i : i \in P <=> i \in 1 .. Len(t) /\ t[i] \notin S
  <2>1. DOMAIN t = 1 .. Len(t)
    BY <1>1
  <2> QED BY <2>1
<1>3. \A i : i \in Q <=> i \in 1 .. Len(s) /\ s[i] \notin S
  <2>1. DOMAIN s = 1 .. Len(s)
    OBVIOUS
  <2> QED BY <2>1
<1>4. Omitting(t, S) = Picked(t, P) /\ Omitting(s, S) = Picked(s, Q)
  BY DEF Omitting
<1> HIDE DEF P, Q
<1>5. \A i \in 1 .. Len(s) : i \in P <=> i \in Q
  <2> HIDE DEF t
  <2> QED BY <1>0, <1>1, <1>2, <1>3
<1>6. Len(s) + 1 \in P <=> x \notin S
  <2> HIDE DEF t
  <2> QED BY <1>0, <1>1, <1>2
<1>7. Picked(t, P) = IF Len(s) + 1 \in P THEN Append(Picked(s, Q), x) ELSE Picked(s, Q)
  BY <1>5, PickedMore
<1> HIDE DEF t
<1>8. Omitting(t, S) = IF x \in S THEN Omitting(s, S) ELSE Append(Omitting(s, S), x)
  BY <1>4, <1>6, <1>7
<1> QED BY <1>8 DEF t

\* What is picked is made of what there was.
LEMMA PickedTyped ==
  ASSUME NEW T, NEW s \in Seq(T), NEW P
  PROVE  Picked(s, P) \in Seq(T)
<1>1. PICK p : Picked(s, P) = p[Len(s)] /\ \A i \in 0 .. Len(s) : p[i] \in Seq(T)
  BY Picking
<1> QED BY <1>1

\* There is nothing to pick from nothing.
LEMMA PickedNone == \A P : Picked(<<>>, P) = <<>>
<1> SUFFICES ASSUME NEW P PROVE Picked(<<>>, P) = <<>>
  OBVIOUS
<1>1. <<>> \in Seq({}) /\ Len(<<>>) = 0
  OBVIOUS
<1>2. PICK p : Picks(<<>>, P, p) /\ Picked(<<>>, P) = p[Len(<<>>)]
  BY <1>1, Picking
<1> QED BY <1>1, <1>2 DEF Picks

\* There is nothing to leave out of nothing.
LEMMA OmittingNone == \A S : Omitting(<<>>, S) = <<>>
BY PickedNone DEF Omitting

\* What is not left out is made of what there was.
LEMMA OmittingTyped ==
  ASSUME NEW T, NEW s \in Seq(T), NEW S
  PROVE  Omitting(s, S) \in Seq(T)
BY PickedTyped DEF Omitting

-----------------------------------------------------------------------------
(* Joining the members of a sequence of sequences.                         *)

\* f is what the first members of ss make, one after the other.
Joins(ss, f) == f[0] = <<>> /\ \A i \in 1 .. Len(ss) : f[i] = f[i - 1] \o ss[i]

\* FlattenSeq joins the sequences one after the other.
LEMMA Joining ==
  ASSUME NEW T, NEW ss \in Seq(Seq(T))
  PROVE  \E f : /\ Joins(ss, f) /\ FlattenSeq(ss) = f[Len(ss)]
                /\ \A i \in 0 .. Len(ss) : f[i] \in Seq(T)
<1> DEFINE n == Len(ss)
           Is(f) == f = [i \in 1 .. n |-> IF i = 1 THEN ss[i] ELSE f[i - 1] \o ss[i]]
           flatten == CHOOSE f : Is(f)
           V == [i \in 0 .. n |-> Seq(T)]
           step == [i \in 1 .. n |-> [q \in Seq(T) |-> q \o ss[i]]]
<1>0. n \in Nat /\ 0 \in 0 .. n
  OBVIOUS
<1>e. <<>> \in Seq(T) /\ \A q \in Seq(T) : <<>> \o q = q
  OBVIOUS
<1>m. \A i \in 1 .. n : ss[i] \in Seq(T) /\ i \in 0 .. n /\ i - 1 \in 0 .. n
  BY <1>0
<1>1. \A i \in 0 .. n : V[i] = Seq(T)
  OBVIOUS
<1>2. \A i \in 1 .. n : \A q \in Seq(T) : step[i][q] = q \o ss[i]
  OBVIOUS
<1> HIDE DEF V, step
<1>3. Steps(V, <<>>, n, step)
  <2>1. ASSUME NEW i \in 1 .. n, NEW q \in V[i - 1] PROVE step[i][q] \in V[i]
    <3>1. q \in Seq(T) /\ V[i] = Seq(T) /\ ss[i] \in Seq(T)
      BY <1>1, <1>m
    <3>2. q \o ss[i] \in Seq(T)
      BY <3>1
    <3> QED BY <1>2, <3>1, <3>2
  <2>2. <<>> \in V[0]
    BY <1>0, <1>1, <1>e
  <2> QED BY <1>0, <2>1, <2>2 DEF Steps
<1>4. PICK f : /\ f = [i \in 0 .. n |-> f[i]] /\ f[0] = <<>>
               /\ \A i \in 1 .. n : f[i] = step[i][f[i - 1]]
               /\ \A i \in 0 .. n : f[i] \in V[i]
  BY <1>3, StepsTaken
<1>5. \A i \in 0 .. n : f[i] \in Seq(T)
  BY <1>1, <1>4
<1>6. \A i \in 1 .. n : f[i] = f[i - 1] \o ss[i]
  BY <1>2, <1>4, <1>5, <1>m
<1>7. Is([i \in 1 .. n |-> f[i]])
  <2> DEFINE g == [i \in 1 .. n |-> f[i]]
  <2>1. \A i \in 1 .. n : g[i] = f[i]
    OBVIOUS
  <2>2. ASSUME NEW i \in 1 .. n PROVE f[i] = IF i = 1 THEN ss[i] ELSE g[i - 1] \o ss[i]
    <3> HIDE DEF g
    <3>1. CASE i = 1
      <4>1. f[1] = f[0] \o ss[1] /\ ss[1] \in Seq(T)
        <5>1. f[i] = f[i - 1] \o ss[i]
          BY <1>6, Zenon
        <5>2. i - 1 = 0
          BY <3>1
        <5> QED BY <1>m, <3>1, <5>1, <5>2
      <4> QED BY <1>4, <1>e, <3>1, <4>1
    <3>2. CASE i # 1
      <4>1. i - 1 \in 1 .. n
        BY <1>0, <3>2
      <4>2. g[i - 1] = f[i - 1]
        BY <2>1, <4>1
      <4> QED BY <1>6, <3>2, <4>2
    <3> QED BY <3>1, <3>2
  <2> QED BY <2>2
<1>8. Is(flatten)
  <2> HIDE DEF Is
  <2> QED BY <1>7
<1>9. \A i \in 1 .. n : flatten[i] = IF i = 1 THEN ss[i] ELSE flatten[i - 1] \o ss[i]
  <2> HIDE DEF flatten
  <2> QED BY <1>8
<1>10. FlattenSeq(ss) = IF n = 0 THEN ss ELSE flatten[n]
  BY DEF FlattenSeq
<1> HIDE DEF flatten
<1>11. \A i \in 0 .. n : i = 0 \/ flatten[i] = f[i]
  <2> DEFINE S == {i \in 0 .. n : i = 0 \/ flatten[i] = f[i]}
  <2>1. 0 \in S
    BY <1>0
  <2>2. ASSUME NEW i \in 1 .. n, i - 1 \in S PROVE i \in S
    <3>1. CASE i = 1
      <4>1. f[i] = f[i - 1] \o ss[i]
        BY <1>6, Zenon
      <4>2. f[i - 1] = <<>> /\ ss[i] \in Seq(T) /\ i \in 0 .. n
        BY <1>4, <1>m, <3>1
      <4>3. f[i] = ss[i]
        BY <1>e, <4>1, <4>2
      <4>4. flatten[i] = ss[i]
        BY <1>9, <3>1, Zenon
      <4> QED BY <4>2, <4>3, <4>4
    <3>2. CASE i # 1
      <4>1. f[i] = f[i - 1] \o ss[i]
        BY <1>6, Zenon
      <4>2. flatten[i] = flatten[i - 1] \o ss[i]
        BY <1>9, <3>2, Zenon
      <4>3. flatten[i - 1] = f[i - 1] /\ i \in 0 .. n
        BY <1>m, <2>2, <3>2
      <4> QED BY <4>1, <4>2, <4>3
    <3> QED BY <3>1, <3>2
  <2>3. 0 .. n \subseteq S
    <3> HIDE DEF S
    <3> QED BY <1>0, <2>1, <2>2, NatUpTo
  <2> QED BY <2>3
<1>12. FlattenSeq(ss) = f[n]
  <2>1. CASE n = 0
    <3>1. ss = <<>>
      BY <2>1
    <3> QED BY <1>4, <1>10, <2>1, <3>1
  <2>2. CASE n # 0
    <3>1. n \in 0 .. n
      BY <1>0
    <3> QED BY <1>10, <1>11, <2>2, <3>1
  <2> QED BY <2>1, <2>2
<1> QED BY <1>4, <1>5, <1>6, <1>12 DEF Joins

\* A member more makes more.
LEMMA JoinedMore ==
  ASSUME NEW T, NEW ss \in Seq(Seq(T)), NEW x \in Seq(T)
  PROVE  FlattenSeq(Append(ss, x)) = FlattenSeq(ss) \o x
<1> DEFINE tt == Append(ss, x)
           n == Len(ss)
<1>1. tt \in Seq(Seq(T)) /\ Len(tt) = n + 1 /\ tt[n + 1] = x /\ \A i \in 1 .. n : tt[i] = ss[i]
  OBVIOUS
<1>0. n \in Nat /\ (n + 1) - 1 = n /\ n + 1 \in 1 .. n + 1
  OBVIOUS
<1> HIDE DEF tt
<1>2. PICK f : Joins(ss, f) /\ FlattenSeq(ss) = f[Len(ss)]
  BY Joining
<1>3. PICK g : Joins(tt, g) /\ FlattenSeq(tt) = g[Len(tt)]
  BY <1>1, Joining
<1> DEFINE S == {i \in 0 .. n : g[i] = f[i]}
<1>4. 0 \in S
  BY <1>0, <1>2, <1>3 DEF Joins
<1>5. ASSUME NEW i \in 1 .. n, i - 1 \in S PROVE i \in S
  <2>1. f[i] = f[i - 1] \o ss[i]
    BY <1>2, Zenon DEF Joins
  <2>2. i \in 1 .. Len(tt) /\ tt[i] = ss[i] /\ i \in 0 .. n
    BY <1>0, <1>1
  <2>3. g[i] = g[i - 1] \o tt[i]
    BY <1>3, <2>2, Zenon DEF Joins
  <2> QED BY <1>5, <2>1, <2>2, <2>3
<1>6. 0 .. n \subseteq S
  <2> HIDE DEF S
  <2> QED BY <1>0, <1>4, <1>5, NatUpTo
<1>7. g[n] = f[n]
  BY <1>0, <1>6
<1>8. g[n + 1] = g[n] \o x
  <2>1. n + 1 \in 1 .. Len(tt) /\ tt[n + 1] = x
    BY <1>0, <1>1
  <2>2. g[n + 1] = g[(n + 1) - 1] \o tt[n + 1]
    BY <1>3, <2>1, Zenon DEF Joins
  <2> QED BY <1>0, <2>1, <2>2
<1> QED BY <1>1, <1>2, <1>3, <1>7, <1>8 DEF tt

\* What is joined is made of what the sequences are made of.
LEMMA JoinedTyped ==
  ASSUME NEW T, NEW ss \in Seq(Seq(T))
  PROVE  FlattenSeq(ss) \in Seq(T)
<1>1. PICK f : FlattenSeq(ss) = f[Len(ss)] /\ \A i \in 0 .. Len(ss) : f[i] \in Seq(T)
  BY Joining
<1> QED BY <1>1

\* No sequences join to an empty one.
LEMMA JoinedNone == FlattenSeq(<<>>) = <<>>
BY DEF FlattenSeq

\* A sequence that is not empty ends with its last element.
LEMMA FrontAndLast ==
  ASSUME NEW T, NEW s \in Seq(T), s # <<>>
  PROVE  /\ Front(s) \in Seq(T) /\ Last(s) \in T /\ s = Append(Front(s), Last(s))
         /\ Len(Front(s)) = Len(s) - 1 /\ \A i \in 1 .. Len(s) - 1 : Front(s)[i] = s[i]
<1>1. Len(s) \in Nat /\ Len(s) > 0
  OBVIOUS
<1>2. /\ Front(s) \in Seq(T) /\ Len(Front(s)) = Len(s) - 1
      /\ \A i \in 1 .. Len(s) - 1 : Front(s)[i] = s[i]
  <2> DEFINE n == Len(s) - 1
  <2>1. n \in Nat /\ n <= Len(s)
    BY <1>1
  <2> HIDE DEF n
  <2>2. /\ SubSeq(s, 1, n) \in Seq(T) /\ Len(SubSeq(s, 1, n)) = n
        /\ \A i \in 1 .. n : SubSeq(s, 1, n)[i] = s[i]
    BY <2>1
  <2> QED BY <2>2 DEF Front, n
<1>3. Last(s) \in T
  BY <1>1 DEF Last
<1> DEFINE a == Append(Front(s), Last(s))
<1>4. a \in Seq(T) /\ Len(a) = Len(s) /\ \A i \in 1 .. Len(s) : a[i] = s[i]
  <2>1. /\ a \in Seq(T) /\ Len(a) = Len(Front(s)) + 1 /\ a[Len(Front(s)) + 1] = Last(s)
        /\ \A i \in 1 .. Len(Front(s)) : a[i] = Front(s)[i]
    BY <1>2, <1>3
  <2>2. Last(s) = s[Len(s)] /\ (Len(s) - 1) + 1 = Len(s)
    BY <1>1 DEF Last
  <2> HIDE DEF a
  <2>3. ASSUME NEW i \in 1 .. Len(s) PROVE a[i] = s[i]
    <3>1. CASE i = Len(s)
      BY <1>2, <2>1, <2>2, <3>1
    <3>2. CASE i # Len(s)
      <4>1. i \in 1 .. Len(s) - 1
        BY <1>1, <3>2
      <4> QED BY <1>2, <2>1, <4>1
    <3> QED BY <3>1, <3>2
  <2> QED BY <1>2, <2>1, <2>2, <2>3
<1>5. a = s
  <2> HIDE DEF a
  <2> QED BY <1>4
<1> QED BY <1>2, <1>3, <1>5

-----------------------------------------------------------------------------
(* The goal.                                                               *)

\* The pieces after one word more.
WithWord(q, t, cuts, i) ==
    IF i \in cuts THEN q
    ELSE IF i = 1 \/ (i - 1) \in cuts THEN Append(q, <<t[i]>>)
    ELSE Append(Front(q), Append(Last(q), t[i]))

\* p is the pieces of t after each word.
Splits(t, cuts, p) == p[0] = <<>> /\ \A i \in 1 .. Len(t) : p[i] = WithWord(p[i - 1], t, cuts, i)

\* Pieces of words of T after i words, the last of them under way if that is no cut.
SomePieces(T, cuts, i) == {q \in Seq(Seq(T) \ {<<>>}) : i > 0 /\ i \notin cuts => q # <<>>}

\* What Append makes, in the forms the steps below need.
LEMMA AppendFacts ==
  ASSUME NEW S, NEW s \in Seq(S), NEW x \in S
  PROVE  /\ Append(s, x) \in Seq(S) /\ Append(s, x) # <<>> /\ Len(Append(s, x)) = Len(s) + 1
         /\ Append(s, x)[Len(s) + 1] = x /\ \A i \in 1 .. Len(s) : Append(s, x)[i] = s[i]
OBVIOUS

\* A piece one word longer is a piece.
LEMMA AppendPiece ==
  ASSUME NEW S, NEW s \in Seq(S), NEW x \in S
  PROVE  Append(s, x) \in Seq(S) /\ Append(s, x) # <<>> /\ Append(s, x) \in Seq(S) \ {<<>>}
BY AppendFacts

\* A piece is never empty.
LEMMA WordTaken ==
  ASSUME NEW T, NEW t \in Seq(T), NEW cuts, NEW i \in 1 .. Len(t), NEW q \in SomePieces(T, cuts, i - 1)
  PROVE  WithWord(q, t, cuts, i) \in SomePieces(T, cuts, i)
<1> DEFINE P == Seq(T) \ {<<>>}
<1>1. q \in Seq(P) /\ t[i] \in T /\ i \in Nat /\ i > 0
  BY DEF SomePieces
<1>2. CASE i \in cuts
  BY <1>1, <1>2 DEF WithWord, SomePieces
<1>3. CASE i \notin cuts /\ (i = 1 \/ (i - 1) \in cuts)
  <2>1. <<t[i]>> \in P
    BY <1>1
  <2>2. WithWord(q, t, cuts, i) = Append(q, <<t[i]>>)
    BY <1>3 DEF WithWord
  <2> HIDE DEF P
  <2>3. Append(q, <<t[i]>>) \in Seq(P) /\ Append(q, <<t[i]>>) # <<>>
    BY <1>1, <2>1
  <2> QED BY <2>2, <2>3 DEF P, SomePieces
<1>4. CASE i \notin cuts /\ ~ (i = 1 \/ (i - 1) \in cuts)
  <2>1. q # <<>>
    BY <1>1, <1>4 DEF SomePieces
  <2>2. WithWord(q, t, cuts, i) = Append(Front(q), Append(Last(q), t[i]))
    BY <1>4 DEF WithWord
  <2>3. Front(q) \in Seq(P) /\ Last(q) \in P
    <3> HIDE DEF P
    <3> QED BY <1>1, <2>1, FrontAndLast
  <2>4. Append(Last(q), t[i]) \in P
    <3>1. Last(q) \in Seq(T)
      BY <2>3
    <3> QED BY <1>1, <3>1, AppendPiece, Zenon
  <2> HIDE DEF P
  <2>5. Append(Front(q), Append(Last(q), t[i])) \in Seq(P) /\ Append(Front(q), Append(Last(q), t[i])) # <<>>
    BY <2>3, <2>4, AppendPiece, Zenon
  <2> QED BY <2>2, <2>5 DEF P, SomePieces
<1> QED BY <1>2, <1>3, <1>4

\* Pieces goes through the words and closes a piece at each cut.
LEMMA Splitting ==
  ASSUME NEW T, NEW t \in Seq(T), NEW cuts
  PROVE  \E p : /\ Splits(t, cuts, p) /\ Pieces(t, cuts) = p[Len(t)]
                /\ \A i \in 0 .. Len(t) : p[i] \in SomePieces(T, cuts, i)
<1> DEFINE n == Len(t)
           Is(f) == f = [i \in 0 .. n |->
                            IF i = 0 THEN <<>>
                            ELSE IF i \in cuts THEN f[i - 1]
                            ELSE IF i = 1 \/ (i - 1) \in cuts THEN Append(f[i - 1], <<t[i]>>)
                            ELSE Append(Front(f[i - 1]), Append(Last(f[i - 1]), t[i]))]
           pieces == CHOOSE f : Is(f)
           V == [i \in 0 .. n |-> SomePieces(T, cuts, i)]
           step == [i \in 1 .. n |-> [q \in SomePieces(T, cuts, i - 1) |-> WithWord(q, t, cuts, i)]]
<1>0. n \in Nat /\ 0 \in 0 .. n
  OBVIOUS
<1>e. <<>> \in SomePieces(T, cuts, 0)
  BY DEF SomePieces
<1>m. \A i \in 1 .. n : i \in 0 .. n /\ i - 1 \in 0 .. n
  BY <1>0
<1>1. \A i \in 0 .. n : V[i] = SomePieces(T, cuts, i)
  OBVIOUS
<1>2. \A i \in 1 .. n : \A q \in SomePieces(T, cuts, i - 1) : step[i][q] = WithWord(q, t, cuts, i)
  OBVIOUS
<1> HIDE DEF V, step
<1>3. Steps(V, <<>>, n, step)
  <2>1. ASSUME NEW i \in 1 .. n, NEW q \in V[i - 1] PROVE step[i][q] \in V[i]
    <3>1. q \in SomePieces(T, cuts, i - 1) /\ V[i] = SomePieces(T, cuts, i)
      BY <1>1, <1>m
    <3>2. WithWord(q, t, cuts, i) \in SomePieces(T, cuts, i)
      BY <3>1, WordTaken
    <3> QED BY <1>2, <3>1, <3>2
  <2>2. <<>> \in V[0]
    BY <1>0, <1>1, <1>e
  <2> QED BY <1>0, <2>1, <2>2 DEF Steps
<1>4. PICK f : /\ f = [i \in 0 .. n |-> f[i]] /\ f[0] = <<>>
               /\ \A i \in 1 .. n : f[i] = step[i][f[i - 1]]
               /\ \A i \in 0 .. n : f[i] \in V[i]
  BY <1>3, StepsTaken
<1>5. \A i \in 0 .. n : f[i] \in SomePieces(T, cuts, i)
  BY <1>1, <1>4
<1>6. \A i \in 1 .. n : f[i] = WithWord(f[i - 1], t, cuts, i)
  BY <1>2, <1>4, <1>5, <1>m
<1>7. Is(f)
  <2>1. ASSUME NEW i \in 0 .. n PROVE f[i] = IF i = 0 THEN <<>> ELSE WithWord(f[i - 1], t, cuts, i)
    <3>1. i = 0 \/ i \in 1 .. n
      BY <1>0
    <3> QED BY <1>4, <1>6, <3>1
  <2>2. f = [i \in 0 .. n |-> IF i = 0 THEN <<>> ELSE WithWord(f[i - 1], t, cuts, i)]
    BY <1>4, <2>1
  <2> QED BY <2>2 DEF WithWord
<1>8. Is(pieces)
  <2> HIDE DEF Is
  <2> QED BY <1>7
<1>9. Pieces(t, cuts) = pieces[n]
  BY DEF Pieces
<1>10. \A i \in 0 .. n : pieces[i] = IF i = 0 THEN <<>> ELSE WithWord(pieces[i - 1], t, cuts, i)
  <2> HIDE DEF pieces
  <2> QED BY <1>8 DEF WithWord
<1> HIDE DEF pieces
<1>11. pieces[0] = <<>> /\ \A i \in 1 .. n : pieces[i] = WithWord(pieces[i - 1], t, cuts, i)
  <2>1. \A i \in 1 .. n : i # 0
    OBVIOUS
  <2> QED BY <1>0, <1>m, <1>10, <2>1
<1>12. \A i \in 0 .. n : pieces[i] \in SomePieces(T, cuts, i)
  <2> DEFINE S == {i \in 0 .. n : pieces[i] \in SomePieces(T, cuts, i)}
  <2>1. 0 \in S
    BY <1>0, <1>11, <1>e
  <2>2. ASSUME NEW i \in 1 .. n, i - 1 \in S PROVE i \in S
    <3>1. pieces[i - 1] \in SomePieces(T, cuts, i - 1)
      BY <2>2
    <3>2. WithWord(pieces[i - 1], t, cuts, i) \in SomePieces(T, cuts, i)
      BY <3>1, WordTaken
    <3> QED BY <1>11, <1>m, <3>2
  <2>3. 0 .. n \subseteq S
    <3> HIDE DEF S
    <3> QED BY <1>0, <2>1, <2>2, NatUpTo
  <2> QED BY <2>3
<1> QED BY <1>9, <1>11, <1>12 DEF Splits

\* Putting a word at the end of one of two sequences that are joined.
LEMMA JoinWord ==
  ASSUME NEW T, NEW a \in Seq(T), NEW b \in Seq(T), NEW x \in T
  PROVE  a \o Append(b, x) = Append(a \o b, x) /\ a \o <<x>> = Append(a, x)
OBVIOUS

\* The pieces joined are the words that were no cuts.
LEMMA WordJoined ==
  ASSUME NEW T, NEW t \in Seq(T), NEW cuts, NEW i \in 1 .. Len(t), NEW q \in SomePieces(T, cuts, i - 1)
  PROVE  /\ q \in Seq(Seq(T))
         /\ FlattenSeq(WithWord(q, t, cuts, i)) = IF i \in cuts THEN FlattenSeq(q) ELSE Append(FlattenSeq(q), t[i])
<1> DEFINE x == t[i]
<1>1. q \in Seq(Seq(T)) /\ x \in T
  BY DEF SomePieces
<1>2. FlattenSeq(q) \in Seq(T)
  BY <1>1, JoinedTyped
<1>3. CASE i \in cuts
  BY <1>1, <1>3 DEF WithWord
<1>4. CASE i \notin cuts /\ (i = 1 \/ (i - 1) \in cuts)
  <2>1. WithWord(q, t, cuts, i) = Append(q, <<x>>)
    BY <1>4 DEF WithWord
  <2> HIDE DEF x
  <2>2. <<x>> \in Seq(T)
    BY <1>1
  <2>3. FlattenSeq(Append(q, <<x>>)) = FlattenSeq(q) \o <<x>>
    BY <1>1, <2>2, JoinedMore
  <2>4. FlattenSeq(q) \o <<x>> = Append(FlattenSeq(q), x)
    BY <1>1, <1>2, JoinWord
  <2> QED BY <1>1, <1>4, <2>1, <2>3, <2>4 DEF x
<1>5. CASE i \notin cuts /\ ~ (i = 1 \/ (i - 1) \in cuts)
  <2> DEFINE a == Front(q)
             b == Last(q)
  <2>1. q # <<>>
    BY <1>5 DEF SomePieces
  <2>2. a \in Seq(Seq(T)) /\ b \in Seq(T) /\ q = Append(a, b)
    BY <1>1, <2>1, FrontAndLast
  <2>3. WithWord(q, t, cuts, i) = Append(a, Append(b, x))
    BY <1>5 DEF WithWord
  <2> HIDE DEF a, b, x
  <2>4. Append(b, x) \in Seq(T) /\ FlattenSeq(a) \in Seq(T)
    BY <1>1, <2>2, AppendPiece, JoinedTyped
  <2>5. FlattenSeq(q) = FlattenSeq(a) \o b
    BY <2>2, JoinedMore
  <2>6. FlattenSeq(Append(a, Append(b, x))) = FlattenSeq(a) \o Append(b, x)
    BY <2>2, <2>4, JoinedMore
  <2>7. FlattenSeq(a) \o Append(b, x) = Append(FlattenSeq(a) \o b, x)
    BY <1>1, <2>2, <2>4, JoinWord
  <2> QED BY <1>1, <1>5, <2>3, <2>5, <2>6, <2>7 DEF x
<1> QED BY <1>3, <1>4, <1>5

\* What is said between the cuts is said by the pieces, in the same order.
LEMMA PiecesSay ==
  ASSUME NEW T, NEW t \in Seq(T), NEW cuts, NEW S, \A i \in 1 .. Len(t) : i \in cuts => t[i] \in S
  PROVE  Omitting(FlattenSeq(Pieces(t, cuts)), S) = Omitting(t, S)
<1> DEFINE n == Len(t)
           P == {i \in DOMAIN t : t[i] \notin S}
<1>0. n \in Nat /\ 0 \in 0 .. n /\ n \in 0 .. n
  OBVIOUS
<1>1. PICK p : /\ Splits(t, cuts, p) /\ Pieces(t, cuts) = p[n]
               /\ \A i \in 0 .. n : p[i] \in SomePieces(T, cuts, i)
  BY Splitting
<1>2. PICK g : Picks(t, P, g) /\ Picked(t, P) = g[n]
  BY Picking
<1>3. \A i \in 1 .. n : i \in P <=> t[i] \notin S
  <2>1. DOMAIN t = 1 .. n
    OBVIOUS
  <2> QED BY <2>1
<1>4. Omitting(t, S) = g[n]
  BY <1>2 DEF Omitting
<1> HIDE DEF P
<1> DEFINE C == {i \in 0 .. n : Omitting(FlattenSeq(p[i]), S) = g[i]}
<1>5. 0 \in C
  BY <1>0, <1>1, <1>2, JoinedNone, OmittingNone DEF Splits, Picks
<1>6. ASSUME NEW i \in 1 .. n, i - 1 \in C PROVE i \in C
  <2>1. i \in 0 .. n /\ i - 1 \in 0 .. n /\ t[i] \in T
    BY <1>0
  <2>2. p[i] = WithWord(p[i - 1], t, cuts, i) /\ p[i - 1] \in SomePieces(T, cuts, i - 1)
    BY <1>1, <2>1, Zenon DEF Splits
  <2>3. g[i] = IF i \in P THEN Append(g[i - 1], t[i]) ELSE g[i - 1]
    BY <1>2, Zenon DEF Picks
  <2>4. Omitting(FlattenSeq(p[i - 1]), S) = g[i - 1]
    BY <1>6
  <2>5. /\ p[i - 1] \in Seq(Seq(T))
        /\ FlattenSeq(p[i]) = IF i \in cuts THEN FlattenSeq(p[i - 1]) ELSE Append(FlattenSeq(p[i - 1]), t[i])
    <3> DEFINE q == p[i - 1]
    <3>1. q \in SomePieces(T, cuts, i - 1) /\ p[i] = WithWord(q, t, cuts, i)
      BY <2>2
    <3> HIDE DEF q
    <3>2. /\ q \in Seq(Seq(T))
          /\ FlattenSeq(WithWord(q, t, cuts, i)) = IF i \in cuts THEN FlattenSeq(q) ELSE Append(FlattenSeq(q), t[i])
      BY <3>1, WordJoined, SMTT(30)
    <3> QED BY <3>1, <3>2 DEF q
  <2>6. FlattenSeq(p[i - 1]) \in Seq(T)
    BY <2>5, JoinedTyped
  <2>7. CASE i \in cuts
    <3>1. FlattenSeq(p[i]) = FlattenSeq(p[i - 1])
      BY <2>5, <2>7
    <3>2. i \notin P
      BY <1>3, <2>7
    <3>3. g[i] = g[i - 1]
      BY <2>3, <3>2
    <3> QED BY <2>1, <2>4, <3>1, <3>3
  <2>8. CASE i \notin cuts
    <3>1. FlattenSeq(p[i]) = Append(FlattenSeq(p[i - 1]), t[i])
      BY <2>5, <2>8
    <3>2. Omitting(FlattenSeq(p[i]), S) =
              IF t[i] \in S THEN g[i - 1] ELSE Append(g[i - 1], t[i])
      <4> DEFINE s == FlattenSeq(p[i - 1])
                 x == t[i]
      <4>1. s \in Seq(T) /\ x \in T /\ FlattenSeq(p[i]) = Append(s, x) /\ Omitting(s, S) = g[i - 1]
        BY <2>1, <2>4, <2>6, <3>1
      <4> HIDE DEF s, x
      <4>2. Omitting(Append(s, x), S) = IF x \in S THEN Omitting(s, S) ELSE Append(Omitting(s, S), x)
        BY <4>1, OmittingMore, Zenon
      <4> QED BY <4>1, <4>2 DEF x
    <3> QED BY <1>3, <2>1, <2>3, <3>2
  <2> QED BY <2>7, <2>8
<1>7. 0 .. n \subseteq C
  <2> HIDE DEF C
  <2> QED BY <1>0, <1>5, <1>6, NatUpTo
<1> QED BY <1>0, <1>1, <1>4, <1>7

\* Whether a text is cut at i, given the cuts before it.
CutsHere(t, marks, words, cuts, i) ==
    \/ t[i] \in marks
    \/ /\ t[i] \in words /\ 1 < i /\ i < Len(t) /\ t[i + 1] \notin Punctuation
       /\ ~ ((i - 1) \in cuts /\ t[i - 1] \in words)

\* The cuts are the words at which the text is cut.
LEMMA CutsAre ==
  ASSUME NEW T, NEW t \in Seq(T), NEW marks, NEW words
  PROVE  LET cuts == Cuts(t, marks, words)
         IN  /\ cuts \subseteq 1 .. Len(t)
             /\ \A i \in 1 .. Len(t) : i \in cuts <=> CutsHere(t, marks, words, cuts, i)
<1> DEFINE n == Len(t)
           Here(b, i) == \/ t[i] \in marks
                         \/ /\ t[i] \in words /\ 1 < i /\ i < Len(t)
                            /\ t[i + 1] \notin Punctuation
                            /\ ~ (b /\ t[i - 1] \in words)
           Is(f) == f = [i \in 0 .. n |->
                            /\ i > 0
                            /\ \/ t[i] \in marks
                               \/ /\ t[i] \in words /\ 1 < i /\ i < Len(t)
                                  /\ t[i + 1] \notin Punctuation
                                  /\ ~ (f[i - 1] /\ t[i - 1] \in words)]
           cut == CHOOSE f : Is(f)
           no == FALSE
           V == [i \in 0 .. n |-> BOOLEAN]
           step == [i \in 1 .. n |-> [b \in BOOLEAN |-> Here(b, i)]]
<1>0. n \in Nat /\ 0 \in 0 .. n
  OBVIOUS
<1>m. \A i \in 1 .. n : i \in 0 .. n /\ i - 1 \in 0 .. n /\ i > 0
  BY <1>0
<1>n. \A i \in 0 .. n : i = 0 \/ i \in 1 .. n
  BY <1>0
<1>1. \A i \in 0 .. n : V[i] = BOOLEAN
  OBVIOUS
<1>h. \A b, i : Here(b, i) \in BOOLEAN
  OBVIOUS
<1>2. \A i \in 1 .. n : \A b \in BOOLEAN : step[i][b] = Here(b, i)
  <2> HIDE DEF Here
  <2> QED OBVIOUS
<1>z. no \in BOOLEAN /\ no = FALSE
  OBVIOUS
<1> HIDE DEF V, step, Here, no
<1>3. Steps(V, no, n, step)
  <2>1. ASSUME NEW i \in 1 .. n, NEW b \in V[i - 1] PROVE step[i][b] \in V[i]
    <3>1. b \in BOOLEAN /\ V[i] = BOOLEAN
      BY <1>1, <1>m
    <3> QED BY <1>2, <1>h, <3>1
  <2>2. no \in V[0]
    BY <1>0, <1>1, <1>z
  <2> QED BY <1>0, <2>1, <2>2 DEF Steps
<1>4. PICK f : /\ f = [i \in 0 .. n |-> f[i]] /\ f[0] = no
               /\ \A i \in 1 .. n : f[i] = step[i][f[i - 1]]
               /\ \A i \in 0 .. n : f[i] \in V[i]
  BY <1>3, StepsTaken
<1>5. \A i \in 0 .. n : f[i] \in BOOLEAN
  BY <1>1, <1>4
<1>6. \A i \in 1 .. n : f[i] = Here(f[i - 1], i)
  BY <1>2, <1>4, <1>5, <1>m, Zenon
<1>7. Is(f)
  <2>1. ASSUME NEW i \in 0 .. n PROVE f[i] = (i > 0 /\ Here(f[i - 1], i))
    <3>1. CASE i = 0
      <4>1. ~ (i > 0)
        BY <3>1
      <4>2. f[i] = FALSE
        BY <1>4, <1>z, <3>1
      <4> QED BY <4>1, <4>2, Zenon
    <3>2. CASE i \in 1 .. n
      <4>1. i > 0
        BY <3>2
      <4>2. f[i] = Here(f[i - 1], i)
        BY <1>6, <3>2, Zenon
      <4> QED BY <1>h, <4>1, <4>2, Zenon
    <3> QED BY <1>n, <3>1, <3>2
  <2>2. [i \in 0 .. n |-> f[i]] = [i \in 0 .. n |-> i > 0 /\ Here(f[i - 1], i)]
    BY <2>1, Zenon
  <2>3. f = [i \in 0 .. n |-> i > 0 /\ Here(f[i - 1], i)]
    BY <1>4, <2>2, Zenon
  <2> QED BY <2>3, Zenon DEF Here
<1>8. Is(cut)
  <2> HIDE DEF Is
  <2> QED BY <1>7, Zenon
<1>9. Cuts(t, marks, words) = {i \in DOMAIN t : cut[i]}
  BY Zenon DEF Cuts
<1>10. \A i \in 1 .. n : cut[i] = Here(cut[i - 1], i)
  <2>1. \A i \in 0 .. n : cut[i] = (i > 0 /\ Here(cut[i - 1], i))
    <3> HIDE DEF cut
    <3> QED BY <1>8, Zenon DEF Here
  <2> HIDE DEF cut
  <2> QED BY <1>m, <1>h, <2>1, Zenon
<1>11. cut[0] = FALSE
  <2>1. \A i \in 0 .. n : cut[i] = (i > 0 /\ Here(cut[i - 1], i))
    <3> HIDE DEF cut
    <3> QED BY <1>8, Zenon DEF Here
  <2>2. ~ (0 > 0)
    OBVIOUS
  <2> HIDE DEF cut
  <2> QED BY <1>0, <2>1, <2>2, Zenon
<1> HIDE DEF cut
<1> DEFINE cuts == {i \in 1 .. n : cut[i]}
<1>12. Cuts(t, marks, words) = cuts
  <2>1. DOMAIN t = 1 .. n
    OBVIOUS
  <2> QED BY <1>9, <2>1, Zenon
<1>13. ASSUME NEW i \in 1 .. n PROVE i \in cuts <=> CutsHere(t, marks, words, cuts, i)
  <2>1. i \in cuts <=> Here(cut[i - 1], i)
    BY <1>10, Zenon
  <2>2. 1 < i => ((i - 1) \in cuts <=> cut[i - 1])
    <3>1. 1 < i => i - 1 \in 1 .. n
      BY <1>0
    <3> QED BY <3>1, Zenon
  <2> HIDE DEF cuts
  <2> QED BY <2>1, <2>2, Zenon DEF Here, CutsHere
<1> QED BY <1>12, <1>13, Zenon

\* The words a clause is judged by, without those that are skipped.
Skipped == Punctuation \union Fillers
Spoken(x) == Omitting(x, Skipped)

\* A word more in a clause: it is skipped, or it settles what the clause is.
LEMMA ClauseGrows ==
  ASSUME NEW T, NEW x \in Seq(T), NEW w \in T
  PROVE  /\ w \in Skipped => /\ (Spoken(Append(x, w)) = <<>> <=> Spoken(x) = <<>>)
                             /\ (IsWorkClause(Append(x, w)) <=> IsWorkClause(x))
         /\ w \notin Skipped => /\ Spoken(Append(x, w)) # <<>>
                                /\ IsWorkClause(Append(x, w)) <=>
                                       IF Spoken(x) = <<>> THEN w \in Verbs ELSE IsWorkClause(x)
<1> DEFINE y == Append(x, w)
<1>1. Spoken(y) = IF w \in Skipped THEN Spoken(x) ELSE Append(Spoken(x), w)
  BY OmittingMore DEF Spoken
<1>2. Spoken(x) \in Seq(T)
  BY OmittingTyped DEF Spoken
<1>3. /\ IsWorkClause(x) <=> Spoken(x) # <<>> /\ Head(Spoken(x)) \in Verbs
      /\ IsWorkClause(y) <=> Spoken(y) # <<>> /\ Head(Spoken(y)) \in Verbs
  BY DEF IsWorkClause, Spoken, Skipped
<1> DEFINE s == Spoken(x)
           r == Append(s, w)
<1>4. r # <<>> /\ Head(r) = IF s = <<>> THEN w ELSE Head(s)
  <2>1. r # <<>> /\ Head(r) = r[1]
    BY <1>2
  <2>2. CASE s = <<>>
    <3> HIDE DEF s
    <3> QED BY <2>1, <2>2
  <2>3. CASE s # <<>>
    <3> HIDE DEF s
    <3>1. 1 \in 1 .. Len(s) /\ Head(s) = s[1]
      BY <1>2, <2>3
    <3>2. r[1] = s[1]
      BY <1>2, <3>1
    <3> QED BY <2>1, <2>3, <3>1, <3>2
  <2> QED BY <2>2, <2>3
<1> HIDE DEF y, r
<1>5. CASE w \in Skipped
  <2>1. Spoken(y) = Spoken(x)
    BY <1>1, <1>5
  <2> QED BY <1>3, <1>5, <2>1 DEF y
<1>6. CASE w \notin Skipped
  <2>1. Spoken(y) = r
    BY <1>1, <1>6 DEF r
  <2>2. Spoken(y) # <<>> /\ Head(Spoken(y)) = IF Spoken(x) = <<>> THEN w ELSE Head(Spoken(x))
    BY <1>4, <2>1
  <2> HIDE DEF s
  <2>3. CASE Spoken(x) = <<>>
    BY <1>3, <1>6, <2>2, <2>3 DEF y
  <2>4. CASE Spoken(x) # <<>>
    BY <1>3, <1>6, <2>2, <2>4 DEF y
  <2> QED BY <2>3, <2>4
<1> QED BY <1>5, <1>6

\* Nothing is said in an empty clause, and it is no work.
LEMMA NothingSpoken == Spoken(<<>>) = <<>> /\ ~ IsWorkClause(<<>>)
BY OmittingNone DEF Spoken, Skipped, IsWorkClause

\* A clause more is work or is not.
LEMMA WorkMore ==
  ASSUME NEW T, NEW q \in Seq(T), NEW x \in T
  PROVE  /\ WorkIn(q) \in Nat
         /\ WorkIn(Append(q, x)) = WorkIn(q) + (IF IsWorkClause(x) THEN 1 ELSE 0)
<1> DEFINE n == Len(q)
           y == Append(q, x)
           A == {k \in 1 .. n : IsWorkClause(q[k])}
           B == {k \in 1 .. n + 1 : IsWorkClause(y[k])}
<1>1. y \in Seq(T) /\ Len(y) = n + 1 /\ y[n + 1] = x /\ \A k \in 1 .. n : y[k] = q[k]
  OBVIOUS
<1>0. n \in Nat
  OBVIOUS
<1>2. DOMAIN q = 1 .. n
  OBVIOUS
<1> HIDE DEF y
<1>3. DOMAIN y = 1 .. n + 1
  BY <1>1
<1>4. WorkIn(q) = Cardinality(A) /\ WorkIn(y) = Cardinality(B)
  BY <1>2, <1>3, Zenon DEF WorkIn
<1> HIDE DEF n
<1>5. IsFiniteSet(A) /\ n + 1 \notin A
  <2>1. A \subseteq 1 .. n /\ IsFiniteSet(1 .. n) /\ n + 1 \notin 1 .. n
    BY <1>0, FS_Interval
  <2> QED BY <2>1, FS_Subset
<1>6. Cardinality(A) \in Nat
  BY <1>5, FS_CardinalityType
<1>7. B = IF IsWorkClause(x) THEN A \union {n + 1} ELSE A
  <2>1. ASSUME NEW k PROVE k \in 1 .. n + 1 <=> k \in 1 .. n \/ k = n + 1
    BY <1>0
  <2>2. \A k : k \in B <=> (k \in A \/ (k = n + 1 /\ IsWorkClause(x)))
    BY <1>1, <2>1, Zenon
  <2> HIDE DEF A, B
  <2> QED BY <2>2
<1>8. CASE IsWorkClause(x)
  <2>1. Cardinality(A \union {n + 1}) = Cardinality(A) + 1
    BY <1>5, FS_AddElement
  <2> HIDE DEF A, B
  <2> QED BY <1>4, <1>6, <1>7, <1>8, <2>1 DEF y
<1>9. CASE ~ IsWorkClause(x)
  <2> HIDE DEF A, B
  <2> QED BY <1>4, <1>6, <1>7, <1>9 DEF y
<1> QED BY <1>8, <1>9

\* No clauses are no work.
LEMMA NoWork == WorkIn(<<>>) = 0
<1>1. {k \in DOMAIN <<>> : IsWorkClause(<<>>[k])} = {}
  OBVIOUS
<1> QED BY <1>1, FS_EmptySet DEF WorkIn

\* After i words a piece is under way, and what it is has been settled.
ClauseSettled(cuts, q, i) == i > 0 /\ i \notin cuts /\ Spoken(Last(q)) # <<>>

\* A word counts when it is the verb that settles a piece.
LEMMA WordCounted ==
  ASSUME NEW T, NEW t \in Seq(T), NEW cuts, NEW i \in 1 .. Len(t), NEW q \in SomePieces(T, cuts, i - 1),
         NEW r, r = WithWord(q, t, cuts, i)
  PROVE  /\ WorkIn(q) \in Nat
         /\ i \in cuts => WorkIn(r) = WorkIn(q) /\ ~ ClauseSettled(cuts, r, i)
         /\ (i \notin cuts /\ t[i] \in Skipped) =>
                WorkIn(r) = WorkIn(q) /\ (ClauseSettled(cuts, r, i) <=> ClauseSettled(cuts, q, i - 1))
         /\ (i \notin cuts /\ t[i] \notin Skipped) =>
                /\ ClauseSettled(cuts, r, i)
                /\ WorkIn(r) = WorkIn(q) + (IF ~ ClauseSettled(cuts, q, i - 1) /\ t[i] \in Verbs THEN 1 ELSE 0)
<1> DEFINE w == t[i]
<1>1. q \in Seq(Seq(T)) /\ w \in T /\ i > 0 /\ <<>> \in Seq(T) /\ i \in Nat
  BY DEF SomePieces
<1> HIDE DEF w
<1>2. WorkIn(q) \in Nat
  BY <1>1, WorkMore
<1>3. CASE i \in cuts
  <2>1. r = q
    BY <1>3 DEF WithWord
  <2> QED BY <1>2, <1>3, <2>1 DEF ClauseSettled
<1>4. CASE i \notin cuts /\ (i = 1 \/ (i - 1) \in cuts)
  <2> DEFINE x == <<w>>
             e == <<>>
  <2>1. r = Append(q, x)
    BY <1>4 DEF WithWord, w
  <2>2. x = Append(e, w) /\ x \in Seq(T) /\ e \in Seq(T) /\ Spoken(e) = <<>> /\ ~ IsWorkClause(e)
    BY <1>1, NothingSpoken
  <2>3. Last(r) = x
    <3> HIDE DEF x
    <3>1. r[Len(r)] = x
      BY <1>1, <2>1, <2>2, AppendFacts
    <3> QED BY <3>1 DEF Last
  <2> HIDE DEF x, e
  <2>4. ~ ClauseSettled(cuts, q, i - 1)
    BY <1>4 DEF ClauseSettled
  <2>5. WorkIn(r) = WorkIn(q) + (IF IsWorkClause(x) THEN 1 ELSE 0)
    BY <1>1, <2>1, <2>2, WorkMore
  <2>6. ClauseSettled(cuts, r, i) <=> Spoken(x) # <<>>
    BY <1>1, <1>4, <2>3, Zenon DEF ClauseSettled
  <2>7. CASE w \in Skipped
    <3>1. Spoken(x) = <<>> /\ ~ IsWorkClause(x)
      BY <1>1, <2>2, <2>7, ClauseGrows
    <3> QED BY <1>2, <1>4, <2>4, <2>5, <2>6, <2>7, <3>1 DEF w
  <2>8. CASE w \notin Skipped
    <3>1. Spoken(x) # <<>> /\ (IsWorkClause(x) <=> w \in Verbs)
      BY <1>1, <2>2, <2>8, ClauseGrows
    <3> QED BY <1>2, <1>4, <2>4, <2>5, <2>6, <2>8, <3>1 DEF w
  <2> QED BY <2>7, <2>8
<1>5. CASE i \notin cuts /\ ~ (i = 1 \/ (i - 1) \in cuts)
  <2> DEFINE a == Front(q)
             b == Last(q)
             x == Append(b, w)
  <2>1. q # <<>>
    BY <1>5 DEF SomePieces
  <2>2. a \in Seq(Seq(T)) /\ b \in Seq(T) /\ q = Append(a, b)
    BY <1>1, <2>1, FrontAndLast
  <2>3. r = Append(a, x)
    BY <1>5 DEF WithWord, w
  <2>b. b = Last(q) /\ x = Append(b, w)
    OBVIOUS
  <2> HIDE DEF a, b
  <2>4. x \in Seq(T)
    BY <1>1, <2>2, AppendPiece
  <2>5. Last(r) = x
    <3> HIDE DEF x
    <3>1. r[Len(r)] = x
      BY <2>2, <2>3, <2>4, AppendFacts
    <3> QED BY <3>1 DEF Last
  <2> HIDE DEF x
  <2>6. /\ WorkIn(q) = WorkIn(a) + (IF IsWorkClause(b) THEN 1 ELSE 0)
        /\ WorkIn(r) = WorkIn(a) + (IF IsWorkClause(x) THEN 1 ELSE 0)
        /\ WorkIn(a) \in Nat
    <3>1. WorkIn(a) \in Nat /\ WorkIn(Append(a, b)) = WorkIn(a) + (IF IsWorkClause(b) THEN 1 ELSE 0)
      BY <2>2, WorkMore
    <3>2. WorkIn(Append(a, x)) = WorkIn(a) + (IF IsWorkClause(x) THEN 1 ELSE 0)
      BY <2>2, <2>4, WorkMore
    <3> QED BY <2>2, <2>3, <3>1, <3>2
  <2>7. ClauseSettled(cuts, r, i) <=> Spoken(x) # <<>>
    BY <1>1, <1>5, <2>5, Zenon DEF ClauseSettled
  <2>8. ClauseSettled(cuts, q, i - 1) <=> Spoken(b) # <<>>
    <3>1. i - 1 > 0
      BY <1>1, <1>5
    <3> QED BY <1>5, <2>b, <3>1, Zenon DEF ClauseSettled
  <2>9. IsWorkClause(b) => Spoken(b) # <<>>
    BY DEF IsWorkClause, Spoken, Skipped
  <2>10. CASE w \in Skipped
    <3>1. (Spoken(x) = <<>> <=> Spoken(b) = <<>>) /\ (IsWorkClause(x) <=> IsWorkClause(b))
      BY <1>1, <2>2, <2>b, <2>10, ClauseGrows
    <3> QED BY <1>2, <1>5, <2>6, <2>7, <2>8, <2>10, <3>1 DEF w
  <2>11. CASE w \notin Skipped
    <3>1. /\ Spoken(x) # <<>>
          /\ IsWorkClause(x) <=> IF Spoken(b) = <<>> THEN w \in Verbs ELSE IsWorkClause(b)
      BY <1>1, <2>2, <2>b, <2>11, ClauseGrows
    <3>2. CASE Spoken(b) = <<>>
      BY <1>2, <1>5, <2>6, <2>7, <2>8, <2>9, <2>11, <3>1, <3>2 DEF w
    <3>3. CASE Spoken(b) # <<>>
      BY <1>2, <1>5, <2>6, <2>7, <2>8, <2>11, <3>1, <3>3 DEF w
    <3> QED BY <3>2, <3>3
  <2> QED BY <2>10, <2>11
<1> QED BY <1>3, <1>4, <1>5

\* A count takes its verb: there are no more of them than verbs.
LEMMA WorkNeedsVerbs ==
  ASSUME NEW T, NEW t \in Seq(T), NEW cuts
  PROVE  /\ WorkIn(Pieces(t, cuts)) \in Nat /\ Cardinality({i \in DOMAIN t : t[i] \in Verbs}) \in Nat
         /\ WorkIn(Pieces(t, cuts)) <= Cardinality({i \in DOMAIN t : t[i] \in Verbs})
<1> DEFINE n == Len(t)
           U(i) == {j \in 1 .. i : t[j] \in Verbs}
<1>0. n \in Nat /\ 0 \in 0 .. n /\ n \in 0 .. n
  OBVIOUS
<1>1. PICK p : /\ Splits(t, cuts, p) /\ Pieces(t, cuts) = p[n]
               /\ \A i \in 0 .. n : p[i] \in SomePieces(T, cuts, i)
  BY Splitting
<1>2. DOMAIN t = 1 .. n
  OBVIOUS
<1> HIDE DEF n
<1>3. \A i \in 0 .. n : IsFiniteSet(U(i)) /\ Cardinality(U(i)) \in Nat
  <2> SUFFICES ASSUME NEW i \in 0 .. n PROVE IsFiniteSet(U(i)) /\ Cardinality(U(i)) \in Nat
    OBVIOUS
  <2>1. i \in Nat /\ IsFiniteSet(1 .. i) /\ U(i) \subseteq 1 .. i
    BY <1>0, FS_Interval
  <2>2. IsFiniteSet(U(i))
    BY <2>1, FS_Subset
  <2> QED BY <2>2, FS_CardinalityType
<1>4. ASSUME NEW i \in 1 .. n
      PROVE  Cardinality(U(i)) = Cardinality(U(i - 1)) + (IF t[i] \in Verbs THEN 1 ELSE 0)
  <2>1. i - 1 \in 0 .. n /\ i \notin 1 .. i - 1
    BY <1>0
  <2>2. ASSUME NEW j PROVE j \in 1 .. i <=> j \in 1 .. i - 1 \/ j = i
    BY <1>0
  <2>3. U(i) = IF t[i] \in Verbs THEN U(i - 1) \union {i} ELSE U(i - 1)
    <3>1. \A j : j \in U(i) <=> (j \in U(i - 1) \/ (j = i /\ t[i] \in Verbs))
      BY <2>2, Zenon
    <3> HIDE DEF U
    <3> QED BY <3>1
  <2>4. i \notin U(i - 1) /\ IsFiniteSet(U(i - 1)) /\ Cardinality(U(i - 1)) \in Nat
    BY <1>3, <2>1
  <2> HIDE DEF U
  <2>5. Cardinality(U(i - 1) \union {i}) = Cardinality(U(i - 1)) + 1
    BY <2>4, FS_AddElement
  <2> QED BY <2>3, <2>4, <2>5
<1>5. Cardinality(U(0)) = 0
  <2>1. U(0) = {}
    BY <1>0
  <2> QED BY <2>1, FS_EmptySet
<1> HIDE DEF U
<1> DEFINE C == {i \in 0 .. n : WorkIn(p[i]) \in Nat /\ WorkIn(p[i]) <= Cardinality(U(i))}
<1>6. 0 \in C
  BY <1>0, <1>1, <1>5, NoWork DEF Splits
<1>7. ASSUME NEW i \in 1 .. n, i - 1 \in C PROVE i \in C
  <2>1. i \in 0 .. n /\ i - 1 \in 0 .. n
    BY <1>0
  <2> DEFINE q == p[i - 1]
             r == p[i]
  <2>2. r = WithWord(q, t, cuts, i) /\ q \in SomePieces(T, cuts, i - 1)
    BY <1>1, <2>1, Zenon DEF Splits, n
  <2>3. WorkIn(q) \in Nat /\ WorkIn(q) <= Cardinality(U(i - 1))
    BY <1>7
  <2>4. Cardinality(U(i)) = Cardinality(U(i - 1)) + (IF t[i] \in Verbs THEN 1 ELSE 0) /\ Cardinality(U(i - 1)) \in Nat
    BY <1>3, <1>4, <2>1
  <2>5. WorkIn(r) = WorkIn(q) \/ (t[i] \in Verbs /\ WorkIn(r) = WorkIn(q) + 1)
    <3> HIDE DEF q, r
    <3>1. i \in 1 .. Len(t)
      BY DEF n
    <3>2. /\ i \in cuts => WorkIn(r) = WorkIn(q)
          /\ (i \notin cuts /\ t[i] \in Skipped) => WorkIn(r) = WorkIn(q)
          /\ (i \notin cuts /\ t[i] \notin Skipped) =>
                 WorkIn(r) = WorkIn(q) + (IF ~ ClauseSettled(cuts, q, i - 1) /\ t[i] \in Verbs THEN 1 ELSE 0)
      BY <2>2, <3>1, WordCounted, SMTT(30)
    <3>3. CASE i \notin cuts /\ t[i] \notin Skipped
      BY <2>3, <3>2, <3>3
    <3> QED BY <3>2, <3>3
  <2> HIDE DEF q, r
  <2>6. WorkIn(r) \in Nat /\ WorkIn(r) <= Cardinality(U(i))
    BY <2>3, <2>4, <2>5
  <2> QED BY <2>1, <2>6 DEF r
<1>8. 0 .. n \subseteq C
  <2> HIDE DEF C
  <2> QED BY <1>0, <1>6, <1>7, NatUpTo
<1>9. U(n) = {i \in DOMAIN t : t[i] \in Verbs}
  BY <1>2, Zenon DEF U
<1> QED BY <1>0, <1>1, <1>3, <1>8, <1>9

\* Some numbers up to a bound have a greatest one.
LEMMA Topmost ==
  ASSUME NEW n \in Nat, NEW S, S \subseteq 0 .. n, NEW e \in S
  PROVE  \E m \in S : \A k \in S : k <= m
<1> DEFINE R == {j \in 0 .. n : (\E k \in S : k <= j) => \E m \in S : m <= j /\ \A k \in S : k <= j => k <= m}
<1>1. 0 \in R
  BY SMT
<1>2. ASSUME NEW j \in 1 .. n, j - 1 \in R PROVE j \in R
  <2>1. CASE j \in S
    BY <2>1, SMT
  <2>2. CASE j \notin S
    <3>1. \A k \in S : k <= j <=> k <= j - 1
      BY <2>2
    <3>2. j - 1 \in 0 .. n /\ j \in 0 .. n /\ j - 1 <= j
      BY SMT
    <3>3. ASSUME NEW k \in S, k <= j
          PROVE  \E m \in S : m <= j /\ \A h \in S : h <= j => h <= m
      <4>1. k <= j - 1
        BY <3>1, <3>3
      <4>2. PICK m \in S : m <= j - 1 /\ \A h \in S : h <= j - 1 => h <= m
        BY <1>2, <4>1
      <4> QED BY <3>1, <4>2
    <3> QED BY <3>2, <3>3
  <2> QED BY <2>1, <2>2
<1>3. n \in R
  <2>1. 0 .. n \subseteq R
    <3> HIDE DEF R
    <3> QED BY <1>1, <1>2, NatUpTo
  <2>2. n \in 0 .. n
    OBVIOUS
  <2> QED BY <2>1, <2>2
<1>4. e <= n
  OBVIOUS
<1>5. \A k \in S : k <= n
  OBVIOUS
<1> QED BY <1>3, <1>4, <1>5

\* The first n words are polite openings that something follows.
Opens(t, n) == \A i \in 1 .. n : t[i] \in Polite /\ i < Len(t) /\ t[i + 1] \notin Punctuation

\* The longest opening is what is stripped.
LEMMA Stripping ==
  ASSUME NEW T, NEW t \in Seq(T)
  PROVE  \E m \in 0 .. Len(t) :
            /\ Opens(t, m) /\ \A k \in 0 .. Len(t) : Opens(t, k) => k <= m
            /\ StripPolite(t) = SubSeq(t, m + 1, Len(t))
            /\ t # <<>> => m < Len(t)
<1> DEFINE polite == {n \in 0 .. Len(t) : Opens(t, n)}
           top == CHOOSE m \in polite : \A k \in polite : k <= m
<1>0. Len(t) \in Nat
  OBVIOUS
<1>1. 0 \in polite
  BY <1>0 DEF Opens
<1>2. top \in polite /\ \A k \in polite : k <= top
  <2>1. polite \subseteq 0 .. Len(t)
    OBVIOUS
  <2> HIDE DEF polite
  <2>2. \E m \in polite : \A k \in polite : k <= m
    BY <1>0, <1>1, <2>1, Topmost
  <2> QED BY <2>2
<1>3. StripPolite(t) = SubSeq(t, top + 1, Len(t))
  BY DEF StripPolite, Opens
<1> HIDE DEF top
<1>4. t # <<>> => top < Len(t)
  <2> SUFFICES ASSUME t # <<>> PROVE top < Len(t)
    OBVIOUS
  <2>1. CASE top = 0
    BY <2>1
  <2>2. CASE top # 0
    <3>1. top \in 1 .. top
      BY <1>0, <1>2, <2>2
    <3> QED BY <1>2, <3>1 DEF Opens
  <2> QED BY <2>1, <2>2
<1> QED BY <1>2, <1>3, <1>4

\* The body of a goal that starts with a word does so too.
LEMMA BodyFacts ==
  ASSUME NEW T, NEW t \in Seq(T), t # <<>>, t[1] \notin Punctuation
  PROVE  /\ StripPolite(t) \in Seq(T) /\ StripPolite(t) # <<>> /\ StripPolite(t)[1] \notin Punctuation
<1> DEFINE n == Len(t)
<1>1. PICK m \in 0 .. n : Opens(t, m) /\ StripPolite(t) = SubSeq(t, m + 1, n) /\ m < n
  BY Stripping
<1>2. t[m + 1] \notin Punctuation
  <2>1. CASE m = 0
    BY <2>1
  <2>2. CASE m # 0
    <3>1. m \in 1 .. m
      BY <2>2
    <3> QED BY <1>1, <3>1 DEF Opens
  <2> QED BY <2>1, <2>2
<1>3. SubSeq(t, m + 1, n) \in Seq(T) /\ Len(SubSeq(t, m + 1, n)) = n - m /\ SubSeq(t, m + 1, n)[1] = t[m + 1]
  BY <1>1
<1>4. SubSeq(t, m + 1, n) # <<>>
  <2>1. n - m # 0
    BY <1>1
  <2> QED BY <1>3, <2>1
<1> QED BY <1>1, <1>2, <1>3, <1>4

\* One polite opening more is stripped with the others.
LEMMA PoliteTwice ==
  ASSUME NEW T, NEW t \in Seq(T), t # <<>>, t[1] \notin Punctuation, NEW p \in Polite
  PROVE  StripPolite(<<p>> \o t) = StripPolite(t)
<1> DEFINE U == T \union {p}
           s == <<p>> \o t
           n == Len(t)
<1>1. /\ t \in Seq(U) /\ s \in Seq(U) /\ Len(s) = n + 1 /\ s[1] = p
      /\ \A i \in 1 .. n : s[i + 1] = t[i]
  OBVIOUS
<1>2. s # <<>> /\ n \in Nat /\ n > 0
  BY <1>1
<1> HIDE DEF s
<1>3. PICK m \in 0 .. n : /\ Opens(t, m) /\ \A k \in 0 .. n : Opens(t, k) => k <= m
                          /\ StripPolite(t) = SubSeq(t, m + 1, n) /\ m < n
  BY <1>1, Stripping
<1>4. PICK h \in 0 .. n + 1 : /\ Opens(s, h) /\ \A k \in 0 .. n + 1 : Opens(s, k) => k <= h
                              /\ StripPolite(s) = SubSeq(s, h + 1, n + 1) /\ h < n + 1
  BY <1>1, <1>2, Stripping
<1>5. Opens(s, m + 1)
  <2> SUFFICES ASSUME NEW i \in 1 .. m + 1
               PROVE  s[i] \in Polite /\ i < Len(s) /\ s[i + 1] \notin Punctuation
    BY DEF Opens
  <2>1. CASE i = 1
    <3>1. 1 \in 1 .. n /\ s[1 + 1] = t[1]
      BY <1>1, <1>2
    <3> QED BY <1>1, <1>2, <2>1, <3>1
  <2>2. CASE i # 1
    <3> DEFINE j == i - 1
    <3>1. j \in 1 .. m /\ j \in 1 .. n /\ j + 1 = i
      BY <2>2
    <3> HIDE DEF j
    <3>2. t[j] \in Polite /\ j < n /\ t[j + 1] \notin Punctuation
      BY <1>3, <3>1 DEF Opens
    <3>3. j + 1 \in 1 .. n /\ s[(j + 1) + 1] = t[j + 1] /\ s[j + 1] = t[j]
      BY <1>1, <3>1, <3>2
    <3> QED BY <1>1, <3>1, <3>2, <3>3
  <2> QED BY <2>1, <2>2
<1>6. h >= m + 1
  BY <1>3, <1>4, <1>5
<1>7. Opens(t, h - 1)
  <2> SUFFICES ASSUME NEW i \in 1 .. h - 1
               PROVE  t[i] \in Polite /\ i < Len(t) /\ t[i + 1] \notin Punctuation
    BY DEF Opens
  <2>1. i + 1 \in 1 .. h /\ i \in 1 .. n /\ i + 1 < n + 1
    BY <1>2, <1>4
  <2>2. s[i + 1] \in Polite /\ s[(i + 1) + 1] \notin Punctuation
    BY <1>4, <2>1 DEF Opens
  <2>3. i + 1 \in 1 .. n
    BY <2>1
  <2> QED BY <1>1, <2>1, <2>2, <2>3
<1>8. h = m + 1
  <2>1. h - 1 \in 0 .. n
    BY <1>6
  <2>2. h - 1 <= m
    BY <1>3, <1>7, <2>1
  <2> QED BY <1>6, <2>2
<1>9. SubSeq(s, m + 2, n + 1) = SubSeq(t, m + 1, n)
  <2>1. /\ SubSeq(s, m + 2, n + 1) \in Seq(U) /\ Len(SubSeq(s, m + 2, n + 1)) = n - m
        /\ \A i \in 1 .. n - m : SubSeq(s, m + 2, n + 1)[i] = s[m + 1 + i]
    BY <1>1, <1>2, <1>3
  <2>2. /\ SubSeq(t, m + 1, n) \in Seq(U) /\ Len(SubSeq(t, m + 1, n)) = n - m
        /\ \A i \in 1 .. n - m : SubSeq(t, m + 1, n)[i] = t[m + i]
    BY <1>1, <1>2, <1>3
  <2>3. \A i \in 1 .. n - m : s[m + 1 + i] = t[m + i]
    <3> SUFFICES ASSUME NEW i \in 1 .. n - m PROVE s[m + 1 + i] = t[m + i]
      OBVIOUS
    <3>1. m + i \in 1 .. n /\ (m + i) + 1 = m + 1 + i
      BY <1>2
    <3> QED BY <1>1, <3>1
  <2> DEFINE a == SubSeq(s, m + 2, n + 1)
             b == SubSeq(t, m + 1, n)
             l == n - m
  <2>4. a \in Seq(U) /\ b \in Seq(U) /\ Len(a) = l /\ Len(b) = l /\ \A i \in 1 .. l : a[i] = b[i]
    BY <2>1, <2>2, <2>3
  <2> HIDE DEF a, b, l
  <2>5. a = b
    BY <2>4
  <2> QED BY <2>5 DEF a, b
<1>10. h + 1 = m + 2
  BY <1>8
<1> QED BY <1>3, <1>4, <1>9, <1>10 DEF s

\* What a goal without a command is classified by.
BodyMode(body) ==
    IF WordsOf(body)[1] \in Inquiries THEN "single" ELSE IF WorkClauseCount(body) >= 3 THEN "multi" ELSE "single"

\* The class of a goal that is no command is that of its body.
LEMMA Classifying ==
  ASSUME NEW T, NEW t \in Seq(T), t # <<>>, t[1] \notin Punctuation
  PROVE  t[1] \notin Command => ClassifyGoal(t) = BodyMode(StripPolite(t))
<1> DEFINE body == StripPolite(t)
           said == WordsOf(body)
<1>1. body \in Seq(T) /\ body # <<>> /\ body[1] \notin Punctuation
  BY BodyFacts
<1>2. said \in Seq(T)
  BY <1>1, OmittingTyped DEF WordsOf
<1>3. Head(said) = said[1]
  BY <1>2
<1> SUFFICES ASSUME t[1] \notin Command PROVE ClassifyGoal(t) = BodyMode(body)
  OBVIOUS
<1>4. ClassifyGoal(t) = IF Head(said) \in Inquiries THEN "single"
                        ELSE IF WorkClauseCount(body) >= 3 THEN "multi" ELSE "single"
  <2> HIDE DEF body
  <2>1. t[1] # "/plan" /\ t[1] # "/agent"
    BY DEF Command
  <2> QED BY <2>1 DEF ClassifyGoal, body
<1> HIDE DEF said
<1> QED BY <1>3, <1>4 DEF BodyMode, said

\* A clause of work has a verb of its own: there are as many verbs as such clauses.
LEMMA VerbsCounted ==
  ASSUME NEW T, NEW t \in Seq(T)
  PROVE  /\ WorkClauseCount(t) \in Nat /\ Cardinality({i \in DOMAIN t : t[i] \in Verbs}) \in Nat
         /\ WorkClauseCount(t) <= Cardinality({i \in DOMAIN t : t[i] \in Verbs})
BY WorkNeedsVerbs DEF WorkClauseCount

\* A goal never starts with a mark.
StartsWell == goal # <<>> => goal[1] \notin Punctuation

\* RoutedRight follows from how a goal starts and how it is classified.
LEMMA RoutingIsRight == goal \in Seq(GoalWords) /\ StartsWell => RoutedRight
<1> SUFFICES ASSUME goal \in Seq(GoalWords), StartsWell, goal # <<>>, goal[1] \notin Command
             PROVE  RoutedRight
  BY DEF RoutedRight
<1> DEFINE body == StripPolite(goal)
<1>0. goal[1] \notin Punctuation
  BY DEF StartsWell
<1>1. ClassifyGoal(goal) = BodyMode(body)
  BY <1>0, Classifying
<1>2. body \in Seq(GoalWords)
  BY <1>0, BodyFacts
<1>3. WordsOf(body)[1] \in Inquiries => ClassifyGoal(goal) = "single"
  BY <1>1 DEF BodyMode
<1>4. ASSUME NEW p \in Polite PROVE ClassifyGoal(<<p>> \o goal) = ClassifyGoal(goal)
  <2> DEFINE U == GoalWords \union {p}
             s == <<p>> \o goal
  <2>1. s \in Seq(U) /\ s # <<>> /\ s[1] = p
    OBVIOUS
  <2>2. StripPolite(s) = body
    BY <1>0, PoliteTwice
  <2> HIDE DEF s
  <2>3. p \notin Punctuation /\ p \notin Command
    BY GoalAssumption
  <2>4. ClassifyGoal(s) = BodyMode(StripPolite(s))
    BY <2>1, <2>3, Classifying
  <2> QED BY <1>1, <2>2, <2>4 DEF s
<1>5. ClassifyGoal(goal) = "multi" => Cardinality({i \in DOMAIN body : body[i] \in Verbs}) >= 3
  <2> DEFINE c == Cardinality({i \in DOMAIN body : body[i] \in Verbs})
  <2>1. WorkClauseCount(body) \in Nat /\ c \in Nat /\ WorkClauseCount(body) <= c
    BY <1>2, VerbsCounted
  <2> HIDE DEF c, body
  <2>2. ClassifyGoal(goal) = "multi" => WorkClauseCount(body) >= 3
    BY <1>1 DEF BodyMode
  <2>3. ClassifyGoal(goal) = "multi" => c >= 3
    BY <2>1, <2>2
  <2> QED BY <2>3 DEF c
<1> QED BY <1>3, <1>4, <1>5 DEF RoutedRight

-----------------------------------------------------------------------------
(* No word is lost between the router and the agents.                      *)

CutFacts(t, cuts) == cuts \subseteq 1 .. Len(t) /\ \A i \in 1 .. Len(t) : i \in cuts => t[i] \in Cutters

\* The clauses are cut at the commas, the semicolons and the joining words.
LEMMA ClausesAreCut ==
  ASSUME NEW T, NEW t \in Seq(T)
  PROVE  CutFacts(t, Cuts(t, {","}, {"and"}))
<1>1. LET cuts == Cuts(t, {","}, {"and"})
      IN  /\ cuts \subseteq 1 .. Len(t)
          /\ \A i \in 1 .. Len(t) : i \in cuts <=> CutsHere(t, {","}, {"and"}, cuts, i)
  BY CutsAre
<1> QED BY <1>1, Zenon DEF CutFacts, CutsHere, Cutters, Punctuation

\* The pieces are sequences of the words, none of them empty.
LEMMA PiecesAreTyped ==
  ASSUME NEW T, NEW t \in Seq(T), NEW cuts
  PROVE  Pieces(t, cuts) \in Seq(Seq(T)) /\ \A k \in DOMAIN Pieces(t, cuts) : Pieces(t, cuts)[k] # <<>>
<1>1. PICK p : Pieces(t, cuts) = p[Len(t)] /\ \A i \in 0 .. Len(t) : p[i] \in SomePieces(T, cuts, i)
  BY Splitting
<1>2. Len(t) \in 0 .. Len(t)
  OBVIOUS
<1>3. p[Len(t)] \in Seq(Seq(T) \ {<<>>})
  BY <1>1, <1>2 DEF SomePieces
<1> DEFINE q == p[Len(t)]
<1>4. q \in Seq(Seq(T)) /\ \A k \in DOMAIN q : q[k] # <<>>
  <2> HIDE DEF q
  <2>1. q \in Seq(Seq(T) \ {<<>>})
    BY <1>3 DEF q
  <2> QED BY <2>1
<1> QED BY <1>1, <1>4

\* The text a goal is split from.
Text(t) == IF t # <<>> /\ t[1] \in {"/plan", "/agent"} /\ Len(t) > 1 /\ t[2] \notin Punctuation THEN Tail(t) ELSE t

\* A first word that is left out anyway can be dropped first.
LEMMA HeadDropped ==
  ASSUME NEW T, NEW t \in Seq(T), t # <<>>, NEW S, t[1] \in S
  PROVE  Omitting(Tail(t), S) = Omitting(t, S)
<1> DEFINE n == Len(t) - 1
           u == Tail(t)
           P == {i \in DOMAIN t : t[i] \notin S}
           Q == {i \in DOMAIN u : u[i] \notin S}
<1>1. u \in Seq(T) /\ Len(u) = n /\ n \in Nat /\ Len(t) = n + 1 /\ \A i \in 1 .. n : u[i] = t[i + 1]
  OBVIOUS
<1>2. Omitting(t, S) = Picked(t, P) /\ Omitting(u, S) = Picked(u, Q)
  BY DEF Omitting
<1>3. \A i : i \in P <=> i \in 1 .. n + 1 /\ t[i] \notin S
  <2>1. DOMAIN t = 1 .. n + 1
    BY <1>1
  <2> QED BY <2>1
<1> HIDE DEF u
<1>4. \A i : i \in Q <=> i \in 1 .. n /\ u[i] \notin S
  <2>1. DOMAIN u = 1 .. n
    BY <1>1
  <2> QED BY <2>1
<1> HIDE DEF P, Q, n
<1>5. PICK p : Picks(t, P, p) /\ Picked(t, P) = p[n + 1]
  <2>1. \E p : Picks(t, P, p) /\ Picked(t, P) = p[Len(t)]
    BY Picking
  <2> QED BY <1>1, <2>1
<1>6. PICK q : Picks(u, Q, q) /\ Picked(u, Q) = q[n]
  <2>1. \E q : Picks(u, Q, q) /\ Picked(u, Q) = q[Len(u)]
    BY <1>1, Picking
  <2> QED BY <1>1, <2>1
<1> DEFINE R == {i \in 0 .. n : p[i + 1] = q[i]}
<1>7. 0 \in R
  <2>1. 1 \in 1 .. Len(t) /\ 0 \in 0 .. n
    BY <1>1
  <2>2. p[1] = IF 1 \in P THEN Append(p[1 - 1], t[1]) ELSE p[1 - 1]
    BY <1>5, <2>1, Zenon DEF Picks
  <2>3. 1 \notin P
    BY <1>3
  <2>4. p[0] = <<>> /\ q[0] = <<>>
    BY <1>5, <1>6 DEF Picks
  <2>5. p[1] = p[0]
    BY <2>2, <2>3
  <2>6. p[0 + 1] = q[0]
    BY <2>4, <2>5
  <2> QED BY <2>1, <2>6
<1>8. ASSUME NEW i \in 1 .. n, i - 1 \in R PROVE i \in R
  <2>1. i + 1 \in 1 .. Len(t) /\ i \in 1 .. Len(u) /\ i \in 0 .. n /\ i + 1 \in 1 .. n + 1 /\ i \in 1 .. n
    BY <1>1
  <2>2. p[i + 1] = IF i + 1 \in P THEN Append(p[(i + 1) - 1], t[i + 1]) ELSE p[(i + 1) - 1]
    BY <1>5, <2>1, Zenon DEF Picks
  <2>3. q[i] = IF i \in Q THEN Append(q[i - 1], u[i]) ELSE q[i - 1]
    BY <1>6, <2>1, Zenon DEF Picks
  <2>4. i + 1 \in P <=> i \in Q
    BY <1>1, <1>3, <1>4, <2>1, Zenon
  <2>5. (i + 1) - 1 = i /\ (i - 1) + 1 = i
    OBVIOUS
  <2>6. p[(i + 1) - 1] = q[i - 1]
    BY <1>8, <2>5
  <2>7. u[i] = t[i + 1]
    BY <1>1
  <2>8. p[i + 1] = q[i]
    BY <2>2, <2>3, <2>4, <2>6, <2>7, Zenon
  <2> QED BY <2>1, <2>8
<1>9. 0 .. n \subseteq R
  <2> HIDE DEF R
  <2> QED BY <1>1, <1>7, <1>8, NatUpTo
<1>10. p[n + 1] = q[n]
  BY <1>1, <1>9
<1> QED BY <1>2, <1>5, <1>6, <1>10 DEF u

\* The text the planner cuts says what the goal says.
LEMMA TextSaid ==
  ASSUME NEW T, NEW t \in Seq(T), t # <<>>
  PROVE  Text(t) \in Seq(T) /\ Text(t) # <<>> /\ Omitting(Text(t), Cutters) = Omitting(t, Cutters)
<1>1. CASE t[1] \in {"/plan", "/agent"} /\ Len(t) > 1 /\ t[2] \notin Punctuation
  <2>1. Text(t) = Tail(t)
    BY <1>1 DEF Text
  <2>2. Tail(t) \in Seq(T) /\ Len(Tail(t)) = Len(t) - 1
    OBVIOUS
  <2>3. Tail(t) # <<>>
    <3>1. Len(t) - 1 # 0
      <4> DEFINE l == Len(t)
      <4>1. l > 1 /\ l \in Nat
        BY <1>1
      <4> HIDE DEF l
      <4>2. l - 1 # 0
        BY <4>1, SMT
      <4> QED BY <4>2 DEF l
    <3> DEFINE u == Tail(t)
    <3> HIDE DEF u
    <3>2. u # <<>>
      BY <2>2, <3>1 DEF u
    <3> QED BY <3>2 DEF u
  <2>4. t[1] \in Cutters
    BY <1>1 DEF Cutters, Command
  <2>5. Omitting(Tail(t), Cutters) = Omitting(t, Cutters)
    BY <2>4, HeadDropped
  <2> QED BY <2>1, <2>2, <2>3, <2>5
<1>2. CASE ~ (t[1] \in {"/plan", "/agent"} /\ Len(t) > 1 /\ t[2] \notin Punctuation)
  <2>1. Text(t) = t
    BY <1>2 DEF Text
  <2> QED BY <2>1
<1> QED BY <1>1, <1>2

\* The todos of a plan.
LEMMA ClausesAre ==
  ASSUME NEW t
  PROVE  LET pieces == Pieces(Text(t), Cuts(Text(t), {","}, {"and"}))
         IN  Clauses(t, "multi") = IF pieces = <<>> THEN <<Text(t)>> ELSE pieces
BY DEF Clauses, Text

\* One sequence joins to itself.
LEMMA OneJoined ==
  ASSUME NEW T, NEW x \in Seq(T)
  PROVE  FlattenSeq(<<x>>) = x
<1>1. <<>> \in Seq(Seq(T)) /\ Append(<<>>, x) = <<x>> /\ <<>> \o x = x
  OBVIOUS
<1>2. FlattenSeq(Append(<<>>, x)) = FlattenSeq(<<>>) \o x
  BY <1>1, JoinedMore
<1> QED BY <1>1, <1>2, JoinedNone, Zenon

\* The clauses say what the goal says, and there is one at least.
LEMMA ClausesSay ==
  ASSUME NEW T, NEW t \in Seq(T), t # <<>>
  PROVE  /\ Clauses(t, "multi") # <<>>
         /\ Omitting(FlattenSeq(Clauses(t, "multi")), Cutters) = Omitting(t, Cutters)
         /\ \A i \in DOMAIN Clauses(t, "multi") : Clauses(t, "multi")[i] # <<>>
<1> DEFINE u == Text(t)
           cuts == Cuts(u, {","}, {"and"})
           pieces == Pieces(u, cuts)
           titls == Clauses(t, "multi")
<1>1. u \in Seq(T) /\ u # <<>> /\ Omitting(u, Cutters) = Omitting(t, Cutters)
  BY TextSaid
<1>2. titls = IF pieces = <<>> THEN <<u>> ELSE pieces
  BY ClausesAre
<1>3. \A i \in 1 .. Len(u) : i \in cuts => u[i] \in Cutters
  <2>1. CutFacts(u, cuts)
    BY <1>1, ClausesAreCut
  <2> QED BY <2>1 DEF CutFacts
<1> HIDE DEF u, cuts, titls
<1>4. Omitting(FlattenSeq(pieces), Cutters) = Omitting(u, Cutters)
  BY <1>1, <1>3, PiecesSay
<1>5. \A k \in DOMAIN pieces : pieces[k] # <<>>
  BY <1>1, PiecesAreTyped
<1> HIDE DEF pieces
<1>6. CASE pieces = <<>>
  <2>1. titls = <<u>>
    BY <1>2, <1>6
  <2>2. FlattenSeq(titls) = u
    BY <1>1, <2>1, OneJoined
  <2>3. titls # <<>> /\ \A i \in DOMAIN titls : titls[i] # <<>>
    BY <1>1, <2>1
  <2> QED BY <1>1, <2>2, <2>3 DEF titls
<1>7. CASE pieces # <<>>
  <2>1. titls = pieces
    BY <1>2, <1>7
  <2> QED BY <1>1, <1>4, <1>5, <1>7, <2>1 DEF titls
<1> QED BY <1>6, <1>7

\* A plan is made of the goal as it was typed.
PlanIsMade == way = "plan" => goal # <<>> /\ ClassifyGoal(goal) = "multi" /\ titles = Clauses(goal, "multi")

\* EveryPieceIsTaken: the titles of the plan say, together, what the goal says.
LEMMA EveryPieceTaken == goal \in Seq(GoalWords) /\ PlanIsMade => EveryPieceIsTaken
<1> SUFFICES ASSUME goal \in Seq(GoalWords), PlanIsMade, way = "plan" PROVE EveryPieceIsTaken
  BY DEF EveryPieceIsTaken
<1>1. goal # <<>> /\ titles = Clauses(goal, "multi")
  BY DEF PlanIsMade
<1> QED BY <1>1, ClausesSay DEF EveryPieceIsTaken

GoalIsKept ==
    /\ goal \in Seq(GoalWords)
    /\ StartsWell
    /\ PlanIsMade
    /\ way \in {"typing", "plan", "headless"}

\* The invariant holds when no goal is typed.
LEMMA GoalStarts == GoalInit => GoalIsKept
BY DEF GoalInit, GoalIsKept, StartsWell, PlanIsMade

\* Typing a word and starting the plan keep the invariant.
LEMMA GoalGoesOn == GoalIsKept /\ [GoalNext]_goalVars => GoalIsKept'
<1> SUFFICES ASSUME GoalIsKept, [GoalNext]_goalVars PROVE GoalIsKept'
  OBVIOUS
<1>1. ASSUME NEW w \in GoalWords, TypeGoal(w) PROVE GoalIsKept'
  <2>1. way = "typing" /\ goal' = Append(goal, w) /\ titles' = titles /\ way' = way
    BY <1>1 DEF TypeGoal
  <2>2. goal' \in Seq(GoalWords)
    BY <2>1 DEF GoalIsKept
  <2>3. goal'[1] \notin Punctuation
    <3>1. CASE goal = <<>>
      <4>1. goal'[1] = w
        BY <2>1, <3>1
      <4> QED BY <1>1, <3>1, <4>1 DEF TypeGoal
    <3>2. CASE goal # <<>>
      <4>1. goal'[1] = goal[1]
        BY <2>1, <3>2 DEF GoalIsKept
      <4> QED BY <3>2, <4>1 DEF GoalIsKept, StartsWell
    <3> QED BY <3>1, <3>2
  <2>4. StartsWell' /\ PlanIsMade' /\ way' \in {"typing", "plan", "headless"}
    BY <2>1, <2>3 DEF StartsWell, PlanIsMade
  <2> QED BY <2>2, <2>4 DEF GoalIsKept
<1>2. ASSUME StartPlan PROVE GoalIsKept'
  <2> DEFINE mode == ClassifyGoal(goal)
  <2>1. /\ goal # <<>> /\ goal' = goal
        /\ way' = IF Route(mode) = "orchestrate" THEN "plan" ELSE "headless"
        /\ titles' = IF way' = "plan" THEN Clauses(goal, mode) ELSE <<>>
    BY <1>2 DEF StartPlan
  <2>2. ClassifyGoal(goal') = mode /\ Clauses(goal', "multi") = Clauses(goal, "multi")
    BY <2>1
  <2> HIDE DEF mode
  <2>3. Route(mode) = "orchestrate" => mode = "multi"
    BY DEF Route
  <2>4. way' = "plan" => mode = "multi" /\ titles' = Clauses(goal', "multi")
    BY <2>1, <2>2, <2>3
  <2>5. PlanIsMade'
    BY <2>1, <2>2, <2>4 DEF PlanIsMade
  <2>6. StartsWell' /\ goal' \in Seq(GoalWords) /\ way' \in {"typing", "plan", "headless"}
    BY <2>1 DEF GoalIsKept, StartsWell
  <2> QED BY <2>5, <2>6 DEF GoalIsKept
<1>3. CASE UNCHANGED goalVars
  <2>1. goal' = goal /\ titles' = titles /\ way' = way
    BY <1>3 DEF goalVars
  <2>2. ClassifyGoal(goal') = ClassifyGoal(goal) /\ Clauses(goal', "multi") = Clauses(goal, "multi")
    BY <2>1
  <2> QED BY <2>1, <2>2 DEF GoalIsKept, StartsWell, PlanIsMade
<1> QED BY <1>1, <1>2, <1>3 DEF GoalNext

-----------------------------------------------------------------------------
(* What the router counts in a goal without its opening, the plan has.     *)

\* The count of the body runs ahead of the goal's by one at most.
CloseUp(cuts, q, i, cuts2, r, j) ==
    \/ (ClauseSettled(cuts, q, i) <=> ClauseSettled(cuts2, r, j)) /\ WorkIn(r) <= WorkIn(q) + 1
    \/ WorkIn(r) <= WorkIn(q) /\ ~ ClauseSettled(cuts2, r, j)

\* A step over the same word at the same kind of place does the same to the clauses of both.
LEMMA SideBySide ==
  ASSUME NEW T, NEW t \in Seq(T), NEW u \in Seq(T), NEW c, NEW d, NEW i \in 1 .. Len(t), NEW j \in 1 .. Len(u),
         NEW q \in SomePieces(T, c, i - 1), NEW r \in SomePieces(T, d, j - 1),
         NEW q2, q2 = WithWord(q, t, c, i), NEW r2, r2 = WithWord(r, u, d, j),
         u[j] = t[i], i \in c <=> j \in d, CloseUp(c, q, i - 1, d, r, j - 1)
  PROVE  CloseUp(c, q2, i, d, r2, j)
<1> DEFINE a == WorkIn(q)
           a2 == WorkIn(q2)
           b == WorkIn(r)
           b2 == WorkIn(r2)
           w == t[i]
<1>1. /\ a \in Nat
      /\ i \in c => a2 = a /\ ~ ClauseSettled(c, q2, i)
      /\ (i \notin c /\ w \in Skipped) => a2 = a /\ (ClauseSettled(c, q2, i) <=> ClauseSettled(c, q, i - 1))
      /\ (i \notin c /\ w \notin Skipped) =>
            /\ ClauseSettled(c, q2, i)
            /\ a2 = a + (IF ~ ClauseSettled(c, q, i - 1) /\ w \in Verbs THEN 1 ELSE 0)
  BY WordCounted, SMTT(30)
<1>2. /\ b \in Nat
      /\ j \in d => b2 = b /\ ~ ClauseSettled(d, r2, j)
      /\ (j \notin d /\ u[j] \in Skipped) => b2 = b /\ (ClauseSettled(d, r2, j) <=> ClauseSettled(d, r, j - 1))
      /\ (j \notin d /\ u[j] \notin Skipped) =>
            /\ ClauseSettled(d, r2, j)
            /\ b2 = b + (IF ~ ClauseSettled(d, r, j - 1) /\ u[j] \in Verbs THEN 1 ELSE 0)
  BY WordCounted, SMTT(30)
<1>3. u[j] = w /\ (i \in c <=> j \in d)
  OBVIOUS
<1>4. \/ (ClauseSettled(c, q, i - 1) <=> ClauseSettled(d, r, j - 1)) /\ b <= a + 1
      \/ b <= a /\ ~ ClauseSettled(d, r, j - 1)
  BY DEF CloseUp
<1> SUFFICES \/ (ClauseSettled(c, q2, i) <=> ClauseSettled(d, r2, j)) /\ b2 <= a2 + 1
             \/ b2 <= a2 /\ ~ ClauseSettled(d, r2, j)
  BY DEF CloseUp
<1> HIDE DEF a, b, a2, b2, w
<1>5. CASE i \in c
  BY <1>1, <1>2, <1>3, <1>4, <1>5
<1>6. CASE i \notin c /\ w \in Skipped
  BY <1>1, <1>2, <1>3, <1>4, <1>6
<1>7. CASE i \notin c /\ w \notin Skipped
  <2>1. ClauseSettled(c, q2, i) /\ a2 = a + (IF ~ ClauseSettled(c, q, i - 1) /\ w \in Verbs THEN 1 ELSE 0)
    BY <1>1, <1>7
  <2>2. ClauseSettled(d, r2, j) /\ b2 = b + (IF ~ ClauseSettled(d, r, j - 1) /\ w \in Verbs THEN 1 ELSE 0)
    BY <1>2, <1>3, <1>7
  <2>3. b2 <= a2 + 1
    BY <1>1, <1>2, <1>4, <2>1, <2>2
  <2> QED BY <2>1, <2>2, <2>3
<1> QED BY <1>5, <1>6, <1>7

\* The cuts of the router.
RouterCuts(t) == Cuts(t, Punctuation, {"and", "then"})

\* Where the router cuts, said of one position.
LEMMA RouterCutsAre ==
  ASSUME NEW T, NEW t \in Seq(T)
  PROVE  /\ RouterCuts(t) \subseteq 1 .. Len(t)
         /\ \A i \in 1 .. Len(t) : i \in RouterCuts(t) <=> CutsHere(t, Punctuation, {"and", "then"}, RouterCuts(t), i)
         /\ \A i \in 1 .. Len(t) : i \in RouterCuts(t) => t[i] \in Skipped
<1>1. /\ RouterCuts(t) \subseteq 1 .. Len(t)
      /\ \A i \in 1 .. Len(t) : i \in RouterCuts(t) <=> CutsHere(t, Punctuation, {"and", "then"}, RouterCuts(t), i)
  BY CutsAre, Zenon DEF RouterCuts
<1>2. {"and", "then"} \subseteq Skipped /\ Punctuation \subseteq Skipped
  BY GoalAssumption DEF Skipped
<1> QED BY <1>1, <1>2, Zenon DEF CutsHere

\* Neither ";" nor "then" stands in the text.
Plain(t) == \A i \in 1 .. Len(t) : t[i] \notin {";", "then"}

\* Cuts that are decided alike are the same.
LEMMA SameCuts ==
  ASSUME NEW T, NEW t \in Seq(T), Plain(t)
  PROVE  Cuts(t, {","}, {"and"}) = RouterCuts(t)
<1> DEFINE c == Cuts(t, {","}, {"and"})
           d == RouterCuts(t)
           n == Len(t)
           M == {","}
           W == {"and"}
<1>1. /\ c \subseteq 1 .. n
      /\ \A i \in 1 .. n : i \in c <=> CutsHere(t, M, W, c, i)
  BY CutsAre, Zenon
<1>2. /\ d \subseteq 1 .. n
      /\ \A i \in 1 .. n : i \in d <=> CutsHere(t, Punctuation, {"and", "then"}, d, i)
  BY RouterCutsAre, Zenon
<1>3. \A i \in 1 .. n : (t[i] \in M <=> t[i] \in Punctuation) /\ (t[i] \in W <=> t[i] \in {"and", "then"})
  BY DEF Punctuation, Plain
<1>0. n \in Nat
  OBVIOUS
<1> HIDE DEF c, d, M, W, n
<1> DEFINE S == {i \in 0 .. n : i = 0 \/ (i \in c <=> i \in d)}
<1>4. 0 \in S
  BY <1>0
<1>5. ASSUME NEW i \in 1 .. n, i - 1 \in S PROVE i \in S
  <2>1. 1 < i => i - 1 \in 1 .. n /\ ((i - 1) \in c <=> (i - 1) \in d)
    BY <1>0, <1>5
  <2>2. i \in c <=> CutsHere(t, M, W, c, i)
    BY <1>1, Zenon
  <2>3. i \in d <=> CutsHere(t, Punctuation, {"and", "then"}, d, i)
    BY <1>2, Zenon
  <2>4. CutsHere(t, M, W, c, i) <=> CutsHere(t, Punctuation, {"and", "then"}, d, i)
    BY <1>3, <2>1, Zenon DEF CutsHere
  <2>5. i \in c <=> i \in d
    BY <2>2, <2>3, <2>4, Zenon
  <2>6. i \in 0 .. n
    BY <1>0
  <2> QED BY <2>5, <2>6
<1>6. 0 .. n \subseteq S
  <2> HIDE DEF S
  <2> QED BY <1>0, <1>4, <1>5, NatUpTo
<1>7. \A i \in 1 .. n : i \in c <=> i \in d
  <2> SUFFICES ASSUME NEW i \in 1 .. n PROVE i \in c <=> i \in d
    OBVIOUS
  <2>1. i \in 0 .. n /\ i # 0
    BY <1>0
  <2> QED BY <1>6, <2>1
<1>8. c = d
  BY <1>1, <1>2, <1>7
<1> QED BY <1>8 DEF c, d, M, W

-----------------------------------------------------------------------------
\* The cuts of a text and of what is left of it behind its first m words are
\* the same once a word is behind them that is more than a cut.
Aligned(c, d, u, m, j) ==
    \/ j >= 1 /\ (m + j \in c <=> j \in d)
    \/ \A k \in 1 .. j : u[k] \in Skipped

\* Two texts of which one ends with the other are cut alike where they agree.
LEMMA Aligning ==
  ASSUME NEW T, NEW t \in Seq(T), NEW u \in Seq(T), NEW m \in Nat \ {0}, Len(t) = m + Len(u),
         \A j \in 1 .. Len(u) : u[j] = t[m + j], NEW j \in 1 .. Len(u),
         Aligned(RouterCuts(t), RouterCuts(u), u, m, j - 1)
  PROVE  Aligned(RouterCuts(t), RouterCuts(u), u, m, j)
<1> DEFINE c == RouterCuts(t)
           d == RouterCuts(u)
           n == Len(t)
           l == Len(u)
           w == {"and", "then"}
<1>1. \A i \in 1 .. n : i \in c <=> CutsHere(t, Punctuation, w, c, i)
  BY RouterCutsAre, Zenon
<1>2. \A i \in 1 .. l : i \in d <=> CutsHere(u, Punctuation, w, d, i)
  BY RouterCutsAre, Zenon
<1>0. l \in Nat /\ n = m + l /\ m + j \in 1 .. n /\ (m + j) - 1 = m + (j - 1)
  OBVIOUS
<1>3. m + j \in c <=> CutsHere(t, Punctuation, w, c, m + j)
  BY <1>0, <1>1, Zenon
<1>4. j \in d <=> CutsHere(u, Punctuation, w, d, j)
  BY <1>2, Zenon
<1>5. w \subseteq Skipped /\ Punctuation \subseteq Skipped
  BY GoalAssumption DEF Skipped
<1>6. u[j] = t[m + j] /\ (j < l => u[j + 1] = t[(m + j) + 1]) /\ (1 < j => u[j - 1] = t[(m + j) - 1])
  <2>1. j < l => j + 1 \in 1 .. l /\ m + (j + 1) = (m + j) + 1
    BY <1>0
  <2>2. 1 < j => j - 1 \in 1 .. l /\ m + (j - 1) = (m + j) - 1
    BY <1>0
  <2> HIDE DEF c, d, n
  <2>3. j < l => u[j + 1] = t[m + (j + 1)]
    BY <2>1
  <2>4. 1 < j => u[j - 1] = t[m + (j - 1)]
    BY <2>2
  <2> QED BY <2>1, <2>2, <2>3, <2>4
<1>7. 1 < m + j /\ (m + j < n <=> j < l)
  BY <1>0
<1> HIDE DEF c, d, n, l, w
<1>8. CASE \A k \in 1 .. j - 1 : u[k] \in Skipped
  <2>1. CASE u[j] \in Skipped
    <3>1. \A k \in 1 .. j : k \in 1 .. j - 1 \/ k = j
      OBVIOUS
    <3> QED BY <1>8, <2>1, <3>1, Zenon DEF Aligned
  <2>2. CASE u[j] \notin Skipped
    <3>1. u[j] \notin Punctuation /\ u[j] \notin w
      BY <1>5, <2>2
    <3>2. m + j \notin c /\ j \notin d
      BY <1>3, <1>4, <1>6, <3>1, Zenon DEF CutsHere
    <3>3. j >= 1
      OBVIOUS
    <3> QED BY <3>2, <3>3 DEF Aligned, c, d
  <2> QED BY <2>1, <2>2
<1>9. CASE j - 1 >= 1 /\ (m + (j - 1) \in c <=> j - 1 \in d)
  <2>1. 1 < j /\ j >= 1
    BY <1>9
  <2>2. (m + j) - 1 \in c <=> j - 1 \in d
    BY <1>0, <1>9
  <2>3. CutsHere(t, Punctuation, w, c, m + j) <=> CutsHere(u, Punctuation, w, d, j)
    BY <1>6, <1>7, <2>1, <2>2, Zenon DEF CutsHere, n, l
  <2> QED BY <1>3, <1>4, <2>1, <2>3 DEF Aligned, c, d
<1> QED BY <1>8, <1>9, Zenon DEF Aligned, c, d

\* u is what is left of t behind its first m words.
Rest(t, u, m) == Len(t) = m + Len(u) /\ \A j \in 1 .. Len(u) : u[j] = t[m + j]

\* Nothing was said in the first j words.
SaysNothing(u, j) == \A k \in 1 .. j : u[k] \in Skipped

\* The work in some clauses is a number.
LEMMA WorkTyped == \A T : \A q \in Seq(Seq(T)) : WorkIn(q) \in Nat
<1> SUFFICES ASSUME NEW T, NEW q \in Seq(Seq(T)) PROVE WorkIn(q) \in Nat
  OBVIOUS
<1>1. <<>> \in Seq(T)
  OBVIOUS
<1> QED BY <1>1, WorkMore

\* What stands in front of a text is worth one clause at most.
LEMMA RestCounted ==
  ASSUME NEW T, NEW t \in Seq(T), NEW u \in Seq(T), NEW m \in Nat \ {0}, Rest(t, u, m)
  PROVE  WorkClauseCount(u) <= WorkClauseCount(t) + 1
<1> DEFINE c == RouterCuts(t)
           d == RouterCuts(u)
           n == Len(t)
           l == Len(u)
<1>0. l \in Nat /\ 0 \in 0 .. l /\ l \in 0 .. l /\ n \in Nat
  OBVIOUS
<1>r. n = m + l
  BY DEF Rest
<1>1. PICK p : /\ Splits(t, c, p) /\ Pieces(t, c) = p[n]
               /\ \A i \in 0 .. n : p[i] \in SomePieces(T, c, i)
  BY Splitting
<1>2. PICK r : /\ Splits(u, d, r) /\ Pieces(u, d) = r[l]
               /\ \A i \in 0 .. l : r[i] \in SomePieces(T, d, i)
  BY Splitting
<1>3. /\ \A i \in 1 .. n : p[i] = WithWord(p[i - 1], t, c, i)
      /\ r[0] = <<>> /\ \A i \in 1 .. l : r[i] = WithWord(r[i - 1], u, d, i)
  BY <1>1, <1>2, Zenon DEF Splits
<1>4. WorkClauseCount(u) = WorkIn(r[l]) /\ WorkClauseCount(t) = WorkIn(p[n])
  BY <1>1, <1>2 DEF WorkClauseCount, RouterCuts
<1>5. \A i \in 1 .. l : i \in d => u[i] \in Skipped
  BY RouterCutsAre, Zenon
<1> HIDE DEF c, d, n, l
<1>s. \A i \in 0 .. n : WorkIn(p[i]) \in Nat
  <2> SUFFICES ASSUME NEW i \in 0 .. n PROVE WorkIn(p[i]) \in Nat
    OBVIOUS
  <2>1. p[i] \in Seq(Seq(T))
    BY <1>1 DEF SomePieces
  <2> QED BY <2>1, WorkTyped
<1>t. \A i \in 0 .. l : WorkIn(r[i]) \in Nat
  <2> SUFFICES ASSUME NEW i \in 0 .. l PROVE WorkIn(r[i]) \in Nat
    OBVIOUS
  <2>1. r[i] \in Seq(Seq(T))
    BY <1>2 DEF SomePieces
  <2> QED BY <2>1, WorkTyped
<1> DEFINE Good(j) == /\ Aligned(c, d, u, m, j)
                      /\ CloseUp(c, p[m + j], m + j, d, r[j], j)
                      /\ SaysNothing(u, j) => WorkIn(r[j]) = 0 /\ ~ ClauseSettled(d, r[j], j)
           S == {j \in 0 .. l : Good(j)}
<1>6. 0 \in S
  <2>1. Aligned(c, d, u, m, 0)
    BY DEF Aligned
  <2>2. WorkIn(r[0]) = 0 /\ ~ ClauseSettled(d, r[0], 0)
    BY <1>3, NoWork DEF ClauseSettled
  <2>3. WorkIn(p[m + 0]) \in Nat
    <3>1. m + 0 \in 0 .. n
      BY <1>0, <1>r
    <3> QED BY <1>s, <3>1
  <2>4. CloseUp(c, p[m + 0], m + 0, d, r[0], 0)
    BY <2>2, <2>3 DEF CloseUp
  <2> QED BY <1>0, <2>1, <2>2, <2>4
<1>7. ASSUME NEW j \in 1 .. l, j - 1 \in S PROVE j \in S
  <2> DEFINE i == m + j
             q1 == p[m + (j - 1)]
             q2 == p[i]
             r1 == r[j - 1]
             r2 == r[j]
  <2>0. i \in 1 .. n /\ m + (j - 1) = i - 1 /\ j \in 0 .. l /\ j - 1 \in 0 .. l /\ i - 1 \in 0 .. n /\ i \in 0 .. n
    BY <1>0, <1>r
  <2>1. Aligned(c, d, u, m, j - 1) /\ CloseUp(c, q1, m + (j - 1), d, r1, j - 1)
    BY <1>7
  <2>2. SaysNothing(u, j - 1) => WorkIn(r1) = 0 /\ ~ ClauseSettled(d, r1, j - 1)
    BY <1>7
  <2>3. Aligned(c, d, u, m, j)
    <3>1. Aligned(RouterCuts(t), RouterCuts(u), u, m, j - 1)
      BY <2>1 DEF c, d
    <3>2. j \in 1 .. Len(u) /\ Len(t) = m + Len(u) /\ \A k \in 1 .. Len(u) : u[k] = t[m + k]
      BY DEF l, Rest
    <3> QED BY <3>1, <3>2, Aligning DEF c, d
  <2>4. q2 = WithWord(q1, t, c, i) /\ r2 = WithWord(r1, u, d, j)
    <3>1. p[i] = WithWord(p[i - 1], t, c, i)
      BY <1>3, <2>0, Zenon
    <3>2. r[j] = WithWord(r[j - 1], u, d, j)
      BY <1>3, Zenon
    <3> QED BY <2>0, <3>1, <3>2
  <2>5. q1 \in SomePieces(T, c, i - 1) /\ r1 \in SomePieces(T, d, j - 1)
    BY <1>1, <1>2, <2>0
  <2>6. i \in 1 .. Len(t) /\ j \in 1 .. Len(u) /\ u[j] = t[i]
    <3>1. j \in 1 .. Len(u)
      BY DEF l
    <3>2. u[j] = t[m + j]
      BY <3>1, Zenon DEF Rest
    <3> QED BY <2>0, <3>1, <3>2 DEF n
  <2>7. WorkIn(q2) \in Nat /\ WorkIn(r1) \in Nat
    BY <1>s, <1>t, <2>0
  <2> HIDE DEF q1, q2, r1, r2
  <2>8. SaysNothing(u, j) => WorkIn(r2) = 0 /\ ~ ClauseSettled(d, r2, j)
    <3> SUFFICES ASSUME SaysNothing(u, j) PROVE WorkIn(r2) = 0 /\ ~ ClauseSettled(d, r2, j)
      OBVIOUS
    <3>1. SaysNothing(u, j - 1) /\ u[j] \in Skipped
      <4>1. j \in 1 .. j /\ \A k \in 1 .. j - 1 : k \in 1 .. j
        OBVIOUS
      <4> QED BY <4>1, Zenon DEF SaysNothing
    <3>2. WorkIn(r1) = 0 /\ ~ ClauseSettled(d, r1, j - 1)
      BY <2>2, <3>1
    <3>3. /\ j \in d => WorkIn(r2) = WorkIn(r1) /\ ~ ClauseSettled(d, r2, j)
          /\ (j \notin d /\ u[j] \in Skipped) =>
                 WorkIn(r2) = WorkIn(r1) /\ (ClauseSettled(d, r2, j) <=> ClauseSettled(d, r1, j - 1))
      BY <2>4, <2>5, <2>6, WordCounted, SMTT(30)
    <3> QED BY <3>1, <3>2, <3>3
  <2>9. CloseUp(c, q2, i, d, r2, j)
    <3>1. CASE SaysNothing(u, j)
      <4>1. WorkIn(r2) = 0 /\ ~ ClauseSettled(d, r2, j)
        BY <2>8, <3>1
      <4> QED BY <2>7, <4>1 DEF CloseUp
    <3>2. CASE ~ SaysNothing(u, j)
      <4>1. i \in c <=> j \in d
        BY <2>3, <3>2, Zenon DEF Aligned, SaysNothing
      <4>2. CloseUp(c, q1, i - 1, d, r1, j - 1)
        BY <2>0, <2>1
      <4> HIDE DEF i
      <4> QED BY <2>4, <2>5, <2>6, <4>1, <4>2, SideBySide
    <3> QED BY <3>1, <3>2
  <2> QED BY <2>0, <2>3, <2>8, <2>9 DEF q2, r2
<1>8. 0 .. l \subseteq S
  <2> HIDE DEF S
  <2> QED BY <1>0, <1>6, <1>7, NatUpTo
<1>9. CloseUp(c, p[n], n, d, r[l], l)
  <2>1. Good(l)
    BY <1>0, <1>8
  <2> QED BY <1>r, <2>1
<1>10. WorkIn(p[n]) \in Nat /\ WorkIn(r[l]) \in Nat
  <2>1. n \in 0 .. n
    BY <1>0
  <2> QED BY <1>0, <1>s, <1>t, <2>1
<1> QED BY <1>4, <1>9, <1>10 DEF CloseUp

\* A text without a semicolon or a 'then' is plain.
LEMMA PlainText == \A T : \A t \in Seq(T) : (\A i \in DOMAIN t : t[i] \notin {";", "then"}) => Plain(t)
<1> SUFFICES ASSUME NEW T, NEW t \in Seq(T) PROVE (\A i \in DOMAIN t : t[i] \notin {";", "then"}) => Plain(t)
  OBVIOUS
<1>1. DOMAIN t = 1 .. Len(t)
  OBVIOUS
<1> QED BY <1>1, Zenon DEF Plain

\* The todos of a plan without a command: the router's clauses, more work than two of them.
LEMMA ClausesTodos == goal \in Seq(GoalWords) /\ StartsWell /\ PlanIsMade => ClausesAreTodos
<1> SUFFICES ASSUME goal \in Seq(GoalWords), StartsWell, PlanIsMade, way = "plan", goal[1] \notin Command, Plain(goal)
             PROVE  WorkIn(titles) + (IF StripPolite(goal) = goal THEN 0 ELSE 1) >= 3
  BY PlainText DEF ClausesAreTodos
<1> DEFINE body == StripPolite(goal)
           n == Len(goal)
           pieces == Pieces(goal, RouterCuts(goal))
<1>1. goal # <<>> /\ goal[1] \notin Punctuation /\ titles = Clauses(goal, "multi") /\ ClassifyGoal(goal) = "multi"
  BY DEF PlanIsMade, StartsWell
<1>2. body \in Seq(GoalWords)
  BY <1>1, BodyFacts
<1>3. WorkClauseCount(body) >= 3
  <2>1. BodyMode(body) = "multi"
    BY <1>1, Classifying
  <2> HIDE DEF body
  <2> QED BY <2>1 DEF BodyMode
<1>5. Cuts(goal, {","}, {"and"}) = RouterCuts(goal)
  BY SameCuts
<1>6. Text(goal) = goal
  BY DEF Text, Command
<1>7. titles = IF pieces = <<>> THEN <<goal>> ELSE pieces
  BY <1>1, <1>5, <1>6, ClausesAre
<1>8. WorkClauseCount(goal) = WorkIn(pieces) /\ WorkClauseCount(goal) \in Nat /\ WorkClauseCount(body) \in Nat
  BY <1>2, VerbsCounted DEF WorkClauseCount, RouterCuts
<1>9. WorkClauseCount(body) <= WorkClauseCount(goal) + (IF body = goal THEN 0 ELSE 1)
  <2>1. CASE body = goal
    BY <1>8, <2>1
  <2>2. CASE body # goal
    <3>1. PICK m \in 0 .. n : body = SubSeq(goal, m + 1, n)
      BY Stripping
    <3>2. m # 0
      <4>1. SubSeq(goal, 1, n) = goal
        OBVIOUS
      <4> HIDE DEF body
      <4> QED BY <2>2, <3>1, <4>1
    <3>3. Rest(goal, body, m)
      <4> DEFINE b == SubSeq(goal, m + 1, n)
      <4>1. /\ Len(b) = n - m /\ \A j \in 1 .. n - m : b[j] = goal[m + j]
        OBVIOUS
      <4>2. n = m + (n - m)
        OBVIOUS
      <4> HIDE DEF b, body
      <4>3. body = b
        BY <3>1 DEF b
      <4> QED BY <4>1, <4>2, <4>3 DEF Rest
    <3>4. m \in Nat \ {0}
      BY <3>2
    <3> HIDE DEF body
    <3>5. WorkClauseCount(body) <= WorkClauseCount(goal) + 1
      BY <1>2, <3>3, <3>4, RestCounted
    <3> QED BY <2>2, <3>5
  <2> QED BY <2>1, <2>2
<1> HIDE DEF body, pieces
<1>10. WorkIn(pieces) >= 2
  BY <1>3, <1>8, <1>9
<1>11. pieces # <<>>
  BY <1>10, NoWork
<1>12. titles = pieces
  BY <1>7, <1>11
<1> QED BY <1>3, <1>8, <1>9, <1>12 DEF body

\* GoalSound, from the invariant.
LEMMA GoalIsSound == GoalIsKept => GoalSound
BY EveryPieceTaken, ClausesTodos, RoutingIsRight DEF GoalIsKept, GoalSound

-----------------------------------------------------------------------------
(* The window.                                                             *)

\* A percentage of a, rounded down.
LEMMA Percent ==
  ASSUME NEW a \in Nat, NEW p \in Nat
  PROVE  (a * p) \div 100 \in Nat /\ 100 * ((a * p) \div 100) <= a * p /\ a * p < 100 * ((a * p) \div 100) + 100
<1> DEFINE x == a * p
<1>1. x \in Nat
  OBVIOUS
<1> HIDE DEF x
<1>2. x \div 100 \in Nat /\ 100 * (x \div 100) <= x /\ x < 100 * (x \div 100) + 100
  BY <1>1
<1> QED BY <1>2 DEF x

\* The smaller and the larger of two numbers.
LEMMA LeastMost ==
  ASSUME NEW a \in Nat, NEW b \in Nat
  PROVE  /\ Least(a, b) \in Nat /\ Least(a, b) <= a /\ Least(a, b) <= b /\ (Least(a, b) = a \/ Least(a, b) = b)
         /\ Most(a, b) \in Nat /\ Most(a, b) >= a /\ Most(a, b) >= b /\ (Most(a, b) = a \/ Most(a, b) = b)
BY DEF Least, Most

\* What is reserved for the reply is half of the window at most.
LEMMA ReserveIs ==
  ASSUME NEW w \in Nat
  PROVE  /\ ReserveFor(w) \in Nat /\ ReserveFor(w) <= w
         /\ w > 0 => ReserveFor(w) >= 1
         /\ ReserveFor(w) * 2 <= w \/ w = 1
         /\ w >= 2 => ReserveFor(w) < w
<1> DEFINE x == (w * 15) \div 100
           h == (w * 50) \div 100
           a == Most(x, 1024)
           b == Least(a, h)
           r == Most(1, b)
<1>1. x \in Nat /\ h \in Nat /\ 100 * h <= w * 50
  BY Percent
<1>2. ReserveFor(w) = IF w = 0 THEN 0 ELSE r
  BY DEF ReserveFor
<1> HIDE DEF x, h, a
<1>3. a \in Nat
  BY <1>1, LeastMost DEF a
<1> HIDE DEF b
<1>4. b \in Nat /\ b <= h
  BY <1>1, <1>3, LeastMost DEF b
<1> HIDE DEF r
<1>5. r \in Nat /\ r >= 1 /\ (r = 1 \/ r = b)
  BY <1>4, LeastMost DEF r
<1>6. 2 * h <= w
  BY <1>1
<1>7. r * 2 <= w \/ w = 1 \/ w = 0
  BY <1>1, <1>4, <1>5, <1>6
<1> DEFINE z == ReserveFor(w)
<1>8. z = IF w = 0 THEN 0 ELSE r
  BY <1>2
<1> HIDE DEF z
<1>9. CASE w = 0
  <2>1. z = 0
    BY <1>8, <1>9
  <2> QED BY <1>9, <2>1 DEF z
<1>10. CASE w # 0
  <2>1. z = r
    BY <1>8, <1>10
  <2>2. z \in Nat /\ z <= w /\ z >= 1 /\ (z * 2 <= w \/ w = 1) /\ (w >= 2 => z < w)
    BY <1>1, <1>4, <1>5, <1>6, <1>7, <1>10, <2>1
  <2> QED BY <2>2 DEF z
<1> QED BY <1>9, <1>10

\* A share is a number, not zero unless all of it is, and at most its part in a hundred when it is rounded down.
LEMMA ShareIs ==
  ASSUME NEW a \in Nat, NEW p \in Nat
  PROVE  /\ Share(a, p) \in Nat /\ (a > 0 => Share(a, p) >= 1)
         /\ a * p >= 100 => 100 * Share(a, p) <= a * p
<1> DEFINE q == (a * p) \div 100
           x == a * p
<1>1. q \in Nat /\ 100 * q <= x /\ x < 100 * q + 100 /\ x \in Nat
  BY Percent
<1>2. Share(a, p) = IF a = 0 THEN 0 ELSE Most(1, q)
  BY DEF Share
<1>3. a = 0 => x = 0
  OBVIOUS
<1> HIDE DEF q, x
<1>4. Most(1, q) \in Nat /\ Most(1, q) >= 1 /\ (Most(1, q) = 1 \/ Most(1, q) = q)
  BY <1>1, LeastMost
<1>5. x >= 100 => 100 * Share(a, p) <= x
  <2>1. x >= 100 => q >= 1
    BY <1>1
  <2>2. q >= 1 => Most(1, q) = q
    BY <1>1 DEF Most
  <2> QED BY <1>1, <1>2, <1>3, <1>4, <2>1, <2>2
<1>6. Share(a, p) \in Nat /\ (a > 0 => Share(a, p) >= 1)
  BY <1>2, <1>4
<1> QED BY <1>5, <1>6 DEF x

\* What the split of a window gives, for a window of any size.
LEMMA WindowSplits ==
  ASSUME NEW w \in Nat
  PROVE  LET b == Allocate(w)
         IN  /\ w >= 2 =>
                  /\ b.reserve >= 1 /\ b.system >= 1 /\ b.project >= 1 /\ b.preferences >= 1
                  /\ b.conversation >= 1 /\ b.files >= 1 /\ b.rag >= 1 /\ b.user >= 1
             /\ b.reserve * 2 <= w \/ w = 1
             /\ w >= 26 =>
                  b.reserve + b.system + b.project + b.preferences + b.conversation
                      + b.files + b.rag + b.user = w
             /\ b.window = w /\ b.files \in Nat /\ b.rag \in Nat /\ b.preferences \in Nat
<1> DEFINE reserve == ReserveFor(w)
           avail == w - reserve
           sy == Share(avail, 12)
           pr == Share(avail, 8)
           sys == Least(sy, 4096)
           proj == Least(pr, 2048)
           conv == Share(avail, 45)
           files == Share(avail, 17)
           shared == sys + proj + proj + conv + files + pr
           b == Allocate(w)
<1>1. reserve \in Nat /\ reserve <= w /\ (w > 0 => reserve >= 1) /\ (reserve * 2 <= w \/ w = 1) /\ (w >= 2 => reserve < w)
  BY ReserveIs
<1>2. b = [window |-> w, reserve |-> reserve, system |-> sys, project |-> proj, preferences |-> proj,
           conversation |-> conv, files |-> files, rag |-> pr,
           user |-> IF avail > shared THEN avail - shared ELSE Least(1, avail)]
  BY DEF Allocate
<1> HIDE DEF reserve
<1>3. avail \in Nat /\ (w >= 2 => avail > 0) /\ (w >= 26 => avail >= 13) /\ w = reserve + avail
  BY <1>1
<1> HIDE DEF avail
<1>4. /\ sy \in Nat /\ (avail > 0 => sy >= 1) /\ (avail * 12 >= 100 => 100 * sy <= avail * 12)
      /\ pr \in Nat /\ (avail > 0 => pr >= 1) /\ (avail * 8 >= 100 => 100 * pr <= avail * 8)
      /\ conv \in Nat /\ (avail > 0 => conv >= 1) /\ (avail * 45 >= 100 => 100 * conv <= avail * 45)
      /\ files \in Nat /\ (avail > 0 => files >= 1) /\ (avail * 17 >= 100 => 100 * files <= avail * 17)
  <2>1. ASSUME NEW p \in {8, 12, 17, 45}
        PROVE  /\ Share(avail, p) \in Nat /\ (avail > 0 => Share(avail, p) >= 1)
               /\ (avail * p >= 100 => 100 * Share(avail, p) <= avail * p)
    <3>1. p \in Nat
      OBVIOUS
    <3> QED BY <1>3, <3>1, ShareIs, Zenon
  <2> QED BY <2>1, Zenon
<1> HIDE DEF sy, pr, conv, files
<1>5. /\ sys \in Nat /\ sys <= sy /\ (avail > 0 => sys >= 1)
      /\ proj \in Nat /\ proj <= pr /\ (avail > 0 => proj >= 1)
  <2>1. sys \in Nat /\ sys <= sy /\ (sys = sy \/ sys = 4096)
    BY <1>4, LeastMost
  <2>2. proj \in Nat /\ proj <= pr /\ (proj = pr \/ proj = 2048)
    BY <1>4, LeastMost
  <2> HIDE DEF sys, proj
  <2> QED BY <1>4, <2>1, <2>2
<1>6. Least(1, avail) = 1 \/ avail = 0
  BY <1>3 DEF Least
<1> HIDE DEF sys, proj
<1>7. avail >= 13 => avail > shared
  BY <1>3, <1>4, <1>5
<1>8. shared \in Nat
  BY <1>4, <1>5
<1> HIDE DEF shared, b
<1> DEFINE user == IF avail > shared THEN avail - shared ELSE Least(1, avail)
<1>9. /\ avail > 0 => user >= 1
      /\ avail >= 13 => user = avail - shared
  BY <1>3, <1>6, <1>7, <1>8
<1> HIDE DEF user
<1>10. /\ b.window = w /\ b.reserve = reserve /\ b.system = sys /\ b.project = proj /\ b.preferences = proj
       /\ b.conversation = conv /\ b.files = files /\ b.rag = pr /\ b.user = user
  BY <1>2 DEF user
<1>11. w >= 26 => reserve + sys + proj + proj + conv + files + pr + user = w
  <2> SUFFICES ASSUME w >= 26 PROVE reserve + sys + proj + proj + conv + files + pr + user = w
    OBVIOUS
  <2>1. user = avail - shared
    BY <1>3, <1>9
  <2> QED BY <1>1, <1>3, <1>4, <1>5, <1>8, <2>1 DEF shared
<1> QED BY <1>1, <1>3, <1>4, <1>5, <1>9, <1>10, <1>11 DEF b

-----------------------------------------------------------------------------
(* The groups and their sizes.                                             *)

Sized(T) == \A p \in T : p.size \in Nat

\* f is the size of s up to each position.
Sums(s, f) == f[0] = 0 /\ \A i \in 1 .. Len(s) : f[i] = f[i - 1] + s[i].size

\* Tokens goes through the parts and adds up their sizes.
LEMMA Summing ==
  ASSUME NEW T, Sized(T), NEW s \in Seq(T)
  PROVE  \E f : /\ Sums(s, f) /\ Tokens(s) = f[Len(s)]
                /\ \A i \in 0 .. Len(s) : f[i] \in Nat
<1> DEFINE n == Len(s)
           Is(f) == f = [i \in 0 .. n |-> IF i = 0 THEN 0 ELSE f[i - 1] + s[i].size]
           sum == CHOOSE f : Is(f)
           V == [i \in 0 .. n |-> Nat]
           step == [i \in 1 .. n |-> [q \in Nat |-> q + s[i].size]]
<1>0. n \in Nat /\ 0 \in 0 .. n
  OBVIOUS
<1>m. \A i \in 1 .. n : s[i].size \in Nat /\ i \in 0 .. n /\ i - 1 \in 0 .. n /\ i # 0
  <2> SUFFICES ASSUME NEW i \in 1 .. n PROVE s[i].size \in Nat /\ i \in 0 .. n /\ i - 1 \in 0 .. n /\ i # 0
    OBVIOUS
  <2>1. s[i] \in T /\ i \in 0 .. n /\ i - 1 \in 0 .. n /\ i # 0
    BY <1>0
  <2> QED BY <2>1 DEF Sized
<1>1. \A i \in 0 .. n : V[i] = Nat
  OBVIOUS
<1>2. \A i \in 1 .. n : \A q \in Nat : step[i][q] = q + s[i].size
  OBVIOUS
<1> HIDE DEF V, step
<1>3. Steps(V, 0, n, step)
  <2>1. ASSUME NEW i \in 1 .. n, NEW q \in V[i - 1] PROVE step[i][q] \in V[i]
    <3>1. q \in Nat /\ V[i] = Nat /\ s[i].size \in Nat
      BY <1>1, <1>m
    <3>2. q + s[i].size \in Nat
      BY <3>1
    <3> QED BY <1>2, <3>1, <3>2
  <2>2. 0 \in V[0]
    BY <1>0, <1>1
  <2> QED BY <1>0, <2>1, <2>2 DEF Steps
<1>4. PICK f : /\ f = [i \in 0 .. n |-> f[i]] /\ f[0] = 0
               /\ \A i \in 1 .. n : f[i] = step[i][f[i - 1]]
               /\ \A i \in 0 .. n : f[i] \in V[i]
  BY <1>3, StepsTaken
<1>5. \A i \in 0 .. n : f[i] \in Nat
  BY <1>1, <1>4
<1>6. \A i \in 1 .. n : f[i] = f[i - 1] + s[i].size
  BY <1>2, <1>4, <1>5, <1>m
<1>7. Is(f)
  <2>1. ASSUME NEW i \in 0 .. n PROVE f[i] = IF i = 0 THEN 0 ELSE f[i - 1] + s[i].size
    <3>1. i = 0 \/ i \in 1 .. n
      BY <1>0
    <3> QED BY <1>4, <1>6, <3>1
  <2>2. f = [i \in 0 .. n |-> IF i = 0 THEN 0 ELSE f[i - 1] + s[i].size]
    BY <1>4, <2>1
  <2> QED BY <2>2
<1>8. Is(sum)
  <2> HIDE DEF Is
  <2> QED BY <1>7
<1>9. Tokens(s) = sum[n]
  BY DEF Tokens
<1>10. \A i \in 0 .. n : sum[i] = IF i = 0 THEN 0 ELSE sum[i - 1] + s[i].size
  <2> HIDE DEF sum
  <2> QED BY <1>8
<1> HIDE DEF sum
<1>11. sum[0] = 0 /\ \A i \in 1 .. n : sum[i] = sum[i - 1] + s[i].size
  BY <1>0, <1>m, <1>10
<1>12. \A i \in 0 .. n : sum[i] \in Nat
  <2> DEFINE S == {i \in 0 .. n : sum[i] \in Nat}
  <2>1. 0 \in S
    BY <1>0, <1>11
  <2>2. ASSUME NEW i \in 1 .. n, i - 1 \in S PROVE i \in S
    <3>1. sum[i - 1] \in Nat
      BY <2>2
    <3>2. sum[i] = sum[i - 1] + s[i].size
      BY <1>11
    <3> QED BY <1>m, <3>1, <3>2
  <2>3. 0 .. n \subseteq S
    <3> HIDE DEF S
    <3> QED BY <1>0, <2>1, <2>2, NatUpTo
  <2> QED BY <2>3
<1> QED BY <1>9, <1>11, <1>12 DEF Sums

\* The size of some parts is a number.
LEMMA SumTyped ==
  ASSUME NEW T, Sized(T), NEW s \in Seq(T)
  PROVE  Tokens(s) \in Nat
<1>1. PICK f : Tokens(s) = f[Len(s)] /\ \A i \in 0 .. Len(s) : f[i] \in Nat
  BY Summing
<1> QED BY <1>1

\* No parts have no size.
LEMMA TokensNone == Tokens(<<>>) = 0
<1>1. <<>> \in Seq({}) /\ Len(<<>>) = 0 /\ Sized({})
  BY DEF Sized
<1>2. PICK f : Sums(<<>>, f) /\ Tokens(<<>>) = f[Len(<<>>)]
  BY <1>1, Summing
<1> QED BY <1>1, <1>2 DEF Sums

\* A part more is its size more.
LEMMA TokensMore ==
  ASSUME NEW T, Sized(T), NEW s \in Seq(T), NEW x \in T
  PROVE  Tokens(Append(s, x)) = Tokens(s) + x.size /\ x.size \in Nat /\ Tokens(s) \in Nat
<1> DEFINE t == Append(s, x)
           n == Len(s)
<1>1. t \in Seq(T) /\ Len(t) = n + 1 /\ t[n + 1] = x /\ \A i \in 1 .. n : t[i] = s[i]
  OBVIOUS
<1>0. n \in Nat /\ (n + 1) - 1 = n /\ n + 1 \in 1 .. n + 1
  OBVIOUS
<1> HIDE DEF t
<1>2. PICK f : Sums(s, f) /\ Tokens(s) = f[Len(s)] /\ \A i \in 0 .. Len(s) : f[i] \in Nat
  BY Summing
<1>3. PICK g : Sums(t, g) /\ Tokens(t) = g[Len(t)]
  BY <1>1, Summing
<1> DEFINE S == {i \in 0 .. n : g[i] = f[i]}
<1>4. 0 \in S
  BY <1>0, <1>2, <1>3 DEF Sums
<1>5. ASSUME NEW i \in 1 .. n, i - 1 \in S PROVE i \in S
  <2>1. f[i] = f[i - 1] + s[i].size
    BY <1>2, Zenon DEF Sums
  <2>2. i \in 1 .. Len(t) /\ t[i] = s[i] /\ i \in 0 .. n
    BY <1>0, <1>1
  <2>3. g[i] = g[i - 1] + t[i].size
    BY <1>3, <2>2, Zenon DEF Sums
  <2> QED BY <1>5, <2>1, <2>2, <2>3
<1>6. 0 .. n \subseteq S
  <2> HIDE DEF S
  <2> QED BY <1>0, <1>4, <1>5, NatUpTo
<1>7. g[n] = f[n] /\ f[n] \in Nat
  BY <1>0, <1>2, <1>6
<1>8. g[n + 1] = g[n] + x.size
  <2>1. n + 1 \in 1 .. Len(t) /\ t[n + 1] = x
    BY <1>0, <1>1
  <2>2. g[n + 1] = g[(n + 1) - 1] + t[n + 1].size
    BY <1>3, <2>1, Zenon DEF Sums
  <2> QED BY <1>0, <2>1, <2>2
<1>9. x.size \in Nat
  BY DEF Sized
<1> QED BY <1>1, <1>2, <1>3, <1>7, <1>8, <1>9 DEF t

-----------------------------------------------------------------------------
(* Trimming.                                                               *)

\* The first m parts.
FirstOf(ps, m) == SubSeq(ps, 1, m)

\* The first m parts are m parts, as they were.
LEMMA FirstIs ==
  ASSUME NEW T, NEW ps \in Seq(T), NEW m \in 0 .. Len(ps)
  PROVE  /\ FirstOf(ps, m) \in Seq(T) /\ Len(FirstOf(ps, m)) = m /\ \A i \in 1 .. m : FirstOf(ps, m)[i] = ps[i]
BY DEF FirstOf

\* What is left of a group: all of its first parts that fit, and one at least.
LEMMA Trimming ==
  ASSUME NEW T, Sized(T), NEW ps \in Seq(T), NEW slot
  PROVE  \E m \in 0 .. Len(ps) :
            /\ TrimGroup(ps, slot) = FirstOf(ps, m)
            /\ m = 0 <=> slot = 0 \/ ps = <<>>
            /\ m >= 2 => Tokens(FirstOf(ps, m)) <= slot
<1> DEFINE n == Len(ps)
<1>0. n \in Nat /\ (ps = <<>> <=> n = 0)
  OBVIOUS
<1>1. CASE slot = 0 \/ ps = <<>>
  <2>1. TrimGroup(ps, slot) = <<>>
    BY <1>1 DEF TrimGroup
  <2>2. FirstOf(ps, 0) = <<>> /\ 0 \in 0 .. Len(ps)
    BY FirstIs
  <2> QED BY <1>1, <2>1, <2>2
<1>2. CASE slot # 0 /\ ps # <<>>
  <2> DEFINE fits == {m \in 1 .. n : \A j \in 2 .. m : Tokens(SubSeq(ps, 1, j)) <= slot}
             top == CHOOSE m \in fits : \A k \in fits : k <= m
  <2>1. 1 \in fits
    BY <1>0, <1>2
  <2>2. top \in fits /\ \A k \in fits : k <= top
    <3>1. fits \subseteq 0 .. n
      BY <1>0
    <3> HIDE DEF fits
    <3>2. \E m \in fits : \A k \in fits : k <= m
      BY <1>0, <2>1, <3>1, Topmost
    <3> QED BY <3>2
  <2>3. TrimGroup(ps, slot) = SubSeq(ps, 1, top)
    BY <1>2 DEF TrimGroup
  <2> HIDE DEF top
  <2>4. top \in 1 .. n /\ \A j \in 2 .. top : Tokens(SubSeq(ps, 1, j)) <= slot
    BY <2>2
  <2>5. top >= 2 => Tokens(FirstOf(ps, top)) <= slot
    <3>1. top >= 2 => top \in 2 .. top
      BY <2>4
    <3> QED BY <2>4, <3>1, Zenon DEF FirstOf
  <2>6. top \in 0 .. Len(ps) /\ top # 0
    BY <2>4
  <2> QED BY <1>2, <2>3, <2>5, <2>6 DEF FirstOf
<1> QED BY <1>1, <1>2

\* No part looks like the line that says what was omitted.
Unmarkable(T) == \A p \in T : p.kind # "marker"

\* A group without the line that ends it.
Unmarked(x) == IF x # <<>> /\ Last(x).kind = "marker" THEN Front(x) ELSE x

\* A group that was gathered has no mark to take off.
LEMMA NoMark ==
  ASSUME NEW T, Unmarkable(T), NEW s \in Seq(T)
  PROVE  Unmarked(s) = s
<1>1. CASE s = <<>>
  BY <1>1 DEF Unmarked
<1>2. CASE s # <<>>
  <2>1. Last(s) \in T
    BY <1>2, FrontAndLast
  <2>2. Last(s).kind # "marker"
    BY <2>1 DEF Unmarkable
  <2> QED BY <2>2, Zenon DEF Unmarked
<1> QED BY <1>1, <1>2

\* The mark that was put at the end is the one that is taken off.
LEMMA Marking ==
  ASSUME NEW T, Unmarkable(T), NEW s \in Seq(T), NEW n \in Nat
  PROVE  /\ Unmarked(s \o Elided(n)) = s
         /\ s \o Elided(n) # s <=> n > 0
         /\ s # <<>> => (s \o Elided(n))[1] = s[1]
<1> DEFINE mark == [kind |-> "marker", source |-> "", size |-> MarkerSize]
           U == T \union {mark}
           x == s \o <<mark>>
<1>1. CASE n = 0
  <2>1. Elided(n) = <<>>
    BY <1>1 DEF Elided
  <2>2. s \o <<>> = s
    OBVIOUS
  <2>3. s \o Elided(n) = s
    BY <2>1, <2>2
  <2>4. ~ (n > 0)
    BY <1>1
  <2> QED BY <2>3, <2>4, NoMark
<1>2. CASE n # 0
  <2>1. Elided(n) = <<mark>> /\ n > 0
    <3>1. n > 0
      BY <1>2
    <3> QED BY <3>1 DEF Elided
  <2>k. mark.kind = "marker"
    OBVIOUS
  <2> HIDE DEF mark
  <2>2. s \in Seq(U) /\ mark \in U
    OBVIOUS
  <2> HIDE DEF U
  <2>3. x = Append(s, mark)
    BY <2>2, JoinWord
  <2>4. /\ x \in Seq(U) /\ x # <<>> /\ Len(x) = Len(s) + 1 /\ x[Len(s) + 1] = mark
        /\ \A i \in 1 .. Len(s) : x[i] = s[i]
    BY <2>2, <2>3, AppendFacts
  <2> HIDE DEF x
  <2>5. Last(x) = mark
    BY <2>4 DEF Last
  <2>6. Front(x) = s
    <3>1. /\ Front(x) \in Seq(U) /\ Len(Front(x)) = Len(x) - 1 /\ \A i \in 1 .. Len(x) - 1 : Front(x)[i] = x[i]
      BY <2>4, FrontAndLast
    <3> DEFINE f == Front(x)
    <3> HIDE DEF f
    <3>2. Len(f) = Len(s) /\ f \in Seq(U) /\ \A i \in 1 .. Len(s) : f[i] = s[i]
      <4> DEFINE l == Len(s)
      <4>1. l \in Nat /\ (l + 1) - 1 = l
        OBVIOUS
      <4>2. Len(x) - 1 = l
        BY <2>4, <4>1
      <4> HIDE DEF l
      <4>3. Len(f) = l /\ f \in Seq(U) /\ \A i \in 1 .. l : f[i] = x[i]
        BY <3>1, <4>2 DEF f
      <4>4. \A i \in 1 .. l : x[i] = s[i]
        BY <2>4 DEF l
      <4> QED BY <4>3, <4>4 DEF l
    <3>3. f = s
      BY <2>2, <3>2
    <3> QED BY <3>3 DEF f
  <2>7. Unmarked(x) = s
    BY <2>4, <2>5, <2>6, <2>k, Zenon DEF Unmarked
  <2>8. x # s
    <3> DEFINE l == Len(s)
    <3>1. l \in Nat
      OBVIOUS
    <3>2. Len(x) = l + 1
      BY <2>4
    <3> HIDE DEF l
    <3>3. Len(x) # l
      BY <3>1, <3>2
    <3> QED BY <3>3 DEF l
  <2>9. s # <<>> => x[1] = s[1]
    <3>1. s # <<>> => 1 \in 1 .. Len(s)
      OBVIOUS
    <3> QED BY <2>4, <3>1
  <2> QED BY <2>1, <2>7, <2>8, <2>9 DEF x
<1> QED BY <1>1, <1>2

\* A kind's size is what its section takes.
LEMMA RenderedTyped ==
  ASSUME NEW T, Sized(T), NEW s \in Seq(T)
  PROVE  Rendered(s) \in Nat
<1> DEFINE H == {i \in DOMAIN s : s[i].source # ""}
<1>1. IsFiniteSet(H)
  <2>1. DOMAIN s = 1 .. Len(s) /\ Len(s) \in Nat
    OBVIOUS
  <2>2. IsFiniteSet(1 .. Len(s))
    BY <2>1, FS_Interval
  <2>3. H \subseteq 1 .. Len(s)
    BY <2>1
  <2> QED BY <2>2, <2>3, FS_Subset
<1>2. Cardinality(H) \in Nat
  BY <1>1, FS_CardinalityType
<1> DEFINE h == Cardinality(H)
<1>3. Headers(s) = 2 * h
  BY DEF Headers
<1>4. Headers(s) \in Nat
  <2>1. h \in Nat
    BY <1>2
  <2> HIDE DEF h
  <2> QED BY <1>3, <2>1
<1>5. Tokens(s) \in Nat
  BY SumTyped
<1> QED BY <1>4, <1>5 DEF Rendered

-----------------------------------------------------------------------------
(* The cuts.                                                               *)

Groups(T) == [Kinds -> Seq(T)]

LostFiles(g, b) == Len(Retrieved(g)) - Len(TrimGroup(g["file"], b.files))
LostRag(g, b) == Len(g["rag"]) - Len(TrimGroup(g["rag"], b.rag))
LostPrefs(g, b) == Len(g["preferences"]) - Len(TrimGroup(g["preferences"], b.preferences))

\* The groups once those that were retrieved are trimmed, then the preferences, then the turns.
LessRetrieved(g, b) ==
    [g EXCEPT !["file"] = TrimGroup(g["file"], b.files) \o Elided(LostFiles(g, b)),
              !["graph"] = <<>>, !["diagnostics"] = <<>>,
              !["rag"] = TrimGroup(g["rag"], b.rag) \o Elided(LostRag(g, b))]

LessPreferred(g, b) ==
    [LessRetrieved(g, b) EXCEPT
        !["preferences"] = TrimGroup(g["preferences"], b.preferences) \o Elided(LostPrefs(g, b))]

Others(g, b) == UsedTrimmed(LessPreferred(g, b)) - Tokens(g["conversation"])
Room(g, b) == IF b.window > Others(g, b) THEN b.window - Others(g, b) ELSE 0
TurnsKept(g, b) == TrimGroup(g["conversation"], Room(g, b))
LessSaid(g, b) == [LessPreferred(g, b) EXCEPT !["conversation"] = TurnsKept(g, b)]

Dropping(f, c, p, t) == [files |-> f, chunks |-> c, preferences |-> p, turns |-> t]

\* r is what applyBudget makes of g.
FitResult(g, b, r) ==
    \/ /\ b.window = 0 \/ Used(g) <= b.window
       /\ r = [groups |-> g, used |-> Used(g), dropped |-> Dropping(0, 0, 0, 0)]
    \/ /\ b.window > 0 /\ Used(g) > b.window /\ UsedTrimmed(LessRetrieved(g, b)) <= b.window
       /\ r = [groups |-> LessRetrieved(g, b), used |-> UsedTrimmed(LessRetrieved(g, b)),
               dropped |-> Dropping(LostFiles(g, b), LostRag(g, b), 0, 0)]
    \/ /\ b.window > 0 /\ Used(g) > b.window /\ UsedTrimmed(LessPreferred(g, b)) <= b.window
       /\ r = [groups |-> LessPreferred(g, b), used |-> UsedTrimmed(LessPreferred(g, b)),
               dropped |-> Dropping(LostFiles(g, b), LostRag(g, b), LostPrefs(g, b), 0)]
    \/ /\ b.window > 0 /\ Used(g) > b.window
       /\ r = [groups |-> LessSaid(g, b), used |-> UsedTrimmed(LessSaid(g, b)),
               dropped |-> Dropping(LostFiles(g, b), LostRag(g, b), LostPrefs(g, b),
                                    Len(g["conversation"]) - Len(TurnsKept(g, b)))]

\* A CASE of four.
LEMMA FourCases ==
  ASSUME NEW w \in Nat, NEW u \in Nat, NEW C2, C2 \in BOOLEAN, NEW C3, C3 \in BOOLEAN, NEW D, D \in BOOLEAN,
         NEW r1, NEW r2, NEW r3, NEW r4, NEW r,
         r = CASE w = 0 \/ u <= w -> r1
               [] w > 0 /\ u > w /\ C2 -> r2
               [] w > 0 /\ u > w /\ D /\ C3 -> r3
               [] OTHER -> r4
  PROVE  \/ (w = 0 \/ u <= w) /\ r = r1
         \/ w > 0 /\ u > w /\ C2 /\ r = r2
         \/ w > 0 /\ u > w /\ C3 /\ r = r3
         \/ w > 0 /\ u > w /\ r = r4
OBVIOUS

\* The four ways in which applyBudget ends.
LEMMA Applying ==
  ASSUME NEW g, NEW b, b.window \in Nat, Used(g) \in Nat
  PROVE  FitResult(g, b, ApplyBudget(g, b))
<1> DEFINE a == LessRetrieved(g, b)
           a2 == LessPreferred(g, b)
           a3 == LessSaid(g, b)
           f == LostFiles(g, b)
           c == LostRag(g, b)
           p == LostPrefs(g, b)
           s == Len(g["conversation"]) - Len(TurnsKept(g, b))
           w == b.window
           u == Used(g)
           said == [NothingDropped EXCEPT !.files = f, !.chunks = c]
           n2 == said
           n3 == [said EXCEPT !.preferences = p]
           n4 == [said EXCEPT !.preferences = p, !.turns = s]
           r1 == [groups |-> g, used |-> u, dropped |-> NothingDropped]
           r2 == [groups |-> a, used |-> UsedTrimmed(a), dropped |-> n2]
           r3 == [groups |-> a2, used |-> UsedTrimmed(a2), dropped |-> n3]
           r4 == [groups |-> a3, used |-> UsedTrimmed(a3), dropped |-> n4]
           C2 == UsedTrimmed(a) <= w
           C3 == UsedTrimmed(a2) <= w
           D == UsedTrimmed(a) > w
           r == ApplyBudget(g, b)
<1>1. r = CASE w = 0 \/ u <= w -> r1
             [] w > 0 /\ u > w /\ C2 -> r2
             [] w > 0 /\ u > w /\ D /\ C3 -> r3
             [] OTHER -> r4
  BY Zenon DEF ApplyBudget, LessRetrieved, LessPreferred, LessSaid, LostFiles, LostRag, LostPrefs, TurnsKept, Room, Others
<1>2. NothingDropped = Dropping(0, 0, 0, 0)
  BY DEF NothingDropped, Dropping
<1> HIDE DEF f, c, p, s
<1>3. n2 = Dropping(f, c, 0, 0)
  <2>1. said = [[NothingDropped EXCEPT !.files = f] EXCEPT !.chunks = c]
    OBVIOUS
  <2>2. [NothingDropped EXCEPT !.files = f] = Dropping(f, 0, 0, 0)
    BY DEF NothingDropped, Dropping
  <2>3. [Dropping(f, 0, 0, 0) EXCEPT !.chunks = c] = Dropping(f, c, 0, 0)
    BY DEF Dropping
  <2> HIDE DEF said
  <2> QED BY <2>1, <2>2, <2>3, Zenon
<1> HIDE DEF said
<1>7. n3 = Dropping(f, c, p, 0)
  BY <1>3 DEF Dropping
<1>8. n4 = Dropping(f, c, p, s)
  <2>1. n4 = [[said EXCEPT !.preferences = p] EXCEPT !.turns = s]
    OBVIOUS
  <2>2. [Dropping(f, c, p, 0) EXCEPT !.turns = s] = Dropping(f, c, p, s)
    BY DEF Dropping
  <2> QED BY <1>7, <2>1, <2>2, Zenon
<1> HIDE DEF a, a2, a3, w, u, n2, n3, n4, r, r1, r2, r3, r4, C2, C3, D
<1>4. w \in Nat /\ u \in Nat
  BY DEF w, u
<1>5. C2 \in BOOLEAN /\ C3 \in BOOLEAN /\ D \in BOOLEAN
  BY DEF C2, C3, D
<1>6. \/ (w = 0 \/ u <= w) /\ r = r1
      \/ w > 0 /\ u > w /\ C2 /\ r = r2
      \/ w > 0 /\ u > w /\ C3 /\ r = r3
      \/ w > 0 /\ u > w /\ r = r4
  BY <1>1, <1>4, <1>5, FourCases
<1> QED BY <1>2, <1>3, <1>6, <1>7, <1>8, Zenon DEF FitResult, r1, r2, r3, r4, C2, C3, a, a2, a3, f, c, p, s, w, u, r

\* x is what is sent of the group s, n of its parts left out.
Shortened(x, s, slot, n) ==
    /\ n = Len(s) - Len(TrimGroup(s, slot))
    /\ x = TrimGroup(s, slot) \o Elided(n)

\* x shows the first parts of s, says whether there are more, and starts as s does.
Shown(x, s, n) ==
    /\ \E m \in 0 .. Len(s) : Unmarked(x) = FirstOf(s, m) /\ n = Len(s) - m
    /\ x # Unmarked(x) <=> n > 0

\* A group that is sent whole is shown whole.
LEMMA WholeShown ==
  ASSUME NEW T, Unmarkable(T), NEW s \in Seq(T)
  PROVE  Shown(s, s, 0)
<1>1. Unmarked(s) = s
  BY NoMark
<1>2. Len(s) \in 0 .. Len(s) /\ FirstOf(s, Len(s)) = s /\ 0 = Len(s) - Len(s)
  BY DEF FirstOf
<1> QED BY <1>1, <1>2 DEF Shown

\* A group that is cut shows its first parts, its first one at least, and the mark when there were more.
LEMMA ShortShown ==
  ASSUME NEW T, Unmarkable(T), Sized(T), NEW s \in Seq(T), NEW slot \in Nat, NEW n, NEW x, Shortened(x, s, slot, n)
  PROVE  /\ Shown(x, s, n) /\ n \in Nat
         /\ (slot > 0 /\ s # <<>>) => x[1] = s[1]
         /\ n = 0 => Len(s) <= 1 \/ Tokens(s) <= slot
<1> DEFINE l == Len(s)
           t == TrimGroup(s, slot)
<1>0. l \in Nat /\ (s = <<>> <=> l = 0)
  OBVIOUS
<1>1. PICK m \in 0 .. l : /\ t = FirstOf(s, m)
                          /\ m = 0 <=> slot = 0 \/ s = <<>>
                          /\ m >= 2 => Tokens(FirstOf(s, m)) <= slot
  BY Trimming
<1>2. FirstOf(s, m) \in Seq(T) /\ Len(FirstOf(s, m)) = m /\ \A i \in 1 .. m : FirstOf(s, m)[i] = s[i]
  BY FirstIs
<1>3. n = l - Len(t) /\ x = t \o Elided(n)
  BY DEF Shortened
<1>f. FirstOf(s, l) = s
  BY DEF FirstOf
<1> HIDE DEF t, l
<1>4. n = l - m /\ n \in Nat
  <2>1. t = FirstOf(s, m) /\ Len(FirstOf(s, m)) = m
    BY <1>1, <1>2
  <2>2. Len(t) = m
    BY <2>1, Zenon
  <2>3. n = l - Len(t)
    BY <1>3
  <2>4. n = l - m
    BY <2>2, <2>3
  <2> QED BY <1>0, <2>4
<1>5. Unmarked(x) = t /\ (x # t <=> n > 0) /\ (t # <<>> => x[1] = t[1])
  BY <1>1, <1>2, <1>3, <1>4, Marking
<1>6. Shown(x, s, n)
  BY <1>1, <1>4, <1>5 DEF Shown, l
<1>7. (slot > 0 /\ s # <<>>) => x[1] = s[1]
  <2> SUFFICES ASSUME slot > 0, s # <<>> PROVE x[1] = s[1]
    OBVIOUS
  <2>1. m # 0
    BY <1>1
  <2>2. 1 \in 1 .. m
    BY <2>1
  <2>3. t # <<>>
    <3>1. Len(t) # 0
      BY <1>1, <1>2, <2>1
    <3> QED BY <3>1
  <2> QED BY <1>1, <1>2, <1>5, <2>2, <2>3
<1>8. n = 0 => l <= 1 \/ Tokens(s) <= slot
  <2> SUFFICES ASSUME n = 0, ~ (l <= 1) PROVE Tokens(s) <= slot
    OBVIOUS
  <2>1. m = l /\ m >= 2
    BY <1>0, <1>4
  <2> QED BY <1>1, <1>f, <2>1
<1> QED BY <1>4, <1>6, <1>7, <1>8 DEF l

-----------------------------------------------------------------------------
\* The groups after the cuts, kind by kind.
CutIs(g, b) ==
    /\ LessRetrieved(g, b)["file"] = TrimGroup(g["file"], b.files) \o Elided(LostFiles(g, b))
    /\ LessRetrieved(g, b)["graph"] = <<>>
    /\ LessRetrieved(g, b)["diagnostics"] = <<>>
    /\ LessRetrieved(g, b)["rag"] = TrimGroup(g["rag"], b.rag) \o Elided(LostRag(g, b))
    /\ \A k \in {"system", "project", "preferences", "conversation"} : LessRetrieved(g, b)[k] = g[k]
    /\ LessPreferred(g, b)["preferences"] = TrimGroup(g["preferences"], b.preferences) \o Elided(LostPrefs(g, b))
    /\ \A k \in Kinds \ {"preferences"} : LessPreferred(g, b)[k] = LessRetrieved(g, b)[k]
    /\ LessSaid(g, b)["conversation"] = TurnsKept(g, b)
    /\ \A k \in Kinds \ {"conversation"} : LessSaid(g, b)[k] = LessPreferred(g, b)[k]
    /\ DOMAIN LessRetrieved(g, b) = Kinds /\ DOMAIN LessPreferred(g, b) = Kinds /\ DOMAIN LessSaid(g, b) = Kinds

\* The groups after each cut, one by one.
LEMMA CutGroups ==
  ASSUME NEW T, NEW g \in Groups(T), NEW b
  PROVE  CutIs(g, b)
<1> DEFINE f == TrimGroup(g["file"], b.files) \o Elided(LostFiles(g, b))
           c == TrimGroup(g["rag"], b.rag) \o Elided(LostRag(g, b))
           p == TrimGroup(g["preferences"], b.preferences) \o Elided(LostPrefs(g, b))
           h1 == LessRetrieved(g, b)
           h2 == LessPreferred(g, b)
           h3 == LessSaid(g, b)
           k3 == TurnsKept(g, b)
           e == <<>>
<1>1. h1 = [g EXCEPT !["file"] = f, !["graph"] = e, !["diagnostics"] = e, !["rag"] = c]
  BY DEF LessRetrieved
<1>2. h2 = [h1 EXCEPT !["preferences"] = p]
  BY DEF LessPreferred
<1>3. h3 = [h2 EXCEPT !["conversation"] = k3]
  BY DEF LessSaid
<1>e. e = <<>>
  OBVIOUS
<1> HIDE DEF f, c, p, h1, h2, h3, k3, e
<1>4. DOMAIN g = Kinds
  BY DEF Groups
<1>5. /\ h1["file"] = f /\ h1["graph"] = e /\ h1["diagnostics"] = e /\ h1["rag"] = c
      /\ \A k \in {"system", "project", "preferences", "conversation"} : h1[k] = g[k]
      /\ DOMAIN h1 = Kinds
  BY <1>1, <1>4 DEF Kinds
<1>6. h2["preferences"] = p /\ (\A k \in Kinds \ {"preferences"} : h2[k] = h1[k]) /\ DOMAIN h2 = Kinds
  BY <1>2, <1>5 DEF Kinds
<1>7. h3["conversation"] = k3 /\ (\A k \in Kinds \ {"conversation"} : h3[k] = h2[k]) /\ DOMAIN h3 = Kinds
  BY <1>3, <1>6 DEF Kinds
<1> QED BY <1>5, <1>6, <1>7, <1>e, Zenon DEF CutIs, f, c, p, h1, h2, h3, k3

MarkerPart == [kind |-> "marker", source |-> "", size |-> MarkerSize]

\* A group with its mark, and its size.
LEMMA Elisions ==
  ASSUME NEW T, Sized(T), NEW s \in Seq(T), NEW n, MarkerSize \in Nat
  PROVE  s \o Elided(n) \in Seq(T \union {MarkerPart}) /\ s \in Seq(T \union {MarkerPart}) /\ Sized(T \union {MarkerPart})
<1>1. Elided(n) = <<>> \/ Elided(n) = <<MarkerPart>>
  BY DEF Elided, MarkerPart
<1>2. Sized(T \union {MarkerPart})
  <2>1. MarkerPart.size \in Nat
    BY DEF MarkerPart
  <2> HIDE DEF MarkerPart
  <2> QED BY <2>1 DEF Sized
<1>3. s \in Seq(T \union {MarkerPart})
  OBVIOUS
<1> HIDE DEF MarkerPart
<1> DEFINE U == T \union {MarkerPart}
<1>4. Elided(n) \in Seq(U)
  <2>1. MarkerPart \in U
    OBVIOUS
  <2> HIDE DEF U
  <2>2. <<MarkerPart>> \in Seq(U) /\ <<>> \in Seq(U)
    BY <2>1
  <2> QED BY <1>1, <2>2
<1> HIDE DEF U
<1>5. s \o Elided(n) \in Seq(U)
  <2> DEFINE e == Elided(n)
  <2> HIDE DEF e
  <2>1. s \in Seq(U) /\ e \in Seq(U)
    BY <1>3, <1>4 DEF e, U
  <2>2. s \o e \in Seq(U)
    BY <2>1
  <2> QED BY <2>2 DEF e
<1> QED BY <1>2, <1>3, <1>5 DEF U

\* What is left of a group is made of its parts, and no longer.
LEMMA TrimmedTyped ==
  ASSUME NEW T, Sized(T), NEW s \in Seq(T), NEW slot
  PROVE  TrimGroup(s, slot) \in Seq(T) /\ Len(TrimGroup(s, slot)) \in 0 .. Len(s)
<1>1. PICK m \in 0 .. Len(s) : TrimGroup(s, slot) = FirstOf(s, m)
  BY Trimming
<1>2. FirstOf(s, m) \in Seq(T) /\ Len(FirstOf(s, m)) = m
  BY FirstIs
<1> QED BY <1>1, <1>2

\* What the groups but the turns take.
BaseUse(h) ==
    Fixed(h) + Rendered(h["preferences"]) + Tokens(Retrieved(h)) + Tokens(h["rag"])

\* The counts of the groups are numbers, and what is used is the turns and the rest.
LEMMA BaseTyped ==
  ASSUME NEW T, Sized(T), NEW h, \A k \in Kinds : h[k] \in Seq(T), GoalSize \in Nat
  PROVE  /\ BaseUse(h) \in Nat /\ Tokens(h["conversation"]) \in Nat
         /\ UsedTrimmed(h) = BaseUse(h) + Tokens(h["conversation"])
         /\ Used(h) \in Nat
<1>1. /\ h["system"] \in Seq(T) /\ h["project"] \in Seq(T) /\ h["preferences"] \in Seq(T) /\ h["file"] \in Seq(T)
      /\ h["graph"] \in Seq(T) /\ h["diagnostics"] \in Seq(T) /\ h["rag"] \in Seq(T) /\ h["conversation"] \in Seq(T)
  BY DEF Kinds
<1>2. Retrieved(h) \in Seq(T)
  <2> DEFINE a == h["file"]
             b == h["graph"]
             c == h["diagnostics"]
  <2>1. a \in Seq(T) /\ b \in Seq(T) /\ c \in Seq(T)
    BY <1>1
  <2> HIDE DEF a, b, c
  <2>2. a \o b \o c \in Seq(T)
    BY <2>1
  <2> QED BY <2>2 DEF Retrieved, a, b, c
<1> DEFINE x1 == Rendered(h["system"])
           x2 == Rendered(h["project"])
           x3 == Rendered(h["preferences"])
           x4 == Tokens(Retrieved(h))
           x5 == Tokens(h["rag"])
           x6 == Tokens(h["conversation"])
           x7 == Rendered(Retrieved(h))
           x8 == Rendered(h["rag"])
<1>3. x1 \in Nat /\ x2 \in Nat /\ x3 \in Nat /\ x7 \in Nat /\ x8 \in Nat
  BY <1>1, <1>2, RenderedTyped
<1>4. x4 \in Nat /\ x5 \in Nat /\ x6 \in Nat
  BY <1>1, <1>2, SumTyped
<1>5. BaseUse(h) = x1 + x2 + GoalSize + x3 + x4 + x5 /\ UsedTrimmed(h) = x1 + x2 + GoalSize + x3 + x6 + x4 + x5
      /\ Used(h) = x1 + x2 + GoalSize + x3 + x6 + x7 + x8
  BY DEF BaseUse, UsedTrimmed, Used, Fixed
<1> HIDE DEF x1, x2, x3, x4, x5, x6, x7, x8
<1>6. x6 = Tokens(h["conversation"])
  BY DEF x6
<1> DEFINE y == Tokens(h["conversation"])
           z == BaseUse(h)
           v == UsedTrimmed(h)
           u == Used(h)
<1> HIDE DEF y, z, v, u
<1>7. z \in Nat /\ y \in Nat /\ v = z + y /\ u \in Nat
  BY <1>3, <1>4, <1>5, <1>6 DEF y, z, v, u
<1> QED BY <1>7 DEF y, z, v, u

\* The groups after the cuts hold parts and the lines that end them.
LEMMA CutTyped ==
  ASSUME NEW T, Sized(T), NEW g \in Groups(T), NEW b, MarkerSize \in Nat
  PROVE  \A k \in Kinds : /\ LessRetrieved(g, b)[k] \in Seq(T \union {MarkerPart})
                          /\ LessPreferred(g, b)[k] \in Seq(T \union {MarkerPart})
                          /\ LessSaid(g, b)[k] \in Seq(T \union {MarkerPart})
<1> DEFINE h1 == LessRetrieved(g, b)
           h2 == LessPreferred(g, b)
           h3 == LessSaid(g, b)
           U == T \union {MarkerPart}
           f == TrimGroup(g["file"], b.files) \o Elided(LostFiles(g, b))
           c == TrimGroup(g["rag"], b.rag) \o Elided(LostRag(g, b))
           p == TrimGroup(g["preferences"], b.preferences) \o Elided(LostPrefs(g, b))
           s == TurnsKept(g, b)
<1>1. \A k \in Kinds : g[k] \in Seq(T)
  BY DEF Groups
<1>g. CutIs(g, b)
  BY CutGroups
<1>2. /\ TrimGroup(g["file"], b.files) \in Seq(T) /\ TrimGroup(g["rag"], b.rag) \in Seq(T)
      /\ TrimGroup(g["preferences"], b.preferences) \in Seq(T) /\ s \in Seq(T)
  BY <1>1, TrimmedTyped DEF Kinds, TurnsKept
<1>3. \A k \in Kinds : g[k] \in Seq(U)
  BY <1>1, Elisions
<1>4. <<>> \in Seq(U)
  OBVIOUS
<1> HIDE DEF U
<1>5. f \in Seq(U) /\ c \in Seq(U) /\ p \in Seq(U) /\ s \in Seq(U)
  BY <1>2, Elisions DEF U
<1>6. /\ h1["file"] = f /\ h1["graph"] = <<>> /\ h1["diagnostics"] = <<>> /\ h1["rag"] = c
      /\ \A k \in {"system", "project", "preferences", "conversation"} : h1[k] = g[k]
      /\ h2["preferences"] = p /\ \A k \in Kinds \ {"preferences"} : h2[k] = h1[k]
      /\ h3["conversation"] = s /\ \A k \in Kinds \ {"conversation"} : h3[k] = h2[k]
  BY <1>g, Zenon DEF CutIs
<1> HIDE DEF h1, h2, h3, f, c, p, s
<1>7. \A k \in Kinds : h1[k] \in Seq(U)
  BY <1>3, <1>4, <1>5, <1>6 DEF Kinds
<1>8. \A k \in Kinds : h2[k] \in Seq(U)
  BY <1>5, <1>6, <1>7
<1>9. \A k \in Kinds : h3[k] \in Seq(U)
  BY <1>5, <1>6, <1>8
<1> QED BY <1>7, <1>8, <1>9, Zenon DEF U, h1, h2, h3

\* A mark has a size too.
LEMMA SizedMarked == \A T : Sized(T) /\ MarkerSize \in Nat => Sized(T \union {MarkerPart})
<1> SUFFICES ASSUME NEW T, Sized(T), MarkerSize \in Nat PROVE Sized(T \union {MarkerPart})
  OBVIOUS
<1>1. <<>> \in Seq(T)
  OBVIOUS
<1> QED BY <1>1, Elisions

\* The turns that are kept beside the first one fit.
LEMMA KeptFits ==
  ASSUME NEW T, Sized(T), NEW g \in Groups(T), NEW b, b.window \in Nat, GoalSize \in Nat, MarkerSize \in Nat,
         Len(TurnsKept(g, b)) >= 2
  PROVE  UsedTrimmed(LessSaid(g, b)) <= b.window
<1> DEFINE h2 == LessPreferred(g, b)
           h3 == LessSaid(g, b)
           U == T \union {MarkerPart}
           room == Room(g, b)
           chat == g["conversation"]
<1>1. \A k \in Kinds : g[k] \in Seq(T)
  BY DEF Groups
<1>g. CutIs(g, b)
  BY CutGroups
<1>3. Sized(U)
  BY SizedMarked
<1>5. \A k \in Kinds : h2[k] \in Seq(U) /\ h3[k] \in Seq(U) /\ (k # "conversation" => h3[k] = h2[k])
  <2>1. \A k \in Kinds : h2[k] \in Seq(U) /\ h3[k] \in Seq(U)
    BY CutTyped
  <2>2. \A k \in Kinds \ {"conversation"} : h3[k] = h2[k]
    BY <1>g, Zenon DEF CutIs
  <2> HIDE DEF h2, h3, U
  <2> QED BY <2>1, <2>2
<1>6. h2["conversation"] = chat /\ h3["conversation"] = TurnsKept(g, b)
  BY <1>g, Zenon DEF CutIs, Kinds
<1>7. chat \in Seq(T)
  BY <1>1 DEF Kinds
<1> HIDE DEF h2, h3, U
<1>9. /\ BaseUse(h2) \in Nat /\ Tokens(chat) \in Nat /\ UsedTrimmed(h2) = BaseUse(h2) + Tokens(chat)
      /\ BaseUse(h3) \in Nat /\ Tokens(TurnsKept(g, b)) \in Nat /\ UsedTrimmed(h3) = BaseUse(h3) + Tokens(TurnsKept(g, b))
  <2>1. /\ BaseUse(h2) \in Nat /\ Tokens(h2["conversation"]) \in Nat
        /\ UsedTrimmed(h2) = BaseUse(h2) + Tokens(h2["conversation"])
    BY <1>3, <1>5, BaseTyped
  <2>2. /\ BaseUse(h3) \in Nat /\ Tokens(h3["conversation"]) \in Nat
        /\ UsedTrimmed(h3) = BaseUse(h3) + Tokens(h3["conversation"])
    BY <1>3, <1>5, BaseTyped
  <2> QED BY <1>6, <2>1, <2>2
<1>10. BaseUse(h3) = BaseUse(h2)
  <2>1. /\ h3["system"] = h2["system"] /\ h3["project"] = h2["project"] /\ h3["preferences"] = h2["preferences"]
        /\ h3["file"] = h2["file"] /\ h3["graph"] = h2["graph"] /\ h3["diagnostics"] = h2["diagnostics"]
        /\ h3["rag"] = h2["rag"]
    BY <1>5 DEF Kinds
  <2> QED BY <2>1, Zenon DEF BaseUse, Fixed, Retrieved
<1>11. Others(g, b) = BaseUse(h2)
  <2>1. Others(g, b) = UsedTrimmed(h2) - Tokens(chat)
    BY DEF Others, h2
  <2> DEFINE x == BaseUse(h2)
             y == Tokens(chat)
             z == UsedTrimmed(h2)
  <2>2. x \in Nat /\ y \in Nat /\ z = x + y
    BY <1>9
  <2> HIDE DEF x, y, z
  <2>3. z - y = x
    BY <2>2
  <2> QED BY <2>1, <2>3 DEF x, y, z
<1> DEFINE o == BaseUse(h2)
           w == b.window
           c == Tokens(TurnsKept(g, b))
           v == UsedTrimmed(h3)
<1>12. room = IF w > o THEN w - o ELSE 0
  BY <1>11, Zenon DEF Room
<1>13. o \in Nat /\ w \in Nat /\ c \in Nat /\ v = o + c
  BY <1>9, <1>10
<1> HIDE DEF o, w, c, v, room
<1>14. room \in Nat /\ (room # 0 => room = w - o)
  BY <1>12, <1>13
<1> HIDE DEF chat
<1>15. PICK m \in 0 .. Len(chat) : /\ TrimGroup(chat, room) = FirstOf(chat, m)
                                   /\ m = 0 <=> room = 0 \/ chat = <<>>
                                   /\ m >= 2 => Tokens(FirstOf(chat, m)) <= room
  BY <1>7, <1>14, Trimming
<1>16. TurnsKept(g, b) = FirstOf(chat, m) /\ Len(FirstOf(chat, m)) = m
  BY <1>7, <1>15, FirstIs DEF TurnsKept, chat, room
<1>17. m >= 2
  BY <1>16
<1>18. c <= room /\ room # 0
  BY <1>15, <1>16, <1>17 DEF c
<1>19. v <= w
  BY <1>13, <1>14, <1>18
<1> QED BY <1>19 DEF v, w, h3

\* What is sent of a group, n of its parts left out: all of it, or its first parts.
Sends(x, s, slot, n) == (x = s /\ n = 0) \/ Shortened(x, s, slot, n)

\* The retrieved groups are sent as they are, or the files for all of them.
SendsFiles(h, g, slot, n) ==
    \/ h["file"] = g["file"] /\ h["graph"] = g["graph"] /\ h["diagnostics"] = g["diagnostics"] /\ n = 0
    \/ /\ h["file"] = TrimGroup(g["file"], slot) \o Elided(n)
       /\ n = Len(Retrieved(g)) - Len(TrimGroup(g["file"], slot))
       /\ h["graph"] = <<>> /\ h["diagnostics"] = <<>>

\* What the cuts make of the groups.
Cutting(g, b, h, used, d) ==
    /\ h["system"] = g["system"] /\ h["project"] = g["project"] /\ DOMAIN h = Kinds
    /\ SendsFiles(h, g, b.files, d.files)
    /\ Sends(h["rag"], g["rag"], b.rag, d.chunks)
    /\ Sends(h["preferences"], g["preferences"], b.preferences, d.preferences)
    /\ d = Dropping(0, 0, 0, 0) \/ (b.window > 0 /\ Used(g) > b.window)
    /\ \/ h["conversation"] = g["conversation"] /\ d.turns = 0 /\ (b.window = 0 \/ used <= b.window)
       \/ /\ h["conversation"] = TurnsKept(g, b) /\ d.turns = Len(g["conversation"]) - Len(TurnsKept(g, b))
          /\ Shortened(h["preferences"], g["preferences"], b.preferences, d.preferences)
          /\ used = UsedTrimmed(LessSaid(g, b))

\* Every way in which applyBudget ends is a cutting.
LEMMA CuttingIs ==
  ASSUME NEW T, NEW g \in Groups(T), NEW b, NEW r, FitResult(g, b, r)
  PROVE  Cutting(g, b, r.groups, r.used, r.dropped)
<1> DEFINE h == r.groups
           u == r.used
           d == r.dropped
           f == LostFiles(g, b)
           c == LostRag(g, b)
           p == LostPrefs(g, b)
           s == Len(g["conversation"]) - Len(TurnsKept(g, b))
           h1 == LessRetrieved(g, b)
           h2 == LessPreferred(g, b)
           h3 == LessSaid(g, b)
<1>g. CutIs(g, b)
  BY CutGroups
<1>d. DOMAIN g = Kinds
  BY DEF Groups
<1>1. /\ h1["file"] = TrimGroup(g["file"], b.files) \o Elided(f) /\ h1["graph"] = <<>> /\ h1["diagnostics"] = <<>>
      /\ h1["rag"] = TrimGroup(g["rag"], b.rag) \o Elided(c) /\ DOMAIN h1 = Kinds
      /\ h1["system"] = g["system"] /\ h1["project"] = g["project"]
      /\ h1["preferences"] = g["preferences"] /\ h1["conversation"] = g["conversation"]
  BY <1>g, Zenon DEF CutIs
<1>2. /\ h2["preferences"] = TrimGroup(g["preferences"], b.preferences) \o Elided(p)
      /\ \A k \in Kinds \ {"preferences"} : h2[k] = h1[k]
      /\ DOMAIN h2 = Kinds
  BY <1>g, Zenon DEF CutIs
<1>3. /\ h3["conversation"] = TurnsKept(g, b)
      /\ \A k \in Kinds \ {"conversation"} : h3[k] = h2[k]
      /\ DOMAIN h3 = Kinds
  BY <1>g, Zenon DEF CutIs
<1>4. /\ SendsFiles(h1, g, b.files, f) /\ Shortened(h1["rag"], g["rag"], b.rag, c)
  BY <1>1, Zenon DEF SendsFiles, Shortened, LostFiles, LostRag
<1>5. /\ SendsFiles(h2, g, b.files, f) /\ Shortened(h2["rag"], g["rag"], b.rag, c)
      /\ Shortened(h2["preferences"], g["preferences"], b.preferences, p)
      /\ h2["system"] = g["system"] /\ h2["project"] = g["project"] /\ h2["conversation"] = g["conversation"]
  <2>1. /\ h2["file"] = h1["file"] /\ h2["graph"] = h1["graph"] /\ h2["diagnostics"] = h1["diagnostics"]
        /\ h2["rag"] = h1["rag"] /\ h2["system"] = h1["system"] /\ h2["project"] = h1["project"]
        /\ h2["conversation"] = h1["conversation"]
    BY <1>2 DEF Kinds
  <2>2. Shortened(h2["preferences"], g["preferences"], b.preferences, p)
    BY <1>2, Zenon DEF Shortened, LostPrefs
  <2> HIDE DEF h1, h2, f, c, p
  <2> QED BY <1>1, <1>4, <2>1, <2>2, Zenon DEF SendsFiles
<1>6. /\ SendsFiles(h3, g, b.files, f) /\ Shortened(h3["rag"], g["rag"], b.rag, c)
      /\ Shortened(h3["preferences"], g["preferences"], b.preferences, p)
      /\ h3["system"] = g["system"] /\ h3["project"] = g["project"]
  <2>1. /\ h3["file"] = h2["file"] /\ h3["graph"] = h2["graph"] /\ h3["diagnostics"] = h2["diagnostics"]
        /\ h3["rag"] = h2["rag"] /\ h3["system"] = h2["system"] /\ h3["project"] = h2["project"]
        /\ h3["preferences"] = h2["preferences"]
    BY <1>3 DEF Kinds
  <2> HIDE DEF h3, h2, f, c, p
  <2> QED BY <1>5, <2>1, Zenon DEF SendsFiles
<1> HIDE DEF h1, h2, h3, f, c, p, s
<1>7. \/ /\ b.window = 0 \/ Used(g) <= b.window
         /\ h = g /\ u = Used(g) /\ d = Dropping(0, 0, 0, 0)
      \/ /\ b.window > 0 /\ Used(g) > b.window /\ UsedTrimmed(h1) <= b.window
         /\ h = h1 /\ u = UsedTrimmed(h1) /\ d = Dropping(f, c, 0, 0)
      \/ /\ b.window > 0 /\ Used(g) > b.window /\ UsedTrimmed(h2) <= b.window
         /\ h = h2 /\ u = UsedTrimmed(h2) /\ d = Dropping(f, c, p, 0)
      \/ /\ b.window > 0 /\ Used(g) > b.window
         /\ h = h3 /\ u = UsedTrimmed(h3) /\ d = Dropping(f, c, p, s)
  BY DEF FitResult, h1, h2, h3, f, c, p, s
<1> HIDE DEF h, u, d
<1> SUFFICES Cutting(g, b, h, u, d)
  BY DEF h, u, d
<1>9. CASE /\ b.window = 0 \/ Used(g) <= b.window
           /\ h = g /\ u = Used(g) /\ d = Dropping(0, 0, 0, 0)
  <2>1. d.files = 0 /\ d.chunks = 0 /\ d.preferences = 0 /\ d.turns = 0
    <3>1. d = Dropping(0, 0, 0, 0)
      BY <1>9
    <3> QED BY <3>1 DEF Dropping
  <2>2. /\ h["system"] = g["system"] /\ h["project"] = g["project"] /\ DOMAIN h = Kinds
        /\ SendsFiles(h, g, b.files, d.files)
        /\ Sends(h["rag"], g["rag"], b.rag, d.chunks)
        /\ Sends(h["preferences"], g["preferences"], b.preferences, d.preferences)
    BY <1>d, <1>9, <2>1, Zenon DEF SendsFiles, Sends
  <2>3. d = Dropping(0, 0, 0, 0) \/ (b.window > 0 /\ Used(g) > b.window)
    BY <1>9, Zenon
  <2>4. \/ h["conversation"] = g["conversation"] /\ d.turns = 0 /\ (b.window = 0 \/ u <= b.window)
        \/ /\ h["conversation"] = TurnsKept(g, b) /\ d.turns = Len(g["conversation"]) - Len(TurnsKept(g, b))
           /\ Shortened(h["preferences"], g["preferences"], b.preferences, d.preferences)
           /\ u = UsedTrimmed(LessSaid(g, b))
    BY <1>d, <1>9, <2>1, Zenon
  <2> QED BY <2>2, <2>3, <2>4, Zenon DEF Cutting
<1>10. CASE /\ b.window > 0 /\ Used(g) > b.window /\ UsedTrimmed(h1) <= b.window
            /\ h = h1 /\ u = UsedTrimmed(h1) /\ d = Dropping(f, c, 0, 0)
  <2>1. d.files = f /\ d.chunks = c /\ d.preferences = 0 /\ d.turns = 0
    <3>1. d = Dropping(f, c, 0, 0)
      BY <1>10
    <3> QED BY <3>1 DEF Dropping
  <2>2. /\ h["system"] = g["system"] /\ h["project"] = g["project"] /\ DOMAIN h = Kinds
        /\ SendsFiles(h, g, b.files, d.files)
        /\ Sends(h["rag"], g["rag"], b.rag, d.chunks)
        /\ Sends(h["preferences"], g["preferences"], b.preferences, d.preferences)
    BY <1>1, <1>4, <1>10, <2>1, Zenon DEF SendsFiles, Sends
  <2>3. d = Dropping(0, 0, 0, 0) \/ (b.window > 0 /\ Used(g) > b.window)
    BY <1>10, Zenon
  <2>4. \/ h["conversation"] = g["conversation"] /\ d.turns = 0 /\ (b.window = 0 \/ u <= b.window)
        \/ /\ h["conversation"] = TurnsKept(g, b) /\ d.turns = Len(g["conversation"]) - Len(TurnsKept(g, b))
           /\ Shortened(h["preferences"], g["preferences"], b.preferences, d.preferences)
           /\ u = UsedTrimmed(LessSaid(g, b))
    BY <1>1, <1>4, <1>10, <2>1, Zenon
  <2> QED BY <2>2, <2>3, <2>4, Zenon DEF Cutting
<1>11. CASE /\ b.window > 0 /\ Used(g) > b.window /\ UsedTrimmed(h2) <= b.window
            /\ h = h2 /\ u = UsedTrimmed(h2) /\ d = Dropping(f, c, p, 0)
  <2>1. d.files = f /\ d.chunks = c /\ d.preferences = p /\ d.turns = 0
    <3>1. d = Dropping(f, c, p, 0)
      BY <1>11
    <3> QED BY <3>1 DEF Dropping
  <2>2. /\ h["system"] = g["system"] /\ h["project"] = g["project"] /\ DOMAIN h = Kinds
        /\ SendsFiles(h, g, b.files, d.files)
        /\ Sends(h["rag"], g["rag"], b.rag, d.chunks)
        /\ Sends(h["preferences"], g["preferences"], b.preferences, d.preferences)
    BY <1>2, <1>5, <1>11, <2>1, Zenon DEF SendsFiles, Sends
  <2>3. d = Dropping(0, 0, 0, 0) \/ (b.window > 0 /\ Used(g) > b.window)
    BY <1>11, Zenon
  <2>4. \/ h["conversation"] = g["conversation"] /\ d.turns = 0 /\ (b.window = 0 \/ u <= b.window)
        \/ /\ h["conversation"] = TurnsKept(g, b) /\ d.turns = Len(g["conversation"]) - Len(TurnsKept(g, b))
           /\ Shortened(h["preferences"], g["preferences"], b.preferences, d.preferences)
           /\ u = UsedTrimmed(LessSaid(g, b))
    BY <1>2, <1>5, <1>11, <2>1, Zenon
  <2> QED BY <2>2, <2>3, <2>4, Zenon DEF Cutting
<1>12. CASE /\ b.window > 0 /\ Used(g) > b.window
            /\ h = h3 /\ u = UsedTrimmed(h3) /\ d = Dropping(f, c, p, s)
  <2>1. d.files = f /\ d.chunks = c /\ d.preferences = p /\ d.turns = s
    <3>1. d = Dropping(f, c, p, s)
      BY <1>12
    <3> QED BY <3>1 DEF Dropping
  <2>2. /\ h["system"] = g["system"] /\ h["project"] = g["project"] /\ DOMAIN h = Kinds
        /\ SendsFiles(h, g, b.files, d.files)
        /\ Sends(h["rag"], g["rag"], b.rag, d.chunks)
        /\ Sends(h["preferences"], g["preferences"], b.preferences, d.preferences)
    BY <1>3, <1>6, <1>12, <2>1, Zenon DEF SendsFiles, Sends
  <2>3. d = Dropping(0, 0, 0, 0) \/ (b.window > 0 /\ Used(g) > b.window)
    BY <1>12, Zenon
  <2>4. \/ h["conversation"] = g["conversation"] /\ d.turns = 0 /\ (b.window = 0 \/ u <= b.window)
        \/ /\ h["conversation"] = TurnsKept(g, b) /\ d.turns = Len(g["conversation"]) - Len(TurnsKept(g, b))
           /\ Shortened(h["preferences"], g["preferences"], b.preferences, d.preferences)
           /\ u = UsedTrimmed(LessSaid(g, b))
    BY <1>3, <1>6, <1>12, <2>1, Zenon DEF h3, s
  <2> QED BY <2>2, <2>3, <2>4, Zenon DEF Cutting
<1> QED BY <1>7, <1>9, <1>10, <1>11, <1>12

\* The first parts are a prefix.
LEMMA FirstPrefix ==
  ASSUME NEW T, NEW s \in Seq(T), NEW m \in 0 .. Len(s)
  PROVE  IsPrefix(FirstOf(s, m), s) /\ Len(FirstOf(s, m)) = m
<1> DEFINE f == FirstOf(s, m)
<1>1. f \in Seq(T) /\ Len(f) = m /\ f = SubSeq(s, 1, m)
  BY FirstIs DEF FirstOf
<1> HIDE DEF f
<1>2. SubSeq(f, 1, Len(f)) = f
  BY <1>1
<1>3. Len(f) <= Len(s)
  BY <1>1
<1>4. SubSeq(f, 1, Len(f)) = SubSeq(s, 1, Len(f))
  BY <1>1, <1>2
<1> QED BY <1>1, <1>3, <1>4 DEF IsPrefix, f

\* What is shown of a group are its first parts, and the rest is counted.
LEMMA ShownFirst ==
  ASSUME NEW T, NEW s \in Seq(T), NEW x, NEW n, Shown(x, s, n)
  PROVE  IsPrefix(Unmarked(x), s) /\ n = Len(s) - Len(Unmarked(x)) /\ (x # Unmarked(x) <=> n > 0)
<1>1. PICK m \in 0 .. Len(s) : Unmarked(x) = FirstOf(s, m) /\ n = Len(s) - m
  BY DEF Shown
<1>2. IsPrefix(Unmarked(x), s) /\ Len(Unmarked(x)) = m
  BY <1>1, FirstPrefix
<1>3. n = Len(s) - Len(Unmarked(x))
  BY <1>1, <1>2, Zenon
<1> QED BY <1>2, <1>3 DEF Shown

\* What is sent of a group is its first parts, and says how many are not.
Told(x, s, slot, n) ==
    /\ IsPrefix(Unmarked(x), s) /\ n = Len(s) - Len(Unmarked(x)) /\ (x # Unmarked(x) <=> n > 0)
    /\ (slot > 0 /\ s # <<>>) => x[1] = s[1]

\* What is sent of a group, whole or cut, is told as it is.
LEMMA SendsTold ==
  ASSUME NEW T, Unmarkable(T), Sized(T), NEW s \in Seq(T), NEW slot \in Nat, NEW n, NEW x, Sends(x, s, slot, n)
  PROVE  Told(x, s, slot, n)
<1>1. CASE x = s /\ n = 0
  <2>1. Shown(s, s, 0)
    BY WholeShown
  <2>2. Shown(x, s, n)
    BY <1>1, <2>1
  <2> QED BY <1>1, <2>2, ShownFirst DEF Told
<1>2. CASE Shortened(x, s, slot, n)
  <2>1. Shown(x, s, n) /\ ((slot > 0 /\ s # <<>>) => x[1] = s[1])
    BY <1>2, ShortShown
  <2> QED BY <2>1, ShownFirst DEF Told
<1> QED BY <1>1, <1>2 DEF Sends

\* Nothing has no mark, and is a prefix of everything.
LEMMA NothingMarked == Unmarked(<<>>) = <<>> /\ \A T : \A s \in Seq(T) : IsPrefix(<<>>, s)
<1>1. Unmarked(<<>>) = <<>>
  BY DEF Unmarked
<1>2. ASSUME NEW T, NEW s \in Seq(T) PROVE IsPrefix(<<>>, s)
  <2>1. 0 \in 0 .. Len(s) /\ FirstOf(s, 0) = <<>>
    BY FirstIs
  <2> QED BY <2>1, FirstPrefix
<1> QED BY <1>1, <1>2

ToldFiles(h, g, slot, n) ==
    /\ IsPrefix(Unmarked(h["file"]), g["file"])
    /\ IsPrefix(Unmarked(h["graph"]), g["graph"])
    /\ IsPrefix(Unmarked(h["diagnostics"]), g["diagnostics"])
    /\ n = (Len(g["file"]) - Len(Unmarked(h["file"]))) + (Len(g["graph"]) - Len(Unmarked(h["graph"])))
              + (Len(g["diagnostics"]) - Len(Unmarked(h["diagnostics"])))
    /\ h["file"] # Unmarked(h["file"]) <=> n > 0
    /\ (slot > 0 /\ g["file"] # <<>>) => h["file"][1] = g["file"][1]

\* The files are told of, together with the symbols and the diagnostics that go with them.
LEMMA FilesTold ==
  ASSUME NEW T, Unmarkable(T), Sized(T), NEW g \in Groups(T), NEW slot \in Nat, NEW n, NEW h, SendsFiles(h, g, slot, n)
  PROVE  ToldFiles(h, g, slot, n)
<1> DEFINE a == g["file"]
           b == g["graph"]
           c == g["diagnostics"]
           x == h["file"]
           y == h["graph"]
           z == h["diagnostics"]
<1>1. a \in Seq(T) /\ b \in Seq(T) /\ c \in Seq(T)
  BY DEF Groups, Kinds
<1>2. \/ x = a /\ y = b /\ z = c /\ n = 0
      \/ /\ x = TrimGroup(a, slot) \o Elided(n)
         /\ n = Len(Retrieved(g)) - Len(TrimGroup(a, slot))
         /\ y = <<>> /\ z = <<>>
  BY DEF SendsFiles
<1>3. Len(Retrieved(g)) = Len(a) + Len(b) + Len(c)
  <2>1. Retrieved(g) = a \o b \o c
    BY DEF Retrieved
  <2> HIDE DEF a, b, c
  <2> QED BY <1>1, <2>1
<1> DEFINE u == Unmarked(x)
           v == Unmarked(y)
           w == Unmarked(z)
<1> SUFFICES /\ IsPrefix(u, a) /\ IsPrefix(v, b) /\ IsPrefix(w, c)
             /\ n = (Len(a) - Len(u)) + (Len(b) - Len(v)) + (Len(c) - Len(w))
             /\ x # u <=> n > 0
             /\ (slot > 0 /\ a # <<>>) => x[1] = a[1]
  BY DEF ToldFiles
<1> DEFINE la == Len(a)
           lb == Len(b)
           lc == Len(c)
<1>n. la \in Nat /\ lb \in Nat /\ lc \in Nat
  BY <1>1
<1> HIDE DEF a, b, c, x, y, z
<1>4. CASE x = a /\ y = b /\ z = c /\ n = 0
  <2>1. u = a /\ v = b /\ w = c
    BY <1>1, <1>4, NoMark
  <2>2. IsPrefix(a, a) /\ IsPrefix(b, b) /\ IsPrefix(c, c)
    <3>1. ASSUME NEW s \in Seq(T) PROVE IsPrefix(s, s)
      <4>1. Len(s) \in Nat
        OBVIOUS
      <4> QED BY <4>1 DEF IsPrefix
    <3> QED BY <1>1, <3>1
  <2>3. n = (la - la) + (lb - lb) + (lc - lc)
    BY <1>4, <1>n
  <2>4. x = u /\ ~ (n > 0)
    BY <1>4, <2>1
  <2> HIDE DEF u, v, w
  <2>5. n = (Len(a) - Len(u)) + (Len(b) - Len(v)) + (Len(c) - Len(w))
    BY <2>1, <2>3, Zenon
  <2> QED BY <1>4, <2>1, <2>2, <2>4, <2>5
<1>5. CASE /\ x = TrimGroup(a, slot) \o Elided(n)
           /\ n = Len(Retrieved(g)) - Len(TrimGroup(a, slot))
           /\ y = <<>> /\ z = <<>>
  <2> DEFINE t == TrimGroup(a, slot)
  <2>1. PICK m \in 0 .. la : t = FirstOf(a, m) /\ (m = 0 <=> slot = 0 \/ a = <<>>)
    BY <1>1, Trimming
  <2>2. FirstOf(a, m) \in Seq(T) /\ Len(FirstOf(a, m)) = m /\ \A i \in 1 .. m : FirstOf(a, m)[i] = a[i]
    BY <1>1, FirstIs
  <2>3. IsPrefix(FirstOf(a, m), a)
    BY <1>1, FirstPrefix
  <2> HIDE DEF t
  <2>4. n = (la + lb + lc) - m
    <3>1. Len(t) = m
      BY <2>1, <2>2, Zenon
    <3>2. n = Len(Retrieved(g)) - Len(t)
      BY <1>5 DEF t
    <3> QED BY <1>3, <3>1, <3>2
  <2> HIDE DEF la, lb, lc
  <2>5. n \in Nat /\ n = (la - m) + (lb - 0) + (lc - 0)
    BY <1>n, <2>4
  <2>6. t \in Seq(T) /\ x = t \o Elided(n)
    BY <1>5, <2>1, <2>2 DEF t
  <2>7. u = t /\ (x # t <=> n > 0) /\ (t # <<>> => x[1] = t[1])
    BY <2>5, <2>6, Marking
  <2>8. v = <<>> /\ w = <<>> /\ IsPrefix(<<>>, b) /\ IsPrefix(<<>>, c)
    BY <1>1, <1>5, NothingMarked
  <2>9. Len(u) = m /\ Len(v) = 0 /\ Len(w) = 0
    BY <2>1, <2>2, <2>7, <2>8
  <2>10. (slot > 0 /\ a # <<>>) => x[1] = a[1]
    <3> SUFFICES ASSUME slot > 0, a # <<>> PROVE x[1] = a[1]
      OBVIOUS
    <3>1. m # 0
      BY <2>1
    <3>2. 1 \in 1 .. m
      BY <3>1
    <3>3. t # <<>>
      <4>1. Len(t) # 0
        BY <2>1, <2>2, <3>1
      <4> QED BY <4>1
    <3> QED BY <2>1, <2>2, <2>7, <3>2, <3>3
  <2> HIDE DEF u, v, w
  <2>11. n = (Len(a) - Len(u)) + (Len(b) - Len(v)) + (Len(c) - Len(w))
    BY <2>5, <2>9, Zenon DEF la, lb, lc
  <2>12. IsPrefix(u, a) /\ IsPrefix(v, b) /\ IsPrefix(w, c)
    BY <2>1, <2>3, <2>7, <2>8
  <2> QED BY <2>7, <2>10, <2>11, <2>12
<1> QED BY <1>2, <1>4, <1>5

Gathered == PartPool \union {Frame}

\* What is gathered has a size, is no mark, and only the frame is of the system's kind.
LEMMA GatheredFit ==
  /\ Sized(Gathered) /\ Unmarkable(Gathered) /\ GoalSize \in Nat /\ MarkerSize \in Nat
  /\ \A p \in Gathered : p.kind \in Kinds /\ p.size \in Nat /\ (p.kind = "system" => p = Frame)
<1>1. \A p \in PartPool : p.kind \in Kinds \ {"system"} /\ p.size \in Nat
  BY FitAssumption
<1>2. Frame.kind = "system" /\ Frame.size = 4
  BY DEF Frame
<1> HIDE DEF Frame
<1>3. \A p \in Gathered : p.kind \in Kinds /\ p.size \in Nat /\ (p.kind = "system" => p = Frame)
  <2>1. "system" \in Kinds
    BY DEF Kinds
  <2> QED BY <1>1, <1>2, <2>1 DEF Gathered
<1>4. "marker" \notin Kinds
  BY DEF Kinds
<1> QED BY <1>3, <1>4, FitAssumption DEF Sized, Unmarkable

\* The groups that are fitted: those of the package, with its conversation once only.
Fitted == [pkg EXCEPT !["conversation"] = DedupConversation(pkg)]

PromptIsCut ==
    fitStage = "compiled" =>
        /\ pkg \in Groups(Gathered) /\ budget = Allocate(window)
        /\ Cutting(Fitted, budget, prompt, report.used, report.dropped) /\ report.used \in Nat

\* The turns that are left are turns.
LEMMA TurnsTyped ==
  ASSUME NEW T, NEW g \in Groups(T)
  PROVE  DedupConversation(g) \in Seq(T)
<1>1. g["conversation"] \in Seq(T)
  BY DEF Groups, Kinds
<1>2. \A P : Picked(g["conversation"], P) \in Seq(T)
  BY <1>1, PickedTyped
<1> QED BY <1>2, PickedTyped DEF DedupConversation

\* The groups that are fitted are the package's, but for the conversation.
LEMMA FittedIs ==
  ASSUME pkg \in Groups(Gathered)
  PROVE  /\ Fitted \in Groups(Gathered) /\ Fitted["conversation"] = DedupConversation(pkg)
         /\ \A k \in Kinds \ {"conversation"} : Fitted[k] = pkg[k]
<1> DEFINE c == DedupConversation(pkg)
<1>1. c \in Seq(Gathered)
  BY TurnsTyped
<1>2. Fitted = [pkg EXCEPT !["conversation"] = c]
  BY DEF Fitted
<1> HIDE DEF c
<1>3. "conversation" \in Kinds
  BY DEF Kinds
<1>4. pkg \in [Kinds -> Seq(Gathered)]
  BY DEF Groups
<1>5. /\ Fitted \in [Kinds -> Seq(Gathered)] /\ Fitted["conversation"] = c
      /\ \A k \in Kinds \ {"conversation"} : Fitted[k] = pkg[k]
  BY <1>1, <1>2, <1>3, <1>4
<1> QED BY <1>5 DEF Groups, c

\* A sequence is a prefix of itself.
LEMMA SelfPrefix == \A T : \A s \in Seq(T) : IsPrefix(s, s)
<1> SUFFICES ASSUME NEW T, NEW s \in Seq(T) PROVE IsPrefix(s, s)
  OBVIOUS
<1>1. Len(s) \in Nat
  OBVIOUS
<1> QED BY <1>1 DEF IsPrefix

\* CutsAreTold: what is sent of a group is its best parts, and the rest is reported and told of.
LEMMA CutsTold == PromptIsCut /\ window \in Nat => CutsAreTold
<1> SUFFICES ASSUME PromptIsCut, window \in Nat, fitStage = "compiled" PROVE CutsAreTold
  BY DEF CutsAreTold
<1> DEFINE T == Gathered
           g == Fitted
           b == budget
           d == report.dropped
           held == DedupConversation(pkg)
           lost(k) == Len(pkg[k]) - Len(Sent(k))
<1>1. /\ pkg \in Groups(T) /\ b = Allocate(window)
      /\ Cutting(g, b, prompt, report.used, d)
  BY DEF PromptIsCut
<1>2. Sized(T) /\ Unmarkable(T)
  BY GatheredFit
<1>3. g \in Groups(T) /\ g["conversation"] = held /\ \A k \in Kinds \ {"conversation"} : g[k] = pkg[k]
  BY <1>1, FittedIs
<1>4. b.files \in Nat /\ b.rag \in Nat /\ b.preferences \in Nat
  BY <1>1, WindowSplits
<1>5. \A k \in Kinds : Sent(k) = Unmarked(prompt[k])
  BY DEF Sent, Unmarked
<1>6. \A k \in Kinds : g[k] \in Seq(T)
  BY <1>3 DEF Groups
<1> HIDE DEF g, b, d, T, held
<1>7. /\ prompt["system"] = g["system"] /\ prompt["project"] = g["project"]
      /\ SendsFiles(prompt, g, b.files, d.files)
      /\ Sends(prompt["rag"], g["rag"], b.rag, d.chunks)
      /\ Sends(prompt["preferences"], g["preferences"], b.preferences, d.preferences)
      /\ \/ prompt["conversation"] = g["conversation"] /\ d.turns = 0
         \/ prompt["conversation"] = TurnsKept(g, b) /\ d.turns = Len(g["conversation"]) - Len(TurnsKept(g, b))
  BY <1>1 DEF Cutting
<1>8. /\ g["system"] = pkg["system"] /\ g["project"] = pkg["project"] /\ g["preferences"] = pkg["preferences"]
      /\ g["file"] = pkg["file"] /\ g["graph"] = pkg["graph"] /\ g["diagnostics"] = pkg["diagnostics"]
      /\ g["rag"] = pkg["rag"]
  BY <1>3 DEF Kinds
<1>9. /\ g["system"] \in Seq(T) /\ g["project"] \in Seq(T) /\ g["preferences"] \in Seq(T) /\ g["rag"] \in Seq(T)
      /\ held \in Seq(T)
  BY <1>3, <1>6 DEF Kinds
<1>10. /\ Sent("system") = Unmarked(prompt["system"]) /\ Sent("project") = Unmarked(prompt["project"])
       /\ Sent("file") = Unmarked(prompt["file"]) /\ Sent("graph") = Unmarked(prompt["graph"])
       /\ Sent("diagnostics") = Unmarked(prompt["diagnostics"]) /\ Sent("rag") = Unmarked(prompt["rag"])
       /\ Sent("preferences") = Unmarked(prompt["preferences"])
  BY <1>5 DEF Kinds
<1>11. IsPrefix(Sent("system"), pkg["system"]) /\ IsPrefix(Sent("project"), pkg["project"])
  <2>1. Sent("system") = pkg["system"] /\ Sent("project") = pkg["project"]
    BY <1>2, <1>7, <1>8, <1>9, <1>10, NoMark
  <2> QED BY <1>8, <1>9, <2>1, SelfPrefix
<1>12. /\ IsPrefix(Sent("rag"), pkg["rag"]) /\ d.chunks = lost("rag") /\ (prompt["rag"] # Sent("rag") <=> d.chunks > 0)
  <2>1. Told(prompt["rag"], g["rag"], b.rag, d.chunks)
    BY <1>2, <1>4, <1>7, <1>9, SendsTold
  <2> QED BY <1>8, <1>10, <2>1, Zenon DEF Told
<1>13. /\ IsPrefix(Sent("preferences"), pkg["preferences"]) /\ d.preferences = lost("preferences")
       /\ prompt["preferences"] # Sent("preferences") <=> d.preferences > 0
  <2>1. Told(prompt["preferences"], g["preferences"], b.preferences, d.preferences)
    BY <1>2, <1>4, <1>7, <1>9, SendsTold
  <2> QED BY <1>8, <1>10, <2>1, Zenon DEF Told
<1>14. /\ IsPrefix(Sent("file"), pkg["file"]) /\ IsPrefix(Sent("graph"), pkg["graph"])
       /\ IsPrefix(Sent("diagnostics"), pkg["diagnostics"])
       /\ d.files = lost("file") + lost("graph") + lost("diagnostics")
       /\ prompt["file"] # Sent("file") <=> d.files > 0
  <2>1. ToldFiles(prompt, g, b.files, d.files)
    BY <1>2, <1>3, <1>4, <1>7, FilesTold
  <2> QED BY <1>8, <1>10, <2>1, Zenon DEF ToldFiles
<1>15. IsPrefix(prompt["conversation"], held) /\ d.turns = Len(held) - Len(prompt["conversation"])
  <2>1. CASE prompt["conversation"] = g["conversation"] /\ d.turns = 0
    <3>1. Len(held) - Len(held) = 0
      BY <1>9
    <3> QED BY <1>3, <1>9, <2>1, <3>1, SelfPrefix
  <2>2. CASE prompt["conversation"] = TurnsKept(g, b) /\ d.turns = Len(g["conversation"]) - Len(TurnsKept(g, b))
    <3>1. PICK m \in 0 .. Len(held) : TrimGroup(held, Room(g, b)) = FirstOf(held, m)
      BY <1>2, <1>9, Trimming
    <3>2. TurnsKept(g, b) = FirstOf(held, m)
      BY <1>3, <3>1 DEF TurnsKept
    <3>3. IsPrefix(FirstOf(held, m), held)
      BY <1>9, FirstPrefix
    <3> QED BY <1>3, <2>2, <3>2, <3>3
  <2> QED BY <1>7, <2>1, <2>2
<1>16. \A k \in Kinds \ {"conversation"} : IsPrefix(Sent(k), pkg[k])
  BY <1>11, <1>12, <1>13, <1>14 DEF Kinds
<1>17. prompt["system"] = pkg["system"] /\ prompt["project"] = pkg["project"]
  BY <1>7, <1>8
<1> QED BY <1>12, <1>13, <1>14, <1>15, <1>16, <1>17, Zenon DEF CutsAreTold, d, held

\* The figure that is reported is a number.
LEMMA ResultUsed ==
  ASSUME NEW T, Sized(T), NEW g \in Groups(T), NEW b, MarkerSize \in Nat, GoalSize \in Nat, NEW r, FitResult(g, b, r)
  PROVE  r.used \in Nat
<1> DEFINE U == T \union {MarkerPart}
<1>1. \A k \in Kinds : g[k] \in Seq(T)
  BY DEF Groups
<1>2. Sized(U)
  BY SizedMarked
<1>3. \A k \in Kinds : /\ LessRetrieved(g, b)[k] \in Seq(U) /\ LessPreferred(g, b)[k] \in Seq(U)
                       /\ LessSaid(g, b)[k] \in Seq(U)
  BY CutTyped
<1> HIDE DEF U
<1>4. Used(g) \in Nat
  BY <1>1, BaseTyped
<1>5. ASSUME NEW h, \A k \in Kinds : h[k] \in Seq(U) PROVE UsedTrimmed(h) \in Nat
  <2>1. BaseUse(h) \in Nat /\ Tokens(h["conversation"]) \in Nat /\ UsedTrimmed(h) = BaseUse(h) + Tokens(h["conversation"])
    BY <1>2, <1>5, BaseTyped
  <2> DEFINE x == BaseUse(h)
             y == Tokens(h["conversation"])
  <2>2. x \in Nat /\ y \in Nat /\ UsedTrimmed(h) = x + y
    BY <2>1
  <2> HIDE DEF x, y
  <2> QED BY <2>2
<1>6. /\ UsedTrimmed(LessRetrieved(g, b)) \in Nat /\ UsedTrimmed(LessPreferred(g, b)) \in Nat
      /\ UsedTrimmed(LessSaid(g, b)) \in Nat
  BY <1>3, <1>5
<1>7. \/ r.used = Used(g) \/ r.used = UsedTrimmed(LessRetrieved(g, b))
      \/ r.used = UsedTrimmed(LessPreferred(g, b)) \/ r.used = UsedTrimmed(LessSaid(g, b))
  BY DEF FitResult
<1> QED BY <1>4, <1>6, <1>7, Zenon

\* CutsAreNeeded: nothing is cut from a prompt that fits, nor to nothing, nor in another order.
LEMMA CutsNeeded == PromptIsCut /\ window \in Nat => CutsAreNeeded
<1> SUFFICES ASSUME PromptIsCut, window \in Nat, fitStage = "compiled" PROVE CutsAreNeeded
  BY DEF CutsAreNeeded
<1> DEFINE T == Gathered
           g == Fitted
           b == budget
           d == report.dropped
           u == report.used
           held == DedupConversation(pkg)
<1>1. /\ pkg \in Groups(T) /\ b = Allocate(window)
      /\ Cutting(g, b, prompt, u, d) /\ u \in Nat
  BY DEF PromptIsCut
<1>2. Sized(T) /\ Unmarkable(T) /\ GoalSize \in Nat /\ MarkerSize \in Nat
  BY GatheredFit
<1>3. g \in Groups(T) /\ g["conversation"] = held /\ \A k \in Kinds \ {"conversation"} : g[k] = pkg[k]
  BY <1>1, FittedIs
<1>4. /\ b.files \in Nat /\ b.rag \in Nat /\ b.preferences \in Nat /\ b.window = window
      /\ window >= 2 => b.files >= 1 /\ b.rag >= 1 /\ b.preferences >= 1
  BY <1>1, WindowSplits
<1>5. d # NothingDropped => Used(g) > window /\ window > 0
  <2>1. NothingDropped = Dropping(0, 0, 0, 0)
    BY DEF NothingDropped, Dropping
  <2>2. d = Dropping(0, 0, 0, 0) \/ (b.window > 0 /\ Used(g) > b.window)
    BY <1>1 DEF Cutting
  <2> QED BY <1>4, <2>1, <2>2
<1>6. \A k \in Kinds : g[k] \in Seq(T)
  BY <1>3 DEF Groups
<1>f. Fitted = [pkg EXCEPT !["conversation"] = DedupConversation(pkg)]
  BY DEF Fitted
<1> HIDE DEF g, b, d, u, T, held
<1>7. /\ SendsFiles(prompt, g, b.files, d.files)
      /\ Sends(prompt["rag"], g["rag"], b.rag, d.chunks)
      /\ Sends(prompt["preferences"], g["preferences"], b.preferences, d.preferences)
      /\ \/ prompt["conversation"] = g["conversation"] /\ d.turns = 0 /\ (b.window = 0 \/ u <= b.window)
         \/ /\ prompt["conversation"] = TurnsKept(g, b) /\ d.turns = Len(g["conversation"]) - Len(TurnsKept(g, b))
            /\ Shortened(prompt["preferences"], g["preferences"], b.preferences, d.preferences)
            /\ u = UsedTrimmed(LessSaid(g, b))
  BY <1>1 DEF Cutting
<1>8. g["preferences"] = pkg["preferences"] /\ g["file"] = pkg["file"] /\ g["rag"] = pkg["rag"]
  BY <1>3 DEF Kinds
<1>9. g["preferences"] \in Seq(T) /\ g["rag"] \in Seq(T) /\ held \in Seq(T)
  BY <1>3, <1>6 DEF Kinds
<1>10. (u > window /\ window > 0) => Len(prompt["conversation"]) <= 1
  <2> SUFFICES ASSUME u > window, window > 0 PROVE Len(prompt["conversation"]) <= 1
    OBVIOUS
  <2>1. ~ (b.window = 0 \/ u <= b.window)
    BY <1>1, <1>4
  <2>2. prompt["conversation"] = TurnsKept(g, b) /\ u = UsedTrimmed(LessSaid(g, b))
    BY <1>7, <2>1
  <2>3. Len(TurnsKept(g, b)) \in Nat
    <3>1. TurnsKept(g, b) \in Seq(T)
      BY <1>2, <1>3, <1>9, TrimmedTyped DEF TurnsKept
    <3> QED BY <3>1
  <2>4. Len(TurnsKept(g, b)) >= 2 => u <= b.window
    BY <1>2, <1>3, <1>4, <2>2, KeptFits
  <2> DEFINE l == Len(TurnsKept(g, b))
  <2>5. l \in Nat /\ ~ (l >= 2)
    BY <2>1, <2>3, <2>4
  <2> HIDE DEF l
  <2>6. l <= 1
    BY <2>5
  <2> QED BY <2>2, <2>6 DEF l
<1>11. d.turns > 0 => d.preferences > 0 \/ Len(pkg["preferences"]) <= 1 \/ Tokens(pkg["preferences"]) <= b.preferences
  <2> SUFFICES ASSUME d.turns > 0
               PROVE  d.preferences > 0 \/ Len(pkg["preferences"]) <= 1 \/ Tokens(pkg["preferences"]) <= b.preferences
    OBVIOUS
  <2>1. Shortened(prompt["preferences"], g["preferences"], b.preferences, d.preferences)
    BY <1>7
  <2> DEFINE n == d.preferences
             s == g["preferences"]
             x == prompt["preferences"]
             slot == b.preferences
  <2>2. n \in Nat /\ (n = 0 => Len(s) <= 1 \/ Tokens(s) <= slot)
    <3>1. s \in Seq(T) /\ slot \in Nat /\ Shortened(x, s, slot, n)
      BY <1>4, <1>9, <2>1
    <3> HIDE DEF s, slot, n, x
    <3> QED BY <1>2, <3>1, ShortShown
  <2>3. n = 0 \/ n > 0
    BY <2>2
  <2> QED BY <1>8, <2>2, <2>3
<1>12. window >= 2 => \A k \in {"file", "rag", "preferences"} : pkg[k] # <<>> => prompt[k][1] = pkg[k][1]
  <2> SUFFICES ASSUME window >= 2
               PROVE  \A k \in {"file", "rag", "preferences"} : pkg[k] # <<>> => prompt[k][1] = pkg[k][1]
    OBVIOUS
  <2>1. b.files > 0 /\ b.rag > 0 /\ b.preferences > 0
    BY <1>4
  <2>2. ToldFiles(prompt, g, b.files, d.files)
    BY <1>2, <1>3, <1>4, <1>7, FilesTold
  <2>3. Told(prompt["rag"], g["rag"], b.rag, d.chunks)
    BY <1>2, <1>4, <1>7, <1>9, SendsTold
  <2>4. Told(prompt["preferences"], g["preferences"], b.preferences, d.preferences)
    BY <1>2, <1>4, <1>7, <1>9, SendsTold
  <2>5. pkg["file"] # <<>> => prompt["file"][1] = pkg["file"][1]
    BY <1>8, <2>1, <2>2 DEF ToldFiles
  <2>6. pkg["rag"] # <<>> => prompt["rag"][1] = pkg["rag"][1]
    BY <1>8, <2>1, <2>3 DEF Told
  <2>7. pkg["preferences"] # <<>> => prompt["preferences"][1] = pkg["preferences"][1]
    BY <1>8, <2>1, <2>4 DEF Told
  <2> QED BY <2>5, <2>6, <2>7
<1> QED BY <1>5, <1>10, <1>11, <1>12, <1>f, Zenon DEF CutsAreNeeded, d, g, u, b, held

\* WindowIsSplit, from the split of any window.
LEMMA WindowIsSplitWell == (fitStage # "gather" => budget = Allocate(window)) /\ window \in Nat => WindowIsSplit
<1> SUFFICES ASSUME budget = Allocate(window), window \in Nat, fitStage # "gather" PROVE WindowIsSplit
  BY DEF WindowIsSplit
<1> QED BY WindowSplits DEF WindowIsSplit

-----------------------------------------------------------------------------
(* What is picked, and how large it is.                                    *)

\* One position more picks its part more.
LEMMA PickedOneMore ==
  ASSUME NEW T, Sized(T), NEW s \in Seq(T), NEW P, NEW i \in 1 .. Len(s), i \notin P
  PROVE  /\ Tokens(Picked(s, P \union {i})) = Tokens(Picked(s, P)) + s[i].size
         /\ Tokens(Picked(s, P)) \in Nat /\ s[i].size \in Nat
<1> DEFINE n == Len(s)
           Q == P \union {i}
           w == s[i].size
<1>0. n \in Nat /\ s[i] \in T
  OBVIOUS
<1>w. w \in Nat
  BY <1>0 DEF Sized
<1>1. i \in Q /\ \A j : j # i => (j \in Q <=> j \in P)
  OBVIOUS
<1> HIDE DEF Q, n, w
<1>2. PICK p : Picks(s, P, p) /\ Picked(s, P) = p[n] /\ \A j \in 0 .. n : p[j] \in Seq(T)
  BY Picking DEF n
<1>3. PICK q : Picks(s, Q, q) /\ Picked(s, Q) = q[n] /\ \A j \in 0 .. n : q[j] \in Seq(T)
  BY Picking DEF n
<1>4. \A j \in 1 .. n : /\ p[j] = IF j \in P THEN Append(p[j - 1], s[j]) ELSE p[j - 1]
                        /\ q[j] = IF j \in Q THEN Append(q[j - 1], s[j]) ELSE q[j - 1]
  BY <1>2, <1>3 DEF Picks, n
<1>i. i \in 1 .. n /\ i \in Nat
  BY <1>0 DEF n
<1> DEFINE S == {j \in 0 .. n : /\ j < i => p[j] = q[j]
                                /\ j >= i => Tokens(q[j]) = Tokens(p[j]) + w}
<1>5. 0 \in S
  <2>1. p[0] = q[0]
    BY <1>2, <1>3 DEF Picks
  <2> QED BY <1>0, <1>i, <2>1
<1>6. ASSUME NEW j \in 1 .. n, j - 1 \in S PROVE j \in S
  <2>0. j \in 0 .. n /\ j - 1 \in 0 .. n /\ j \in Nat
    BY <1>0
  <2>1. s[j] \in T
    BY DEF n
  <2>2. p[j - 1] \in Seq(T) /\ q[j - 1] \in Seq(T)
    BY <1>2, <1>3, <2>0
  <2>3. p[j] = IF j \in P THEN Append(p[j - 1], s[j]) ELSE p[j - 1]
    BY <1>4
  <2>4. q[j] = IF j \in Q THEN Append(q[j - 1], s[j]) ELSE q[j - 1]
    BY <1>4
  <2>5. /\ Tokens(Append(p[j - 1], s[j])) = Tokens(p[j - 1]) + s[j].size /\ s[j].size \in Nat
        /\ Tokens(p[j - 1]) \in Nat
    BY <2>1, <2>2, TokensMore
  <2>6. /\ Tokens(Append(q[j - 1], s[j])) = Tokens(q[j - 1]) + s[j].size
        /\ Tokens(q[j - 1]) \in Nat
    BY <2>1, <2>2, TokensMore
  <2>7. CASE j < i
    <3>1. p[j - 1] = q[j - 1] /\ (j \in Q <=> j \in P) /\ ~ (j >= i)
      BY <1>1, <1>6, <1>i, <2>0, <2>7
    <3>2. p[j] = q[j]
      BY <2>3, <2>4, <3>1, Zenon
    <3> QED BY <2>0, <3>1, <3>2
  <2>8. CASE j = i
    <3>1. p[j - 1] = q[j - 1] /\ ~ (j < i)
      BY <1>6, <1>i, <2>0, <2>8
    <3>2. p[j] = p[j - 1] /\ q[j] = Append(q[j - 1], s[j]) /\ s[j].size = w
      BY <1>1, <2>3, <2>4, <2>8 DEF w
    <3>3. Tokens(q[j]) = Tokens(p[j]) + w
      BY <2>6, <3>1, <3>2
    <3> QED BY <2>0, <3>1, <3>3
  <2>9. CASE j > i
    <3>1. Tokens(q[j - 1]) = Tokens(p[j - 1]) + w /\ (j \in Q <=> j \in P) /\ ~ (j < i)
      BY <1>1, <1>6, <1>i, <2>0, <2>9
    <3>2. CASE j \in P
      <4>1. Tokens(q[j]) = Tokens(q[j - 1]) + s[j].size /\ Tokens(p[j]) = Tokens(p[j - 1]) + s[j].size
        BY <2>3, <2>4, <2>5, <2>6, <3>1, <3>2
      <4> DEFINE a == Tokens(q[j - 1])
                 b == Tokens(p[j - 1])
                 c == s[j].size
                 d == Tokens(q[j])
                 e == Tokens(p[j])
      <4>2. a \in Nat /\ b \in Nat /\ c \in Nat /\ d = a + c /\ e = b + c /\ a = b + w
        BY <2>5, <2>6, <3>1, <4>1
      <4> HIDE DEF a, b, c, d, e
      <4>3. d = e + w
        BY <1>w, <4>2
      <4> QED BY <2>0, <3>1, <4>3 DEF d, e
    <3>3. CASE j \notin P
      <4>1. q[j] = q[j - 1] /\ p[j] = p[j - 1]
        BY <2>3, <2>4, <3>1, <3>3
      <4> QED BY <2>0, <3>1, <4>1
    <3> QED BY <3>2, <3>3
  <2> QED BY <1>i, <2>0, <2>7, <2>8, <2>9
<1>7. 0 .. n \subseteq S
  <2> HIDE DEF S
  <2> QED BY <1>0, <1>5, <1>6, NatUpTo
<1>8. Tokens(q[n]) = Tokens(p[n]) + w
  BY <1>0, <1>i, <1>7
<1>9. Tokens(Picked(s, P)) \in Nat
  BY PickedTyped, SumTyped
<1> QED BY <1>2, <1>3, <1>8, <1>9, <1>w DEF Q, w

\* Nothing is picked at no position.
LEMMA PickedNowhere ==
  ASSUME NEW T, NEW s \in Seq(T), NEW P, \A j \in 1 .. Len(s) : j \notin P
  PROVE  Picked(s, P) = <<>>
<1> DEFINE n == Len(s)
<1>0. n \in Nat
  OBVIOUS
<1>1. PICK p : Picks(s, P, p) /\ Picked(s, P) = p[n]
  BY Picking
<1> DEFINE S == {j \in 0 .. n : p[j] = <<>>}
<1>2. 0 \in S
  BY <1>0, <1>1 DEF Picks
<1>3. ASSUME NEW j \in 1 .. n, j - 1 \in S PROVE j \in S
  <2>1. p[j] = p[j - 1]
    BY <1>1 DEF Picks
  <2> QED BY <1>0, <1>3, <2>1
<1>4. 0 .. n \subseteq S
  <2> HIDE DEF S
  <2> QED BY <1>0, <1>2, <1>3, NatUpTo
<1> QED BY <1>0, <1>1, <1>4

\* The first part that is picked is at the first position.
LEMMA PickedFirst ==
  ASSUME NEW T, NEW s \in Seq(T), NEW P, NEW i \in 1 .. Len(s), i \in P, \A j \in 1 .. i - 1 : j \notin P
  PROVE  Picked(s, P) # <<>> /\ Picked(s, P)[1] = s[i]
<1> DEFINE n == Len(s)
           Starts(q) == q \in Seq(T) /\ q # <<>> /\ q[1] = s[i]
<1>0. n \in Nat /\ i \in 1 .. n /\ i \in Nat /\ s[i] \in T
  OBVIOUS
<1>e. <<>> \in Seq(T)
  OBVIOUS
<1>a. Starts(Append(<<>>, s[i]))
  BY <1>0, <1>e
<1>b. ASSUME NEW q, Starts(q), NEW x \in T PROVE Starts(Append(q, x))
  <2>1. q \in Seq(T) /\ Len(q) \in Nat /\ Len(q) >= 1
    BY <1>b
  <2>2. Append(q, x)[1] = q[1] /\ Append(q, x) # <<>> /\ Append(q, x) \in Seq(T)
    BY <2>1
  <2> QED BY <1>b, <2>2
<1> HIDE DEF Starts
<1>1. PICK p : Picks(s, P, p) /\ Picked(s, P) = p[n]
  BY Picking
<1>2. \A j \in 1 .. n : p[j] = IF j \in P THEN Append(p[j - 1], s[j]) ELSE p[j - 1]
  BY <1>1 DEF Picks
<1> DEFINE S == {j \in 0 .. n : (j < i => p[j] = <<>>) /\ (j >= i => Starts(p[j]))}
<1>3. 0 \in S
  BY <1>0, <1>1 DEF Picks
<1>4. ASSUME NEW j \in 1 .. n, j - 1 \in S PROVE j \in S
  <2>0. j \in 0 .. n /\ j - 1 \in 0 .. n /\ j \in Nat /\ s[j] \in T
    BY <1>0
  <2>1. p[j] = IF j \in P THEN Append(p[j - 1], s[j]) ELSE p[j - 1]
    BY <1>2
  <2>2. CASE j < i
    <3>1. j \in 1 .. i - 1 /\ j - 1 < i /\ ~ (j >= i)
      BY <1>0, <2>0, <2>2
    <3> QED BY <1>4, <2>0, <2>1, <2>2, <3>1
  <2>3. CASE j = i
    <3>1. j - 1 < i /\ ~ (j < i)
      BY <1>0, <2>3
    <3>2. p[j] = Append(<<>>, s[i])
      BY <1>4, <2>1, <2>3, <3>1
    <3> QED BY <1>a, <2>0, <3>1, <3>2
  <2>4. CASE j > i
    <3>1. j - 1 >= i /\ ~ (j < i)
      BY <1>0, <2>0, <2>4
    <3>2. Starts(p[j - 1])
      BY <1>4, <3>1
    <3>3. Starts(p[j])
      BY <1>b, <2>0, <2>1, <3>2
    <3> QED BY <2>0, <3>1, <3>3
  <2> QED BY <1>0, <2>0, <2>2, <2>3, <2>4
<1>5. 0 .. n \subseteq S
  <2> HIDE DEF S
  <2> QED BY <1>0, <1>3, <1>4, NatUpTo
<1>6. Starts(p[n])
  BY <1>0, <1>5
<1> QED BY <1>1, <1>6 DEF Starts

\* What is picked at one position.
LEMMA PickedAlone ==
  ASSUME NEW T, NEW s \in Seq(T), NEW P, NEW i \in 1 .. Len(s), i \in P, \A j \in 1 .. Len(s) : j \in P => j = i
  PROVE  Picked(s, P) = <<s[i]>>
<1> DEFINE n == Len(s)
           one == <<s[i]>>
<1>0. n \in Nat /\ i \in 1 .. n /\ i \in Nat
  OBVIOUS
<1>a. Append(<<>>, s[i]) = one
  OBVIOUS
<1> HIDE DEF one
<1>1. PICK p : Picks(s, P, p) /\ Picked(s, P) = p[n]
  BY Picking
<1>2. \A j \in 1 .. n : p[j] = IF j \in P THEN Append(p[j - 1], s[j]) ELSE p[j - 1]
  BY <1>1 DEF Picks
<1> DEFINE S == {j \in 0 .. n : (j < i => p[j] = <<>>) /\ (j >= i => p[j] = one)}
<1>3. 0 \in S
  BY <1>0, <1>1 DEF Picks
<1>4. ASSUME NEW j \in 1 .. n, j - 1 \in S PROVE j \in S
  <2>0. j \in 0 .. n /\ j - 1 \in 0 .. n /\ j \in Nat
    BY <1>0
  <2>1. p[j] = IF j = i THEN Append(p[j - 1], s[j]) ELSE p[j - 1]
    BY <1>2
  <2>2. CASE j < i
    <3>1. j - 1 < i /\ ~ (j >= i) /\ j # i
      BY <1>0, <2>0, <2>2
    <3> QED BY <1>4, <2>0, <2>1, <2>2, <3>1
  <2>3. CASE j = i
    <3>1. j - 1 < i /\ ~ (j < i)
      BY <1>0, <2>3
    <3>2. p[j] = Append(<<>>, s[i])
      BY <1>4, <2>1, <2>3, <3>1
    <3> QED BY <1>a, <2>0, <3>1, <3>2
  <2>4. CASE j > i
    <3>1. j - 1 >= i /\ ~ (j < i) /\ j # i
      BY <1>0, <2>0, <2>4
    <3> QED BY <1>4, <2>0, <2>1, <3>1
  <2> QED BY <1>0, <2>0, <2>2, <2>3, <2>4
<1>5. 0 .. n \subseteq S
  <2> HIDE DEF S
  <2> QED BY <1>0, <1>3, <1>4, NatUpTo
<1>6. p[n] = one
  BY <1>0, <1>5
<1> QED BY <1>1, <1>6 DEF one

\* x is somewhere in q.
Within(x, q) == \E a \in 1 .. Len(q) : q[a] = x

\* What is in a longer sequence is the new element or was there.
LEMMA WithinMore ==
  ASSUME NEW T, NEW q \in Seq(T), NEW x \in T, NEW y
  PROVE  Within(y, Append(q, x)) <=> y = x \/ Within(y, q)
<1> DEFINE r == Append(q, x)
           n == Len(q)
<1>1. n \in Nat /\ Len(r) = n + 1 /\ r[n + 1] = x /\ \A a \in 1 .. n : r[a] = q[a]
  OBVIOUS
<1> HIDE DEF r, n
<1>2. \A a : a \in 1 .. n + 1 <=> a \in 1 .. n \/ a = n + 1
  BY <1>1
<1>3. (\E a \in 1 .. n + 1 : r[a] = y) <=> y = x \/ (\E a \in 1 .. n : q[a] = y)
  BY <1>1, <1>2
<1> QED BY <1>1, <1>3 DEF Within, n, r

\* What is picked is what is at the positions.
LEMMA PickedWithin ==
  ASSUME NEW T, NEW s \in Seq(T), NEW P
  PROVE  \A y : Within(y, Picked(s, P)) <=> \E i \in 1 .. Len(s) : i \in P /\ s[i] = y
<1> DEFINE n == Len(s)
<1>0. n \in Nat
  OBVIOUS
<1>1. PICK p : Picks(s, P, p) /\ Picked(s, P) = p[n] /\ \A j \in 0 .. n : p[j] \in Seq(T)
  BY Picking
<1>2. \A j \in 1 .. n : p[j] = IF j \in P THEN Append(p[j - 1], s[j]) ELSE p[j - 1]
  BY <1>1 DEF Picks
<1> DEFINE Has(j) == \A y : Within(y, p[j]) <=> \E i \in 1 .. j : i \in P /\ s[i] = y
           S == {j \in 0 .. n : Has(j)}
<1>3. 0 \in S
  <2>1. p[0] = <<>> /\ Len(<<>>) = 0
    BY <1>1 DEF Picks
  <2>2. ~ \E i \in 1 .. 0 : TRUE
    OBVIOUS
  <2>3. \A y : ~ Within(y, <<>>)
    BY <2>1, <2>2 DEF Within
  <2> QED BY <1>0, <2>1, <2>2, <2>3
<1>4. ASSUME NEW j \in 1 .. n, j - 1 \in S PROVE j \in S
  <2>0. j \in 0 .. n /\ j - 1 \in 0 .. n /\ s[j] \in T /\ \A i : i \in 1 .. j <=> i \in 1 .. j - 1 \/ i = j
    BY <1>0
  <2>1. p[j] = IF j \in P THEN Append(p[j - 1], s[j]) ELSE p[j - 1]
    BY <1>2
  <2>2. p[j - 1] \in Seq(T)
    BY <1>1, <2>0
  <2>3. \A y : Within(y, Append(p[j - 1], s[j])) <=> y = s[j] \/ Within(y, p[j - 1])
    BY <2>0, <2>2, WithinMore
  <2>4. Has(j - 1)
    BY <1>4
  <2>5. ASSUME NEW y PROVE Within(y, p[j]) <=> \E i \in 1 .. j : i \in P /\ s[i] = y
    <3>1. Within(y, p[j]) <=> (j \in P /\ y = s[j]) \/ Within(y, p[j - 1])
      BY <2>1, <2>3
    <3>2. (\E i \in 1 .. j : i \in P /\ s[i] = y)
             <=> (j \in P /\ s[j] = y) \/ \E i \in 1 .. j - 1 : i \in P /\ s[i] = y
      BY <2>0
    <3> QED BY <2>4, <3>1, <3>2
  <2> QED BY <2>0, <2>5
<1>5. 0 .. n \subseteq S
  <2> HIDE DEF S
  <2> QED BY <1>0, <1>3, <1>4, NatUpTo
<1>6. Has(n)
  BY <1>0, <1>5
<1> QED BY <1>1, <1>6

\* x is in q at one position at most.
Once(x, q) == \A a, b \in 1 .. Len(q) : q[a] = x /\ q[b] = x => a = b

\* An element that was there once is there once, when the new one is another.
LEMMA OnceMore ==
  ASSUME NEW T, NEW q \in Seq(T), NEW x \in T, NEW y, Once(y, q), y = x => ~ Within(y, q)
  PROVE  Once(y, Append(q, x))
<1> DEFINE r == Append(q, x)
           n == Len(q)
<1>1. n \in Nat /\ Len(r) = n + 1 /\ r[n + 1] = x /\ \A a \in 1 .. n : r[a] = q[a]
  OBVIOUS
<1> HIDE DEF r, n
<1>2. \A a : a \in 1 .. n + 1 <=> a \in 1 .. n \/ a = n + 1
  BY <1>1
<1>3. \A a, b \in 1 .. n : q[a] = y /\ q[b] = y => a = b
  BY DEF Once, n
<1>4. y = x => \A a \in 1 .. n : q[a] # y
  BY DEF Within, n
<1>5. \A a, b \in 1 .. n + 1 : r[a] = y /\ r[b] = y => a = b
  BY <1>1, <1>2, <1>3, <1>4
<1> QED BY <1>1, <1>5 DEF Once, r

\* What is there once is picked once.
LEMMA PickedOnce ==
  ASSUME NEW T, NEW s \in Seq(T), NEW P, NEW y, Once(y, s)
  PROVE  Once(y, Picked(s, P))
<1> DEFINE n == Len(s)
<1>0. n \in Nat
  OBVIOUS
<1>u. \A a, b \in 1 .. n : s[a] = y /\ s[b] = y => a = b
  BY DEF Once
<1>1. PICK p : Picks(s, P, p) /\ Picked(s, P) = p[n] /\ \A j \in 0 .. n : p[j] \in Seq(T)
  BY Picking
<1>2. \A j \in 1 .. n : p[j] = IF j \in P THEN Append(p[j - 1], s[j]) ELSE p[j - 1]
  BY <1>1 DEF Picks
<1> DEFINE S == {j \in 0 .. n : Once(y, p[j]) /\ (Within(y, p[j]) => \E i \in 1 .. j : s[i] = y)}
<1>3. 0 \in S
  <2>1. p[0] = <<>> /\ Len(<<>>) = 0
    BY <1>1 DEF Picks
  <2>2. ~ \E i \in 1 .. 0 : TRUE
    OBVIOUS
  <2>3. ~ Within(y, <<>>) /\ Once(y, <<>>)
    BY <2>1, <2>2 DEF Within, Once
  <2> QED BY <1>0, <2>1, <2>3
<1>4. ASSUME NEW j \in 1 .. n, j - 1 \in S PROVE j \in S
  <2>0. /\ j \in 0 .. n /\ j - 1 \in 0 .. n /\ s[j] \in T
        /\ \A i : i \in 1 .. j <=> i \in 1 .. j - 1 \/ i = j
        /\ \A i \in 1 .. j - 1 : i # j /\ i \in 1 .. n
    BY <1>0
  <2>1. p[j] = IF j \in P THEN Append(p[j - 1], s[j]) ELSE p[j - 1]
    BY <1>2
  <2>2. p[j - 1] \in Seq(T)
    BY <1>1, <2>0
  <2>3. Within(y, Append(p[j - 1], s[j])) <=> y = s[j] \/ Within(y, p[j - 1])
    BY <2>0, <2>2, WithinMore
  <2>4. Once(y, p[j - 1]) /\ (Within(y, p[j - 1]) => \E i \in 1 .. j - 1 : s[i] = y)
    BY <1>4
  <2>5. y = s[j] => ~ Within(y, p[j - 1])
    BY <1>u, <2>0, <2>4
  <2>6. Once(y, Append(p[j - 1], s[j]))
    BY <2>0, <2>2, <2>4, <2>5, OnceMore
  <2>7. Within(y, p[j]) => \E i \in 1 .. j : s[i] = y
    BY <2>0, <2>1, <2>3, <2>4
  <2> QED BY <2>0, <2>1, <2>4, <2>6, <2>7
<1>5. 0 .. n \subseteq S
  <2> HIDE DEF S
  <2> QED BY <1>0, <1>3, <1>4, NatUpTo
<1> QED BY <1>0, <1>1, <1>5

-----------------------------------------------------------------------------
(* How much of every kind is packed.                                       *)

\* A sum over the kinds is a number.
LEMMA OverKindsTyped == \A f \in [Kinds -> Nat] : OverKinds(f) \in Nat
<1> SUFFICES ASSUME NEW f \in [Kinds -> Nat] PROVE OverKinds(f) \in Nat
  OBVIOUS
<1>1. /\ f["system"] \in Nat /\ f["project"] \in Nat /\ f["preferences"] \in Nat /\ f["conversation"] \in Nat
      /\ f["file"] \in Nat /\ f["graph"] \in Nat /\ f["diagnostics"] \in Nat /\ f["rag"] \in Nat
  BY DEF Kinds
<1> QED BY <1>1 DEF OverKinds

\* More of one kind is more of them all.
LEMMA OverKindsMore ==
  ASSUME NEW f \in [Kinds -> Nat], NEW g \in [Kinds -> Nat], NEW k \in Kinds, NEW w \in Nat,
         g[k] = f[k] + w, \A m \in Kinds \ {k} : g[m] = f[m]
  PROVE  OverKinds(g) = OverKinds(f) + w
<1>1. /\ f["system"] \in Nat /\ f["project"] \in Nat /\ f["preferences"] \in Nat /\ f["conversation"] \in Nat
      /\ f["file"] \in Nat /\ f["graph"] \in Nat /\ f["diagnostics"] \in Nat /\ f["rag"] \in Nat
  BY DEF Kinds
<1>2. \/ k = "system" \/ k = "project" \/ k = "preferences" \/ k = "conversation"
      \/ k = "file" \/ k = "graph" \/ k = "diagnostics" \/ k = "rag"
  BY DEF Kinds
<1>3. /\ g["system"] = f["system"] + (IF k = "system" THEN w ELSE 0)
      /\ g["project"] = f["project"] + (IF k = "project" THEN w ELSE 0)
      /\ g["preferences"] = f["preferences"] + (IF k = "preferences" THEN w ELSE 0)
      /\ g["conversation"] = f["conversation"] + (IF k = "conversation" THEN w ELSE 0)
      /\ g["file"] = f["file"] + (IF k = "file" THEN w ELSE 0)
      /\ g["graph"] = f["graph"] + (IF k = "graph" THEN w ELSE 0)
      /\ g["diagnostics"] = f["diagnostics"] + (IF k = "diagnostics" THEN w ELSE 0)
      /\ g["rag"] = f["rag"] + (IF k = "rag" THEN w ELSE 0)
  <2>1. ASSUME NEW m \in Kinds PROVE g[m] = f[m] + (IF k = m THEN w ELSE 0)
    <3>1. f[m] \in Nat
      OBVIOUS
    <3>2. CASE k = m
      BY <3>2
    <3>3. CASE k # m
      <4>1. g[m] = f[m]
        BY <3>3
      <4> QED BY <3>1, <3>3, <4>1
    <3> QED BY <3>2, <3>3
  <2> QED BY <2>1 DEF Kinds
<1> QED BY <1>1, <1>2, <1>3 DEF OverKinds

\* Less of every kind is less of them all.
LEMMA OverKindsLess ==
  ASSUME NEW f \in [Kinds -> Nat], NEW g \in [Kinds -> Nat], \A k \in Kinds : f[k] <= g[k]
  PROVE  OverKinds(f) <= OverKinds(g)
<1>1. /\ f["system"] \in Nat /\ f["project"] \in Nat /\ f["preferences"] \in Nat /\ f["conversation"] \in Nat
      /\ f["file"] \in Nat /\ f["graph"] \in Nat /\ f["diagnostics"] \in Nat /\ f["rag"] \in Nat
  BY DEF Kinds
<1>2. /\ g["system"] \in Nat /\ g["project"] \in Nat /\ g["preferences"] \in Nat /\ g["conversation"] \in Nat
      /\ g["file"] \in Nat /\ g["graph"] \in Nat /\ g["diagnostics"] \in Nat /\ g["rag"] \in Nat
  BY DEF Kinds
<1>3. /\ f["system"] <= g["system"] /\ f["project"] <= g["project"] /\ f["preferences"] <= g["preferences"]
      /\ f["conversation"] <= g["conversation"] /\ f["file"] <= g["file"] /\ f["graph"] <= g["graph"]
      /\ f["diagnostics"] <= g["diagnostics"] /\ f["rag"] <= g["rag"]
  BY DEF Kinds
<1> QED BY <1>1, <1>2, <1>3 DEF OverKinds

\* The positions of K whose part is of kind k.
OfKind(s, K, k) == {i \in K : s[i].kind = k}

\* The size of every kind, and of them all.
Loads(s, K) == [k \in Kinds |-> Tokens(Picked(s, OfKind(s, K, k)))]

Weight(s, K) == OverKinds(Loads(s, K))

\* The size of every kind is a number, and of them all.
LEMMA LoadsTyped == \A s \in Seq(Gathered) : \A K : Loads(s, K) \in [Kinds -> Nat] /\ Weight(s, K) \in Nat
<1> SUFFICES ASSUME NEW s \in Seq(Gathered), NEW K PROVE Loads(s, K) \in [Kinds -> Nat] /\ Weight(s, K) \in Nat
  OBVIOUS
<1>1. \A P : Tokens(Picked(s, P)) \in Nat
  BY GatheredFit, PickedTyped, SumTyped
<1>2. Loads(s, K) \in [Kinds -> Nat]
  BY <1>1 DEF Loads
<1> QED BY <1>2, OverKindsTyped DEF Weight

\* Nothing that is packed weighs nothing.
LEMMA WeightNone == \A s \in Seq(Gathered) : Weight(s, {}) = 0
<1> SUFFICES ASSUME NEW s \in Seq(Gathered) PROVE Weight(s, {}) = 0
  OBVIOUS
<1>1. \A k : OfKind(s, {}, k) = {}
  BY DEF OfKind
<1>2. Picked(s, {}) = <<>>
  BY PickedNowhere
<1>3. \A k \in Kinds : Loads(s, {})[k] = 0
  BY <1>1, <1>2, TokensNone DEF Loads
<1>4. /\ Loads(s, {})["system"] = 0 /\ Loads(s, {})["project"] = 0 /\ Loads(s, {})["preferences"] = 0
      /\ Loads(s, {})["conversation"] = 0 /\ Loads(s, {})["file"] = 0 /\ Loads(s, {})["graph"] = 0
      /\ Loads(s, {})["diagnostics"] = 0 /\ Loads(s, {})["rag"] = 0
  BY <1>3 DEF Kinds
<1> QED BY <1>4 DEF Weight, OverKinds

\* What is packed weighs what it weighs.
LEMMA WeightMore ==
  ASSUME NEW s \in Seq(Gathered), NEW K, NEW i \in 1 .. Len(s), i \notin K
  PROVE  Weight(s, K \union {i}) = Weight(s, K) + s[i].size /\ s[i].size \in Nat
<1> DEFINE M == K \union {i}
           a == s[i].kind
           w == s[i].size
<1>0. s[i] \in Gathered
  OBVIOUS
<1>1. a \in Kinds /\ w \in Nat
  BY <1>0, GatheredFit
<1>2. OfKind(s, M, a) = OfKind(s, K, a) \union {i} /\ i \notin OfKind(s, K, a)
  BY DEF OfKind
<1>3. \A k \in Kinds \ {a} : OfKind(s, M, k) = OfKind(s, K, k)
  BY DEF OfKind
<1>4. Loads(s, M) \in [Kinds -> Nat] /\ Loads(s, K) \in [Kinds -> Nat]
  BY LoadsTyped
<1>5. Loads(s, M)[a] = Loads(s, K)[a] + w
  <2>1. Tokens(Picked(s, OfKind(s, K, a) \union {i})) = Tokens(Picked(s, OfKind(s, K, a))) + w
    BY <1>2, GatheredFit, PickedOneMore
  <2> HIDE DEF w, a, M
  <2> QED BY <1>1, <1>2, <2>1 DEF Loads
<1>6. \A k \in Kinds \ {a} : Loads(s, M)[k] = Loads(s, K)[k]
  <2> HIDE DEF w, a, M
  <2> QED BY <1>3 DEF Loads
<1> HIDE DEF M, a, w
<1>7. OverKinds(Loads(s, M)) = OverKinds(Loads(s, K)) + w
  BY <1>1, <1>4, <1>5, <1>6, OverKindsMore
<1> QED BY <1>1, <1>7 DEF Weight, M, w

-----------------------------------------------------------------------------
(* The walk over the parts.                                                *)

\* The position that is offered at a step: two passes over n parts.
OfferedAt(n, k) == IF k <= n THEN k ELSE k - n

\* The part at i is the best of its kind.
Leads(s, i) == \A j \in 1 .. i - 1 : s[j].kind # s[i].kind

\* A part is passed over, or taken.
PassedOver(s, k, u) ==
    \/ OfferedAt(Len(s), k) \in u.kept
    \/ k <= Len(s) /\ ~ Leads(s, OfferedAt(Len(s), k))
    \/ u.bytes + s[OfferedAt(Len(s), k)].size > softBudget /\ u.bytes > 0

Offered(s, k, u) ==
    IF PassedOver(s, k, u) THEN u
    ELSE [bytes |-> u.bytes + s[OfferedAt(Len(s), k)].size, kept |-> u.kept \union {OfferedAt(Len(s), k)}]

Packing(n) == [bytes : Nat, kept : SUBSET (1 .. n)]

Frames(s) == {i \in DOMAIN s : s[i] = Frame}

\* The position that is offered is one of the parts'.
LEMMA TurnIs ==
  ASSUME NEW n \in Nat, NEW k \in 1 .. 2 * n
  PROVE  OfferedAt(n, k) \in 1 .. n /\ (k <= n => OfferedAt(n, k) = k) /\ k - 1 \in 0 .. 2 * n
BY DEF OfferedAt

\* An offer leaves a packing.
LEMMA OfferTyped ==
  ASSUME NEW s \in Seq(Gathered), NEW k \in 1 .. 2 * Len(s), NEW u \in Packing(Len(s))
  PROVE  Offered(s, k, u) \in Packing(Len(s))
<1> DEFINE n == Len(s)
           i == OfferedAt(n, k)
<1>0. n \in Nat
  OBVIOUS
<1>1. i \in 1 .. n
  BY <1>0, TurnIs
<1> HIDE DEF i
<1>2. s[i].size \in Nat
  BY <1>0, <1>1, GatheredFit DEF Sized
<1>3. u.bytes + s[i].size \in Nat /\ u.kept \union {i} \in SUBSET (1 .. n)
  BY <1>1, <1>2 DEF Packing
<1>4. [bytes |-> u.bytes + s[i].size, kept |-> u.kept \union {i}] \in Packing(n)
  BY <1>3 DEF Packing
<1> QED BY <1>4 DEF Offered, i

\* What the walk is after each step.
Walks(s, f) ==
    /\ f[0] = [bytes |-> 0, kept |-> Frames(s)]
    /\ \A k \in 1 .. 2 * Len(s) : f[k] = Offered(s, k, f[k - 1])
    /\ \A k \in 0 .. 2 * Len(s) : f[k] \in Packing(Len(s))

\* Walk offers the parts one after the other, twice.
LEMMA WalkGoes ==
  ASSUME NEW s \in Seq(Gathered)
  PROVE  \E f : Walks(s, f) /\ Walk(s) = f[2 * Len(s)].kept
<1> DEFINE n == Len(s)
           start == [bytes |-> 0, kept |-> Frames(s)]
           Is(f) == f = [k \in 0 .. 2 * n |-> IF k = 0 THEN start ELSE Offered(s, k, f[k - 1])]
           walk == CHOOSE f : Is(f)
           V == [k \in 0 .. 2 * n |-> Packing(n)]
           step == [k \in 1 .. 2 * n |-> [u \in Packing(n) |-> Offered(s, k, u)]]
<1>0. n \in Nat /\ 2 * n \in Nat /\ 0 \in 0 .. 2 * n /\ DOMAIN s = 1 .. n
  OBVIOUS
<1>m. \A k \in 1 .. 2 * n : k \in 0 .. 2 * n /\ k - 1 \in 0 .. 2 * n /\ k # 0
  BY <1>0
<1>s. start \in Packing(n)
  BY <1>0 DEF Frames, Packing
<1>1. \A k \in 0 .. 2 * n : V[k] = Packing(n)
  OBVIOUS
<1>2. \A k \in 1 .. 2 * n : \A u \in Packing(n) : step[k][u] = Offered(s, k, u)
  OBVIOUS
<1>t. \A k \in 1 .. 2 * n : \A u \in Packing(n) : Offered(s, k, u) \in Packing(n)
  BY OfferTyped
<1> HIDE DEF V, step, start, n
<1>3. Steps(V, start, 2 * n, step)
  <2>1. ASSUME NEW k \in 1 .. 2 * n, NEW u \in V[k - 1] PROVE step[k][u] \in V[k]
    BY <1>1, <1>2, <1>m, <1>t
  <2>2. start \in V[0]
    BY <1>0, <1>1, <1>s
  <2>3. \A k \in 1 .. 2 * n : k - 1 \in 0 .. 2 * n
    BY <1>m
  <2> QED BY <1>0, <2>1, <2>2, <2>3 DEF Steps
<1>4. PICK f : /\ f = [k \in 0 .. 2 * n |-> f[k]] /\ f[0] = start
               /\ \A k \in 1 .. 2 * n : f[k] = step[k][f[k - 1]]
               /\ \A k \in 0 .. 2 * n : f[k] \in V[k]
  BY <1>3, StepsTaken
<1>5. \A k \in 0 .. 2 * n : f[k] \in Packing(n)
  BY <1>1, <1>4
<1>6. \A k \in 1 .. 2 * n : f[k] = Offered(s, k, f[k - 1])
  BY <1>2, <1>4, <1>5, <1>m
<1>7. Is(f)
  <2>1. ASSUME NEW k \in 0 .. 2 * n PROVE f[k] = IF k = 0 THEN start ELSE Offered(s, k, f[k - 1])
    <3>1. k = 0 \/ k \in 1 .. 2 * n
      BY <1>0
    <3> QED BY <1>4, <1>6, <1>m, <3>1
  <2>2. f = [k \in 0 .. 2 * n |-> IF k = 0 THEN start ELSE Offered(s, k, f[k - 1])]
    BY <1>4, <2>1
  <2> QED BY <2>2
<1>8. Is(walk)
  <2> HIDE DEF Is
  <2> QED BY <1>7
<1>9. Walk(s) = walk[2 * n].kept
  BY Zenon DEF Walk, Offered, PassedOver, Leads, OfferedAt, Frames, start, n
<1>10. \A k \in 0 .. 2 * n : walk[k] = IF k = 0 THEN start ELSE Offered(s, k, walk[k - 1])
  <2> HIDE DEF walk
  <2> QED BY <1>8
<1> HIDE DEF walk
<1>11. walk[0] = start /\ \A k \in 1 .. 2 * n : walk[k] = Offered(s, k, walk[k - 1])
  BY <1>0, <1>m, <1>10
<1>12. \A k \in 0 .. 2 * n : walk[k] \in Packing(n)
  <2> DEFINE S == {k \in 0 .. 2 * n : walk[k] \in Packing(n)}
  <2>1. 0 \in S
    BY <1>0, <1>11, <1>s
  <2>2. ASSUME NEW k \in 1 .. 2 * n, k - 1 \in S PROVE k \in S
    BY <1>11, <1>m, <1>t, <2>2
  <2>3. 0 .. 2 * n \subseteq S
    <3> HIDE DEF S
    <3> QED BY <1>0, <2>1, <2>2, NatUpTo
  <2> QED BY <2>3
<1>13. Walks(s, walk)
  BY <1>11, <1>12 DEF Walks, start, n
<1> QED BY <1>9, <1>13 DEF n

\* The frame is at a and nowhere else.
FrameAt(s, a) == a \in 1 .. Len(s) /\ s[a] = Frame /\ \A i \in 1 .. Len(s) : s[i] = Frame => i = a

\* The frame is in, the count is right, and the budget is kept or spent on one part.
Counts(s, a, u) ==
    /\ a \in u.kept /\ Weight(s, u.kept) = u.bytes + 4
    /\ u.bytes <= softBudget \/ \E i \in u.kept \ {a} : s[i].size = u.bytes

\* The count is right at first: the frame is in, and not charged.
LEMMA CountsFirst ==
  ASSUME NEW s \in Seq(Gathered), NEW a, FrameAt(s, a), softBudget \in Nat
  PROVE  Frames(s) = {a} /\ Counts(s, a, [bytes |-> 0, kept |-> Frames(s)])
<1>1. Frames(s) = {a}
  <2>1. DOMAIN s = 1 .. Len(s)
    OBVIOUS
  <2> QED BY <2>1 DEF Frames, FrameAt
<1>2. Weight(s, {} \union {a}) = Weight(s, {}) + s[a].size
  BY WeightMore DEF FrameAt
<1>3. s[a].size = 4
  <2>1. Frame.size = 4
    BY DEF Frame
  <2> QED BY <2>1 DEF FrameAt
<1>4. Weight(s, {a}) = 0 + 4
  BY <1>2, <1>3, WeightNone
<1> QED BY <1>1, <1>4 DEF Counts

\* An offer keeps the count right.
LEMMA CountsOn ==
  ASSUME NEW s \in Seq(Gathered), NEW a, softBudget \in Nat, softBudget > 0,
         NEW k \in 1 .. 2 * Len(s), NEW u \in Packing(Len(s)), Counts(s, a, u)
  PROVE  Counts(s, a, Offered(s, k, u))
<1>1. CASE PassedOver(s, k, u)
  BY <1>1 DEF Offered
<1>2. CASE ~ PassedOver(s, k, u)
  <2> DEFINE i == OfferedAt(Len(s), k)
             w == s[i].size
             b == u.bytes
  <2>0. Len(s) \in Nat
    OBVIOUS
  <2>1. i \in 1 .. Len(s)
    BY <2>0, TurnIs
  <2>2. i \notin u.kept /\ ~ (b + w > softBudget /\ b > 0)
    BY <1>2 DEF PassedOver
  <2>3. Offered(s, k, u) = [bytes |-> b + w, kept |-> u.kept \union {i}]
    BY <1>2 DEF Offered
  <2> HIDE DEF i
  <2>4. Weight(s, u.kept \union {i}) = Weight(s, u.kept) + w /\ w \in Nat
    BY <2>1, <2>2, WeightMore
  <2>5. b \in Nat /\ Weight(s, u.kept) = b + 4
    BY DEF Counts, Packing
  <2> HIDE DEF w, b
  <2>6. Weight(s, u.kept \union {i}) = (b + w) + 4
    BY <2>4, <2>5
  <2>7. b + w <= softBudget \/ \E j \in (u.kept \union {i}) \ {a} : s[j].size = b + w
    <3>1. CASE b + w <= softBudget
      BY <3>1
    <3>2. CASE b = 0
      <4>1. i # a /\ s[i].size = b + w
        BY <2>2, <2>4, <3>2 DEF Counts, w
      <4> QED BY <4>1
    <3> QED BY <2>2, <2>4, <2>5, <3>1, <3>2
  <2>8. a \in u.kept \union {i}
    BY DEF Counts
  <2> QED BY <2>3, <2>6, <2>7, <2>8 DEF Counts
<1> QED BY <1>1, <1>2

\* The count is right at the end.
LEMMA WalkCounts ==
  ASSUME NEW s \in Seq(Gathered), NEW a, FrameAt(s, a), softBudget \in Nat, softBudget > 0, NEW f, Walks(s, f)
  PROVE  \A k \in 0 .. 2 * Len(s) : Counts(s, a, f[k])
<1> DEFINE n == Len(s)
<1>0. n \in Nat /\ 2 * n \in Nat
  OBVIOUS
<1> HIDE DEF n
<1>1. /\ f[0] = [bytes |-> 0, kept |-> Frames(s)]
      /\ \A k \in 1 .. 2 * n : f[k] = Offered(s, k, f[k - 1])
      /\ \A k \in 0 .. 2 * n : f[k] \in Packing(n)
  BY DEF Walks, n
<1> DEFINE S == {k \in 0 .. 2 * n : Counts(s, a, f[k])}
<1>2. 0 \in S
  BY <1>0, <1>1, CountsFirst
<1>3. ASSUME NEW k \in 1 .. 2 * n, k - 1 \in S PROVE k \in S
  <2>1. k - 1 \in 0 .. 2 * n /\ k \in 0 .. 2 * n
    BY <1>0
  <2>2. Counts(s, a, Offered(s, k, f[k - 1]))
    BY <1>1, <1>3, <2>1, CountsOn DEF n
  <2> QED BY <1>1, <2>1, <2>2
<1>4. 0 .. 2 * n \subseteq S
  <2> HIDE DEF S
  <2> QED BY <1>0, <1>2, <1>3, NatUpTo
<1> QED BY <1>4 DEF n

\* What is taken stays.
LEMMA WalkKeeps ==
  ASSUME NEW s \in Seq(Gathered), NEW f, Walks(s, f), NEW j \in 0 .. 2 * Len(s)
  PROVE  f[j].kept \subseteq f[2 * Len(s)].kept
<1> DEFINE n == Len(s)
<1>0. n \in Nat /\ 2 * n \in Nat /\ j \in 0 .. 2 * n /\ j \in Nat
  OBVIOUS
<1> HIDE DEF n
<1>1. \A k \in 1 .. 2 * n : f[k] = Offered(s, k, f[k - 1])
  BY DEF Walks, n
<1> DEFINE S == {k \in 0 .. 2 * n : k >= j => f[j].kept \subseteq f[k].kept}
<1>2. 0 \in S
  <2>1. 0 >= j => 0 = j
    BY <1>0
  <2> QED BY <1>0, <2>1
<1>3. ASSUME NEW k \in 1 .. 2 * n, k - 1 \in S PROVE k \in S
  <2>1. k \in 0 .. 2 * n /\ (k >= j => k = j \/ k - 1 >= j)
    BY <1>0
  <2>2. f[k - 1].kept \subseteq f[k].kept
    <3>1. f[k] = Offered(s, k, f[k - 1])
      BY <1>1
    <3> QED BY <3>1 DEF Offered
  <2> QED BY <1>3, <2>1, <2>2
<1>4. 0 .. 2 * n \subseteq S
  <2> HIDE DEF S
  <2> QED BY <1>0, <1>2, <1>3, NatUpTo
<1>5. 2 * n \in 0 .. 2 * n /\ 2 * n >= j
  BY <1>0
<1> QED BY <1>4, <1>5 DEF n

\* The first pass takes the best of its kind only.
LEMMA FirstPass ==
  ASSUME NEW s \in Seq(Gathered), NEW a, FrameAt(s, a), softBudget \in Nat, NEW f, Walks(s, f)
  PROVE  \A j \in 0 .. Len(s) : \A i \in f[j].kept : i \in 1 .. Len(s) /\ (i = a \/ Leads(s, i))
<1> DEFINE n == Len(s)
<1>0. n \in Nat
  OBVIOUS
<1>s. Frames(s) = {a} /\ a \in 1 .. n
  BY CountsFirst DEF FrameAt
<1> HIDE DEF n
<1>1. /\ f[0] = [bytes |-> 0, kept |-> Frames(s)]
      /\ \A k \in 1 .. 2 * n : f[k] = Offered(s, k, f[k - 1])
  BY DEF Walks, n
<1> DEFINE S == {j \in 0 .. n : \A i \in f[j].kept : i \in 1 .. n /\ (i = a \/ Leads(s, i))}
<1>2. 0 \in S
  BY <1>0, <1>1, <1>s
<1>3. ASSUME NEW j \in 1 .. n, j - 1 \in S PROVE j \in S
  <2>1. j \in 0 .. n /\ j \in 1 .. 2 * n /\ j <= n
    BY <1>0
  <2>2. OfferedAt(n, j) = j
    BY <2>1 DEF OfferedAt
  <2>3. f[j] = Offered(s, j, f[j - 1])
    BY <1>1, <2>1
  <2>4. CASE PassedOver(s, j, f[j - 1])
    BY <1>3, <2>1, <2>3, <2>4 DEF Offered
  <2>5. CASE ~ PassedOver(s, j, f[j - 1])
    <3>1. Leads(s, j) /\ f[j].kept = f[j - 1].kept \union {j}
      BY <2>1, <2>2, <2>3, <2>5 DEF Offered, PassedOver, n
    <3> QED BY <1>3, <2>1, <3>1
  <2> QED BY <2>4, <2>5
<1>4. 0 .. n \subseteq S
  <2> HIDE DEF S
  <2> QED BY <1>0, <1>2, <1>3, NatUpTo
<1> QED BY <1>4 DEF n

\* The best part of every kind among those at the positions in K, and its size.
BestSizes(s, K) ==
    [k \in Kinds |-> IF k = "system" \/ Picked(s, OfKind(s, K, k)) = <<>> THEN 0
                     ELSE Picked(s, OfKind(s, K, k))[1].size]

\* Of every kind but the frame's, the first pass takes the best part or none.
LEMMA HeadLoad ==
  ASSUME NEW s \in Seq(Gathered), NEW a, FrameAt(s, a), softBudget \in Nat, NEW f, Walks(s, f),
         NEW j \in 0 .. Len(s), NEW k \in Kinds \ {"system"}
  PROVE  Loads(s, f[j].kept)[k] <= BestSizes(s, f[2 * Len(s)].kept)[k]
<1> DEFINE n == Len(s)
           L == f[j].kept
           K == f[2 * n].kept
<1>0. n \in Nat /\ j \in 0 .. 2 * n
  OBVIOUS
<1>1. \A i \in L : i \in 1 .. n /\ (i = a \/ Leads(s, i))
  BY FirstPass
<1>2. L \subseteq K
  BY <1>0, WalkKeeps
<1>3. s[a].kind = "system"
  <2>1. Frame.kind = "system"
    BY DEF Frame
  <2> QED BY <2>1 DEF FrameAt
<1>h. BestSizes(s, K)[k] \in Nat
  <2>1. CASE Picked(s, OfKind(s, K, k)) = <<>>
    <3> HIDE DEF K
    <3> QED BY <2>1 DEF BestSizes
  <2>2. CASE Picked(s, OfKind(s, K, k)) # <<>>
    <3> DEFINE q == Picked(s, OfKind(s, K, k))
    <3>1. q \in Seq(Gathered)
      BY PickedTyped
    <3> HIDE DEF K
    <3>2. BestSizes(s, K)[k] = q[1].size
      BY <2>2 DEF BestSizes
    <3> HIDE DEF q
    <3>3. q # <<>>
      BY <2>2 DEF q
    <3>4. q[1] \in Gathered
      BY <3>1, <3>3
    <3> QED BY <3>2, <3>4, GatheredFit DEF Sized
  <2> QED BY <2>1, <2>2
<1> HIDE DEF L, K
<1>4. Loads(s, L)[k] = Tokens(Picked(s, OfKind(s, L, k)))
  BY DEF Loads
<1>5. CASE OfKind(s, L, k) = {}
  <2>1. Picked(s, OfKind(s, L, k)) = <<>>
    BY <1>5, PickedNowhere
  <2>2. Loads(s, L)[k] = 0
    BY <1>4, <2>1, TokensNone
  <2> QED BY <1>h, <2>2 DEF L, K
<1>6. CASE OfKind(s, L, k) # {}
  <2>1. PICK h \in L : s[h].kind = k
    BY <1>6 DEF OfKind
  <2>2. h \in 1 .. n /\ Leads(s, h)
    BY <1>1, <1>3, <2>1
  <2>3. \A i \in L : s[i].kind = k => i = h
    <3> SUFFICES ASSUME NEW i \in L, s[i].kind = k PROVE i = h
      OBVIOUS
    <3>1. i \in 1 .. n /\ Leads(s, i)
      BY <1>1, <1>3
    <3>2. ~ (i \in 1 .. h - 1) /\ ~ (h \in 1 .. i - 1)
      BY <2>1, <2>2, <3>1 DEF Leads
    <3> QED BY <1>0, <2>2, <3>1, <3>2
  <2>4. h \in OfKind(s, L, k) /\ h \in OfKind(s, K, k) /\ \A i \in 1 .. n : i \in OfKind(s, L, k) => i = h
    BY <1>2, <2>1, <2>3 DEF OfKind
  <2>5. \A i \in 1 .. h - 1 : i \notin OfKind(s, K, k)
    BY <2>1, <2>2 DEF Leads, OfKind
  <2>6. Picked(s, OfKind(s, L, k)) = <<s[h]>>
    BY <2>2, <2>4, PickedAlone
  <2>7. Picked(s, OfKind(s, K, k)) # <<>> /\ Picked(s, OfKind(s, K, k))[1] = s[h]
    BY <2>2, <2>4, <2>5, PickedFirst
  <2>8. BestSizes(s, K)[k] = s[h].size
    BY <2>7 DEF BestSizes
  <2>9. Tokens(<<s[h]>>) = s[h].size /\ s[h].size \in Nat
    <3> DEFINE x == s[h]
    <3>1. x \in Gathered /\ <<>> \in Seq(Gathered)
      BY <2>2
    <3> HIDE DEF x
    <3>2. Append(<<>>, x) = <<x>>
      OBVIOUS
    <3>3. Tokens(Append(<<>>, x)) = Tokens(<<>>) + x.size /\ x.size \in Nat
      BY <3>1, GatheredFit, TokensMore
    <3>4. Tokens(<<x>>) = x.size /\ x.size \in Nat
      BY <3>2, <3>3, TokensNone
    <3> QED BY <3>4 DEF x
  <2>10. Loads(s, L)[k] = BestSizes(s, K)[k]
    BY <1>4, <2>6, <2>8, <2>9
  <2> QED BY <1>h, <2>10 DEF L, K
<1> QED BY <1>5, <1>6

\* The frame is all there is of its kind.
LEMMA FrameAlone ==
  ASSUME NEW s \in Seq(Gathered), NEW a, FrameAt(s, a), NEW K, a \in K, K \subseteq 1 .. Len(s)
  PROVE  Picked(s, OfKind(s, K, "system")) = <<Frame>> /\ Loads(s, K)["system"] = 4
<1>1. \A i \in 1 .. Len(s) : s[i].kind = "system" => i = a
  BY GatheredFit DEF FrameAt
<1>2. Frame.kind = "system" /\ Frame.size = 4
  BY DEF Frame
<1>3. a \in OfKind(s, K, "system") /\ \A i \in 1 .. Len(s) : i \in OfKind(s, K, "system") => i = a
  BY <1>1, <1>2 DEF OfKind, FrameAt
<1>4. Picked(s, OfKind(s, K, "system")) = <<s[a]>>
  BY <1>3, PickedAlone DEF FrameAt
<1>5. Picked(s, OfKind(s, K, "system")) = <<Frame>>
  BY <1>4 DEF FrameAt
<1>6. Tokens(<<Frame>>) = 4
  <2> DEFINE x == Frame
  <2>1. x \in Gathered /\ <<>> \in Seq(Gathered)
    BY DEF Gathered
  <2> HIDE DEF x
  <2>2. Append(<<>>, x) = <<x>>
    OBVIOUS
  <2>3. Tokens(Append(<<>>, x)) = Tokens(<<>>) + x.size /\ x.size \in Nat
    BY <2>1, GatheredFit, TokensMore
  <2>4. Tokens(<<x>>) = x.size
    BY <2>2, <2>3, TokensNone
  <2> QED BY <1>2, <2>4 DEF x
<1>7. Loads(s, K)["system"] = Tokens(Picked(s, OfKind(s, K, "system")))
  BY DEF Loads, Kinds
<1> QED BY <1>5, <1>6, <1>7

\* The size of the best parts is a number.
LEMMA HeadsTyped ==
  ASSUME NEW s \in Seq(Gathered), NEW K
  PROVE  BestSizes(s, K) \in [Kinds -> Nat]
<1>1. ASSUME NEW k \in Kinds, Picked(s, OfKind(s, K, k)) # <<>> PROVE Picked(s, OfKind(s, K, k))[1].size \in Nat
  <2> DEFINE q == Picked(s, OfKind(s, K, k))
  <2>1. q \in Seq(Gathered) /\ q # <<>>
    BY <1>1, PickedTyped
  <2> HIDE DEF q
  <2>2. q[1] \in Gathered
    BY <2>1
  <2>3. q[1].size \in Nat
    BY <2>2, GatheredFit DEF Sized
  <2> QED BY <2>3 DEF q
<1> QED BY <1>1 DEF BestSizes

\* The kinds but the frame's, beside the frame.
LEMMA OverKindsBeside ==
  ASSUME NEW g \in [Kinds -> Nat], NEW h \in [Kinds -> Nat],
         g["system"] = 4, \A k \in Kinds \ {"system"} : g[k] <= h[k]
  PROVE  OverKinds(g) <= OverKinds(h) + 4
<1>1. /\ h["system"] \in Nat /\ h["project"] \in Nat /\ h["preferences"] \in Nat /\ h["conversation"] \in Nat
      /\ h["file"] \in Nat /\ h["graph"] \in Nat /\ h["diagnostics"] \in Nat /\ h["rag"] \in Nat
  BY DEF Kinds
<1>2. /\ g["project"] \in Nat /\ g["preferences"] \in Nat /\ g["conversation"] \in Nat
      /\ g["file"] \in Nat /\ g["graph"] \in Nat /\ g["diagnostics"] \in Nat /\ g["rag"] \in Nat
  BY DEF Kinds
<1>3. /\ g["project"] <= h["project"] /\ g["preferences"] <= h["preferences"]
      /\ g["conversation"] <= h["conversation"] /\ g["file"] <= h["file"] /\ g["graph"] <= h["graph"]
      /\ g["diagnostics"] <= h["diagnostics"] /\ g["rag"] <= h["rag"]
  BY DEF Kinds
<1> QED BY <1>1, <1>2, <1>3 DEF OverKinds

\* A kind that is left out did not fit beside the best parts of the others.
LEMMA LeftOut ==
  ASSUME NEW s \in Seq(Gathered), NEW a, FrameAt(s, a), softBudget \in Nat, softBudget > 0, NEW f, Walks(s, f),
         NEW i \in 1 .. Len(s), Leads(s, i), i \notin f[2 * Len(s)].kept
  PROVE  OverKinds(BestSizes(s, f[2 * Len(s)].kept)) + s[i].size > softBudget
<1> DEFINE n == Len(s)
           K == f[2 * n].kept
           u == f[i - 1]
           w == s[i].size
<1>0. /\ n \in Nat /\ i \in 1 .. n /\ i <= n /\ i \in 1 .. 2 * n /\ i \in 0 .. 2 * n /\ i - 1 \in 0 .. n
      /\ i - 1 \in 0 .. 2 * n /\ i \in 0 .. n
  OBVIOUS
<1>1. i \notin u.kept /\ i \notin f[i].kept
  <2>1. u.kept \subseteq K /\ f[i].kept \subseteq K
    BY <1>0, WalkKeeps
  <2> QED BY <2>1
<1>2. f[i] = Offered(s, i, u)
  BY <1>0 DEF Walks
<1>3. OfferedAt(n, i) = i
  BY <1>0 DEF OfferedAt
<1>4. PassedOver(s, i, u)
  <2> SUFFICES ASSUME ~ PassedOver(s, i, u) PROVE FALSE
    OBVIOUS
  <2>1. f[i].kept = u.kept \union {i}
    <3> HIDE DEF u
    <3> QED BY <1>2, <1>3 DEF Offered
  <2> HIDE DEF u
  <2> QED BY <1>1, <2>1
<1>5. u.bytes + w > softBudget
  <2> HIDE DEF u
  <2> QED BY <1>1, <1>3, <1>4 DEF PassedOver
<1>6. Counts(s, a, u) /\ u \in Packing(n)
  BY <1>0, WalkCounts DEF Walks
<1>7. \A k \in Kinds \ {"system"} : Loads(s, u.kept)[k] <= BestSizes(s, K)[k]
  BY <1>0, HeadLoad
<1>8. Loads(s, u.kept)["system"] = 4
  <2>1. a \in u.kept /\ u.kept \subseteq 1 .. n
    BY <1>6 DEF Counts, Packing
  <2> QED BY <2>1, FrameAlone
<1>9. w \in Nat
  <2>1. s[i] \in Gathered
    OBVIOUS
  <2> QED BY <2>1, GatheredFit DEF Sized
<1>10. Weight(s, u.kept) = u.bytes + 4 /\ u.bytes \in Nat
  BY <1>6 DEF Counts, Packing
<1> HIDE DEF K, u, w
<1> DEFINE G == Loads(s, u.kept)
           H == BestSizes(s, K)
<1>11. G \in [Kinds -> Nat] /\ H \in [Kinds -> Nat]
  BY LoadsTyped, HeadsTyped
<1>13. \A k \in Kinds \ {"system"} : G[k] <= H[k]
  BY <1>7
<1>14. G["system"] = 4
  BY <1>8
<1>15. OverKinds(G) = u.bytes + 4
  BY <1>10 DEF Weight
<1> HIDE DEF G, H
<1>19. OverKinds(G) <= OverKinds(H) + 4
  BY <1>11, <1>13, <1>14, OverKindsBeside
<1>20. OverKinds(H) \in Nat
  BY <1>11, OverKindsTyped
<1> DEFINE p == OverKinds(H)
           b == u.bytes
<1>21. p \in Nat /\ b \in Nat /\ b + 4 <= p + 4 /\ b + w > softBudget
  BY <1>5, <1>10, <1>15, <1>19, <1>20
<1> HIDE DEF p, b
<1>22. p + w > softBudget
  BY <1>9, <1>21
<1> QED BY <1>22 DEF p, H, K, w

\* The frame is kept, and kept once.
LEMMA FrameKept ==
  ASSUME NEW s \in Seq(Gathered), Once(Frame, s), Within(Frame, s)
  PROVE  Deduped(s) \in Seq(Gathered) /\ \E a : FrameAt(Deduped(s), a)
<1> DEFINE P == {i \in DOMAIN s : DedupKey(s[i]) = <<>> \/ \A j \in 1 .. i - 1 : DedupKey(s[j]) # DedupKey(s[i])}
           all == Picked(s, P)
<1>1. Deduped(s) = all
  BY DEF Deduped
<1>2. all \in Seq(Gathered)
  BY PickedTyped
<1>3. Once(Frame, all)
  BY PickedOnce
<1>4. PICK i \in 1 .. Len(s) : s[i] = Frame
  BY DEF Within
<1>5. DedupKey(Frame) = <<>>
  BY DEF DedupKey, Frame
<1>6. i \in P
  <2>1. DOMAIN s = 1 .. Len(s)
    OBVIOUS
  <2> QED BY <1>4, <1>5, <2>1
<1> HIDE DEF P
<1>7. Within(Frame, all)
  BY <1>4, <1>6, PickedWithin
<1> HIDE DEF all
<1>8. \E a : FrameAt(all, a)
  <2>1. PICK a \in 1 .. Len(all) : all[a] = Frame
    BY <1>7 DEF Within
  <2>2. FrameAt(all, a)
    BY <1>3, <2>1 DEF FrameAt, Once
  <2> QED BY <2>2
<1> QED BY <1>1, <1>2, <1>8

\* The package is what the walk keeps, by kind.
LEMMA CompressIs ==
  ASSUME NEW s, NEW K, K = Walk(Deduped(s))
  PROVE  Compress(s) = [k \in Kinds |-> Picked(Deduped(s), OfKind(Deduped(s), K, k))]
BY DEF Compress, OfKind

PackageIsBuilt ==
    /\ ranked \in Seq(Gathered) /\ Once(Frame, ranked)
    /\ softBudget \in Nat /\ softBudget > 0
    /\ fitStage = "built" => Within(Frame, ranked) /\ pkg = Compress(ranked)

\* KindsAreHeard: the frame is in, the budget is kept, and no kind is starved.
LEMMA KindsHeard == PackageIsBuilt => KindsAreHeard
<1> SUFFICES ASSUME PackageIsBuilt, fitStage = "built" PROVE KindsAreHeard
  BY DEF KindsAreHeard
<1> DEFINE all == Deduped(ranked)
           n == Len(all)
<1>1. /\ ranked \in Seq(Gathered) /\ Once(Frame, ranked) /\ softBudget \in Nat /\ softBudget > 0
      /\ Within(Frame, ranked) /\ pkg = Compress(ranked)
  BY DEF PackageIsBuilt
<1>2. all \in Seq(Gathered) /\ \E a : FrameAt(all, a)
  BY <1>1, FrameKept
<1>3. PICK a : FrameAt(all, a)
  BY <1>2
<1> HIDE DEF all
<1>4. PICK f : Walks(all, f) /\ Walk(all) = f[2 * n].kept
  BY <1>2, WalkGoes
<1> DEFINE K == f[2 * n].kept
<1>5. pkg = [k \in Kinds |-> Picked(all, OfKind(all, K, k))]
  <2>1. K = Walk(Deduped(ranked))
    BY <1>4 DEF all
  <2> HIDE DEF K
  <2> QED BY <1>1, <2>1, CompressIs DEF all
<1>0. n \in Nat /\ 2 * n \in 0 .. 2 * n /\ DOMAIN all = 1 .. n
  BY <1>2
<1>6. Counts(all, a, f[2 * n]) /\ f[2 * n] \in Packing(n)
  BY <1>0, <1>1, <1>2, <1>3, <1>4, WalkCounts DEF Walks
<1>7. a \in K /\ K \subseteq 1 .. n
  BY <1>6 DEF Counts, Packing
<1>8. pkg["system"] = <<Frame>>
  <2>1. pkg["system"] = Picked(all, OfKind(all, K, "system"))
    <3> HIDE DEF K
    <3> QED BY <1>5 DEF Kinds
  <2>2. Picked(all, OfKind(all, K, "system")) = <<Frame>>
    BY <1>2, <1>3, <1>7, FrameAlone
  <2> QED BY <2>1, <2>2
<1> DEFINE b == f[2 * n].bytes
           packed == OverKinds([k \in Kinds |-> Tokens(pkg[k])]) - Frame.size
           heads == OverKinds([k \in Kinds |-> IF k = "system" \/ pkg[k] = <<>> THEN 0 ELSE pkg[k][1].size])
<1>9. packed = b
  <2>1. [k \in Kinds |-> Tokens(pkg[k])] = Loads(all, K)
    <3> HIDE DEF K
    <3> QED BY <1>5 DEF Loads
  <2>2. OverKinds([k \in Kinds |-> Tokens(pkg[k])]) = b + 4
    BY <1>6, <2>1 DEF Counts, Weight
  <2>3. Frame.size = 4 /\ b \in Nat
    BY <1>6 DEF Frame, Packing
  <2> HIDE DEF b
  <2> QED BY <2>2, <2>3
<1>10. heads = OverKinds(BestSizes(all, K))
  <2>1. [k \in Kinds |-> IF k = "system" \/ pkg[k] = <<>> THEN 0 ELSE pkg[k][1].size] = BestSizes(all, K)
    <3> HIDE DEF K
    <3> QED BY <1>5 DEF BestSizes
  <2> QED BY <2>1
<1>11. b <= softBudget \/ \E k \in Kinds \ {"system"} : \E i \in DOMAIN pkg[k] : pkg[k][i].size = b
  <2> SUFFICES ASSUME NEW j \in K \ {a}, all[j].size = b
               PROVE  \E k \in Kinds \ {"system"} : \E i \in DOMAIN pkg[k] : pkg[k][i].size = b
    BY <1>6 DEF Counts
  <2> DEFINE k == all[j].kind
             q == Picked(all, OfKind(all, K, k))
  <2>1. j \in 1 .. n
    BY <1>7
  <2>2. all[j] \in Gathered /\ all[j] # Frame
    BY <1>2, <1>3, <2>1 DEF FrameAt
  <2>3. k \in Kinds \ {"system"}
    BY <2>2, GatheredFit
  <2>4. j \in OfKind(all, K, k)
    BY DEF OfKind
  <2>5. Within(all[j], q)
    BY <1>2, <2>1, <2>4, PickedWithin
  <2>6. q \in Seq(Gathered)
    BY <1>2, PickedTyped
  <2> HIDE DEF K, k
  <2>7. pkg[k] = q
    BY <1>5, <2>3
  <2> HIDE DEF q
  <2>8. PICK i \in 1 .. Len(q) : q[i] = all[j]
    BY <2>5 DEF Within
  <2>9. i \in DOMAIN pkg[k] /\ pkg[k][i].size = b
    BY <2>6, <2>7, <2>8
  <2> QED BY <2>3, <2>9
<1>12. ASSUME NEW i \in DOMAIN all, pkg[all[i].kind] = <<>>, \A j \in 1 .. i - 1 : all[j].kind # all[i].kind
       PROVE  OverKinds(BestSizes(all, K)) + all[i].size > softBudget
  <2> DEFINE k == all[i].kind
             q == Picked(all, OfKind(all, K, k))
  <2>1. i \in 1 .. n /\ Leads(all, i)
    BY <1>0, <1>12 DEF Leads
  <2>2. all[i] \in Gathered
    BY <1>2, <2>1
  <2>3. k \in Kinds
    BY <2>2, GatheredFit
  <2>4. i \notin K
    <3> SUFFICES ASSUME i \in K PROVE FALSE
      OBVIOUS
    <3>1. i \in OfKind(all, K, k)
      BY DEF OfKind
    <3>2. Within(all[i], q)
      BY <1>2, <2>1, <3>1, PickedWithin
    <3>3. q = <<>>
      <4> HIDE DEF K, k
      <4>1. pkg[k] = q
        BY <1>5, <2>3
      <4> QED BY <1>12, <4>1 DEF k
    <3> HIDE DEF q
    <3>4. Len(q) = 0
      BY <3>3
    <3> QED BY <3>2, <3>4 DEF Within
  <2> QED BY <1>1, <1>2, <1>3, <1>4, <2>1, <2>4, LeftOut
<1>13. packed <= softBudget \/ \E k \in Kinds \ {"system"} : \E i \in DOMAIN pkg[k] : pkg[k][i].size = packed
  <2> HIDE DEF packed, b
  <2> QED BY <1>9, <1>11
<1>14. ASSUME NEW i \in DOMAIN all, pkg[all[i].kind] = <<>>, \A j \in 1 .. i - 1 : all[j].kind # all[i].kind
       PROVE  heads + all[i].size > softBudget
  <2> HIDE DEF heads, K
  <2> QED BY <1>10, <1>12, <1>14
<1> HIDE DEF packed, heads, K
<1> QED BY <1>8, <1>13, <1>14, Zenon DEF KindsAreHeard, packed, heads, all

\* The invariant of the prompt's making.
FitIsKept ==
    /\ window \in Nat /\ fitStage \in {"gather", "built", "compiled"}
    /\ PackageIsBuilt /\ PromptIsCut
    /\ fitStage # "gather" => pkg = Compress(ranked) /\ budget = Allocate(window)

\* A package is made of what was gathered.
LEMMA CompressTyped ==
  ASSUME NEW s \in Seq(Gathered)
  PROVE  Compress(s) \in Groups(Gathered)
<1>1. Deduped(s) \in Seq(Gathered)
  BY PickedTyped DEF Deduped
<1> DEFINE all == Deduped(s)
           K == Walk(all)
<1>2. Compress(s) = [k \in Kinds |-> Picked(all, {i \in K : all[i].kind = k})]
  BY DEF Compress
<1> HIDE DEF all, K
<1>3. \A k \in Kinds : Picked(all, {i \in K : all[i].kind = k}) \in Seq(Gathered)
  BY <1>1, PickedTyped DEF all
<1> QED BY <1>2, <1>3 DEF Groups

\* The invariant holds when nothing is gathered.
LEMMA FitStarts == FitInit => FitIsKept
<1> SUFFICES ASSUME FitInit PROVE FitIsKept
  OBVIOUS
<1>1. window \in Nat /\ softBudget \in Nat /\ softBudget > 0 /\ fitStage = "gather" /\ ranked = <<>>
  BY FitAssumption DEF FitInit
<1>2. <<>> \in Seq(Gathered) /\ Len(<<>>) = 0
  OBVIOUS
<1>3. Once(Frame, <<>>)
  <2>1. ~ \E i \in 1 .. 0 : TRUE
    OBVIOUS
  <2> QED BY <1>2, <2>1 DEF Once
<1> QED BY <1>1, <1>2, <1>3 DEF FitIsKept, PackageIsBuilt, PromptIsCut

\* Gathering a part, building the package and compiling the prompt keep the invariant.
LEMMA FitGoesOn == FitIsKept /\ [FitNext]_fitVars => FitIsKept'
<1> SUFFICES ASSUME FitIsKept, [FitNext]_fitVars PROVE FitIsKept'
  OBVIOUS
<1>0. /\ window \in Nat /\ fitStage \in {"gather", "built", "compiled"}
      /\ ranked \in Seq(Gathered) /\ Once(Frame, ranked) /\ softBudget \in Nat /\ softBudget > 0
      /\ fitStage = "built" => Within(Frame, ranked) /\ pkg = Compress(ranked)
      /\ fitStage # "gather" => pkg = Compress(ranked) /\ budget = Allocate(window)
  BY DEF FitIsKept, PackageIsBuilt
<1>1. ASSUME NEW p \in PartPool \union {Frame}, GatherPart(p) PROVE FitIsKept'
  <2>1. /\ fitStage = "gather" /\ ranked' = Append(ranked, p) /\ window' = window /\ softBudget' = softBudget
        /\ fitStage' = fitStage /\ (p.kind = "file" \/ p \notin Range(ranked))
    BY <1>1 DEF GatherPart
  <2>2. p \in Gathered
    BY DEF Gathered
  <2>3. Frame = p => ~ Within(Frame, ranked)
    <3> SUFFICES ASSUME Frame = p, Within(Frame, ranked) PROVE FALSE
      OBVIOUS
    <3>1. Frame.kind = "system"
      BY DEF Frame
    <3>2. PICK i \in 1 .. Len(ranked) : ranked[i] = p
      BY DEF Within
    <3>3. DOMAIN ranked = 1 .. Len(ranked)
      BY <1>0
    <3>4. p \in Range(ranked)
      BY <3>2, <3>3 DEF Range
    <3> QED BY <2>1, <3>1, <3>4
  <2>4. Once(Frame, Append(ranked, p)) /\ Append(ranked, p) \in Seq(Gathered)
    BY <1>0, <2>2, <2>3, OnceMore
  <2>5. PackageIsBuilt'
    BY <1>0, <2>1, <2>4 DEF PackageIsBuilt
  <2>6. PromptIsCut' /\ (fitStage # "gather" => pkg = Compress(ranked) /\ budget = Allocate(window))'
    BY <2>1 DEF PromptIsCut
  <2> QED BY <1>0, <2>1, <2>5, <2>6 DEF FitIsKept
<1>2. ASSUME BuildContext PROVE FitIsKept'
  <2>1. /\ Frame \in Range(ranked) /\ pkg' = Compress(ranked) /\ budget' = Allocate(window)
        /\ fitStage' = "built" /\ window' = window /\ softBudget' = softBudget /\ ranked' = ranked
    BY <1>2 DEF BuildContext
  <2>2. Within(Frame, ranked)
    <3>1. DOMAIN ranked = 1 .. Len(ranked)
      BY <1>0
    <3> QED BY <2>1, <3>1 DEF Range, Within
  <2>3. Compress(ranked)' = Compress(ranked)
    <3>1. ranked' = ranked /\ softBudget' = softBudget
      BY <2>1
    <3> QED BY <3>1 DEF Compress, Deduped, Walk, Picked, DedupKey
  <2>4. PackageIsBuilt'
    BY <1>0, <2>1, <2>2, <2>3 DEF PackageIsBuilt
  <2>5. PromptIsCut'
    BY <2>1 DEF PromptIsCut
  <2> QED BY <1>0, <2>1, <2>3, <2>4, <2>5 DEF FitIsKept
<1>3. ASSUME CompilePrompt PROVE FitIsKept'
  <2> DEFINE g == Fitted
             b == budget
             r == ApplyBudget(g, b)
  <2>1. /\ fitStage = "built" /\ fitStage' = "compiled" /\ prompt' = r.groups
        /\ report' = [used |-> r.used, dropped |-> r.dropped]
        /\ window' = window /\ softBudget' = softBudget /\ ranked' = ranked /\ pkg' = pkg /\ budget' = budget
    BY <1>3 DEF CompilePrompt, Fitted
  <2>2. pkg \in Groups(Gathered) /\ budget = Allocate(window)
    BY <1>0, <2>1, CompressTyped
  <2>3. g \in Groups(Gathered)
    BY <2>2, FittedIs
  <2>4. b.window \in Nat
    BY <1>0, <2>2, WindowSplits
  <2>5. Used(g) \in Nat
    <3>1. \A k \in Kinds : g[k] \in Seq(Gathered)
      BY <2>3 DEF Groups
    <3> QED BY <3>1, GatheredFit, BaseTyped
  <2> HIDE DEF g, b
  <2>6. FitResult(g, b, r)
    BY <2>4, <2>5, Applying
  <2> HIDE DEF r
  <2>7. Cutting(g, b, r.groups, r.used, r.dropped) /\ r.used \in Nat
    BY <2>3, <2>6, CuttingIs, ResultUsed, GatheredFit
  <2>8. report'.used = r.used /\ report'.dropped = r.dropped
    BY <2>1
  <2>9. Compress(ranked)' = Compress(ranked)
    BY <2>1 DEF Compress, Deduped, Walk, Picked, DedupKey
  <2>10. Fitted' = g
    BY <2>1 DEF Fitted, g, DedupConversation, Picked
  <2>11. PromptIsCut'
    <3>1. Cutting(g, b, prompt', report'.used, report'.dropped)
      BY <2>1, <2>7, <2>8
    <3>2. Cutting(Fitted', budget', prompt', report'.used, report'.dropped)
      BY <2>1, <2>10, <3>1 DEF b
    <3> QED BY <2>1, <2>2, <2>7, <2>8, <3>2 DEF PromptIsCut
  <2>12. PackageIsBuilt'
    BY <1>0, <2>1, <2>9 DEF PackageIsBuilt
  <2> QED BY <1>0, <2>1, <2>2, <2>9, <2>11, <2>12 DEF FitIsKept
<1>4. CASE UNCHANGED fitVars
  <2>1. /\ window' = window /\ softBudget' = softBudget /\ ranked' = ranked /\ pkg' = pkg /\ budget' = budget
        /\ prompt' = prompt /\ report' = report /\ fitStage' = fitStage
    BY <1>4 DEF fitVars
  <2>2. Compress(ranked)' = Compress(ranked)
    BY <2>1 DEF Compress, Deduped, Walk, Picked, DedupKey
  <2>3. Fitted' = Fitted
    BY <2>1 DEF Fitted, DedupConversation, Picked
  <2>4. PackageIsBuilt'
    BY <1>0, <2>1, <2>2 DEF PackageIsBuilt
  <2>5. PromptIsCut'
    BY <2>1, <2>3 DEF FitIsKept, PromptIsCut
  <2> QED BY <1>0, <2>1, <2>2, <2>4, <2>5 DEF FitIsKept
<1> QED BY <1>1, <1>2, <1>3, <1>4 DEF FitNext

\* FitSound, from the invariant.
LEMMA FitIsSound == FitIsKept => FitSound
BY KindsHeard, CutsTold, CutsNeeded, WindowIsSplitWell DEF FitIsKept, FitSound
=============================================================================
