----------------------------- MODULE DiskProofs -----------------------------
(***************************************************************************)
(* Proofs that what reaches the disk can be read back, for any number of   *)
(* lives, processes, ids and events and any payloads: the session store,   *)
(* the durability log and the memory.                                      *)
(*                                                                         *)
(* StoreInv:  whose claim a torn record is, what a holder of a session     *)
(*            knows of its tasks, and that ids on disk are below counters. *)
(* LogInv:    the pieces lie in the order of publication, what was         *)
(*            acknowledged is whole and covered by an fsync, and what a    *)
(*            subscriber has applied it has marked.                        *)
(* MemoryInv: the listener ends on a closed, empty channel, and a job      *)
(*            comes from an event that was delivered.                      *)
(***************************************************************************)
EXTENDS SessionStore, DurableLog, MemoryListener, FiniteSetTheorems, SequenceTheorems,
        WellFoundedInduction, TLAPS

-----------------------------------------------------------------------------
\* Least elements

LEMMA HasMinimal ==
  ASSUME NEW R, IsWellFoundedOn(R, Nat), NEW T \in SUBSET Nat, T # {}
  PROVE  \E x \in T : \A y \in T : ~(<<y, x>> \in R)
<1>1. T \subseteq Nat
  OBVIOUS
<1> QED BY <1>1, WFMin

LEMMA MinimalIsLeast ==
  ASSUME NEW R, IsWellFoundedOn(R, Nat), \A x, y \in Nat : x < y => <<x, y>> \in R
  PROVE  \A T \in SUBSET Nat : T # {} => \E m \in T : \A n \in T : m <= n
<1> SUFFICES ASSUME NEW T \in SUBSET Nat, T # {} PROVE \E m \in T : \A n \in T : m <= n
  OBVIOUS
<1>1. \E x \in T : \A y \in T : ~(<<y, x>> \in R)
  BY HasMinimal, Zenon
<1>2. PICK x \in T : \A y \in T : ~(<<y, x>> \in R)
  BY <1>1, Zenon
<1>3. \A y \in T : ~(y < x)
  BY <1>2, Zenon
<1>4. \A n \in T : x <= n
  BY <1>3
<1> QED BY <1>4

\* A nonempty set of naturals has a least member.
LEMMA LeastNat == \A T \in SUBSET Nat : T # {} => \E m \in T : \A n \in T : m <= n
<1>1. \A x, y \in Nat : x < y => <<x, y>> \in {ss \in Nat \X Nat : ss[1] < ss[2]}
  OBVIOUS
<1>2. \A x, y \in Nat : x < y => <<x, y>> \in OpToRel(<, Nat)
  BY <1>1, Zenon DEF OpToRel
<1> QED BY <1>2, NatLessThanWellFounded, MinimalIsLeast, ZenonT(60)

-----------------------------------------------------------------------------
\* The session store

SessRec == [by : Proc, tasks : Seq(TaskNumber)]
TaskRec == [by : Proc, sid : SessionId, status : Status]
Doing == {Idle} \union [at : {"session"}, sid : SessionId]
                \union [at : {"task", "list"}, sid : SessionId, tid : TaskNumber]

StoreTypes ==
    /\ sessFile \in [SessionId -> SessRec \union {Absent, Torn}]
    /\ taskFile \in [TaskNumber -> TaskRec \union {Absent, Torn}]
    /\ alive \in [Proc -> BOOLEAN] /\ seeded \in [Proc -> BOOLEAN]
    /\ sessN \in [Proc -> Nat] /\ taskN \in [Proc -> Nat]
    /\ sessions \in [Proc -> [SessionId -> Seq(TaskNumber) \union {Absent}]]
    /\ tasks \in [Proc -> [TaskNumber -> Status \union {Absent}]]
    /\ doing \in [Proc -> Doing]
    /\ created \subseteq [file : {"session"}, id : SessionId, by : Proc]
                         \union [file : {"task"}, id : TaskNumber, by : Proc]
    /\ started \subseteq SessionId \X TaskNumber

\* A record whose file is claimed is torn, and nobody else is at it.
Claims ==
    \A p \in Proc :
        /\ doing[p].at = "session" =>
              /\ sessFile[doing[p].sid] = Torn
              /\ \A q \in Proc \ {p} : doing[q].at = "session" => doing[q].sid # doing[p].sid
        /\ doing[p].at = "task" =>
              /\ taskFile[doing[p].tid] = Torn
              /\ \A q \in Proc \ {p} : doing[q].at = "task" => doing[q].tid # doing[p].tid

\* Who holds a session lives, holds it alone, and holds all that the file lists
\* and only tasks that are on disk.
Holds(p, s) == sessions[p][s] # Absent

Held ==
    \A p \in Proc, s \in SessionId : Holds(p, s) =>
        /\ alive[p] /\ Whole(sessFile[s])
        /\ \A q \in Proc \ {p} : ~ Holds(q, s)
        /\ ToSet(sessFile[s].tasks) \subseteq ToSet(sessions[p][s])
        /\ \A t \in ToSet(sessions[p][s]) : Whole(taskFile[t]) /\ taskFile[t].sid = s

\* A StartTask under way is in a session its process holds, and its task is
\* listed there once it is written.
UnderWay ==
    \A p \in Proc :
        /\ doing[p].at \in {"task", "list"} => Holds(p, doing[p].sid)
        /\ doing[p].at = "list" => doing[p].tid \in ToSet(sessions[p][doing[p].sid])

TasksWhole == \A p \in Proc, t \in TaskNumber : tasks[p][t] # Absent => Whole(taskFile[t])

FilesListed ==
    \A s \in SessionId : Whole(sessFile[s]) =>
        \A t \in ToSet(sessFile[s].tasks) : Whole(taskFile[t]) /\ taskFile[t].sid = s

StartsListed ==
    \A st \in started : Whole(sessFile[st[1]]) /\ st[2] \in ToSet(sessFile[st[1]].tasks)

StoreInv ==
    /\ StoreTypes /\ Claims /\ Held /\ UnderWay /\ TasksWhole
    /\ OneOwner /\ FilesListed /\ StartsListed

\* Nothing that is written passes for an absent or a torn file.
LEMMA NoRecordIsNone ==
  /\ \A f \in SessRec : Whole(f)
  /\ \A f \in TaskRec : Whole(f)
  /\ \A s \in Seq(TaskNumber) : s # Absent
  /\ \A st \in Status : st # Absent
BY NoneAssumption DEF Whole, SessRec, TaskRec

LEMMA InitStore == StoreInit => StoreInv
<1> SUFFICES ASSUME StoreInit PROVE StoreInv
  OBVIOUS
<1>1. StoreTypes
  BY DEF StoreInit, StoreTypes, Doing
<1>2. Claims /\ UnderWay
  BY DEF StoreInit, Claims, UnderWay, Idle
<1>3. Held /\ TasksWhole /\ OneOwner /\ FilesListed /\ StartsListed
  BY DEF StoreInit, Held, Holds, TasksWhole, OneOwner, FilesListed, StartsListed, Whole
<1> QED BY <1>1, <1>2, <1>3 DEF StoreInv

LEMMA NamedAppend ==
  ASSUME NEW s \in Seq(TaskNumber), NEW t \in TaskNumber
  PROVE  Append(s, t) \in Seq(TaskNumber) /\ ToSet(Append(s, t)) = ToSet(s) \union {t}
<1>1. Len(Append(s, t)) = Len(s) + 1 /\ Append(s, t) \in Seq(TaskNumber)
  BY AppendProperties
<1>2. \A i \in 1 .. Len(s) + 1 : Append(s, t)[i] = IF i = Len(s) + 1 THEN t ELSE s[i]
  BY AppendProperties
<1>3. DOMAIN s = 1 .. Len(s) /\ DOMAIN Append(s, t) = 1 .. Len(s) + 1 /\ Len(s) \in Nat
  BY <1>1
<1>4. ToSet(Append(s, t)) \subseteq ToSet(s) \union {t}
  BY <1>2, <1>3 DEF ToSet
<1>5. ToSet(s) \union {t} \subseteq ToSet(Append(s, t))
  <2>1. t \in ToSet(Append(s, t))
    BY <1>2, <1>3 DEF ToSet
  <2>2. ASSUME NEW x \in ToSet(s) PROVE x \in ToSet(Append(s, t))
    <3>1. PICK i \in 1 .. Len(s) : x = s[i]
      BY <1>3 DEF ToSet
    <3>2. i \in 1 .. Len(s) + 1 /\ i # Len(s) + 1
      BY <1>3
    <3> QED BY <3>1, <3>2, <1>2, <1>3 DEF ToSet
  <2> QED BY <2>1, <2>2
<1> QED BY <1>1, <1>4, <1>5

\* The least number that bounds a set is in it.
LEMMA HighestIsNat ==
  ASSUME NEW S \in SUBSET Nat, NEW top \in Nat, \A n \in S : n <= top
  PROVE  Highest(S) \in Nat
<1>1. CASE S = {}
  BY <1>1 DEF Highest
<1>2. CASE S # {}
  <2> DEFINE Bounds == {n \in Nat : \A m \in S : m <= n}
  <2>1. PICK n \in Bounds : \A m \in Bounds : n <= m
    <3>1. Bounds \in SUBSET Nat /\ Bounds # {}
      OBVIOUS
    <3> HIDE DEF Bounds
    <3> QED BY <3>1, LeastNat
  <2>2. n \in S
    <3> SUFFICES ASSUME n \notin S PROVE FALSE
      OBVIOUS
    <3>1. PICK x \in S : TRUE
      BY <1>2
    <3>2. n \in Nat /\ \A m \in S : m \in Nat /\ m < n
      OBVIOUS
    <3>3. n - 1 \in Bounds
      BY <3>1, <3>2
    <3> QED BY <2>1, <3>2, <3>3
  <2>3. \E k \in S : \A m \in S : m <= k
    BY <2>1, <2>2
  <2>4. Highest(S) \in S
    BY <1>2, <2>3 DEF Highest
  <2> QED BY <2>4
<1> QED BY <1>1, <1>2

\* What a step must leave alone for the rest to follow.
LEMMA StoreStays ==
  ASSUME StoreInv,
         UNCHANGED <<sessFile, taskFile, alive, sessions, tasks, doing, created, started>>
  PROVE  /\ Claims' /\ Held' /\ UnderWay' /\ TasksWhole'
         /\ OneOwner' /\ FilesListed' /\ StartsListed'
<1>1. Claims'
  BY DEF StoreInv, Claims
<1>2. Held'
  BY DEF StoreInv, Held, Holds
<1>3. UnderWay' /\ TasksWhole'
  BY DEF StoreInv, UnderWay, TasksWhole, Holds
<1>4. OneOwner' /\ FilesListed' /\ StartsListed'
  BY DEF StoreInv, OneOwner, FilesListed, StartsListed
<1> QED BY <1>1, <1>2, <1>3, <1>4

\* What is listed and held are numbers of tasks.
LEMMA NamesAreTasks ==
  ASSUME StoreInv, NEW s \in SessionId
  PROVE  /\ Whole(sessFile[s]) => ToSet(sessFile[s].tasks) \subseteq TaskNumber
         /\ \A p \in Proc : Holds(p, s) => ToSet(sessions[p][s]) \subseteq TaskNumber
<1>1. ASSUME Whole(sessFile[s]) PROVE ToSet(sessFile[s].tasks) \subseteq TaskNumber
  <2>1. sessFile[s].tasks \in Seq(TaskNumber)
    BY <1>1 DEF StoreInv, StoreTypes, Whole, SessRec
  <2> QED BY <2>1, ElementOfSeq DEF ToSet
<1>2. ASSUME NEW p \in Proc, Holds(p, s) PROVE ToSet(sessions[p][s]) \subseteq TaskNumber
  <2>1. sessions[p][s] \in Seq(TaskNumber)
    BY <1>2 DEF StoreInv, StoreTypes, Holds
  <2> QED BY <2>1, ElementOfSeq DEF ToSet
<1> QED BY <1>1, <1>2

\* A whole file of a task stays whole, with its owner and its session.
TasksKept ==
    \A t \in TaskNumber : Whole(taskFile[t]) =>
        Whole(taskFile'[t]) /\ taskFile'[t].by = taskFile[t].by /\ taskFile'[t].sid = taskFile[t].sid

LEMMA FilesOfTasks ==
  ASSUME StoreInv, TasksKept, UNCHANGED <<sessFile, created>>
  PROVE  /\ OneOwner' /\ FilesListed'
         /\ UNCHANGED tasks => TasksWhole'
         /\ UNCHANGED <<alive, sessions>> => Held'
<1>1. OneOwner'
  BY DEF StoreInv, StoreTypes, OneOwner, TasksKept
<1>2. FilesListed'
  BY NamesAreTasks DEF StoreInv, FilesListed, TasksKept
<1>3. UNCHANGED tasks => TasksWhole'
  BY DEF StoreInv, TasksWhole, TasksKept
<1>4. ASSUME UNCHANGED <<alive, sessions>> PROVE Held'
  <2> SUFFICES ASSUME NEW p \in Proc, NEW s \in SessionId, Holds(p, s)
               PROVE  /\ alive[p] /\ Whole(sessFile[s])
                      /\ \A q \in Proc \ {p} : ~ Holds(q, s)
                      /\ ToSet(sessFile[s].tasks) \subseteq ToSet(sessions[p][s])
                      /\ \A t \in ToSet(sessions[p][s]) : Whole(taskFile'[t]) /\ taskFile'[t].sid = s
    BY <1>4 DEF Held, Holds
  <2> QED BY NamesAreTasks DEF StoreInv, Held, TasksKept
<1> QED BY <1>1, <1>2, <1>3, <1>4

LEMMA TaskUnderWay ==
  ASSUME StoreInv, NEW p \in Proc, doing[p].at \in {"task", "list"}
  PROVE  /\ doing[p].sid \in SessionId /\ doing[p].tid \in TaskNumber
         /\ doing[p] = [at |-> doing[p].at, sid |-> doing[p].sid, tid |-> doing[p].tid]
<1>1. doing[p] \in Doing
  BY DEF StoreInv, StoreTypes
<1> QED BY <1>1 DEF Doing, Idle

LEMMA SeedKeeps == ASSUME StoreInv, NEW p \in Proc, alive[p], Seed(p) PROVE StoreInv'
<1>1. Listed \subseteq SessionId /\ SessionId \subseteq Nat /\ TaskNumber \subseteq Nat
  BY StoreAssumption DEF Listed, SessionId, TaskNumber
<1>2. Highest(Listed) \in Nat
  <2>1. \A s \in Listed : s <= MaxSession
    BY <1>1, StoreAssumption DEF SessionId
  <2> QED BY <1>1, <2>1, HighestIsNat, StoreAssumption
<1>3. Highest(TasksListed) \in Nat
  <2>1. ASSUME NEW s \in Listed PROVE {sessFile[s].tasks[i] : i \in DOMAIN sessFile[s].tasks} \subseteq TaskNumber
    <3>1. sessFile[s].tasks \in Seq(TaskNumber)
      BY <1>1 DEF StoreInv, StoreTypes, SessRec, Listed, Whole
    <3> QED BY <3>1, ElementOfSeq
  <2>2. TasksListed \subseteq TaskNumber
    BY <2>1 DEF TasksListed
  <2>3. \A t \in TasksListed : t <= MaxTask
    BY <2>2, StoreAssumption DEF TaskNumber
  <2> QED BY <1>1, <2>2, <2>3, HighestIsNat, StoreAssumption
<1>4. StoreTypes'
  BY <1>2, <1>3 DEF StoreInv, StoreTypes, Seed
<1>5. UNCHANGED <<sessFile, taskFile, alive, sessions, tasks, doing, created, started>>
  BY DEF Seed
<1> QED BY <1>4, <1>5, StoreStays DEF StoreInv

LEMMA ClaimSessionKeeps == ASSUME StoreInv, NEW p \in Proc, ClaimSession(p) PROVE StoreInv'
<1> DEFINE s == sessN[p] + 1
<1>1. s \in SessionId /\ doing[p] = Idle
  BY StoreAssumption DEF ClaimSession, StoreInv, StoreTypes, SessionId
<1>2. UNCHANGED <<taskFile, alive, seeded, taskN, sessions, tasks, created, started>>
  BY DEF ClaimSession
<1>3. sessN' = [sessN EXCEPT ![p] = s]
  BY DEF ClaimSession
<1>4. CASE sessFile[s] # Absent
  <2>1. UNCHANGED <<sessFile, doing>>
    BY <1>4 DEF ClaimSession, ClaimFree
  <2>2. StoreTypes'
    BY <1>1, <1>2, <1>3, <2>1 DEF StoreInv, StoreTypes, SessionId
  <2> QED BY <1>2, <2>1, <2>2, StoreStays DEF StoreInv
<1>5. CASE sessFile[s] = Absent
  <2>1. /\ sessFile' = [sessFile EXCEPT ![s] = Torn]
        /\ doing' = [doing EXCEPT ![p] = [at |-> "session", sid |-> s]]
    BY <1>5 DEF ClaimSession, ClaimFree
  <2>2. StoreTypes'
    BY <1>1, <1>2, <1>3, <2>1 DEF StoreInv, StoreTypes, SessionId, Doing
  <2>3. Claims'
    BY <1>1, <1>2, <1>5, <2>1, StoreAssumption DEF StoreInv, StoreTypes, Claims
  <2>4. \A r \in SessionId : Whole(sessFile[r]) => sessFile'[r] = sessFile[r]
    BY <1>5, <2>1 DEF StoreInv, StoreTypes, Whole
  <2>5. \A r \in SessionId : Whole(sessFile'[r]) => sessFile'[r] = sessFile[r]
    BY <2>1 DEF StoreInv, StoreTypes, Whole
  <2>6. Held' /\ TasksWhole'
    BY <1>2, <2>4 DEF StoreInv, Held, Holds, TasksWhole
  <2>7. UnderWay'
    BY <1>2, <2>1 DEF StoreInv, StoreTypes, UnderWay, Holds
  <2>8. OneOwner'
    BY <1>2, <2>4 DEF StoreInv, StoreTypes, OneOwner, Whole
  <2>9. FilesListed'
    BY <1>2, <2>5 DEF StoreInv, FilesListed
  <2>10. StartsListed'
    BY <1>2, <2>4 DEF StoreInv, StoreTypes, StartsListed
  <2> QED BY <2>2, <2>3, <2>6, <2>7, <2>8, <2>9, <2>10 DEF StoreInv
<1> QED BY <1>4, <1>5

\* Files stay whole and as they are but for one that was not, doing p's work.
LEMMA SessionWrittenKeeps == ASSUME StoreInv, NEW p \in Proc, SessionWritten(p) PROVE StoreInv'
<1> DEFINE s == doing[p].sid
<1>1. s \in SessionId /\ sessFile[s] = Torn /\ doing[p].at = "session"
  BY DEF SessionWritten, StoreInv, StoreTypes, Claims, Doing, Idle
<1> HIDE DEF s
<1>2. /\ sessFile' = [sessFile EXCEPT ![s] = [by |-> p, tasks |-> <<>>]]
      /\ sessions' = [sessions EXCEPT ![p][s] = <<>>]
      /\ created' = created \union {[file |-> "session", id |-> s, by |-> p]}
      /\ doing' = [doing EXCEPT ![p] = Idle]
      /\ alive[p]
      /\ UNCHANGED <<taskFile, alive, seeded, sessN, taskN, tasks, started>>
  BY DEF SessionWritten, s
<1>3. [by |-> p, tasks |-> <<>>] \in SessRec /\ Whole([by |-> p, tasks |-> <<>>])
      /\ <<>> \in Seq(TaskNumber) /\ <<>> # Absent
  <2>1. <<>> \in Seq(TaskNumber)
    OBVIOUS
  <2>2. [by |-> p, tasks |-> <<>>] \in SessRec
    BY <2>1 DEF SessRec
  <2> QED BY <2>1, <2>2, NoRecordIsNone
<1>4. StoreTypes'
  BY <1>1, <1>2, <1>3 DEF StoreInv, StoreTypes, Doing
<1>5. \A r \in SessionId : Whole(sessFile[r]) => r # s /\ sessFile'[r] = sessFile[r]
  BY <1>1, <1>2 DEF StoreInv, StoreTypes, Whole
<1>6. Claims'
  BY <1>1, <1>2 DEF StoreInv, StoreTypes, Claims, Idle, s
<1>7. Held'
  <2> SUFFICES ASSUME NEW q \in Proc, NEW r \in SessionId, Holds(q, r)'
               PROVE  /\ alive'[q] /\ Whole(sessFile'[r])
                      /\ \A u \in Proc \ {q} : ~ Holds(u, r)'
                      /\ ToSet(sessFile'[r].tasks) \subseteq ToSet(sessions'[q][r])
                      /\ \A t \in ToSet(sessions'[q][r]) : Whole(taskFile'[t]) /\ taskFile'[t].sid = r
    BY DEF Held
  <2>1. CASE r # s
    <3>1. Holds(q, r) /\ sessFile'[r] = sessFile[r] /\ \A u \in Proc : sessions'[u][r] = sessions[u][r]
      BY <1>1, <1>2, <2>1 DEF StoreInv, StoreTypes, Holds
    <3> QED BY <1>2, <3>1 DEF StoreInv, Held, Holds
  <2>2. CASE r = s
    <3>1. \A u \in Proc : sessions[u][s] = Absent
      BY <1>1 DEF StoreInv, Held, Holds, Whole
    <3>2. \A u \in Proc \ {p} : sessions'[u][s] = Absent
      BY <1>1, <1>2, <3>1 DEF StoreInv, StoreTypes
    <3>3. q = p /\ sessions'[p][s] = <<>> /\ sessFile'[s] = [by |-> p, tasks |-> <<>>]
      BY <1>1, <1>2, <2>2, <3>2 DEF StoreInv, StoreTypes, Holds
    <3>4. ToSet(<<>>) = {}
      BY DEF ToSet
    <3> QED BY <1>2, <1>3, <2>2, <3>2, <3>3, <3>4 DEF Holds
  <2> QED BY <2>1, <2>2
<1>8. UnderWay'
  BY <1>1, <1>2, <1>3 DEF StoreInv, StoreTypes, UnderWay, Holds, Idle
<1>9. TasksWhole'
  BY <1>2 DEF StoreInv, TasksWhole
<1>10. OneOwner'
  BY <1>1, <1>2, <1>3, <1>5 DEF StoreInv, StoreTypes, OneOwner
<1>11. FilesListed'
  <2>1. \A r \in SessionId \ {s} : sessFile'[r] = sessFile[r]
    BY <1>1, <1>2 DEF StoreInv, StoreTypes
  <2>2. ToSet(sessFile'[s].tasks) = {}
    BY <1>1, <1>2 DEF StoreInv, StoreTypes, ToSet
  <2> QED BY <1>2, <2>1, <2>2 DEF StoreInv, FilesListed
<1>12. StartsListed'
  BY <1>2, <1>5 DEF StoreInv, StoreTypes, StartsListed
<1> QED BY <1>4, <1>6, <1>7, <1>8, <1>9, <1>10, <1>11, <1>12 DEF StoreInv

LEMMA SessionFailedKeeps == ASSUME StoreInv, NEW p \in Proc, SessionFailed(p) PROVE StoreInv'
<1> DEFINE s == doing[p].sid
<1>1. s \in SessionId /\ sessFile[s] = Torn /\ doing[p].at = "session"
  BY DEF SessionFailed, StoreInv, StoreTypes, Claims, Doing, Idle
<1>2. /\ doing' = [doing EXCEPT ![p] = Idle]
      /\ UNCHANGED <<taskFile, alive, seeded, sessN, taskN, sessions, tasks, created, started>>
      /\ sessFile' \in {sessFile, [sessFile EXCEPT ![s] = Absent]}
  BY DEF SessionFailed
<1>3. StoreTypes'
  BY <1>1, <1>2 DEF StoreInv, StoreTypes, Doing
<1>4. \A r \in SessionId : /\ sessFile'[r] = sessFile[r] \/ r = s
                           /\ Whole(sessFile[r]) \/ Whole(sessFile'[r]) => sessFile'[r] = sessFile[r]
  BY <1>1, <1>2 DEF StoreInv, StoreTypes, Whole
<1>5. Claims'
  BY <1>1, <1>2, <1>4 DEF StoreInv, StoreTypes, Claims, Idle, Doing
<1>6. Held' /\ TasksWhole'
  BY <1>2, <1>4 DEF StoreInv, Held, Holds, TasksWhole
<1>7. UnderWay'
  BY <1>2 DEF StoreInv, StoreTypes, UnderWay, Holds, Idle
<1>8. OneOwner'
  BY <1>2, <1>4 DEF StoreInv, StoreTypes, OneOwner
<1>9. FilesListed'
  BY <1>2, <1>4 DEF StoreInv, FilesListed
<1>10. StartsListed'
  BY <1>2, <1>4 DEF StoreInv, StoreTypes, StartsListed
<1> QED BY <1>3, <1>5, <1>6, <1>7, <1>8, <1>9, <1>10 DEF StoreInv

LEMMA ClaimTaskKeeps ==
  ASSUME StoreInv, NEW p \in Proc, NEW s \in SessionId, ClaimTask(p, s) PROVE StoreInv'
<1> DEFINE t == taskN[p] + 1
<1>1. t \in TaskNumber /\ doing[p] = Idle /\ Holds(p, s)
  BY StoreAssumption DEF ClaimTask, StoreInv, StoreTypes, TaskNumber, Holds
<1>2. UNCHANGED <<sessFile, alive, seeded, sessN, sessions, tasks, created, started>>
  BY DEF ClaimTask
<1>3. taskN' = [taskN EXCEPT ![p] = t]
  BY DEF ClaimTask
<1>4. CASE taskFile[t] # Absent
  <2>1. UNCHANGED <<taskFile, doing>>
    BY <1>4 DEF ClaimTask, ClaimFree
  <2>2. StoreTypes'
    BY <1>1, <1>2, <1>3, <2>1 DEF StoreInv, StoreTypes, TaskNumber
  <2> QED BY <1>2, <2>1, <2>2, StoreStays DEF StoreInv
<1>5. CASE taskFile[t] = Absent
  <2>1. /\ taskFile' = [taskFile EXCEPT ![t] = Torn]
        /\ doing' = [doing EXCEPT ![p] = [at |-> "task", sid |-> s, tid |-> t]]
    BY <1>5 DEF ClaimTask, ClaimFree
  <2>2. StoreTypes'
    BY <1>1, <1>2, <1>3, <2>1 DEF StoreInv, StoreTypes, TaskNumber, Doing
  <2>3. Claims'
    BY <1>1, <1>2, <1>5, <2>1, StoreAssumption DEF StoreInv, StoreTypes, Claims
  <2>4. TasksKept
    BY <1>5, <2>1 DEF StoreInv, StoreTypes, Whole, TasksKept
  <2>5. Held' /\ TasksWhole' /\ OneOwner' /\ FilesListed'
    BY <1>2, <2>4, FilesOfTasks DEF StoreInv
  <2>6. UnderWay'
    BY <1>1, <1>2, <2>1 DEF StoreInv, StoreTypes, UnderWay, Holds
  <2>7. StartsListed'
    BY <1>2 DEF StoreInv, StartsListed
  <2> QED BY <2>2, <2>3, <2>5, <2>6, <2>7 DEF StoreInv
<1> QED BY <1>4, <1>5

LEMMA TaskFailedKeeps == ASSUME StoreInv, NEW p \in Proc, TaskFailed(p) PROVE StoreInv'
<1> DEFINE t == doing[p].tid
<1>1. t \in TaskNumber /\ taskFile[t] = Torn /\ doing[p].at = "task"
  <2>1. doing[p].at = "task" /\ doing[p] \in Doing
    BY DEF TaskFailed, StoreInv, StoreTypes
  <2>2. t \in TaskNumber
    BY <2>1 DEF Doing, Idle
  <2> QED BY <2>1, <2>2 DEF StoreInv, Claims
<1>2. /\ doing' = [doing EXCEPT ![p] = Idle]
      /\ UNCHANGED <<sessFile, alive, seeded, sessN, taskN, sessions, tasks, created, started>>
      /\ taskFile' \in {taskFile, [taskFile EXCEPT ![t] = Absent]}
  BY DEF TaskFailed
<1>3. StoreTypes'
  BY <1>1, <1>2 DEF StoreInv, StoreTypes, Doing
<1>4. \A r \in TaskNumber : /\ taskFile'[r] = taskFile[r] \/ r = t
                            /\ Whole(taskFile[r]) => taskFile'[r] = taskFile[r]
  BY <1>1, <1>2 DEF StoreInv, StoreTypes, Whole
<1>5. Claims'
  BY <1>1, <1>2, <1>4 DEF StoreInv, StoreTypes, Claims, Idle, Doing
<1>6. Held' /\ TasksWhole' /\ OneOwner' /\ FilesListed'
  BY <1>2, <1>4, FilesOfTasks DEF StoreInv, TasksKept
<1>7. UnderWay'
  BY <1>2 DEF StoreInv, StoreTypes, UnderWay, Holds, Idle
<1>8. StartsListed'
  BY <1>2 DEF StoreInv, StartsListed
<1> QED BY <1>3, <1>5, <1>6, <1>7, <1>8 DEF StoreInv

\* The step after which p is at rest and all else as it was.
LEMMA ListFailedKeeps == ASSUME StoreInv, NEW p \in Proc, ListFailed(p) PROVE StoreInv'
<1>1. /\ doing' = [doing EXCEPT ![p] = Idle]
      /\ UNCHANGED <<sessFile, taskFile, alive, seeded, sessN, taskN, sessions, tasks, created, started>>
  BY DEF ListFailed
<1>2. StoreTypes'
  BY <1>1 DEF StoreInv, StoreTypes, Doing
<1>3. Claims' /\ UnderWay'
  BY <1>1 DEF StoreInv, StoreTypes, Claims, UnderWay, Holds, Idle
<1>4. Held' /\ TasksWhole' /\ OneOwner' /\ FilesListed'
  BY <1>1, FilesOfTasks DEF StoreInv, TasksKept
<1>5. StartsListed'
  BY <1>1 DEF StoreInv, StartsListed
<1> QED BY <1>2, <1>3, <1>4, <1>5 DEF StoreInv

\* A listing replaces the file of a session by what its holder has of it.
LEMMA SessionListedKeeps == ASSUME StoreInv, NEW p \in Proc, SessionListed(p) PROVE StoreInv'
<1> DEFINE s == doing[p].sid
           t == doing[p].tid
<1>1. /\ s \in SessionId /\ t \in TaskNumber /\ doing[p].at = "list" /\ alive[p]
      /\ Holds(p, s) /\ t \in ToSet(sessions[p][s])
  BY DEF SessionListed, StoreInv, StoreTypes, UnderWay, Doing, Idle
<1> HIDE DEF s, t
<1> DEFINE fresh == [by |-> sessFile[s].by, tasks |-> sessions[p][s]]
<1>2. /\ sessFile' = [sessFile EXCEPT ![s] = fresh]
      /\ started' = started \union {<<s, t>>}
      /\ doing' = [doing EXCEPT ![p] = Idle]
      /\ UNCHANGED <<taskFile, alive, seeded, sessN, taskN, sessions, tasks, created>>
  BY <1>1 DEF SessionListed, Snapshot, s, t, StoreInv, StoreTypes
<1>3. /\ Whole(sessFile[s]) /\ sessFile[s] \in SessRec
      /\ sessions[p][s] \in Seq(TaskNumber)
      /\ ToSet(sessFile[s].tasks) \subseteq ToSet(sessions[p][s])
      /\ \A x \in ToSet(sessions[p][s]) : Whole(taskFile[x]) /\ taskFile[x].sid = s
      /\ \A q \in Proc \ {p} : ~ Holds(q, s)
  <2>1. sessions[p][s] \in Seq(TaskNumber)
    BY <1>1 DEF StoreInv, StoreTypes, Holds
  <2>2. /\ Whole(sessFile[s])
        /\ ToSet(sessFile[s].tasks) \subseteq ToSet(sessions[p][s])
        /\ \A x \in ToSet(sessions[p][s]) : Whole(taskFile[x]) /\ taskFile[x].sid = s
        /\ \A q \in Proc \ {p} : ~ Holds(q, s)
    BY <1>1 DEF StoreInv, Held
  <2>3. sessFile[s] \in SessRec
    BY <1>1, <2>2 DEF StoreInv, StoreTypes, Whole
  <2> QED BY <2>1, <2>2, <2>3
<1>4. fresh \in SessRec /\ Whole(fresh) /\ fresh.by = sessFile[s].by /\ fresh.tasks = sessions[p][s]
  <2>1. fresh \in SessRec
    BY <1>3 DEF SessRec
  <2> QED BY <2>1, NoRecordIsNone
<1> HIDE DEF fresh
<1>5. sessFile'[s] = fresh /\ \A r \in SessionId \ {s} : sessFile'[r] = sessFile[r]
  BY <1>1, <1>2 DEF StoreInv, StoreTypes
<1>6. StoreTypes'
  BY <1>1, <1>2, <1>4 DEF StoreInv, StoreTypes, Doing
<1>7. Claims'
  <2>1. \A q \in Proc : doing[q].at = "session" => doing[q].sid # s
    BY <1>3 DEF StoreInv, Claims, Whole
  <2>2. \A q \in Proc : doing'[q] = doing[q] \/ doing'[q] = Idle
    BY <1>2 DEF StoreInv, StoreTypes
  <2> QED BY <1>2, <1>5, <2>1, <2>2 DEF StoreInv, StoreTypes, Claims, Idle, Doing
<1>8. Held'
  <2>1. UNCHANGED <<sessions, alive, taskFile>>
    BY <1>2
  <2> SUFFICES ASSUME NEW o \in Proc, NEW r \in SessionId, Holds(o, r)
               PROVE  /\ alive[o] /\ Whole(sessFile'[r])
                      /\ \A q \in Proc \ {o} : ~ Holds(q, r)
                      /\ ToSet(sessFile'[r].tasks) \subseteq ToSet(sessions[o][r])
                      /\ \A x \in ToSet(sessions[o][r]) : Whole(taskFile[x]) /\ taskFile[x].sid = r
    BY <2>1 DEF Held, Holds
  <2>2. CASE r = s
    <3>1. o = p
      BY <1>3, <2>2
    <3> QED BY <1>3, <1>4, <1>5, <2>2, <3>1 DEF StoreInv, Held
  <2>3. CASE r # s
    BY <1>5, <2>3 DEF StoreInv, Held
  <2> QED BY <2>2, <2>3
<1>9. UnderWay'
  BY <1>2 DEF StoreInv, StoreTypes, UnderWay, Holds, Idle
<1>10. TasksWhole'
  BY <1>2 DEF StoreInv, TasksWhole
<1>11. OneOwner'
  BY <1>1, <1>2, <1>4, <1>5 DEF StoreInv, StoreTypes, OneOwner
<1>12. FilesListed'
  BY <1>1, <1>2, <1>3, <1>4, <1>5 DEF StoreInv, FilesListed
<1>13. StartsListed'
  <2> SUFFICES ASSUME NEW st \in started'
               PROVE  Whole(sessFile'[st[1]]) /\ st[2] \in ToSet(sessFile'[st[1]].tasks)
    BY DEF StartsListed
  <2>1. CASE st = <<s, t>>
    BY <1>1, <1>4, <1>5, <2>1
  <2>2. CASE st \in started
    <3>1. st[1] \in SessionId /\ Whole(sessFile[st[1]]) /\ st[2] \in ToSet(sessFile[st[1]].tasks)
      BY <2>2 DEF StoreInv, StoreTypes, StartsListed
    <3>2. CASE st[1] = s
      BY <1>3, <1>4, <1>5, <3>1, <3>2
    <3>3. CASE st[1] # s
      BY <1>5, <3>1, <3>3
    <3> QED BY <3>2, <3>3
  <2> QED BY <1>2, <2>1, <2>2
<1> QED BY <1>6, <1>7, <1>8, <1>9, <1>10, <1>11, <1>12, <1>13 DEF StoreInv

\* The task's record is written: it is whole, and in the session in memory.
LEMMA TaskWrittenKeeps == ASSUME StoreInv, NEW p \in Proc, TaskWritten(p) PROVE StoreInv'
<1> DEFINE s == doing[p].sid
           t == doing[p].tid
<1>1. /\ s \in SessionId /\ t \in TaskNumber /\ doing[p].at = "task" /\ alive[p]
      /\ doing[p] = [at |-> "task", sid |-> s, tid |-> t]
      /\ Holds(p, s) /\ taskFile[t] = Torn
  <2>1. doing[p].at = "task" /\ doing[p] \in Doing /\ alive[p]
    BY DEF TaskWritten, StoreInv, StoreTypes
  <2>2. s \in SessionId /\ t \in TaskNumber /\ doing[p] = [at |-> "task", sid |-> s, tid |-> t]
    BY <2>1 DEF Doing, Idle
  <2> QED BY <2>1, <2>2 DEF StoreInv, Claims, UnderWay
<1> HIDE DEF s, t
<1> DEFINE rec == [by |-> p, sid |-> s, status |-> "PENDING"]
           seq == Append(sessions[p][s], t)
<1>2. /\ taskFile' = [taskFile EXCEPT ![t] = rec]
      /\ tasks' = [tasks EXCEPT ![p][t] = "PENDING"]
      /\ sessions' = [sessions EXCEPT ![p][s] = seq]
      /\ created' = created \union {[file |-> "task", id |-> t, by |-> p]}
      /\ doing' = [doing EXCEPT ![p] = [at |-> "list", sid |-> s, tid |-> t]]
      /\ UNCHANGED <<sessFile, alive, seeded, sessN, taskN, started>>
  <2>1. [doing[p] EXCEPT !.at = "list"] = [at |-> "list", sid |-> s, tid |-> t]
    BY <1>1
  <2> QED BY <2>1 DEF TaskWritten, s, t
<1>3. rec \in TaskRec /\ Whole(rec) /\ rec.by = p /\ rec.sid = s
  <2>1. rec \in TaskRec
    BY <1>1 DEF TaskRec, Status
  <2> QED BY <2>1, NoRecordIsNone
<1>4. /\ sessions[p][s] \in Seq(TaskNumber) /\ seq \in Seq(TaskNumber) /\ seq # Absent
      /\ ToSet(seq) = ToSet(sessions[p][s]) \union {t}
      /\ ToSet(sessions[p][s]) \subseteq TaskNumber
  <2>1. sessions[p][s] \in Seq(TaskNumber)
    BY <1>1 DEF StoreInv, StoreTypes, Holds
  <2>2. seq \in Seq(TaskNumber) /\ ToSet(seq) = ToSet(sessions[p][s]) \union {t}
    BY <1>1, <2>1, NamedAppend
  <2>3. ToSet(sessions[p][s]) \subseteq TaskNumber
    BY <2>1, ElementOfSeq DEF ToSet
  <2> QED BY <2>1, <2>2, <2>3, NoRecordIsNone
<1> HIDE DEF rec, seq
<1>5. /\ taskFile'[t] = rec /\ ~ Whole(taskFile[t])
      /\ \A x \in TaskNumber \ {t} : taskFile'[x] = taskFile[x]
  BY <1>1, <1>2 DEF StoreInv, StoreTypes, Whole
<1>6. \A x \in TaskNumber : Whole(taskFile[x]) => Whole(taskFile'[x]) /\ taskFile'[x] = taskFile[x]
  BY <1>5
<1>7. /\ sessions'[p][s] = seq
      /\ \A q \in Proc, r \in SessionId : (q # p \/ r # s) => sessions'[q][r] = sessions[q][r]
  BY <1>1, <1>2 DEF StoreInv, StoreTypes
<1>8. StoreTypes'
  <2>1. /\ taskFile' \in [TaskNumber -> TaskRec \union {Absent, Torn}]
        /\ sessions' \in [Proc -> [SessionId -> Seq(TaskNumber) \union {Absent}]]
        /\ tasks' \in [Proc -> [TaskNumber -> Status \union {Absent}]]
    BY <1>1, <1>2, <1>3, <1>4 DEF StoreInv, StoreTypes, Status
  <2>2. /\ doing' \in [Proc -> Doing]
        /\ created' \subseteq [file : {"session"}, id : SessionId, by : Proc]
                              \union [file : {"task"}, id : TaskNumber, by : Proc]
    BY <1>1, <1>2 DEF StoreInv, StoreTypes, Doing
  <2> QED BY <1>2, <2>1, <2>2 DEF StoreInv, StoreTypes
<1>9. Claims'
  <2>1. \A q \in Proc \ {p} : doing[q].at = "task" => doing[q].tid # t /\ doing[q].tid \in TaskNumber
    <3>1. \A q \in Proc \ {p} : doing[q].at = "task" => doing[q].tid # t
      BY <1>1 DEF StoreInv, Claims, t
    <3>2. ASSUME NEW q \in Proc, doing[q].at = "task" PROVE doing[q].tid \in TaskNumber
      <4>1. doing[q] \in Doing
        BY DEF StoreInv, StoreTypes
      <4> QED BY <3>2, <4>1 DEF Doing, Idle
    <3> QED BY <3>1, <3>2
  <2>2. doing'[p].at = "list" /\ \A q \in Proc \ {p} : doing'[q] = doing[q]
    BY <1>2 DEF StoreInv, StoreTypes
  <2> QED BY <1>2, <1>5, <2>1, <2>2 DEF StoreInv, Claims
<1>10. Held'
  <2> SUFFICES ASSUME NEW q \in Proc, NEW r \in SessionId, Holds(q, r)'
               PROVE  /\ alive'[q] /\ Whole(sessFile'[r])
                      /\ \A u \in Proc \ {q} : ~ Holds(u, r)'
                      /\ ToSet(sessFile'[r].tasks) \subseteq ToSet(sessions'[q][r])
                      /\ \A x \in ToSet(sessions'[q][r]) : Whole(taskFile'[x]) /\ taskFile'[x].sid = r
    BY DEF Held
  <2>1. Holds(q, r) /\ \A u \in Proc : Holds(u, r)' => Holds(u, r)
    BY <1>1, <1>7 DEF Holds
  <2>2. /\ alive[q] /\ Whole(sessFile[r])
        /\ \A u \in Proc \ {q} : ~ Holds(u, r)
        /\ ToSet(sessFile[r].tasks) \subseteq ToSet(sessions[q][r])
        /\ \A x \in ToSet(sessions[q][r]) : Whole(taskFile[x]) /\ taskFile[x].sid = r
    BY <2>1 DEF StoreInv, Held
  <2>3. sessions[q][r] \in Seq(TaskNumber)
    BY <2>1 DEF StoreInv, StoreTypes, Holds
  <2>4. ToSet(sessions[q][r]) \subseteq TaskNumber
    BY <2>3, ElementOfSeq DEF ToSet
  <2>5. CASE q = p /\ r = s
    BY <1>2, <1>3, <1>4, <1>5, <1>6, <1>7, <2>1, <2>2, <2>5
  <2>6. CASE ~ (q = p /\ r = s)
    BY <1>2, <1>6, <1>7, <2>1, <2>2, <2>4, <2>6
  <2> QED BY <2>5, <2>6
<1>11. UnderWay'
  <2>1. \A q \in Proc \ {p} : doing'[q] = doing[q] /\ \A r \in SessionId : sessions'[q][r] = sessions[q][r]
    BY <1>2, <1>7 DEF StoreInv, StoreTypes
  <2>2. \A q \in Proc : doing[q].at \in {"task", "list"} => doing[q].sid \in SessionId
    BY DEF StoreInv, StoreTypes, Doing, Idle
  <2>3. doing'[p] = [at |-> "list", sid |-> s, tid |-> t]
    BY <1>2 DEF StoreInv, StoreTypes
  <2>4. sessions'[p][s] # Absent /\ t \in ToSet(sessions'[p][s])
    BY <1>4, <1>7
  <2> QED BY <2>1, <2>2, <2>3, <2>4 DEF StoreInv, UnderWay, Holds
<1>12. TasksWhole'
  <2>1. \A q \in Proc, x \in TaskNumber : x # t => tasks'[q][x] = tasks[q][x]
    BY <1>1, <1>2 DEF StoreInv, StoreTypes
  <2> QED BY <1>3, <1>5, <1>6, <2>1 DEF StoreInv, TasksWhole
<1>13. OneOwner'
  BY <1>1, <1>2, <1>3, <1>5, <1>6 DEF StoreInv, StoreTypes, OneOwner
<1>14. FilesListed'
  <2> SUFFICES ASSUME NEW r \in SessionId, Whole(sessFile[r]), NEW x \in ToSet(sessFile[r].tasks)
               PROVE  Whole(taskFile'[x]) /\ taskFile'[x].sid = r
    BY <1>2 DEF FilesListed
  <2>1. sessFile[r].tasks \in Seq(TaskNumber)
    BY DEF StoreInv, StoreTypes, Whole, SessRec
  <2>2. x \in TaskNumber
    BY <2>1, ElementOfSeq DEF ToSet
  <2> QED BY <1>6, <2>2 DEF StoreInv, FilesListed
<1>15. StartsListed'
  BY <1>2 DEF StoreInv, StartsListed
<1> QED BY <1>8, <1>9, <1>10, <1>11, <1>12, <1>13, <1>14, <1>15 DEF StoreInv

\* A task's record with another status.
LEMMA StatusKeeps ==
  ASSUME StoreInv, NEW t \in TaskNumber, Whole(taskFile[t]), NEW st \in Status,
         taskFile' \in {taskFile, [taskFile EXCEPT ![t].status = st]}
  PROVE  /\ taskFile' \in [TaskNumber -> TaskRec \union {Absent, Torn}]
         /\ TasksKept
         /\ \A x \in TaskNumber : taskFile[x] = Torn => taskFile'[x] = Torn
<1> DEFINE rec == [taskFile[t] EXCEPT !.status = st]
<1>1. taskFile[t] \in TaskRec
  BY DEF StoreInv, StoreTypes, Whole
<1>2. rec \in TaskRec /\ rec.by = taskFile[t].by /\ rec.sid = taskFile[t].sid
  BY <1>1 DEF TaskRec
<1>3. Whole(rec)
  BY <1>2, NoRecordIsNone
<1>4. taskFile' = taskFile \/ taskFile' = [taskFile EXCEPT ![t] = rec]
  OBVIOUS
<1> HIDE DEF rec
<1> QED BY <1>2, <1>3, <1>4 DEF StoreInv, StoreTypes, TasksKept, Whole

LEMMA SetStatusKeeps ==
  ASSUME StoreInv, NEW p \in Proc, NEW t \in TaskNumber, NEW st \in Outcomes, SetStatus(p, t, st)
  PROVE  StoreInv'
<1>1. /\ st \in Status /\ Whole(taskFile[t])
      /\ tasks' = [tasks EXCEPT ![p][t] = st]
      /\ taskFile' \in {taskFile, [taskFile EXCEPT ![t].status = st]}
      /\ UNCHANGED <<sessFile, alive, seeded, sessN, taskN, sessions, doing, created, started>>
  <2>1. st \in Status
    BY StoreAssumption DEF Status, Terminal
  <2>2. tasks[p][t] # Absent
    BY DEF SetStatus
  <2> QED BY <2>1, <2>2 DEF SetStatus, StoreInv, TasksWhole
<1>2. /\ taskFile' \in [TaskNumber -> TaskRec \union {Absent, Torn}]
      /\ TasksKept /\ \A x \in TaskNumber : taskFile[x] = Torn => taskFile'[x] = Torn
  BY <1>1, StatusKeeps
<1>3. StoreTypes'
  BY <1>1, <1>2 DEF StoreInv, StoreTypes
<1>4. Claims'
  <2>1. \A q \in Proc : doing[q].at = "task" => taskFile[doing[q].tid] = Torn /\ doing[q].tid \in TaskNumber
    BY TaskUnderWay DEF StoreInv, Claims
  <2> QED BY <1>1, <1>2, <2>1 DEF StoreInv, Claims
<1>5. UnderWay' /\ StartsListed'
  BY <1>1 DEF StoreInv, UnderWay, Holds, StartsListed
<1>6. OneOwner' /\ FilesListed' /\ Held'
  BY <1>1, <1>2, FilesOfTasks
<1>7. TasksWhole'
  BY <1>1, <1>2 DEF StoreInv, StoreTypes, TasksWhole, TasksKept
<1> QED BY <1>3, <1>4, <1>5, <1>6, <1>7 DEF StoreInv

\* A session is held from its file on, by nobody else.
LEMMA ResumeKeeps ==
  ASSUME StoreInv, ~ SharedResume, NEW p \in Proc, NEW s \in SessionId, Resume(p, s)
  PROVE  StoreInv'
<1> DEFINE ids == sessFile[s].tasks
           t == ids[Len(ids)]
           st == Interrupted(taskFile[t].status)
<1>1. /\ alive[p] /\ doing[p] = Idle /\ Whole(sessFile[s]) /\ ~ HeldElsewhere(p, s)
      /\ sessions' = [sessions EXCEPT ![p][s] = ids]
      /\ UNCHANGED <<sessFile, alive, seeded, sessN, taskN, doing, created, started>>
  BY DEF Resume
<1>2. \/ /\ Len(ids) > 0 /\ Whole(taskFile[t])
         /\ tasks' = [tasks EXCEPT ![p][t] = st]
         /\ taskFile' \in {taskFile, [taskFile EXCEPT ![t].status = st]}
      \/ UNCHANGED <<tasks, taskFile>>
  BY DEF Resume
<1>3. ids \in Seq(TaskNumber) /\ ids # Absent
  <2>1. ids \in Seq(TaskNumber)
    BY <1>1 DEF StoreInv, StoreTypes, Whole, SessRec
  <2> QED BY <2>1, NoRecordIsNone
<1>4. /\ taskFile' \in [TaskNumber -> TaskRec \union {Absent, Torn}]
      /\ tasks' \in [Proc -> [TaskNumber -> Status \union {Absent}]]
      /\ TasksKept /\ \A x \in TaskNumber : taskFile[x] = Torn => taskFile'[x] = Torn
      /\ TasksWhole'
  <2>1. CASE UNCHANGED <<tasks, taskFile>>
    BY <2>1 DEF StoreInv, StoreTypes, TasksKept, TasksWhole
  <2>2. CASE /\ Len(ids) > 0 /\ Whole(taskFile[t])
             /\ tasks' = [tasks EXCEPT ![p][t] = st]
             /\ taskFile' \in {taskFile, [taskFile EXCEPT ![t].status = st]}
    <3>1. t \in TaskNumber
      BY <1>3, <2>2, ElementOfSeq, LenProperties
    <3> HIDE DEF t, ids
    <3>2. taskFile[t] \in TaskRec
      BY <2>2, <3>1 DEF StoreInv, StoreTypes, Whole
    <3>3. st \in Status
      BY <3>2 DEF Interrupted, TaskRec, Status
    <3> HIDE DEF st
    <3>4. /\ taskFile' \in [TaskNumber -> TaskRec \union {Absent, Torn}]
          /\ TasksKept /\ \A x \in TaskNumber : taskFile[x] = Torn => taskFile'[x] = Torn
      BY <2>2, <3>1, <3>3, StatusKeeps
    <3>5. tasks' \in [Proc -> [TaskNumber -> Status \union {Absent}]]
      BY <2>2, <3>1, <3>3 DEF StoreInv, StoreTypes
    <3>6. TasksWhole'
      BY <2>2, <3>1, <3>4 DEF StoreInv, StoreTypes, TasksWhole, TasksKept
    <3> QED BY <3>4, <3>5, <3>6
  <2> QED BY <1>2, <2>1, <2>2
<1> HIDE DEF ids, t, st
<1>5. /\ sessions'[p][s] = ids
      /\ \A q \in Proc, r \in SessionId : (q # p \/ r # s) => sessions'[q][r] = sessions[q][r]
  BY <1>1 DEF StoreInv, StoreTypes
<1>6. StoreTypes'
  BY <1>1, <1>3, <1>4 DEF StoreInv, StoreTypes
<1>7. Claims'
  <2>1. \A q \in Proc : doing[q].at = "task" => taskFile[doing[q].tid] = Torn /\ doing[q].tid \in TaskNumber
    BY TaskUnderWay DEF StoreInv, Claims
  <2> QED BY <1>1, <1>4, <2>1 DEF StoreInv, Claims
<1>8. OneOwner' /\ FilesListed'
  BY <1>1, <1>4, FilesOfTasks
<1>9. Held'
  <2> SUFFICES ASSUME NEW q \in Proc, NEW r \in SessionId, Holds(q, r)'
               PROVE  /\ alive'[q] /\ Whole(sessFile'[r])
                      /\ \A u \in Proc \ {q} : ~ Holds(u, r)'
                      /\ ToSet(sessFile'[r].tasks) \subseteq ToSet(sessions'[q][r])
                      /\ \A x \in ToSet(sessions'[q][r]) : Whole(taskFile'[x]) /\ taskFile'[x].sid = r
    BY DEF Held
  <2>1. CASE r # s
    <3>1. Holds(q, r) /\ \A u \in Proc : sessions'[u][r] = sessions[u][r]
      BY <1>5, <2>1 DEF Holds
    <3>2. ToSet(sessions[q][r]) \subseteq TaskNumber
      BY <3>1, NamesAreTasks
    <3>3. /\ alive[q] /\ Whole(sessFile[r]) /\ \A u \in Proc \ {q} : ~ Holds(u, r)
          /\ ToSet(sessFile[r].tasks) \subseteq ToSet(sessions[q][r])
          /\ \A x \in ToSet(sessions[q][r]) : Whole(taskFile[x]) /\ taskFile[x].sid = r
      BY <3>1 DEF StoreInv, Held
    <3>4. \A u \in Proc \ {q} : ~ Holds(u, r)'
      BY <3>1, <3>3 DEF Holds
    <3>5. \A x \in ToSet(sessions[q][r]) : Whole(taskFile'[x]) /\ taskFile'[x].sid = r
      BY <1>4, <3>2, <3>3 DEF TasksKept
    <3> QED BY <1>1, <3>1, <3>3, <3>4, <3>5
  <2>2. CASE r = s
    <3>1. \A u \in Proc \ {p} : ~ Holds(u, s)
      BY <1>1 DEF HeldElsewhere, Holds, StoreInv, Held
    <3>2. q = p /\ \A u \in Proc \ {p} : ~ Holds(u, s)'
      BY <1>5, <2>2, <3>1 DEF Holds
    <3>3. ToSet(ids) \subseteq TaskNumber /\ sessFile[s].tasks = ids
      BY <1>1, NamesAreTasks DEF ids
    <3>4. \A x \in ToSet(ids) : Whole(taskFile[x]) /\ taskFile[x].sid = s
      BY <1>1, <3>3 DEF StoreInv, FilesListed
    <3> QED BY <1>1, <1>4, <1>5, <2>2, <3>2, <3>3, <3>4 DEF TasksKept
  <2> QED BY <2>1, <2>2
<1>10. UnderWay'
  <2>1. \A q \in Proc : doing[q].at \in {"task", "list"} => q # p
    BY <1>1 DEF Idle
  <2> QED BY <1>1, <1>5, <2>1 DEF StoreInv, UnderWay, Holds
<1>11. StartsListed'
  BY <1>1 DEF StoreInv, StartsListed
<1> QED BY <1>4, <1>6, <1>7, <1>8, <1>9, <1>10, <1>11 DEF StoreInv

LEMMA DieKeeps == ASSUME StoreInv, NEW p \in Proc, Die(p) PROVE StoreInv'
<1>1. /\ alive' = [alive EXCEPT ![p] = FALSE]
      /\ sessions' = [sessions EXCEPT ![p] = [s \in SessionId |-> Absent]]
      /\ tasks' = [tasks EXCEPT ![p] = [t \in TaskNumber |-> Absent]]
      /\ doing' = [doing EXCEPT ![p] = Idle]
      /\ UNCHANGED <<sessFile, taskFile, seeded, sessN, taskN, created, started>>
  BY DEF Die
<1>2. StoreTypes'
  BY <1>1 DEF StoreInv, StoreTypes, Doing
<1>3. /\ \A s \in SessionId : sessions'[p][s] = Absent
      /\ \A q \in Proc \ {p} : sessions'[q] = sessions[q] /\ alive'[q] = alive[q] /\ doing'[q] = doing[q]
      /\ doing'[p] = Idle
  BY <1>1 DEF StoreInv, StoreTypes
<1>4. Claims'
  BY <1>1, <1>3 DEF StoreInv, Claims, Idle
<1>5. Held'
  BY <1>1, <1>3 DEF StoreInv, Held, Holds
<1>6. UnderWay'
  BY <1>3 DEF StoreInv, UnderWay, Holds, Idle
<1>7. TasksWhole'
  BY <1>1 DEF StoreInv, StoreTypes, TasksWhole
<1>8. OneOwner' /\ FilesListed' /\ StartsListed'
  BY <1>1 DEF StoreInv, OneOwner, FilesListed, StartsListed
<1> QED BY <1>2, <1>4, <1>5, <1>6, <1>7, <1>8 DEF StoreInv

LEMMA NextStore == ASSUME StoreInv, [StoreNext]_storeVars, ~ SharedResume PROVE StoreInv'
<1>1. ASSUME UNCHANGED storeVars PROVE StoreInv'
  <2>1. StoreTypes'
    BY <1>1 DEF StoreInv, StoreTypes, storeVars
  <2> QED BY <1>1, <2>1, StoreStays DEF StoreInv, storeVars
<1>2. ASSUME StoreNext PROVE StoreInv'
  BY <1>2, SeedKeeps, ClaimSessionKeeps, SessionWrittenKeeps, SessionFailedKeeps, ClaimTaskKeeps,
     ResumeKeeps, TaskWrittenKeeps, TaskFailedKeeps, SessionListedKeeps, ListFailedKeeps,
     SetStatusKeeps, DieKeeps, ZenonT(60) DEF StoreNext
<1> QED BY <1>1, <1>2

LEMMA StoreIsSound == StoreInv => StoreSound
<1> SUFFICES ASSUME StoreInv PROVE StoreSound
  OBVIOUS
<1>1. OneOwner
  BY DEF StoreInv
<1>2. StartedIsListed
  BY DEF StoreInv, StartsListed, StartedIsListed, ToSet
<1>3. ListedIsWhole
  BY DEF StoreInv, FilesListed, ListedIsWhole, Listed, ToSet
<1> QED BY <1>1, <1>2, <1>3 DEF StoreSound

-----------------------------------------------------------------------------
\* The log

Bodies == Payloads \union {RedactPayload[v] : v \in Payloads}
LogPieces == [id : 1 .. LogAppends, seq : 1 .. LogAppends, topic : Topic, body : Bodies, form : Forms]

LogTypes ==
    /\ redacting \in BOOLEAN /\ up \in BOOLEAN /\ writing \in BOOLEAN /\ encBroken \in BOOLEAN
    /\ disk \in Seq(LogPieces) /\ synced \in 0 .. Len(disk)
    /\ lives \in 0 .. LogLives /\ published \in 0 .. LogAppends /\ logNext \in 0 .. published
    /\ acked \in Seq(Nat) /\ applied \in Seq(Nat) /\ toApply \in Seq(LogPieces)
    /\ seen \subseteq 1 .. LogAppends

\* LogPieces lie in the order of publication.
InOrder ==
    /\ \A i, j \in 1 .. Len(disk) : i < j => disk[i].id < disk[j].id
    /\ \A i \in 1 .. Len(disk) : disk[i].id <= published

\* What was acknowledged is a whole line among those the last fsync covered.
AckedAreSynced ==
    \A k \in 1 .. Len(acked) : \E i \in 1 .. synced :
        disk[i].id = acked[k] /\ disk[i].form = "line"

\* Append is between a line and its fsync.
LineWritten == writing => up /\ Len(disk) > 0 /\ disk[Len(disk)].form = "line"

\* What the subscriber has to receive is on disk, and what it has applied it has
\* marked; between two lives it is gone.
Received ==
    /\ \A k \in 1 .. Len(toApply) : \E i \in 1 .. Len(disk) : toApply[k] = disk[i]
    /\ \A k \in 1 .. Len(applied) : \E i \in 1 .. Len(disk) :
          disk[i].id = applied[k] /\ disk[i].seq \in seen
    /\ ~ up => applied = <<>> /\ toApply = <<>>

LogInv ==
    /\ LogTypes /\ InOrder /\ AckedAreSynced /\ LineWritten /\ Received
    /\ NoSecretOnDisk /\ AppliedOnce

\* Redaction, from the leaves up: no secret is left at any of the three levels.
LEMMA RedactionIsClean == \A v \in Payloads : Secret \notin Leaves(RedactPayload[v])
<1> DEFINE two == Below(Payloads)
           leaves == Below(two)
           r0 == [v \in leaves |-> RedactValue(v, <<>>)]
           r1 == [v \in two |-> RedactValue(v, r0)]
           Clean(w) == IsLeaf(w) /\ w.leaf # Secret
<1>1. \A v, r : IsLeaf(v) => Clean(RedactValue(v, r))
  <2> SUFFICES ASSUME NEW v, NEW r, IsLeaf(v) PROVE Clean(RedactValue(v, r))
    OBVIOUS
  <2>1. RedactValue(v, r) = [leaf |-> IF v.leaf = Secret THEN Mask ELSE v.leaf]
    BY DEF RedactValue
  <2> QED BY <2>1, LogAssumption DEF IsLeaf
<1>2. ASSUME NEW v, NEW r, ~ IsLeaf(v), "kids" \in DOMAIN v
      PROVE  /\ ~ IsLeaf(RedactValue(v, r))
             /\ RedactValue(v, r).kids = [i \in DOMAIN v.kids |-> r[v.kids[i]]]
  <2>1. RedactValue(v, r) = [v EXCEPT !.kids = [i \in DOMAIN v.kids |-> r[v.kids[i]]]]
    BY <1>2 DEF RedactValue
  <2>2. DOMAIN RedactValue(v, r) = DOMAIN v
    BY <2>1
  <2> QED BY <1>2, <2>1, <2>2 DEF IsLeaf
<1>3. \A v \in leaves : Clean(r0[v])
  <2>1. \A v \in leaves : IsLeaf(v)
    BY PayloadAssumption
  <2> QED BY <1>1, <2>1
<1>4. \A v \in two : Clean(r1[v]) \/ (~ IsLeaf(r1[v]) /\ \A i \in DOMAIN r1[v].kids : Clean(r1[v].kids[i]))
  <2> SUFFICES ASSUME NEW v \in two, ~ IsLeaf(v)
               PROVE  ~ IsLeaf(r1[v]) /\ \A i \in DOMAIN r1[v].kids : Clean(r1[v].kids[i])
    BY <1>1
  <2>1. "kids" \in DOMAIN v
    BY PayloadAssumption
  <2>2. \A i \in DOMAIN v.kids : v.kids[i] \in leaves
    BY DEF Below
  <2> HIDE DEF r0, leaves
  <2>3. ~ IsLeaf(r1[v]) /\ r1[v].kids = [i \in DOMAIN v.kids |-> r0[v.kids[i]]]
    BY <1>2, <2>1
  <2> QED BY <1>3, <2>2, <2>3
<1>5. ASSUME NEW v \in Payloads PROVE Secret \notin Leaves(RedactPayload[v])
  <2>1. RedactPayload[v] = RedactValue(v, r1)
    BY DEF RedactPayload
  <2> DEFINE top == RedactValue(v, r1)
  <2>2. CASE IsLeaf(v)
    <3>1. Clean(top)
      BY <1>1, <2>2
    <3> HIDE DEF top, r1
    <3>2. Below({top}) = {} /\ Below({}) = {}
      BY <3>1 DEF Below
    <3> QED BY <2>1, <3>1, <3>2 DEF Leaves, top
  <2>3. CASE ~ IsLeaf(v)
    <3>1. "kids" \in DOMAIN v
      BY <2>3, PayloadAssumption
    <3>2. \A i \in DOMAIN v.kids : v.kids[i] \in two
      BY <2>3 DEF Below
    <3> HIDE DEF r1, two
    <3>3. ~ IsLeaf(top) /\ top.kids = [i \in DOMAIN v.kids |-> r1[v.kids[i]]]
      BY <1>2, <2>3, <3>1
    <3> HIDE DEF top
    <3> DEFINE one == Below({top})
    <3>4. \A w \in one : Clean(w) \/ (~ IsLeaf(w) /\ \A i \in DOMAIN w.kids : Clean(w.kids[i]))
      <4>1. \A w \in one : \E i \in DOMAIN v.kids : w = r1[v.kids[i]]
        BY <3>3 DEF Below
      <4> HIDE DEF one
      <4> QED BY <1>4, <3>2, <4>1
    <3> HIDE DEF one
    <3>5. \A w \in Below(one) : Clean(w)
      BY <3>4 DEF Below
    <3>6. \A w \in {top} \union one \union Below(one) : IsLeaf(w) => w.leaf # Secret
      BY <3>3, <3>4, <3>5
    <3> QED BY <2>1, <3>6 DEF Leaves, top, one
  <2> QED BY <2>2, <2>3
<1> QED BY <1>5

\* A number behind the first of a range and not in it.
LEMMA LastOfAll ==
  ASSUME NEW n \in Nat, NEW s \in 1 .. n, NEW k \in 1 .. n, k # s, k \notin s .. n - 1
  PROVE  k <= s - 1 \/ (k = n /\ k > 1 /\ k - 1 \in s .. n - 1)
OBVIOUS

\* Replay reads the first records of the file, and every whole line unless it
\* returns an error, or ErrTruncatedLog with a gap in front of the last one.
LEMMA ReplayReads ==
  ASSUME NEW f \in Seq(LogPieces)
  PROVE  /\ Replay(f).got \in Seq(LogPieces) /\ Len(Replay(f).got) <= Len(f)
         /\ \A k \in 1 .. Len(Replay(f).got) : Replay(f).got[k] = f[k]
         /\ Replay(f).says # "error" =>
               \A k \in 1 .. Len(f) : f[k].form = "line" =>
                   \/ k <= Len(Replay(f).got)
                   \/ /\ Replay(f).says = "truncated"
                      /\ k = Len(f) /\ k > 1 /\ f[k - 1].form = "gap"
<1> DEFINE bad == {i \in DOMAIN f : Decodes(f, i) # "ok"}
           stop == CHOOSE i \in bad : \A j \in bad : i <= j
           r == Replay(f)
<1>1. DOMAIN f = 1 .. Len(f) /\ Len(f) \in Nat
  BY LenProperties
<1>2. CASE bad = {}
  <2>1. r = [says |-> "ok", got |-> f]
    BY <1>2 DEF Replay
  <2> QED BY <1>1, <2>1
<1>3. CASE bad # {}
  <2>1. bad \in SUBSET Nat
    BY <1>1
  <2> HIDE DEF bad
  <2>2. stop \in bad
    <3>1. \E i \in bad : \A j \in bad : i <= j
      BY <1>3, <2>1, LeastNat
    <3> QED BY <3>1
  <2>3. stop \in 1 .. Len(f) /\ Decodes(f, stop) # "ok"
    BY <1>1, <2>2 DEF bad
  <2>4. Decodes(f, stop) = "error" => r = [says |-> "error", got |-> <<>>]
    BY <1>3 DEF Replay, bad
  <2>5. Decodes(f, stop) # "error" => r = [says |-> "truncated", got |-> SubSeq(f, 1, stop - 1)]
    BY <1>3 DEF Replay, bad
  <2> HIDE DEF stop, r
  <2>6. CASE Decodes(f, stop) = "error"
    <3>1. Replay(f).says = "error" /\ Replay(f).got = <<>>
      BY <2>4, <2>6 DEF r
    <3>2. <<>> \in Seq(LogPieces) /\ Len(<<>>) = 0
      OBVIOUS
    <3> QED BY <1>1, <3>1, <3>2
  <2>7. CASE Decodes(f, stop) # "error"
    <3>1. f[stop].form \in {"torn", "gap"} /\ \A j \in stop .. Len(f) - 1 : f[j].form = "gap"
      BY <2>3, <2>7 DEF Decodes, Fragments
    <3> DEFINE g == SubSeq(f, 1, stop - 1)
    <3>2. g \in Seq(LogPieces) /\ Len(g) = stop - 1 /\ \A k \in 1 .. stop - 1 : g[k] = f[k]
      BY <1>1, <2>3
    <3>3. ASSUME NEW k \in 1 .. Len(f), f[k].form = "line"
          PROVE  k <= stop - 1 \/ (k = Len(f) /\ k > 1 /\ f[k - 1].form = "gap")
      <4>1. k # stop
        BY <3>1, <3>3
      <4>2. k \notin stop .. Len(f) - 1
        BY <3>1, <3>3
      <4>3. k <= stop - 1 \/ (k = Len(f) /\ k > 1 /\ k - 1 \in stop .. Len(f) - 1)
        BY <1>1, <2>3, <3>3, <4>1, <4>2, LastOfAll
      <4> QED BY <3>1, <4>3
    <3> HIDE DEF g
    <3>4. r.got = g /\ r.says = "truncated"
      BY <2>5, <2>7 DEF g
    <3>5. Len(g) <= Len(f)
      BY <1>1, <2>3, <3>2
    <3>6. \A k \in 1 .. Len(r.got) : r.got[k] = f[k]
      BY <3>2, <3>4
    <3>7. \A k \in 1 .. Len(f) : f[k].form = "line" =>
             \/ k <= Len(r.got)
             \/ r.says = "truncated" /\ k = Len(f) /\ k > 1 /\ f[k - 1].form = "gap"
      BY <3>2, <3>3, <3>4
    <3> QED BY <3>2, <3>4, <3>5, <3>6, <3>7 DEF r
  <2> QED BY <2>6, <2>7
<1> QED BY <1>2, <1>3

LEMMA PiecesTyped ==
  ASSUME LogInv
  PROVE  /\ Len(disk) \in Nat /\ DOMAIN disk = 1 .. Len(disk) /\ published \in Nat
         /\ \A i \in 1 .. Len(disk) : disk[i] \in LogPieces /\ disk[i].id \in Nat /\ disk[i].seq \in 1 .. LogAppends
<1>1. disk \in Seq(LogPieces) /\ published \in Nat
  BY DEF LogInv, LogTypes
<1>2. \A i \in 1 .. Len(disk) : disk[i] \in LogPieces
  BY <1>1, ElementOfSeq
<1>3. \A q \in LogPieces : q.id \in Nat /\ q.seq \in 1 .. LogAppends
  BY DEF LogPieces
<1> QED BY <1>1, <1>2, <1>3, LenProperties

\* An event that leaves no piece.
LEMMA OrderStays ==
  ASSUME LogInv, UNCHANGED disk, published' = published + 1 PROVE InOrder'
<1>1. \A i \in 1 .. Len(disk) : disk[i].id <= published + 1
  BY PiecesTyped DEF LogInv, InOrder
<1> QED BY <1>1 DEF LogInv, InOrder

LEMMA LogIsSound == LogInv => LogSound
<1> SUFFICES ASSUME LogInv PROVE LogSound
  OBVIOUS
<1>1. DOMAIN disk = 1 .. Len(disk) /\ Len(disk) \in Nat /\ \A i \in DOMAIN disk : disk[i] \in LogPieces
  BY ElementOfSeq, LenProperties DEF LogInv, LogTypes
<1>2. LogTypeOK
  <2>1. logNext \in 0 .. LogAppends
    BY LogAssumption DEF LogInv, LogTypes
  <2> QED BY <1>1, <2>1 DEF LogInv, LogTypes, LogTypeOK, LogPieces
<1>3. NoSilentLoss
  <2> DEFINE r == Replay(disk)
             Got(id) == \E j \in DOMAIN r.got : r.got[j].id = id
  <2> SUFFICES ASSUME r.says # "error"
               PROVE  /\ Increasing(Ids(r.got))
                      /\ \A i \in DOMAIN acked :
                            Got(acked[i]) \/ (r.says = "truncated" /\ Swallowed(disk, acked[i]))
    BY DEF NoSilentLoss
  <2>1. /\ r.got \in Seq(LogPieces) /\ Len(r.got) <= Len(disk)
        /\ \A k \in 1 .. Len(r.got) : r.got[k] = disk[k]
        /\ \A k \in 1 .. Len(disk) : disk[k].form = "line" =>
              \/ k <= Len(r.got)
              \/ r.says = "truncated" /\ k = Len(disk) /\ k > 1 /\ disk[k - 1].form = "gap"
    BY ReplayReads DEF LogInv, LogTypes
  <2> DEFINE m == Len(r.got)
             n == Len(disk)
  <2> HIDE DEF r, Got
  <2>2. DOMAIN r.got = 1 .. m /\ m \in Nat /\ n \in Nat /\ m <= n
    BY <1>1, <2>1, LenProperties
  <2> HIDE DEF m, n
  <2>0. \A k \in 1 .. m : k \in 1 .. n
    BY <2>2
  <2>3. Increasing(Ids(r.got))
    <3>1. DOMAIN Ids(r.got) = 1 .. Len(r.got) /\ \A i \in 1 .. Len(r.got) : Ids(r.got)[i] = disk[i].id
      BY <2>1, <2>2 DEF Ids, m
    <3>2. ASSUME NEW a \in 1 .. Len(r.got), NEW b \in 1 .. Len(r.got), a < b
          PROVE  Ids(r.got)[a] < Ids(r.got)[b]
      <4>1. a \in 1 .. Len(disk) /\ b \in 1 .. Len(disk)
        BY <2>0 DEF m, n
      <4>2. disk[a].id < disk[b].id
        BY <3>2, <4>1 DEF LogInv, InOrder
      <4> QED BY <3>1, <4>2
    <3> QED BY <3>1, <3>2 DEF Increasing
  <2>4. ASSUME NEW i \in DOMAIN acked
        PROVE  Got(acked[i]) \/ (r.says = "truncated" /\ Swallowed(disk, acked[i]))
    <3>1. i \in 1 .. Len(acked)
      BY LenProperties DEF LogInv, LogTypes
    <3>2. PICK k \in 1 .. synced : disk[k].id = acked[i] /\ disk[k].form = "line"
      BY <3>1 DEF LogInv, AckedAreSynced
    <3>3. k \in 1 .. Len(disk)
      BY <1>1 DEF LogInv, LogTypes
    <3>4. CASE k <= Len(r.got)
      <4>1. k \in 1 .. m
        BY <2>2, <3>4 DEF m
      <4>2. r.got[k] = disk[k]
        BY <2>1, <4>1 DEF m
      <4> QED BY <2>2, <3>2, <4>1, <4>2 DEF Got
    <3>5. CASE r.says = "truncated" /\ k = Len(disk) /\ k > 1 /\ disk[k - 1].form = "gap"
      BY <3>2, <3>5 DEF Swallowed
    <3> QED BY <2>1, <3>2, <3>3, <3>4, <3>5
  <2> QED BY <2>3, <2>4
<1> QED BY <1>2, <1>3 DEF LogSound, LogInv

LEMMA InitLog == LogInit => LogInv
<1> SUFFICES ASSUME LogInit PROVE LogInv
  OBVIOUS
<1>1. LogTypes
  <2>1. redacting \in BOOLEAN
    BY LogAssumption DEF LogInit
  <2>2. /\ disk \in Seq(LogPieces) /\ synced \in 0 .. Len(disk)
        /\ acked \in Seq(Nat) /\ applied \in Seq(Nat) /\ toApply \in Seq(LogPieces)
    BY DEF LogInit
  <2>3. lives \in 0 .. LogLives /\ published \in 0 .. LogAppends /\ logNext \in 0 .. published
    BY LogAssumption DEF LogInit
  <2> QED BY <2>1, <2>2, <2>3 DEF LogInit, LogTypes
<1>2. InOrder /\ AckedAreSynced /\ LineWritten /\ Received
  BY DEF LogInit, InOrder, AckedAreSynced, LineWritten, Received
<1>3. NoSecretOnDisk /\ AppliedOnce
  BY DEF LogInit, NoSecretOnDisk, AppliedOnce
<1> QED BY <1>1, <1>2, <1>3 DEF LogInv

\* The file gets a piece, of the newest event.
LEMMA AppendedPiece ==
  ASSUME LogInv, up, ~ writing, published < LogAppends, NEW t \in Topic, NEW b \in Payloads, NEW form \in Forms,
         disk' = Append(disk, Line(t, b, form)), published' = published + 1,
         UNCHANGED <<redacting, synced, up, acked, seen, applied, toApply>>
  PROVE  /\ disk' \in Seq(LogPieces) /\ Len(disk') = Len(disk) + 1 /\ disk'[Len(disk')].form = form
         /\ InOrder' /\ AckedAreSynced' /\ Received' /\ NoSecretOnDisk' /\ AppliedOnce'
<1> DEFINE piece == Line(t, b, form)
<1>1. Encoded(b) \in Bodies /\ (redacting => Encoded(b) = RedactPayload[b])
  BY DEF Encoded, Bodies
<1>2. piece \in LogPieces /\ piece.id = published + 1 /\ piece.body = Encoded(b) /\ piece.form = form
  <2>1. published + 1 \in 1 .. LogAppends /\ logNext + 1 \in 1 .. LogAppends
    BY LogAssumption DEF LogInv, LogTypes
  <2> QED BY <1>1, <2>1 DEF Line, LogPieces
<1> HIDE DEF piece
<1>3. /\ disk \in Seq(LogPieces) /\ Len(disk) \in Nat /\ published \in Nat /\ DOMAIN disk = 1 .. Len(disk)
      /\ \A i \in 1 .. Len(disk) : disk[i] \in LogPieces
  BY ElementOfSeq, LenProperties DEF LogInv, LogTypes
<1>4. /\ disk' \in Seq(LogPieces) /\ Len(disk') = Len(disk) + 1 /\ DOMAIN disk' = 1 .. Len(disk) + 1
      /\ \A i \in 1 .. Len(disk) : disk'[i] = disk[i]
      /\ disk'[Len(disk) + 1] = piece
  BY <1>2, <1>3 DEF piece
<1>5. InOrder'
  <2>1. \A i \in 1 .. Len(disk) : disk[i].id \in Nat /\ disk[i].id <= published
    BY <1>3 DEF LogInv, InOrder, LogPieces
  <2> QED BY <1>2, <1>3, <1>4, <2>1 DEF LogInv, InOrder
<1>6. AckedAreSynced'
  <2>1. \A i \in 1 .. synced : i \in 1 .. Len(disk)
    BY <1>3 DEF LogInv, LogTypes
  <2> QED BY <1>4, <2>1 DEF LogInv, AckedAreSynced
<1>7. Received'
  <2>1. \A i \in 1 .. Len(disk) : i \in 1 .. Len(disk') /\ disk'[i] = disk[i]
    BY <1>3, <1>4
  <2> QED BY <2>1 DEF LogInv, Received
<1>8. NoSecretOnDisk'
  <2> SUFFICES ASSUME redacting, NEW i \in 1 .. Len(disk) + 1 PROVE Secret \notin Leaves(disk'[i].body)
    BY <1>4 DEF NoSecretOnDisk
  <2>1. CASE i = Len(disk) + 1
    BY <1>1, <1>2, <1>4, <2>1, RedactionIsClean
  <2>2. CASE i \in 1 .. Len(disk)
    BY <1>3, <1>4, <2>2 DEF LogInv, NoSecretOnDisk
  <2> QED BY <1>3, <2>1, <2>2
<1>9. AppliedOnce'
  BY DEF LogInv, AppliedOnce
<1> QED BY <1>2, <1>3, <1>4, <1>5, <1>6, <1>7, <1>8, <1>9

\* What a step leaves alone stays.
LEMMA LogStays ==
  ASSUME LogInv, UNCHANGED <<redacting, disk, synced, up, published, acked, seen, applied, toApply>>
  PROVE  InOrder' /\ AckedAreSynced' /\ Received' /\ NoSecretOnDisk' /\ AppliedOnce'
<1>1. InOrder' /\ AckedAreSynced'
  BY DEF LogInv, InOrder, AckedAreSynced
<1>2. Received'
  BY DEF LogInv, Received
<1>3. NoSecretOnDisk' /\ AppliedOnce'
  BY DEF LogInv, NoSecretOnDisk, AppliedOnce
<1> QED BY <1>1, <1>2, <1>3

LEMMA AppendLineKeeps ==
  ASSUME LogInv, NEW t \in Topic, NEW b \in Payloads, AppendLine(t, b) PROVE LogInv'
<1>1. /\ up /\ ~ writing /\ published < LogAppends /\ disk' = Append(disk, Line(t, b, "line"))
      /\ published' = published + 1 /\ logNext' = logNext + 1 /\ writing' = TRUE
      /\ UNCHANGED <<redacting, synced, up, acked, seen, applied, toApply, lives, encBroken>>
  BY DEF AppendLine
<1>2. /\ disk' \in Seq(LogPieces) /\ Len(disk') = Len(disk) + 1 /\ disk'[Len(disk')].form = "line"
      /\ InOrder' /\ AckedAreSynced' /\ Received' /\ NoSecretOnDisk' /\ AppliedOnce'
  BY <1>1, AppendedPiece DEF Forms, Fragments
<1>3. Len(disk) \in Nat /\ synced \in 0 .. Len(disk')
  BY <1>2, LenProperties DEF LogInv, LogTypes
<1>4. LogTypes'
  <2>1. published' \in 0 .. LogAppends /\ logNext' \in 0 .. published'
    BY <1>1, LogAssumption DEF LogInv, LogTypes
  <2> QED BY <1>1, <1>2, <1>3, <2>1 DEF LogInv, LogTypes
<1>5. LineWritten'
  BY <1>1, <1>2, <1>3 DEF LineWritten
<1> QED BY <1>2, <1>4, <1>5 DEF LogInv

LEMMA AppendShortKeeps ==
  ASSUME LogInv, NEW t \in Topic, NEW b \in Payloads, AppendShort(t, b) PROVE LogInv'
<1>1. /\ up /\ ~ writing /\ published < LogAppends
      /\ published' = published + 1 /\ logNext' = logNext + 1
      /\ encBroken' = ~ redacting
      /\ UNCHANGED <<redacting, synced, up, acked, seen, applied, toApply, lives, writing>>
  BY DEF AppendShort
<1>2. published' \in 0 .. LogAppends /\ logNext' \in 0 .. published'
  BY <1>1, LogAssumption DEF LogInv, LogTypes
<1>3. encBroken' \in BOOLEAN
  BY <1>1
<1>4. LineWritten'
  BY <1>1 DEF LineWritten
<1>5. CASE UNCHANGED disk
  <2>1. InOrder'
    BY <1>1, <1>5, OrderStays
  <2>2. AckedAreSynced' /\ Received' /\ NoSecretOnDisk' /\ AppliedOnce'
    BY <1>1, <1>5 DEF LogInv, AckedAreSynced, Received, NoSecretOnDisk, AppliedOnce
  <2>3. LogTypes'
    BY <1>1, <1>2, <1>3, <1>5 DEF LogInv, LogTypes
  <2> QED BY <1>4, <2>1, <2>2, <2>3 DEF LogInv
<1>6. ASSUME NEW form \in {"open"} \union Fragments, disk' = Append(disk, Line(t, b, form)) PROVE LogInv'
  <2>1. /\ disk' \in Seq(LogPieces) /\ Len(disk') = Len(disk) + 1
        /\ InOrder' /\ AckedAreSynced' /\ Received' /\ NoSecretOnDisk' /\ AppliedOnce'
    BY <1>1, <1>6, AppendedPiece DEF Forms, Fragments
  <2>2. Len(disk) \in Nat /\ synced \in 0 .. Len(disk')
    BY <2>1, LenProperties DEF LogInv, LogTypes
  <2>3. LogTypes'
    BY <1>1, <1>2, <1>3, <2>1, <2>2 DEF LogInv, LogTypes
  <2> QED BY <1>4, <2>1, <2>3 DEF LogInv
<1> QED BY <1>5, <1>6 DEF AppendShort

LEMMA AppendRefusedKeeps == ASSUME LogInv, AppendRefused PROVE LogInv'
<1>1. /\ published < LogAppends /\ published' = published + 1 /\ logNext' = logNext + 1
      /\ UNCHANGED <<redacting, disk, synced, up, lives, encBroken, writing, acked, seen, applied, toApply>>
  BY DEF AppendRefused
<1>2. published' \in 0 .. LogAppends /\ logNext' \in 0 .. published'
  BY <1>1, LogAssumption DEF LogInv, LogTypes
<1>3. InOrder'
  BY <1>1, OrderStays
<1>4. LineWritten' /\ AckedAreSynced' /\ Received' /\ NoSecretOnDisk' /\ AppliedOnce'
  BY <1>1 DEF LogInv, LineWritten, AckedAreSynced, Received, NoSecretOnDisk, AppliedOnce
<1>5. LogTypes'
  BY <1>1, <1>2 DEF LogInv, LogTypes
<1> QED BY <1>3, <1>4, <1>5 DEF LogInv

LEMMA AppendSyncKeeps == ASSUME LogInv, AppendSync PROVE LogInv'
<1> DEFINE n == Len(disk)
<1>1. /\ writing /\ synced' = n /\ acked' = Append(acked, disk[n].id)
      /\ toApply' = Append(toApply, disk[n]) /\ writing' = FALSE
      /\ UNCHANGED <<redacting, disk, up, lives, logNext, encBroken, published, seen, applied>>
  BY DEF AppendSync, SyncedAll
<1>2. /\ up /\ n \in Nat /\ n \in 1 .. n /\ disk[n].form = "line"
      /\ disk[n] \in LogPieces /\ disk[n].id \in Nat
  <2>1. up /\ n \in 1 .. n /\ disk[n].form = "line" /\ disk \in Seq(LogPieces) /\ n \in Nat
    BY <1>1, LenProperties DEF LogInv, LogTypes, LineWritten
  <2>2. disk[n] \in LogPieces
    BY <2>1, ElementOfSeq
  <2> QED BY <2>1, <2>2 DEF LogPieces
<1> HIDE DEF n
<1>3. LogTypes'
  <2>1. acked' \in Seq(Nat) /\ toApply' \in Seq(LogPieces)
    BY <1>1, <1>2 DEF LogInv, LogTypes
  <2>2. synced' \in 0 .. Len(disk')
    BY <1>1, <1>2 DEF n
  <2> QED BY <1>1, <2>1, <2>2 DEF LogInv, LogTypes
<1>4. AckedAreSynced'
  <2> SUFFICES ASSUME NEW k \in 1 .. Len(acked')
               PROVE  \E i \in 1 .. n : disk[i].id = acked'[k] /\ disk[i].form = "line"
    BY <1>1 DEF AckedAreSynced
  <2>1. Len(acked) \in Nat /\ Len(acked') = Len(acked) + 1 /\ acked \in Seq(Nat)
    BY <1>1, LenProperties, AppendProperties DEF LogInv, LogTypes
  <2>2. CASE k = Len(acked) + 1
    <3>1. acked'[k] = disk[n].id
      BY <1>1, <1>2, <2>1, <2>2, AppendProperties
    <3> QED BY <1>2, <3>1
  <2>3. CASE k \in 1 .. Len(acked)
    <3>1. acked'[k] = acked[k]
      BY <1>1, <1>2, <2>1, <2>3, AppendProperties
    <3>2. PICK i \in 1 .. synced : disk[i].id = acked[k] /\ disk[i].form = "line"
      BY <2>3 DEF LogInv, AckedAreSynced
    <3>3. i \in 1 .. n
      BY <1>2 DEF LogInv, LogTypes, n
    <3> QED BY <3>1, <3>2, <3>3
  <2> QED BY <2>1, <2>2, <2>3
<1>5. Received'
  <2>1. \A k \in 1 .. Len(toApply') : \E i \in 1 .. n : toApply'[k] = disk[i]
    <3> SUFFICES ASSUME NEW k \in 1 .. Len(toApply') PROVE \E i \in 1 .. n : toApply'[k] = disk[i]
      OBVIOUS
    <3>1. /\ Len(toApply) \in Nat /\ Len(toApply') = Len(toApply) + 1 /\ toApply \in Seq(LogPieces)
      BY <1>1, <1>2, LenProperties, AppendProperties DEF LogInv, LogTypes
    <3>2. CASE k = Len(toApply) + 1
      <4>1. toApply'[k] = disk[n]
        BY <1>1, <1>2, <3>1, <3>2, AppendProperties
      <4> QED BY <1>2, <4>1
    <3>3. CASE k \in 1 .. Len(toApply)
      <4>1. toApply'[k] = toApply[k]
        BY <1>1, <1>2, <3>1, <3>3, AppendProperties
      <4> QED BY <3>3, <4>1 DEF LogInv, Received, n
    <3> QED BY <3>1, <3>2, <3>3
  <2> QED BY <1>1, <1>2, <2>1 DEF LogInv, Received, n
<1>6. InOrder' /\ LineWritten' /\ NoSecretOnDisk' /\ AppliedOnce'
  BY <1>1 DEF LogInv, InOrder, LineWritten, NoSecretOnDisk, AppliedOnce
<1> QED BY <1>3, <1>4, <1>5, <1>6 DEF LogInv

LEMMA AppendSyncFailedKeeps == ASSUME LogInv, AppendSyncFailed PROVE LogInv'
<1>1. /\ writing' = FALSE
      /\ UNCHANGED <<redacting, disk, synced, up, lives, logNext, encBroken, published, acked, seen, applied, toApply>>
  BY DEF AppendSyncFailed
<1>2. LogTypes' /\ LineWritten'
  BY <1>1 DEF LogInv, LogTypes, LineWritten
<1> QED BY <1>1, <1>2, LogStays DEF LogInv

LEMMA OpenBusKeeps == ASSUME LogInv, OpenBus PROVE LogInv'
<1>1. /\ ~ up /\ lives < LogLives /\ up' = TRUE /\ lives' = lives + 1 /\ logNext' = 0
      /\ encBroken' = FALSE /\ seen' = {} /\ toApply' = Replay(disk).got
      /\ UNCHANGED <<redacting, disk, synced, writing, published, acked, applied>>
  BY DEF OpenBus
<1>2. applied = <<>> /\ ~ writing
  BY <1>1 DEF LogInv, Received, LineWritten
<1>3. /\ toApply' \in Seq(LogPieces) /\ Len(toApply') <= Len(disk)
      /\ \A k \in 1 .. Len(toApply') : toApply'[k] = disk[k]
  BY <1>1, ReplayReads DEF LogInv, LogTypes
<1>4. LogTypes'
  <2>1. lives' \in 0 .. LogLives /\ logNext' \in 0 .. published'
    BY <1>1, LogAssumption DEF LogInv, LogTypes
  <2>2. UNCHANGED <<redacting, disk, synced, writing, published, acked, applied>> /\ up' = TRUE
        /\ encBroken' = FALSE /\ seen' = {}
    BY <1>1
  <2> HIDE <1>1
  <2> QED BY <1>3, <2>1, <2>2 DEF LogInv, LogTypes
<1>5. Received'
  <2>1. \A k \in 1 .. Len(toApply') : k \in 1 .. Len(disk)
    BY <1>3, PiecesTyped, LenProperties
  <2>2. Len(applied') = 0 /\ disk' = disk /\ up'
    BY <1>1, <1>2
  <2> QED BY <1>3, <2>1, <2>2 DEF Received
<1>6. InOrder' /\ AckedAreSynced' /\ LineWritten' /\ NoSecretOnDisk' /\ AppliedOnce'
  <2>1. UNCHANGED <<redacting, disk, synced, writing, published, acked, applied>>
    BY <1>1
  <2> QED BY <1>2, <2>1 DEF LogInv, InOrder, AckedAreSynced, LineWritten, NoSecretOnDisk, AppliedOnce
<1> QED BY <1>4, <1>5, <1>6 DEF LogInv

\* The subscriber's: an event it has applied has its Seq in seen, and no other
\* piece has that event's number.
LEMMA ApplyNextKeeps == ASSUME LogInv, ApplyNext PROVE LogInv'
<1> DEFINE e == Head(toApply)
<1>1. /\ up /\ toApply # <<>> /\ toApply' = Tail(toApply) /\ seen' = seen \union {e.seq}
      /\ applied' = (IF e.seq \notin seen THEN Append(applied, e.id) ELSE applied)
      /\ UNCHANGED <<redacting, disk, synced, up, lives, logNext, encBroken, writing, published, acked>>
  BY DEF ApplyNext, Mark
<1>2. /\ toApply \in Seq(LogPieces) /\ applied \in Seq(Nat) /\ Len(toApply) \in Nat /\ Len(toApply) > 0
      /\ Len(applied) \in Nat
  BY <1>1, LenProperties, EmptySeq DEF LogInv, LogTypes
<1>3. /\ toApply' \in Seq(LogPieces) /\ Len(toApply') = Len(toApply) - 1 /\ e = toApply[1]
      /\ \A k \in 1 .. Len(toApply') : toApply'[k] = toApply[k + 1]
  BY <1>1, <1>2, HeadTailProperties
<1>4. PICK i \in 1 .. Len(disk) : e = disk[i]
  BY <1>2, <1>3 DEF LogInv, Received
<1>5. e.id \in Nat /\ e.seq \in 1 .. LogAppends
  BY <1>4, PiecesTyped
<1> HIDE DEF e
<1>6. applied' \in Seq(Nat)
  BY <1>1, <1>2, <1>5, AppendProperties
<1>7. LogTypes'
  BY <1>1, <1>3, <1>5, <1>6 DEF LogInv, LogTypes
<1>8. Received'
  <2>1. \A k \in 1 .. Len(toApply') : \E j \in 1 .. Len(disk) : toApply'[k] = disk[j]
    <3> SUFFICES ASSUME NEW k \in 1 .. Len(toApply') PROVE \E j \in 1 .. Len(disk) : toApply'[k] = disk[j]
      OBVIOUS
    <3>1. k + 1 \in 1 .. Len(toApply) /\ toApply'[k] = toApply[k + 1]
      BY <1>2, <1>3
    <3> QED BY <3>1 DEF LogInv, Received
  <2>2. \A k \in 1 .. Len(applied') : \E j \in 1 .. Len(disk) : disk[j].id = applied'[k] /\ disk[j].seq \in seen'
    <3>1. \A k \in 1 .. Len(applied) : \E j \in 1 .. Len(disk) : disk[j].id = applied[k] /\ disk[j].seq \in seen'
      BY <1>1 DEF LogInv, Received
    <3>2. CASE e.seq \notin seen
      <4>1. /\ Len(applied') = Len(applied) + 1 /\ applied'[Len(applied) + 1] = e.id
            /\ \A k \in 1 .. Len(applied) : applied'[k] = applied[k]
        BY <1>1, <1>2, <1>5, <3>2, AppendProperties
      <4>2. \E j \in 1 .. Len(disk) : disk[j].id = e.id /\ disk[j].seq \in seen'
        BY <1>1, <1>4
      <4> SUFFICES ASSUME NEW k \in 1 .. Len(applied')
                   PROVE \E j \in 1 .. Len(disk) : disk[j].id = applied'[k] /\ disk[j].seq \in seen'
        OBVIOUS
      <4>3. CASE k = Len(applied) + 1
        BY <4>1, <4>2, <4>3
      <4>4. CASE k \in 1 .. Len(applied)
        <5>1. applied'[k] = applied[k]
          BY <4>1, <4>4
        <5> QED BY <3>1, <4>4, <5>1
      <4> QED BY <1>2, <4>1, <4>3, <4>4
    <3>3. CASE e.seq \in seen
      BY <1>1, <3>1, <3>3
    <3> QED BY <3>2, <3>3
  <2> QED BY <1>1, <2>1, <2>2 DEF Received
<1>9. AppliedOnce'
  <2>1. DOMAIN applied = 1 .. Len(applied)
    BY <1>2, LenProperties
  <2>2. CASE e.seq \notin seen
    <3>1. /\ DOMAIN applied' = 1 .. Len(applied) + 1 /\ applied'[Len(applied) + 1] = e.id
          /\ \A k \in 1 .. Len(applied) : applied'[k] = applied[k]
      BY <1>1, <1>2, <1>5, <1>6, <2>2, AppendProperties, LenProperties
    <3>2. \A k \in 1 .. Len(applied) : applied[k] # e.id
      <4> SUFFICES ASSUME NEW k \in 1 .. Len(applied), applied[k] = e.id PROVE FALSE
        OBVIOUS
      <4>1. PICK j \in 1 .. Len(disk) : disk[j].id = applied[k] /\ disk[j].seq \in seen
        BY DEF LogInv, Received
      <4>2. i = j
        BY <1>4, <4>1, PiecesTyped DEF LogInv, InOrder
      <4> QED BY <1>4, <2>2, <4>1, <4>2
    <3>3. \A x, y \in 1 .. Len(applied) : x # y => applied[x] # applied[y]
      BY <2>1 DEF LogInv, AppliedOnce
    <3> SUFFICES ASSUME NEW x \in 1 .. Len(applied) + 1, NEW y \in 1 .. Len(applied) + 1, x # y
                 PROVE  applied'[x] # applied'[y]
      BY <3>1 DEF AppliedOnce
    <3>4. CASE x \in 1 .. Len(applied) /\ y \in 1 .. Len(applied)
      BY <3>1, <3>3, <3>4
    <3>5. CASE x = Len(applied) + 1 /\ y \in 1 .. Len(applied)
      BY <3>1, <3>2, <3>5
    <3>6. CASE x \in 1 .. Len(applied) /\ y = Len(applied) + 1
      BY <3>1, <3>2, <3>6
    <3> QED BY <1>2, <3>4, <3>5, <3>6
  <2>3. CASE e.seq \in seen
    BY <1>1, <2>3 DEF LogInv, AppliedOnce
  <2> QED BY <2>2, <2>3
<1>10. InOrder' /\ AckedAreSynced' /\ LineWritten' /\ NoSecretOnDisk'
  BY <1>1 DEF LogInv, InOrder, AckedAreSynced, LineWritten, NoSecretOnDisk
<1> QED BY <1>7, <1>8, <1>9, <1>10 DEF LogInv

LEMMA RedeliverKeeps == ASSUME LogInv, Redeliver PROVE LogInv'
<1>1. /\ up /\ toApply # <<>> /\ toApply' = <<Head(toApply)>> \o toApply
      /\ UNCHANGED <<redacting, disk, synced, up, lives, logNext, encBroken, writing, published, acked, seen, applied>>
  BY DEF Redeliver
<1>2. toApply \in Seq(LogPieces) /\ Len(toApply) \in Nat /\ Len(toApply) > 0
  BY <1>1, LenProperties, EmptySeq DEF LogInv, LogTypes
<1>3. Head(toApply) = toApply[1] /\ Head(toApply) \in LogPieces
  BY <1>1, <1>2, HeadTailProperties
<1>4. /\ toApply' \in Seq(LogPieces) /\ Len(toApply') = Len(toApply) + 1
      /\ \A k \in 1 .. Len(toApply') : toApply'[k] = IF k = 1 THEN toApply[1] ELSE toApply[k - 1]
  BY <1>1, <1>2, <1>3
<1>5. LogTypes'
  BY <1>1, <1>4 DEF LogInv, LogTypes
<1>6. \A k \in 1 .. Len(toApply') : \E j \in 1 .. Len(disk) : toApply'[k] = disk[j]
  <2>1. \A k \in 1 .. Len(toApply) : \E j \in 1 .. Len(disk) : toApply[k] = disk[j]
    BY DEF LogInv, Received
  <2>2. \A k \in 1 .. Len(toApply') : (IF k = 1 THEN 1 ELSE k - 1) \in 1 .. Len(toApply)
    BY <1>2, <1>4
  <2> SUFFICES ASSUME NEW k \in 1 .. Len(toApply') PROVE \E j \in 1 .. Len(disk) : toApply'[k] = disk[j]
    OBVIOUS
  <2> DEFINE o == IF k = 1 THEN 1 ELSE k - 1
  <2>3. o \in 1 .. Len(toApply) /\ toApply'[k] = toApply[o]
    BY <1>4, <2>2
  <2> HIDE DEF o
  <2> QED BY <2>1, <2>3
<1>7. Received'
  BY <1>1, <1>6 DEF LogInv, Received
<1>8. InOrder' /\ AckedAreSynced' /\ LineWritten' /\ NoSecretOnDisk' /\ AppliedOnce'
  BY <1>1 DEF LogInv, InOrder, AckedAreSynced, LineWritten, NoSecretOnDisk, AppliedOnce
<1> QED BY <1>5, <1>7, <1>8 DEF LogInv

LEMMA CloseFileKeeps == ASSUME LogInv, CloseFile PROVE LogInv'
<1>1. /\ ~ writing /\ up' = FALSE /\ toApply' = <<>> /\ seen' = {} /\ applied' = <<>>
      /\ UNCHANGED <<redacting, disk, synced, lives, logNext, encBroken, writing, published, acked>>
  BY DEF CloseFile
<1>2. LogTypes'
  <2>1. <<>> \in Seq(Nat) /\ <<>> \in Seq(LogPieces)
    BY EmptySeq
  <2>2. applied' \in Seq(Nat) /\ toApply' \in Seq(LogPieces)
    BY <1>1, <2>1
  <2>3. up' \in BOOLEAN /\ writing' \in BOOLEAN /\ seen' \subseteq 1 .. LogAppends
    BY <1>1 DEF LogInv, LogTypes
  <2>4. UNCHANGED <<redacting, disk, synced, lives, logNext, encBroken, published, acked>>
    BY <1>1
  <2> HIDE <1>1
  <2> QED BY <2>2, <2>3, <2>4 DEF LogInv, LogTypes
<1>3. LineWritten' /\ Received' /\ AppliedOnce'
  BY <1>1 DEF LineWritten, Received, AppliedOnce
<1>4. InOrder' /\ AckedAreSynced' /\ NoSecretOnDisk'
  BY <1>1 DEF LogInv, InOrder, AckedAreSynced, NoSecretOnDisk
<1> QED BY <1>2, <1>3, <1>4 DEF LogInv

\* A prefix of the file is left that holds what was synced; its last piece may be
\* cut, which was not.
LEMMA CrashKeeps == ASSUME LogInv, Crash PROVE LogInv'
<1>1. /\ up' = FALSE /\ writing' = FALSE /\ toApply' = <<>> /\ seen' = {} /\ applied' = <<>>
      /\ UNCHANGED <<redacting, synced, lives, logNext, encBroken, published, acked>>
  BY DEF Crash
<1>2. PICK n \in synced .. Len(disk), form \in Forms :
        disk' = IF n = synced THEN SubSeq(disk, 1, n)
                ELSE [SubSeq(disk, 1, n) EXCEPT ![n].form = IF disk[n].form = "line" THEN form ELSE @]
  BY DEF Crash
<1>3. /\ disk \in Seq(LogPieces) /\ Len(disk) \in Nat /\ synced \in 0 .. Len(disk) /\ n \in 0 .. Len(disk)
      /\ \A i \in 1 .. Len(disk) : disk[i] \in LogPieces
  BY PiecesTyped DEF LogInv, LogTypes
<1> DEFINE g == SubSeq(disk, 1, n)
<1>4. g \in Seq(LogPieces) /\ Len(g) = n /\ \A i \in 1 .. n : g[i] = disk[i]
  BY <1>3
<1> HIDE DEF g
<1>5. /\ disk' \in Seq(LogPieces) /\ Len(disk') = n
      /\ \A i \in 1 .. n : disk'[i].id = disk[i].id /\ disk'[i].body = disk[i].body
      /\ \A i \in 1 .. synced : disk'[i] = disk[i]
  <2>1. CASE n = synced
    BY <1>2, <1>3, <1>4, <2>1 DEF g
  <2>2. CASE n # synced
    <3> DEFINE cut == [disk[n] EXCEPT !.form = IF disk[n].form = "line" THEN form ELSE @]
    <3>1. n \in 1 .. Len(disk) /\ n \in 1 .. n /\ synced < n
      BY <1>3, <2>2
    <3>2. cut \in LogPieces /\ cut.id = disk[n].id /\ cut.body = disk[n].body
      BY <1>3, <3>1 DEF LogPieces
    <3>3. disk' = [g EXCEPT ![n] = cut]
      BY <1>2, <1>4, <2>2, <3>1 DEF g
    <3> HIDE DEF cut
    <3>4. /\ disk' \in Seq(LogPieces) /\ Len(disk') = n /\ disk'[n] = cut
          /\ \A i \in 1 .. n : i # n => disk'[i] = disk[i]
      BY <1>3, <1>4, <3>1, <3>2, <3>3
    <3> QED BY <1>3, <3>1, <3>2, <3>4
  <2> QED BY <2>1, <2>2
<1>6. LogTypes'
  <2>1. <<>> \in Seq(Nat) /\ <<>> \in Seq(LogPieces)
    BY EmptySeq
  <2>2. applied' \in Seq(Nat) /\ toApply' \in Seq(LogPieces)
    BY <1>1, <2>1
  <2>3. up' \in BOOLEAN /\ writing' \in BOOLEAN /\ seen' \subseteq 1 .. LogAppends
    BY <1>1 DEF LogInv, LogTypes
  <2>4. synced' \in 0 .. Len(disk') /\ disk' \in Seq(LogPieces)
    BY <1>1, <1>3, <1>5
  <2>5. UNCHANGED <<redacting, lives, logNext, encBroken, published, acked>>
    BY <1>1
  <2> HIDE <1>1, <1>5
  <2> QED BY <2>2, <2>3, <2>4, <2>5 DEF LogInv, LogTypes
<1>7. InOrder'
  <2>1. \A i \in 1 .. n : i \in 1 .. Len(disk)
    BY <1>3
  <2> QED BY <1>1, <1>5, <2>1 DEF LogInv, InOrder
<1>8. AckedAreSynced'
  BY <1>1, <1>5 DEF LogInv, AckedAreSynced
<1>9. LineWritten' /\ Received' /\ AppliedOnce'
  BY <1>1 DEF LineWritten, Received, AppliedOnce
<1>10. NoSecretOnDisk'
  <2>1. \A i \in 1 .. n : i \in DOMAIN disk
    BY <1>3, LenProperties
  <2>2. DOMAIN disk' = 1 .. n
    BY <1>5, LenProperties
  <2> QED BY <1>1, <1>5, <2>1, <2>2 DEF LogInv, NoSecretOnDisk
<1> QED BY <1>6, <1>7, <1>8, <1>9, <1>10 DEF LogInv

LEMMA NextLog == ASSUME LogInv, [LogNext]_logVars PROVE LogInv'
<1>1. ASSUME UNCHANGED logVars PROVE LogInv'
  <2>1. LogTypes' /\ LineWritten'
    BY <1>1 DEF LogInv, LogTypes, LineWritten, logVars
  <2> QED BY <1>1, <2>1, LogStays DEF LogInv, logVars
<1>2. ASSUME LogNext PROVE LogInv'
  BY <1>2, OpenBusKeeps, AppendLineKeeps, AppendShortKeeps, AppendRefusedKeeps, AppendSyncKeeps,
     AppendSyncFailedKeeps, ApplyNextKeeps, RedeliverKeeps, CloseFileKeeps, CrashKeeps, ZenonT(60)
  DEF LogNext
<1> QED BY <1>1, <1>2

-----------------------------------------------------------------------------
\* Memory

Saves == {"conversation", "exec", "insights"}
Insights == [text : Lessons, seq : Nat, used : Nat]
Stored == [dialogue : Nat, execs : Seq(Nat), insights : Seq(Insights), pref : Nat]
MemoryJobs ==
    [seq : 1 .. MaxMail, kind : {"reindex"}, arg : MemoryFiles, at : {"todo", "read"}, got : Nat]
    \union [seq : 1 .. MaxMail, kind : {"save"}, arg : Saves, at : {"todo"}, got : {0}]

MemoryTypes ==
    /\ mail \in Seq([seq : 1 .. MaxMail, evt : Events]) /\ mailed \in 0 .. MaxMail
    /\ listener \in {"draining", "done", "closed", "failed"}
    /\ marked \subseteq 1 .. MaxMail
    /\ version \in [MemoryFiles -> Nat] /\ index \in [MemoryFiles -> Nat]
    /\ dialogue \in Nat /\ execs \in Seq(Nat) /\ execSeq \in Nat
    /\ insights \in Seq(Insights) /\ insightSeq \in Nat /\ uses \in Nat
    /\ pref \in 0 .. MaxMail /\ prefErr \in {"none", "announced", "unheard"}
    /\ jobs \subseteq MemoryJobs /\ memDisk \in Stored

\* The listener ends on a channel that is closed and empty.
Drained == listener # "draining" => ~ busOpen /\ mail = <<>>

\* A job comes from an event that was delivered, and a reindex brings no version
\* that a file never had.
JobsFollow ==
    /\ \A j \in jobs : j.seq \in marked /\ (j.kind = "reindex" => j.got <= version[j.arg])
    /\ \A f \in MemoryFiles : index[f] <= version[f]

MemoryInv == MemoryTypes /\ Drained /\ JobsFollow /\ MemorySound

\* The insight to evict: the least recently used, and of those the first learned.
Oldest(items, i) == \A j \in DOMAIN items : ~ Older(items[j], items[i])

LEMMA OldestExists ==
  ASSUME NEW items \in Seq(Insights), Len(items) > 0
  PROVE  \E i \in DOMAIN items : Oldest(items, i)
<1> DEFINE D == DOMAIN items
           U == {items[i].used : i \in D}
<1>1. D = 1 .. Len(items) /\ Len(items) \in Nat /\ \A i \in D : items[i] \in Insights
  BY LenProperties
<1>2. \A i \in D : items[i].used \in Nat /\ items[i].seq \in Nat
  BY <1>1 DEF Insights
<1>3. U \in SUBSET Nat /\ U # {}
  <2>1. 1 \in D
    BY <1>1
  <2> QED BY <1>2, <2>1
<1>4. PICK u \in U : \A v \in U : u <= v
  BY <1>3, LeastNat
<1> DEFINE Q == {items[i].seq : i \in {k \in D : items[k].used = u}}
<1>5. Q \in SUBSET Nat /\ Q # {}
  BY <1>2, <1>4
<1>6. PICK q \in Q : \A v \in Q : q <= v
  BY <1>5, LeastNat
<1>7. PICK i \in D : items[i].used = u /\ items[i].seq = q
  BY <1>6
<1>8. \A j \in D : ~ Older(items[j], items[i])
  <2> SUFFICES ASSUME NEW j \in D, Older(items[j], items[i]) PROVE FALSE
    OBVIOUS
  <2>1. items[j].used \in U /\ items[j].used \in Nat /\ items[i].used \in Nat
    BY <1>2
  <2>2. u <= items[j].used
    BY <1>4, <2>1
  <2>3. items[j].used = u /\ items[j].seq < q
    BY <1>7, <2>1, <2>2 DEF Older
  <2>4. items[j].seq \in Q /\ items[j].seq \in Nat /\ q \in Nat
    BY <1>2, <1>7, <2>3
  <2>5. q <= items[j].seq
    BY <1>6, <2>4
  <2> HIDE DEF Q
  <2> QED BY <2>3, <2>4, <2>5
<1> QED BY <1>8 DEF Oldest

\* Some insights, learned in this order and each of them once.
Ordered(items, n) ==
    /\ \A i, j \in 1 .. Len(items) : i < j =>
          items[i].seq < items[j].seq /\ items[i].text # items[j].text
    /\ \A i \in 1 .. Len(items) : items[i].seq <= n

\* Without one of them they still are.
LEMMA RemovalKeeps ==
  ASSUME NEW items \in Seq(Insights), NEW n \in Nat, Ordered(items, n), NEW d \in 1 .. Len(items)
  PROVE  /\ RemoveAt(items, d) \in Seq(Insights)
         /\ Len(RemoveAt(items, d)) = Len(items) - 1
         /\ Ordered(RemoveAt(items, d), n)
<1> DEFINE a == SubSeq(items, 1, d - 1)
           b == SubSeq(items, d + 1, Len(items))
           at(k) == IF k < d THEN k ELSE k + 1
<1>1. Len(items) \in Nat /\ d \in Nat /\ \A i \in 1 .. Len(items) : items[i] \in Insights
  BY LenProperties
<1>2. a \in Seq(Insights) /\ Len(a) = d - 1 /\ \A k \in 1 .. d - 1 : a[k] = items[k]
  <2>1. \A i \in 1 .. d - 1 : items[i] \in Insights
    BY <1>1
  <2>2. /\ a \in Seq(Insights) /\ Len(a) = (IF 1 <= d - 1 THEN d - 1 - 1 + 1 ELSE 0)
        /\ \A i \in 1 .. d - 1 - 1 + 1 : a[i] = items[1 + i - 1]
    BY <1>1, <2>1, SubSeqProperties
  <2> HIDE DEF a
  <2> QED BY <1>1, <2>2
<1>3. b \in Seq(Insights) /\ Len(b) = Len(items) - d /\ \A k \in 1 .. Len(items) - d : b[k] = items[d + k]
  <2>1. \A i \in d + 1 .. Len(items) : items[i] \in Insights
    BY <1>1
  <2>2. /\ b \in Seq(Insights) /\ Len(b) = (IF d + 1 <= Len(items) THEN Len(items) - (d + 1) + 1 ELSE 0)
        /\ \A i \in 1 .. Len(items) - (d + 1) + 1 : b[i] = items[(d + 1) + i - 1]
    BY <1>1, <2>1, SubSeqProperties
  <2> HIDE DEF b
  <2> QED BY <1>1, <2>2
<1>4. RemoveAt(items, d) = a \o b
  BY DEF RemoveAt
<1> HIDE DEF a, b
<1> DEFINE r == a \o b
<1>5. /\ r \in Seq(Insights) /\ Len(r) = Len(a) + Len(b)
      /\ \A i \in 1 .. Len(a) + Len(b) : r[i] = IF i <= Len(a) THEN a[i] ELSE b[i - Len(a)]
  BY <1>2, <1>3, ConcatProperties
<1> HIDE DEF r
<1>6. Len(r) = Len(items) - 1
  BY <1>1, <1>2, <1>3, <1>5
<1>7. \A k \in 1 .. Len(r) : r[k] = items[at(k)] /\ at(k) \in 1 .. Len(items)
  <2> SUFFICES ASSUME NEW k \in 1 .. Len(r) PROVE r[k] = items[at(k)] /\ at(k) \in 1 .. Len(items)
    OBVIOUS
  <2>1. CASE k < d
    <3>1. k \in 1 .. d - 1 /\ k \in 1 .. Len(a) + Len(b) /\ k <= Len(a)
      BY <1>1, <1>2, <1>5, <2>1
    <3> QED BY <1>1, <1>2, <1>5, <1>6, <2>1, <3>1
  <2>2. CASE ~ (k < d)
    <3>1. /\ k - Len(a) \in 1 .. Len(items) - d /\ k \in 1 .. Len(a) + Len(b) /\ ~ (k <= Len(a))
          /\ d + (k - Len(a)) = k + 1 /\ k + 1 \in 1 .. Len(items)
      BY <1>1, <1>2, <1>3, <1>5, <1>6, <2>2
    <3>2. r[k] = b[k - Len(a)] /\ b[k - Len(a)] = items[d + (k - Len(a))]
      BY <1>3, <1>5, <3>1
    <3> QED BY <2>2, <3>1, <3>2
  <2> QED BY <2>1, <2>2
<1>8. \A i, j \in 1 .. Len(r) : i < j => at(i) < at(j)
  BY <1>1, <1>6
<1> HIDE DEF at
<1>9. Ordered(r, n)
  <2>1. ASSUME NEW i \in 1 .. Len(r), NEW j \in 1 .. Len(r), i < j
        PROVE  r[i].seq < r[j].seq /\ r[i].text # r[j].text
    <3>1. items[at(i)].seq < items[at(j)].seq /\ items[at(i)].text # items[at(j)].text
      BY <1>7, <1>8, <2>1 DEF Ordered
    <3> QED BY <1>7, <3>1
  <2>2. ASSUME NEW i \in 1 .. Len(r) PROVE r[i].seq <= n
    <3>1. items[at(i)].seq <= n
      BY <1>7 DEF Ordered
    <3> QED BY <1>7, <3>1
  <2> QED BY <2>1, <2>2 DEF Ordered
<1> QED BY <1>4, <1>5, <1>6, <1>9 DEF r

\* An insight is appended that is not there yet, and one is evicted if they are
\* too many.
LEMMA RecordKeeps ==
  ASSUME NEW s \in Seq(Insights), NEW n \in Nat, Ordered(s, n), Len(s) <= MaxInsights,
         NEW text \in Lessons, \A i \in 1 .. Len(s) : s[i].text # text,
         NEW fresh, fresh = [text |-> text, seq |-> n + 1, used |-> 0]
  PROVE  /\ Evict(Append(s, fresh)) \in Seq(Insights)
         /\ Len(Evict(Append(s, fresh))) <= MaxInsights
         /\ Ordered(Evict(Append(s, fresh)), n + 1)
<1> DEFINE g == Append(s, fresh)
<1>1. fresh \in Insights /\ fresh.seq = n + 1 /\ fresh.text = text
  BY DEF Insights
<1>2. Len(s) \in Nat /\ \A i \in 1 .. Len(s) : s[i] \in Insights
  BY LenProperties
<1>3. /\ g \in Seq(Insights) /\ Len(g) = Len(s) + 1 /\ g[Len(s) + 1] = fresh
      /\ \A i \in 1 .. Len(s) : g[i] = s[i]
  BY <1>1, AppendProperties
<1> HIDE DEF g
<1>4. Ordered(g, n + 1)
  <2>1. \A i, j \in 1 .. Len(g) : i < j => g[i].seq < g[j].seq /\ g[i].text # g[j].text
    <3> SUFFICES ASSUME NEW i \in 1 .. Len(g), NEW j \in 1 .. Len(g), i < j
                 PROVE  g[i].seq < g[j].seq /\ g[i].text # g[j].text
      OBVIOUS
    <3>0. i \in 1 .. Len(s)
      BY <1>2, <1>3
    <3>1. i \in 1 .. Len(s) /\ g[i] = s[i] /\ s[i].seq \in Nat
      BY <1>2, <1>3, <3>0 DEF Insights
    <3>2. CASE j = Len(s) + 1
      <4>1. s[i].seq <= n /\ s[i].text # text
        BY <3>1 DEF Ordered
      <4> QED BY <1>1, <1>3, <3>1, <3>2, <4>1
    <3>3. CASE j \in 1 .. Len(s)
      BY <1>3, <3>1, <3>3 DEF Ordered
    <3> QED BY <1>2, <1>3, <3>2, <3>3
  <2>2. \A i \in 1 .. Len(g) : g[i].seq <= n + 1
    <3> SUFFICES ASSUME NEW i \in 1 .. Len(g) PROVE g[i].seq <= n + 1
      OBVIOUS
    <3>1. CASE i = Len(s) + 1
      BY <1>1, <1>3, <3>1
    <3>2. CASE i \in 1 .. Len(s)
      <4>1. s[i].seq <= n /\ s[i].seq \in Nat
        BY <1>2, <3>2 DEF Ordered, Insights
      <4> QED BY <1>3, <3>2, <4>1
    <3> QED BY <1>2, <1>3, <3>1, <3>2
  <2> QED BY <2>1, <2>2 DEF Ordered
<1>5. CASE Len(g) <= MaxInsights
  <2>1. Evict(g) = g
    BY <1>5 DEF Evict
  <2> QED BY <1>3, <1>4, <1>5, <2>1 DEF g
<1>6. CASE ~ (Len(g) <= MaxInsights)
  <2> DEFINE d == CHOOSE i \in DOMAIN g : Oldest(g, i)
  <2>1. Evict(g) = RemoveAt(g, d)
    BY <1>6 DEF Evict, Oldest
  <2>2. d \in 1 .. Len(g)
    <3>1. \E i \in DOMAIN g : Oldest(g, i)
      BY <1>2, <1>3, OldestExists
    <3>2. d \in DOMAIN g
      BY <3>1
    <3> QED BY <1>3, <3>2, LenProperties
  <2> HIDE DEF d
  <2>3. /\ RemoveAt(g, d) \in Seq(Insights) /\ Len(RemoveAt(g, d)) = Len(g) - 1
        /\ Ordered(RemoveAt(g, d), n + 1)
    <3>1. n + 1 \in Nat
      OBVIOUS
    <3> QED BY <1>3, <1>4, <2>2, <3>1, RemovalKeeps
  <2>4. Len(g) - 1 <= MaxInsights
    BY <1>2, <1>3
  <2> QED BY <2>1, <2>3, <2>4 DEF g
<1> QED BY <1>5, <1>6

LEMMA InsightsAre == ASSUME MemoryTypes
  PROVE InsightsSound <=> Len(insights) <= MaxInsights /\ Ordered(insights, insightSeq)
<1>1. DOMAIN insights = 1 .. Len(insights)
  BY LenProperties DEF MemoryTypes
<1> QED BY <1>1 DEF InsightsSound, Ordered
LEMMA InitMemory == MemoryInit => MemoryInv
<1> SUFFICES ASSUME MemoryInit PROVE MemoryInv
  OBVIOUS
<1>1. /\ mail = <<>> /\ mailed = 0 /\ busOpen = TRUE /\ listener = "draining" /\ marked = {}
      /\ version = [f \in MemoryFiles |-> 0] /\ dialogue = 0 /\ execs = <<>> /\ execSeq = 0
      /\ insights = <<>> /\ insightSeq = 0 /\ uses = 0 /\ touched = {} /\ pref = 0
      /\ prefErr = "none" /\ index = [f \in MemoryFiles |-> 0] /\ jobs = {}
      /\ memDisk = [dialogue |-> 0, execs |-> <<>>, insights |-> <<>>, pref |-> 0]
  BY DEF MemoryInit
<1>2. /\ mail \in Seq([seq : 1 .. MaxMail, evt : Events]) /\ execs \in Seq(Nat)
      /\ insights \in Seq(Insights)
  BY <1>1, EmptySeq
<1>3. memDisk \in Stored
  BY <1>1, <1>2 DEF Stored
<1>4. /\ mailed \in 0 .. MaxMail /\ pref \in 0 .. MaxMail /\ dialogue \in Nat /\ execSeq \in Nat
      /\ insightSeq \in Nat /\ uses \in Nat
  BY <1>1, MemoryAssumption
<1>5. version \in [MemoryFiles -> Nat] /\ index \in [MemoryFiles -> Nat]
  BY <1>1
<1>6. MemoryTypes
  <2>1. marked \subseteq 1 .. MaxMail /\ jobs \subseteq MemoryJobs
    BY <1>1
  <2>2. listener \in {"draining", "done", "closed", "failed"} /\ prefErr \in {"none", "announced", "unheard"}
    BY <1>1
  <2> QED BY <1>2, <1>3, <1>4, <1>5, <2>1, <2>2 DEF MemoryTypes
<1>7. Drained /\ JobsFollow
  BY <1>1 DEF Drained, JobsFollow
<1>8. InsightsSound
  <2>1. Len(insights) = 0 /\ DOMAIN insights = 1 .. 0
    BY <1>1, <1>2, LenProperties, EmptySeq
  <2> QED BY <2>1, MemoryAssumption DEF InsightsSound
<1>9. HistoryIsRecent
  <2>1. Len(execs) = 0 /\ DOMAIN execs = 1 .. 0 /\ execSeq = 0
    BY <1>1, <1>2, LenProperties, EmptySeq
  <2>2. Cardinality(marked) = 0
    BY <1>1, FS_EmptySet
  <2> QED BY <2>1, <2>2 DEF HistoryIsRecent
<1>10. PreferenceKept /\ ClosedIsDurable
  BY <1>1 DEF PreferenceKept, ClosedIsDurable
<1> QED BY <1>6, <1>7, <1>8, <1>9, <1>10 DEF MemoryInv, MemorySound

\* A step that leaves the stores and the files alone.
Quiet == UNCHANGED <<dialogue, execs, execSeq, insights, insightSeq, pref, prefErr, memDisk, marked>>

\* The fields it may write stay in their types.
QuietTypes ==
    /\ mail' \in Seq([seq : 1 .. MaxMail, evt : Events]) /\ mailed' \in 0 .. MaxMail
    /\ listener' \in {"draining", "done", "failed"} \union {listener}
    /\ version' \in [MemoryFiles -> Nat] /\ index' \in [MemoryFiles -> Nat]
    /\ uses' \in Nat /\ jobs' \subseteq MemoryJobs
    /\ listener = "closed" => jobs' = jobs /\ mail' = mail

LEMMA QuietKeeps == ASSUME MemoryInv, Quiet, QuietTypes, Drained', JobsFollow'
                    PROVE MemoryInv'
<1>1. MemoryTypes'
  <2>1. listener' \in {"draining", "done", "closed", "failed"}
    BY DEF QuietTypes, MemoryInv, MemoryTypes
  <2>2. /\ marked' \subseteq 1 .. MaxMail
        /\ dialogue' \in Nat /\ execs' \in Seq(Nat) /\ execSeq' \in Nat
        /\ insights' \in Seq(Insights) /\ insightSeq' \in Nat
        /\ pref' \in 0 .. MaxMail /\ memDisk' \in Stored /\ prefErr' \in {"none", "announced", "unheard"}
    BY DEF Quiet, MemoryInv, MemoryTypes
  <2> QED BY <2>1, <2>2 DEF QuietTypes, MemoryTypes
<1>2. InsightsSound'
  BY DEF Quiet, MemoryInv, MemorySound, InsightsSound
<1>3. HistoryIsRecent'
  BY DEF Quiet, MemoryInv, MemorySound, HistoryIsRecent
<1>4. PreferenceKept'
  BY DEF Quiet, MemoryInv, MemorySound, PreferenceKept
<1>5. ClosedIsDurable'
  BY DEF Quiet, QuietTypes, MemoryInv, MemorySound, ClosedIsDurable
<1> QED BY <1>1, <1>2, <1>3, <1>4, <1>5 DEF MemoryInv, MemorySound

LEMMA PublishKeeps == ASSUME MemoryInv, NEW e \in Events, Publish(e) PROVE MemoryInv'
<1>1. /\ busOpen /\ mailed < MaxMail /\ mailed' = mailed + 1
      /\ mail' = Append(mail, [seq |-> mailed + 1, evt |-> e])
      /\ version' = IF e.kind = "patch" THEN [version EXCEPT ![e.file] = @ + 1] ELSE version
      /\ UNCHANGED <<busOpen, listener, marked, dialogue, execs, execSeq, insights, insightSeq, pref,
                     prefErr, uses, index, jobs, memDisk>>
  BY DEF Publish, storeParts
<1>2. Quiet
  BY <1>1 DEF Quiet
<1>3. listener = "draining"
  BY <1>1 DEF MemoryInv, MemoryTypes, Drained
<1>4. mailed' \in 0 .. MaxMail /\ mailed + 1 \in 1 .. MaxMail
  BY <1>1, MemoryAssumption DEF MemoryInv, MemoryTypes
<1>5. mail' \in Seq([seq : 1 .. MaxMail, evt : Events])
  <2>1. [seq |-> mailed + 1, evt |-> e] \in [seq : 1 .. MaxMail, evt : Events]
    BY <1>4
  <2> QED BY <1>1, <2>1, AppendProperties DEF MemoryInv, MemoryTypes
<1>6. version' \in [MemoryFiles -> Nat] /\ \A f \in MemoryFiles : version[f] <= version'[f]
  <2>1. version \in [MemoryFiles -> Nat]
    BY DEF MemoryInv, MemoryTypes
  <2>2. CASE e.kind = "patch"
    <3>1. version' = [version EXCEPT ![e.file] = @ + 1]
      BY <1>1, <2>2
    <3>2. \A f \in MemoryFiles : version[f] \in Nat /\ version'[f] \in {version[f], version[f] + 1}
      BY <2>1, <3>1
    <3>3. version' = [f \in MemoryFiles |-> version'[f]]
      BY <2>1, <3>1, Zenon
    <3>4. \A f \in MemoryFiles : version'[f] \in Nat /\ version[f] <= version'[f]
      BY <3>2
    <3>5. version' \in [MemoryFiles -> Nat]
      BY <3>3, <3>4, Zenon
    <3> QED BY <3>4, <3>5
  <2>3. CASE e.kind # "patch"
    BY <1>1, <2>1, <2>3
  <2> QED BY <2>2, <2>3
<1>7. index' \in [MemoryFiles -> Nat] /\ uses' \in Nat /\ jobs' \subseteq MemoryJobs
  BY <1>1 DEF MemoryInv, MemoryTypes
<1>8. QuietTypes
  BY <1>1, <1>3, <1>4, <1>5, <1>6, <1>7 DEF QuietTypes
<1>9. Drained'
  BY <1>1, <1>3 DEF Drained
<1>10. JobsFollow'
  <2>1. \A f \in MemoryFiles : index[f] \in Nat /\ version[f] \in Nat /\ version'[f] \in Nat
    BY <1>6 DEF MemoryInv, MemoryTypes
  <2>2. \A f \in MemoryFiles : index'[f] <= version'[f]
    BY <1>1, <1>6, <2>1 DEF MemoryInv, JobsFollow
  <2>3. ASSUME NEW j \in jobs, j.kind = "reindex" PROVE j.got <= version'[j.arg]
    <3>1. j.arg \in MemoryFiles /\ j.got \in Nat
      BY <2>3 DEF MemoryInv, MemoryTypes, MemoryJobs
    <3>2. j.got <= version[j.arg]
      BY <2>3 DEF MemoryInv, JobsFollow
    <3> QED BY <1>6, <2>1, <3>1, <3>2
  <2> QED BY <1>1, <2>2, <2>3 DEF MemoryInv, JobsFollow
<1> QED BY <1>2, <1>8, <1>9, <1>10, QuietKeeps

LEMMA RepeatKeeps == ASSUME MemoryInv, Repeat PROVE MemoryInv'
<1>1. /\ mail # <<>> /\ mail' = <<Head(mail)>> \o mail
      /\ UNCHANGED <<mailed, busOpen, listener, marked, version, dialogue, execs, execSeq, insights,
                     insightSeq, pref, prefErr, uses, index, jobs, memDisk>>
  BY DEF Repeat, storeParts
<1>2. mail' \in Seq([seq : 1 .. MaxMail, evt : Events])
  <2>1. mail \in Seq([seq : 1 .. MaxMail, evt : Events])
    BY DEF MemoryInv, MemoryTypes
  <2> DEFINE M == [seq : 1 .. MaxMail, evt : Events]
  <2> HIDE DEF M
  <2>2. mail \in Seq(M)
    BY <2>1 DEF M
  <2>3. Head(mail) \in M
    BY <1>1, <2>2, HeadTailProperties
  <2>4. mail' \in Seq(M)
    BY <1>1, <2>2, <2>3
  <2> QED BY <2>4 DEF M
<1>3. listener = "draining"
  BY <1>1 DEF MemoryInv, MemoryTypes, Drained
<1>4. Quiet /\ Drained' /\ JobsFollow'
  BY <1>1, <1>3 DEF Quiet, Drained, MemoryInv, JobsFollow
<1>5. QuietTypes
  BY <1>1, <1>2, <1>3 DEF QuietTypes, MemoryInv, MemoryTypes
<1> QED BY <1>4, <1>5, QuietKeeps

\* The listener ends, or something else moves that no store reads.
LEMMA SidelinesKeep ==
  ASSUME MemoryInv, \/ CloseBusChannel \/ ListenerEnds \/ RetrieveFind \/ ProjectRead \/ ProjectHold
                    \/ UNCHANGED memoryVars
  PROVE  MemoryInv'
<1>1. /\ UNCHANGED <<mail, mailed, version, index, jobs>> /\ Quiet
      /\ \/ UNCHANGED <<busOpen, listener>>
         \/ ~ busOpen' /\ UNCHANGED listener
         \/ mail = <<>> /\ ~ busOpen /\ ~ busOpen' /\ listener = "draining" /\ listener' = "done"
      /\ uses' \in {uses, uses + 1}
  BY DEF CloseBusChannel, ListenerEnds, RetrieveFind, ProjectRead, ProjectHold, memoryVars, storeParts, Quiet
<1>2. uses' \in Nat
  BY <1>1 DEF MemoryInv, MemoryTypes
<1>3. QuietTypes
  BY <1>1, <1>2 DEF QuietTypes, MemoryInv, MemoryTypes
<1>4. Drained' /\ JobsFollow'
  BY <1>1 DEF Drained, JobsFollow, Quiet, MemoryInv
<1> QED BY <1>1, <1>3, <1>4, QuietKeeps

LEMMA ReindexKeeps ==
  ASSUME MemoryInv, NEW j \in jobs, ReindexRead(j) \/ ReindexInstall(j)
  PROVE  MemoryInv'
<1>1. /\ j.kind = "reindex"
      /\ UNCHANGED <<mail, mailed, busOpen, listener, version, uses>> /\ Quiet
      /\ \/ /\ jobs' = (jobs \ {j}) \union {[j EXCEPT !.at = "read", !.got = version[j.arg]]}
            /\ UNCHANGED index
         \/ index' = [index EXCEPT ![j.arg] = j.got] /\ jobs' = jobs \ {j}
  BY DEF ReindexRead, ReindexInstall, storeParts, Quiet
<1>2. /\ j \in [seq : 1 .. MaxMail, kind : {"reindex"}, arg : MemoryFiles, at : {"todo", "read"}, got : Nat]
      /\ jobs \subseteq MemoryJobs /\ version \in [MemoryFiles -> Nat] /\ index \in [MemoryFiles -> Nat]
      /\ listener # "closed"
  BY <1>1 DEF MemoryInv, MemoryTypes, MemoryJobs, MemorySound, ClosedIsDurable
<1>3. /\ j.got <= version[j.arg] /\ j.seq \in marked /\ version[j.arg] \in Nat
      /\ \A f \in MemoryFiles : index[f] <= version[f]
      /\ \A i \in jobs : i.seq \in marked /\ (i.kind = "reindex" => i.got <= version[i.arg])
  BY <1>1, <1>2 DEF MemoryInv, JobsFollow
<1>4. index' \in [MemoryFiles -> Nat] /\ \A f \in MemoryFiles : index'[f] <= version[f]
  BY <1>1, <1>2, <1>3
<1> DEFINE k == [j EXCEPT !.at = "read", !.got = version[j.arg]]
<1>5. /\ k \in MemoryJobs /\ k.seq = j.seq /\ k.kind = "reindex" /\ k.arg = j.arg
      /\ k.got = version[j.arg]
  BY <1>2, <1>3 DEF MemoryJobs
<1>6. jobs' \subseteq jobs \union {k}
  BY <1>1
<1> HIDE DEF k
<1>7. jobs' \subseteq MemoryJobs
  BY <1>2, <1>5, <1>6
<1>8. \A i \in jobs' : i.seq \in marked /\ (i.kind = "reindex" => i.got <= version[i.arg])
  <2>1. k.seq \in marked /\ k.got <= version[k.arg]
    BY <1>3, <1>5
  <2> QED BY <1>3, <1>6, <2>1
<1>9. Drained' /\ JobsFollow'
  BY <1>1, <1>4, <1>8 DEF Drained, JobsFollow, MemoryInv, Quiet
<1>10. QuietTypes
  BY <1>1, <1>2, <1>4, <1>7 DEF QuietTypes, MemoryInv, MemoryTypes
<1> QED BY <1>1, <1>9, <1>10, QuietKeeps

\* The window of a history that one more entry is appended to.
LEMMA WindowKeeps ==
  ASSUME NEW s \in Seq(Nat), NEW n \in Nat, \A i \in 1 .. Len(s) : s[i] = n - Len(s) + i
  PROVE  LET w == Window(Append(s, n + 1))
         IN  w \in Seq(Nat) /\ \A i \in 1 .. Len(w) : w[i] = (n + 1) - Len(w) + i
<1> DEFINE g == Append(s, n + 1)
<1>1. Len(s) \in Nat /\ ExecWindow \in Nat /\ ExecWindow > 0
  BY LenProperties, MemoryAssumption
<1>2. /\ g \in Seq(Nat) /\ Len(g) = Len(s) + 1 /\ g[Len(s) + 1] = n + 1
      /\ \A i \in 1 .. Len(s) : g[i] = s[i]
  BY AppendProperties
<1> HIDE DEF g
<1>3. \A i \in 1 .. Len(g) : g[i] = (n + 1) - Len(g) + i /\ g[i] \in Nat
  <2> SUFFICES ASSUME NEW i \in 1 .. Len(g) PROVE g[i] = (n + 1) - Len(g) + i /\ g[i] \in Nat
    OBVIOUS
  <2>1. g[i] \in Nat
    BY <1>2, LenProperties
  <2>2. CASE i = Len(s) + 1
    BY <1>1, <1>2, <2>2
  <2>3. CASE i \in 1 .. Len(s)
    <3>1. g[i] = n - Len(s) + i
      BY <1>2, <2>3
    <3> QED BY <1>1, <1>2, <2>1, <2>3, <3>1
  <2> QED BY <1>1, <1>2, <2>2, <2>3
<1> DEFINE w == Window(g)
<1>4. CASE Len(g) > ExecWindow
  <2> DEFINE m == Len(g) - ExecWindow + 1
  <2>1. w = SubSeq(g, m, Len(g))
    BY <1>4 DEF Window
  <2>2. m \in Int /\ Len(g) \in Int /\ m <= Len(g) /\ m >= 1 /\ Len(g) - m + 1 = ExecWindow
    BY <1>1, <1>2, <1>4
  <2>3. \A i \in m .. Len(g) : g[i] \in Nat
    BY <1>3, <2>2
  <2> HIDE DEF m
  <2>4. /\ SubSeq(g, m, Len(g)) \in Seq(Nat)
        /\ Len(SubSeq(g, m, Len(g))) = (IF m <= Len(g) THEN Len(g) - m + 1 ELSE 0)
        /\ \A i \in 1 .. Len(g) - m + 1 : SubSeq(g, m, Len(g))[i] = g[m + i - 1]
    BY <2>2, <2>3, SubSeqProperties
  <2> HIDE DEF w
  <2>5. w \in Seq(Nat) /\ Len(w) = ExecWindow /\ \A i \in 1 .. ExecWindow : w[i] = g[m + i - 1]
    BY <2>1, <2>2, <2>4
  <2>6. \A i \in 1 .. ExecWindow : w[i] = (n + 1) - Len(w) + i
    <3> SUFFICES ASSUME NEW i \in 1 .. ExecWindow PROVE w[i] = (n + 1) - Len(w) + i
      OBVIOUS
    <3>1. m + i - 1 \in 1 .. Len(g)
      BY <1>1, <2>2
    <3>2. w[i] = (n + 1) - Len(g) + (m + i - 1)
      BY <1>3, <2>5, <3>1
    <3>3. Len(w) = ExecWindow
      BY <2>5
    <3>4. i \in Int /\ n \in Int /\ m \in Int /\ Len(g) \in Int /\ ExecWindow = Len(g) - m + 1
      BY <1>1, <2>2
    <3> HIDE <2>2, <2>5
    <3> QED BY <3>2, <3>3, <3>4
  <2> QED BY <2>5, <2>6 DEF g, w
<1>5. CASE ~ (Len(g) > ExecWindow)
  <2>1. w = g
    BY <1>5 DEF Window
  <2> QED BY <1>2, <1>3, <2>1 DEF g, w
<1> QED BY <1>4, <1>5

LEMMA DeliverKeeps == ASSUME MemoryInv, Deliver PROVE MemoryInv'
<1> DEFINE M == [seq : 1 .. MaxMail, evt : Events]
           seq == Head(mail).seq
           e == Head(mail).evt
<1>1. /\ listener = "draining" /\ mail # <<>> /\ mail' = Tail(mail)
      /\ marked' = marked \union {seq}
      /\ UNCHANGED <<mailed, busOpen, listener, version, uses, index>>
      /\ IF seq \notin marked THEN Apply(seq, e)
         ELSE UNCHANGED <<dialogue, execs, execSeq, insights, insightSeq, pref, prefErr, jobs, memDisk>>
  BY DEF Deliver, IsNew, storeParts
<1>2. mail \in Seq(M) /\ marked \subseteq 1 .. MaxMail
  BY DEF MemoryInv, MemoryTypes
<1> HIDE DEF M
<1>3. Head(mail) \in M /\ mail' \in Seq(M)
  BY <1>1, <1>2, HeadTailProperties
<1> USE DEF M
<1>4. seq \in 1 .. MaxMail /\ e \in Events
  BY <1>3
<1> HIDE DEF seq, e
<1>5. CASE seq \in marked
  <2>1. marked' = marked /\ UNCHANGED <<dialogue, execs, execSeq, insights, insightSeq, pref, prefErr, jobs, memDisk>>
    BY <1>1, <1>5
  <2>2. Quiet
    BY <2>1 DEF Quiet
  <2>3. QuietTypes
    BY <1>1, <1>3, <2>1 DEF QuietTypes, MemoryInv, MemoryTypes
  <2>4. Drained' /\ JobsFollow'
    BY <1>1, <2>1 DEF Drained, JobsFollow, MemoryInv
  <2> QED BY <2>2, <2>3, <2>4, QuietKeeps
<1>6. CASE seq \notin marked
  <2>1. Apply(seq, e)
    BY <1>1, <1>6
  <2>2. marked' \subseteq 1 .. MaxMail
    BY <1>1, <1>2, <1>4
  <2>3. dialogue' \in Nat
    BY <2>1 DEF Apply, MemoryInv, MemoryTypes
  <2>4. execs' \in Seq(Nat) /\ execSeq' \in Nat /\ HistoryIsRecent'
    <3>1. execs \in Seq(Nat) /\ execSeq \in Nat /\ DOMAIN execs = 1 .. Len(execs)
      BY LenProperties DEF MemoryInv, MemoryTypes
    <3>2. /\ \A i \in 1 .. Len(execs) : execs[i] = execSeq - Len(execs) + i
          /\ execSeq <= Cardinality(marked)
      BY <3>1 DEF MemoryInv, MemorySound, HistoryIsRecent
    <3>3. IsFiniteSet(marked)
      <4>1. IsFiniteSet(1 .. MaxMail)
        BY MemoryAssumption, FS_Interval
      <4> QED BY <1>2, <4>1, FS_Subset
    <3>4. Cardinality(marked') = Cardinality(marked) + 1 /\ Cardinality(marked) \in Nat
      BY <1>1, <1>6, <3>3, FS_AddElement, FS_CardinalityType
    <3>5. CASE e.kind = "tool"
      <4>1. execSeq' = execSeq + 1 /\ execs' = Window(Append(execs, execSeq + 1))
        BY <2>1, <3>5 DEF Apply
      <4>2. execs' \in Seq(Nat) /\ \A i \in 1 .. Len(execs') : execs'[i] = execSeq' - Len(execs') + i
        BY <3>1, <3>2, <4>1, WindowKeeps
      <4>3. DOMAIN execs' = 1 .. Len(execs')
        BY <4>2, LenProperties
      <4>4. execSeq' \in Nat /\ execSeq' <= Cardinality(marked')
        BY <3>1, <3>2, <3>4, <4>1
      <4> HIDE <4>1
      <4> QED BY <4>2, <4>3, <4>4 DEF HistoryIsRecent
    <3>6. CASE e.kind # "tool"
      <4>1. execs' = execs /\ execSeq' = execSeq
        BY <2>1, <3>6 DEF Apply
      <4> QED BY <3>1, <3>2, <3>4, <4>1 DEF HistoryIsRecent
    <3> QED BY <3>5, <3>6
  <2>5. /\ insights' \in Seq(Insights) /\ insightSeq' \in Nat
        /\ Len(insights') <= MaxInsights /\ Ordered(insights', insightSeq')
    <3>1. /\ insights \in Seq(Insights) /\ insightSeq \in Nat
          /\ Len(insights) <= MaxInsights /\ Ordered(insights, insightSeq)
      BY InsightsAre DEF MemoryInv, MemoryTypes, MemorySound
    <3>2. CASE insights' = insights /\ insightSeq' = insightSeq
      BY <3>1, <3>2
    <3>3. CASE ~ (insights' = insights /\ insightSeq' = insightSeq)
      <4>1. e.kind = "insight" /\ RecordInsight(e.text)
        BY <2>1, <3>3 DEF Apply
      <4>2. e.text \in Lessons
        BY <1>4, <4>1 DEF Events
      <4>3. /\ \A i \in DOMAIN insights : insights[i].text # e.text
            /\ insightSeq' = insightSeq + 1
            /\ insights' = Evict(Append(insights, [text |-> e.text, seq |-> insightSeq + 1, used |-> 0]))
        BY <3>3, <4>1 DEF RecordInsight
      <4>4. \A i \in 1 .. Len(insights) : insights[i].text # e.text
        BY <3>1, <4>3, LenProperties
      <4> QED BY <3>1, <4>2, <4>3, <4>4, RecordKeeps
    <3> QED BY <3>2, <3>3
  <2>6. /\ pref' \in 0 .. MaxMail /\ memDisk' \in Stored /\ PreferenceKept'
        /\ prefErr' \in {"none", "announced", "unheard"}
    <3>1. /\ pref \in 0 .. MaxMail /\ memDisk \in Stored /\ (memDisk.pref = pref \/ prefErr # "none")
          /\ prefErr \in {"none", "announced", "unheard"}
      BY DEF MemoryInv, MemoryTypes, MemorySound, PreferenceKept
    <3>2. CASE e.kind = "preference"
      <4>1. PICK lostIt \in BOOLEAN :
              /\ pref' = seq /\ prefErr' \in PrefErrsAfter(lostIt)
              /\ memDisk' = IF lostIt THEN memDisk ELSE [memDisk EXCEPT !.pref = seq]
        BY <2>1, <3>2 DEF Apply
      <4>2. /\ prefErr' \in {"none", "announced", "unheard"}
            /\ lostIt => prefErr' # "none"
        BY <4>1 DEF PrefErrsAfter
      <4>3. CASE lostIt
        BY <1>4, <3>1, <4>1, <4>2, <4>3 DEF PreferenceKept
      <4>4. CASE ~ lostIt
        <5>1. memDisk' = [memDisk EXCEPT !.pref = seq] /\ pref' = seq
          BY <4>1, <4>4
        <5>2. seq \in Nat
          BY <1>4
        <5>3. memDisk' \in Stored /\ memDisk'.pref = seq
          BY <3>1, <5>1, <5>2 DEF Stored
        <5> QED BY <1>4, <4>2, <5>1, <5>3 DEF PreferenceKept
      <4> QED BY <4>3, <4>4
    <3>3. CASE e.kind # "preference"
      <4>1. pref' = pref /\ prefErr' = prefErr /\ memDisk' = memDisk
        BY <2>1, <3>3 DEF Apply
      <4> QED BY <3>1, <4>1 DEF PreferenceKept
    <3> QED BY <3>2, <3>3
  <2>7. jobs' \subseteq MemoryJobs /\ JobsFollow'
    <3>1. /\ \A j \in jobs : j.seq \in marked /\ (j.kind = "reindex" => j.got <= version[j.arg])
          /\ \A f \in MemoryFiles : index[f] <= version[f]
          /\ jobs \subseteq MemoryJobs /\ version \in [MemoryFiles -> Nat]
      BY DEF MemoryInv, MemoryTypes, JobsFollow
    <3>2. CASE e.kind = "patch"
      <4> DEFINE j == [seq |-> seq, kind |-> "reindex", arg |-> e.file, at |-> "todo", got |-> 0]
      <4>1. jobs' = jobs \union {j}
        BY <2>1, <3>2 DEF Apply, Job
      <4>2. e.file \in MemoryFiles
        BY <1>4, <3>2 DEF Events
      <4>3. j \in MemoryJobs /\ j.seq = seq /\ j.got <= version[j.arg]
        BY <1>4, <3>1, <4>2 DEF MemoryJobs
      <4> HIDE DEF j
      <4> QED BY <1>1, <3>1, <4>1, <4>3 DEF JobsFollow
    <3>3. CASE e.kind = "completed"
      <4> DEFINE j == [seq |-> seq, kind |-> "save", arg |-> "conversation", at |-> "todo", got |-> 0]
      <4>1. jobs' = jobs \union {j}
        BY <2>1, <3>3 DEF Apply, Job
      <4>2. j \in MemoryJobs /\ j.seq = seq /\ j.kind # "reindex"
        BY <1>4 DEF MemoryJobs, Saves
      <4> HIDE DEF j
      <4> QED BY <1>1, <3>1, <4>1, <4>2 DEF JobsFollow
    <3>4. CASE e.kind # "patch" /\ e.kind # "completed"
      <4>1. jobs' = jobs
        BY <2>1, <3>4 DEF Apply
      <4> QED BY <1>1, <3>1, <4>1 DEF JobsFollow
    <3> QED BY <3>2, <3>3, <3>4
  <2>8. MemoryTypes'
    BY <1>1, <1>3, <2>2, <2>3, <2>4, <2>5, <2>6, <2>7 DEF MemoryTypes, MemoryInv
  <2>9. InsightsSound'
    <3>1. DOMAIN insights' = 1 .. Len(insights')
      BY <2>5, LenProperties
    <3> QED BY <2>5, <3>1 DEF InsightsSound, Ordered
  <2>10. Drained' /\ ClosedIsDurable'
    BY <1>1 DEF Drained, ClosedIsDurable
  <2> QED BY <2>4, <2>6, <2>7, <2>8, <2>9, <2>10 DEF MemoryInv, MemorySound
<1> QED BY <1>5, <1>6

\* The bump changes when insights were used and nothing else of them.
LEMMA RetrieveTouchKeeps == ASSUME MemoryInv, RetrieveTouch PROVE MemoryInv'
<1>1. /\ listener # "closed"
      /\ insights' = [i \in DOMAIN insights |-> IF insights[i].seq \in touched
                                                THEN [insights[i] EXCEPT !.used = uses]
                                                ELSE insights[i]]
      /\ UNCHANGED <<mail, mailed, busOpen, listener, marked, version, dialogue, execs, execSeq,
                     insightSeq, uses, pref, prefErr, index, jobs, memDisk>>
  BY DEF RetrieveTouch
<1>2. /\ insights \in Seq(Insights) /\ insightSeq \in Nat /\ uses \in Nat
      /\ Len(insights) <= MaxInsights /\ Ordered(insights, insightSeq)
  BY InsightsAre DEF MemoryInv, MemoryTypes, MemorySound
<1>3. /\ DOMAIN insights = 1 .. Len(insights) /\ Len(insights) \in Nat
      /\ \A i \in 1 .. Len(insights) : insights[i] \in Insights
  BY <1>2, LenProperties
<1>4. \A i \in 1 .. Len(insights) : /\ insights'[i] \in Insights
                                    /\ insights'[i].seq = insights[i].seq
                                    /\ insights'[i].text = insights[i].text
  BY <1>1, <1>2, <1>3 DEF Insights
<1>5. insights' \in Seq(Insights) /\ Len(insights') = Len(insights)
  <2>1. insights' \in [1 .. Len(insights) -> Insights]
    BY <1>1, <1>3, <1>4
  <2> QED BY <1>3, <2>1
<1>6. InsightsSound'
  <2>1. DOMAIN insights' = 1 .. Len(insights)
    BY <1>5, LenProperties
  <2> QED BY <1>1, <1>2, <1>4, <1>5, <2>1 DEF InsightsSound, Ordered
<1>7. MemoryTypes'
  BY <1>1, <1>5 DEF MemoryInv, MemoryTypes
<1>8. Drained' /\ JobsFollow' /\ HistoryIsRecent' /\ PreferenceKept' /\ ClosedIsDurable'
  BY <1>1 DEF MemoryInv, MemorySound, Drained, JobsFollow, HistoryIsRecent, PreferenceKept, ClosedIsDurable
<1> QED BY <1>6, <1>7, <1>8 DEF MemoryInv, MemorySound

\* What the stores hold fits the files.
LEMMA SavesAreStored == ASSUME MemoryInv
  PROVE  /\ \A what \in Saves : Saved(what) \in Stored /\ Saved(what).pref = memDisk.pref
         /\ [dialogue |-> dialogue, execs |-> execs, insights |-> insights, pref |-> pref] \in Stored
<1>1. memDisk \in Stored /\ dialogue \in Nat /\ execs \in Seq(Nat) /\ insights \in Seq(Insights) /\ pref \in Nat
  BY DEF MemoryInv, MemoryTypes
<1>2. ASSUME NEW what \in Saves PROVE Saved(what) \in Stored /\ Saved(what).pref = memDisk.pref
  <2>1. CASE what = "conversation"
    BY <1>1, <2>1 DEF Saved, Stored
  <2>2. CASE what = "exec"
    BY <1>1, <2>2 DEF Saved, Stored
  <2>3. CASE what = "insights"
    BY <1>1, <2>3 DEF Saved, Stored
  <2> QED BY <2>1, <2>2, <2>3 DEF Saves
<1> QED BY <1>1, <1>2 DEF Stored

LEMMA SaveStepKeeps == ASSUME MemoryInv, NEW j \in jobs, SaveStep(j) PROVE MemoryInv'
<1>1. /\ j.kind = "save" /\ memDisk' \in {memDisk, Saved(j.arg)}
      /\ jobs' = (jobs \ {j}) \union
                 (IF NextSave[j.arg] = "over" THEN {} ELSE {[j EXCEPT !.arg = NextSave[j.arg]]})
      /\ UNCHANGED <<mail, mailed, busOpen, listener, marked, version, dialogue, execs, execSeq,
                     insights, insightSeq, pref, prefErr, uses, index>>
  BY DEF SaveStep, storeParts
<1>2. /\ j \in [seq : 1 .. MaxMail, kind : {"save"}, arg : Saves, at : {"todo"}, got : {0}]
      /\ jobs \subseteq MemoryJobs /\ memDisk \in Stored
  BY <1>1 DEF MemoryInv, MemoryTypes, MemoryJobs
<1>3. memDisk' \in Stored /\ memDisk'.pref = memDisk.pref
  BY <1>1, <1>2, SavesAreStored
<1> DEFINE k == [j EXCEPT !.arg = NextSave[j.arg]]
<1>4. jobs' \subseteq jobs \union {k} /\ (NextSave[j.arg] = "over" => jobs' \subseteq jobs)
  BY <1>1
<1>5. NextSave[j.arg] # "over" => k \in MemoryJobs /\ k.seq = j.seq /\ k.kind = "save"
  <2>1. j.arg \in Saves
    BY <1>2
  <2>2. NextSave[j.arg] # "over" => NextSave[j.arg] \in Saves
    BY <2>1 DEF NextSave, Saves
  <2> QED BY <1>2, <2>2 DEF MemoryJobs
<1> HIDE DEF k
<1>6. jobs' \subseteq MemoryJobs /\ JobsFollow'
  <2>1. /\ \A i \in jobs : i.seq \in marked /\ (i.kind = "reindex" => i.got <= version[i.arg])
        /\ \A f \in MemoryFiles : index[f] <= version[f]
    BY DEF MemoryInv, JobsFollow
  <2>2. \A i \in jobs' : /\ i \in MemoryJobs /\ i.seq \in marked
                         /\ (i.kind = "reindex" => i.got <= version[i.arg])
    BY <1>2, <1>4, <1>5, <2>1
  <2> QED BY <1>1, <2>1, <2>2 DEF JobsFollow
<1>7. MemoryTypes'
  BY <1>1, <1>3, <1>6 DEF MemoryInv, MemoryTypes
<1>8. listener # "closed"
  BY DEF MemoryInv, MemorySound, ClosedIsDurable
<1>9. Drained' /\ InsightsSound' /\ HistoryIsRecent' /\ PreferenceKept' /\ ClosedIsDurable'
  BY <1>1, <1>3, <1>8 DEF MemoryInv, MemorySound, Drained, InsightsSound, HistoryIsRecent,
     PreferenceKept, ClosedIsDurable
<1> QED BY <1>6, <1>7, <1>9 DEF MemoryInv, MemorySound

LEMMA CloseStoreKeeps == ASSUME MemoryInv, CloseStore \/ CloseStoreFailed PROVE MemoryInv'
<1> DEFINE flush == [dialogue |-> dialogue, execs |-> execs, insights |-> insights, pref |-> pref]
<1>1. /\ listener = "done" /\ jobs = {} /\ listener' \in {"closed", "failed"}
      /\ UNCHANGED <<mail, mailed, busOpen, marked, version, dialogue, execs, execSeq, insights,
                     insightSeq, pref, prefErr, uses, index, jobs>>
  BY DEF CloseStore, CloseStoreFailed, JobsDone, storeParts
<1>2. flush \in Stored /\ flush.pref = pref /\ memDisk \in Stored
  BY SavesAreStored DEF MemoryInv, MemoryTypes
<1>3. \/ memDisk' = flush
      \/ /\ listener' = "failed"
         /\ \E lost \in {"dialogue", "execs", "insights", "pref"} :
               memDisk' = [flush EXCEPT ![lost] = memDisk[lost]]
  BY DEF CloseStore, CloseStoreFailed
<1> HIDE DEF flush
<1>4. memDisk' \in Stored /\ memDisk'.pref \in {pref, memDisk.pref}
  <2>1. ASSUME NEW lost \in {"dialogue", "execs", "insights", "pref"},
               memDisk' = [flush EXCEPT ![lost] = memDisk[lost]]
        PROVE  memDisk' \in Stored /\ memDisk'.pref \in {pref, memDisk.pref}
    <3>1. CASE lost = "dialogue"
      BY <1>2, <2>1, <3>1 DEF Stored
    <3>2. CASE lost = "execs"
      BY <1>2, <2>1, <3>2 DEF Stored
    <3>3. CASE lost = "insights"
      BY <1>2, <2>1, <3>3 DEF Stored
    <3>4. CASE lost = "pref"
      BY <1>2, <2>1, <3>4 DEF Stored
    <3> QED BY <3>1, <3>2, <3>3, <3>4
  <2> QED BY <1>2, <1>3, <2>1
<1>5. MemoryTypes'
  <2>1. listener' \in {"draining", "done", "closed", "failed"}
    BY <1>1
  <2> QED BY <1>1, <1>4, <2>1 DEF MemoryInv, MemoryTypes
<1>6. mail = <<>> /\ ~ busOpen
  BY <1>1 DEF MemoryInv, Drained
<1>7. Drained' /\ JobsFollow' /\ InsightsSound' /\ HistoryIsRecent'
  BY <1>1, <1>6 DEF MemoryInv, MemorySound, Drained, JobsFollow, InsightsSound, HistoryIsRecent
<1>8. PreferenceKept'
  BY <1>1, <1>4 DEF MemoryInv, MemorySound, PreferenceKept
<1>9. ClosedIsDurable'
  <2>1. listener' = "closed" => memDisk' = flush
    BY <1>3
  <2> QED BY <1>1, <1>6, <2>1 DEF ClosedIsDurable, flush
<1> QED BY <1>5, <1>7, <1>8, <1>9 DEF MemoryInv, MemorySound

LEMMA NextMemory == ASSUME MemoryInv, [MemoryNext]_memoryVars PROVE MemoryInv'
<1>1. ASSUME UNCHANGED memoryVars PROVE MemoryInv'
  BY <1>1, SidelinesKeep
<1>2. ASSUME MemoryNext PROVE MemoryInv'
  BY <1>2, PublishKeeps, RepeatKeeps, SidelinesKeep, DeliverKeeps, RetrieveTouchKeeps, ReindexKeeps,
     SaveStepKeeps, CloseStoreKeeps, ZenonT(60) DEF MemoryNext
<1> QED BY <1>1, <1>2
=============================================================================
