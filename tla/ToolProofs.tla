----------------------------- MODULE ToolProofs -----------------------------
(***************************************************************************)
(* Proofs about what a tool does to the tree: Rollback, for any files,     *)
(* retries and bounds, and ToolCall, for any calls, whatever they ask for. *)
(*                                                                         *)
(* Rollback: the types hold of every run.  What an undo restores is proved *)
(* of the runs in which no tool is called once a checkpoint exists         *)
(* (PatchIsLast): the corrections that follow a patch share its names      *)
(* soundly, a second tool patch does not (run shared_name).  UndoInv:      *)
(* while a change is judged, all copies are of the one file it touched,    *)
(* and each of them is that file as it was before.                         *)
(*                                                                         *)
(* ToolCall: the gates, the approval and its race with the end of the      *)
(* context, the worker that is joined, and the files a command is said to  *)
(* have written.  DispatchInv follows a call (where its dispatch is, what  *)
(* its worker does and what the human said agree), the entries of pending  *)
(* (one for each call that waits unanswered), and the tree (what a command *)
(* wrote since its first snapshot is newer than that snapshot).            *)
(***************************************************************************)
EXTENDS Rollback, ToolCall, FiniteSetTheorems, TLAPS

\* The checkpoint names are positive numbers, the tool's name 1 among them.
LEMMA NamesFacts == MaxVerifyRetries \in Nat /\ 1 \in Names /\ Names \subseteq Nat \ {0}
BY RollbackAssumption DEF Names

-----------------------------------------------------------------------------
(* Type correctness.                                                       *)

\* The retry counter passes its cap once, on the way out.
RetriesCapped == retries <= MaxVerifyRetries \/ phase = "over"

Typed == TypeOK /\ RetriesCapped /\ writes >= 1

Entries == [copy : 0..writes, deleted : BOOLEAN]

\* What was written stays written: contents keep their numbers.
LEMMA WritesGrow ==
  ASSUME TypeOK, writes' \in {writes, writes + 1}
  PROVE  /\ writes' \in Nat /\ writes' >= writes
         /\ 0..writes \subseteq 0..writes' /\ Entries \subseteq Entries'
BY DEF TypeOK, Entries

\* A checkpoint is an entry for one path under one name.
LEMMA CheckpointTyped ==
  ASSUME TypeOK, NEW n \in Names, NEW p \in Paths, Checkpoint(n, p)
  PROVE  /\ shadow' \in [Names -> [Paths -> Entries]]
         /\ \A m \in Names, q \in Paths : <<m, q>> # <<n, p>> => shadow'[m][q] = shadow[m][q]
         /\ tree[p] = 0 => shadow'[n][p] = [copy |-> shadow[n][p].copy, deleted |-> TRUE]
         /\ tree[p] # 0 => shadow'[n][p] = [copy |-> tree[p], deleted |-> shadow[n][p].deleted]
<1>1. shadow \in [Names -> [Paths -> Entries]] /\ tree[p] \in 0..writes
  BY DEF TypeOK, Entries
<1>2. shadow[n][p] \in Entries
  BY <1>1
<1>3. CASE tree[p] = 0
  <2>1. [shadow[n][p] EXCEPT !.deleted = TRUE] \in Entries
    BY <1>2 DEF Entries
  <2>2. shadow' = [shadow EXCEPT ![n][p].deleted = TRUE]
    BY <1>3 DEF Checkpoint
  <2> QED BY <1>1, <1>2, <1>3, <2>1, <2>2 DEF Entries
<1>4. CASE tree[p] # 0
  <2>1. [shadow[n][p] EXCEPT !.copy = tree[p]] \in Entries
    BY <1>1, <1>2 DEF Entries
  <2>2. shadow' = [shadow EXCEPT ![n][p].copy = tree[p]]
    BY <1>4 DEF Checkpoint
  <2> QED BY <1>1, <1>2, <1>4, <2>1, <2>2 DEF Entries
<1> QED BY <1>3, <1>4

\* A restore puts back contents that were written before.
LEMMA RestoredTyped ==
  ASSUME TypeOK, NEW sh \in [Names -> [Paths -> Entries]], NEW n \in Names
  PROVE  Restored(sh, n) \in [Paths -> 0..writes]
<1>1. ASSUME NEW p \in Paths PROVE sh[n][p].copy \in 0..writes /\ tree[p] \in 0..writes
  BY DEF TypeOK, Entries
<1>2. 0 \in 0..writes
  BY DEF TypeOK
<1> QED BY <1>1, <1>2 DEF Restored

\* The initial states have their types.
LEMMA InitTyped == Init => Typed
<1> SUFFICES ASSUME Init PROVE Typed
  OBVIOUS
<1>1. /\ 1 \in Nat /\ 0 \in 0..1 /\ 1 \in 0..1 /\ 0 \in 0..MaxToolPatches
      /\ 0 \in 0..MaxVerifyRetries /\ 0 \in 0..(MaxVerifyRetries + 1)
  BY RollbackAssumption
<1>2. NoEntry \in [copy : 0..1, deleted : BOOLEAN]
  BY <1>1 DEF NoEntry
<1>3. TypeOK
  BY <1>1, <1>2 DEF Init, TypeOK
<1> QED BY <1>3, RollbackAssumption DEF Init, Typed, RetriesCapped

\* engine.Apply keeps the types of the trees: it refuses, fails or writes.
LEMMA ApplyTyped ==
  ASSUME TypeOK, NEW n \in Names, NEW p \in Paths,
         Refused(n, p) \/ WriteFailed(n, p) \/ Accepted(n, p)
  PROVE  /\ tree' \in [Paths -> 0..writes'] /\ before' \in [Paths -> 0..writes']
         /\ shadow' \in [Names -> [Paths -> Entries']]
         /\ writes' \in {writes, writes + 1} /\ verified' \subseteq Paths
<1>0. tree \in [Paths -> 0..writes] /\ before \in [Paths -> 0..writes] /\ verified \subseteq Paths
  BY DEF TypeOK
<1>1. Checkpoint(n, p) /\ writes' \in {writes, writes + 1}
  BY DEF Refused, WriteFailed, Accepted, Writes
<1>2. shadow' \in [Names -> [Paths -> Entries]]
  BY <1>1, CheckpointTyped
<1>3. shadow' \in [Names -> [Paths -> Entries']]
  BY <1>1, <1>2, WritesGrow
<1>4. Restored(shadow', n) \in [Paths -> 0..writes]
  BY <1>2, RestoredTyped
<1>5. tree' \in [Paths -> 0..writes'] /\ before' \in [Paths -> 0..writes']
  <2>1. CASE Refused(n, p)
    BY <1>0, <2>1 DEF Refused
  <2>2. CASE WriteFailed(n, p)
    BY <1>0, <1>4, <2>2 DEF WriteFailed
  <2>3. CASE Accepted(n, p)
    <3>1. writes + 1 \in 0..(writes + 1) /\ 0..writes \subseteq 0..(writes + 1)
      BY DEF TypeOK
    <3> QED BY <1>0, <2>3, <3>1 DEF Accepted, Writes
  <2> QED BY <2>1, <2>2, <2>3
<1>6. verified' \subseteq Paths
  BY <1>0 DEF Refused, WriteFailed, Accepted, Writes
<1> QED BY <1>1, <1>3, <1>5, <1>6

\* The tools that write, and the correction.
LEMMA PatchTyped ==
  ASSUME Typed, NEW p \in Paths, PatchTool(p) \/ Correct(p) PROVE Typed'
<1> USE DEF Typed
<1>1. CASE PatchTool(p)
  <2>1. Refused(1, p) \/ WriteFailed(1, p) \/ Accepted(1, p)
    BY <1>1 DEF PatchTool
  <2>2. /\ tree' \in [Paths -> 0..writes'] /\ before' \in [Paths -> 0..writes']
        /\ shadow' \in [Names -> [Paths -> Entries']]
        /\ writes' \in {writes, writes + 1} /\ verified' \subseteq Paths
    BY <2>1, ApplyTyped, NamesFacts
  <2>3. writes' \in Nat /\ writes' >= 1
    BY <2>2 DEF TypeOK
  <2>4. patches' \in 0..MaxToolPatches
    BY <1>1, RollbackAssumption DEF PatchTool, MayAct, TypeOK
  <2>5. /\ files' \subseteq Paths /\ ckpt' \in {0, 1} /\ fromPatch' \in BOOLEAN
        /\ phase' \in {"verify", "over"} /\ UNCHANGED <<ckptName, retries>>
    BY <1>1 DEF PatchTool, TypeOK, obs
  <2>6. RetriesCapped'
    BY <1>1, <2>5 DEF PatchTool, MayAct, RetriesCapped
  <2> QED BY <2>2, <2>3, <2>4, <2>5, <2>6 DEF TypeOK, Entries
<1>2. CASE Correct(p) /\ OutOfRetries(retries')
  <2>1. /\ phase' = "over" /\ retries' \in 0..(MaxVerifyRetries + 1)
        /\ UNCHANGED <<tree, shadow, ckptName, files, ckpt, fromPatch, writes, verified, before, patches>>
    BY <1>2, NamesFacts DEF Correct, OutOfRetries, RetriesCapped, TypeOK, obs
  <2> QED BY <2>1 DEF TypeOK, RetriesCapped
<1>3. CASE Correct(p) /\ ~OutOfRetries(retries')
  <2>0. retries' \in 1..MaxVerifyRetries /\ retries' \in Names
    BY <1>3, NamesFacts DEF Correct, OutOfRetries, TypeOK, Names
  <2>1. Refused(retries', p) \/ WriteFailed(retries', p) \/ Accepted(retries', p)
    BY <1>3 DEF Correct
  <2>2. /\ tree' \in [Paths -> 0..writes'] /\ before' \in [Paths -> 0..writes']
        /\ shadow' \in [Names -> [Paths -> Entries']]
        /\ writes' \in {writes, writes + 1} /\ verified' \subseteq Paths
    BY <2>0, <2>1, ApplyTyped
  <2>3. writes' \in Nat /\ writes' >= 1
    BY <2>2 DEF TypeOK
  <2>4. /\ files' \subseteq Paths /\ ckpt' \in {0, 1} /\ fromPatch' \in BOOLEAN
        /\ phase' \in {"verify", "over"} /\ patches' = patches
    BY <1>3 DEF Correct, TypeOK, obs
  <2>5. ckptName' \in 0..MaxVerifyRetries \union {1}
    BY <1>3, <2>0 DEF Correct, TypeOK
  <2>6. retries' \in 0..(MaxVerifyRetries + 1) /\ retries' <= MaxVerifyRetries
    BY <2>0, NamesFacts
  <2> QED BY <2>2, <2>3, <2>4, <2>5, <2>6 DEF TypeOK, Entries, RetriesCapped
<1> QED BY <1>1, <1>2, <1>3

\* The other steps; a failing verdict restores.
LEMMA VerdictTyped ==
  ASSUME Typed,
         \/ \E p \in Paths : EditTool(p)
         \/ QuietTool \/ Finish \/ Pass \/ Fail \/ Decide
  PROVE  Typed'
<1> USE DEF Typed
<1>1. ASSUME NEW p \in Paths, EditTool(p) PROVE Typed'
  <2>1. writes' = writes + 1 /\ writes + 1 \in 0..(writes + 1) /\ 0..writes \subseteq 0..(writes + 1)
    BY <1>1 DEF EditTool, Writes, TypeOK
  <2>2. tree' \in [Paths -> 0..writes'] /\ before' \in [Paths -> 0..writes']
    BY <1>1, <2>1 DEF EditTool, Writes, TypeOK
  <2>3. shadow' \in [Names -> [Paths -> Entries']]
    BY <1>1, <2>1, WritesGrow DEF EditTool, TypeOK, Entries
  <2>4. writes' \in Nat /\ writes' >= 1 /\ verified' \subseteq Paths
    BY <1>1, <2>1 DEF EditTool, Writes, TypeOK
  <2> QED BY <1>1, <2>2, <2>3, <2>4 DEF EditTool, MayAct, TypeOK, RetriesCapped, Entries
<1>2. CASE QuietTool \/ Finish \/ Pass \/ Decide
  BY <1>2 DEF QuietTool, Finish, Pass, Decide, MayAct, TypeOK, RetriesCapped, obs
<1>3. CASE Fail
  <2>1. ckptName' \in 0..MaxVerifyRetries \union {1}
    BY <1>3 DEF Fail, RestoreName, TypeOK
  <2>2. ckptName' = 0 \/ ckptName' \in Names
    BY <2>1, NamesFacts DEF Names
  <2>3. tree' \in [Paths -> 0..writes]
    <3>1. shadow \in [Names -> [Paths -> Entries]] /\ tree \in [Paths -> 0..writes]
      BY DEF TypeOK, Entries
    <3>2. CASE ckptName' = 0
      BY <1>3, <3>1, <3>2 DEF Fail
    <3>3. CASE ckptName' # 0
      <4>1. tree' = Restored(shadow, ckptName')
        BY <1>3, <3>3 DEF Fail
      <4> QED BY <2>2, <3>1, <3>3, <4>1, RestoredTyped
    <3> QED BY <3>2, <3>3
  <2> QED BY <1>3, <2>1, <2>3 DEF Fail, TypeOK, RetriesCapped, obs
<1> QED BY <1>1, <1>2, <1>3

\* Every step keeps the types.
LEMMA NextTyped == Typed /\ [Next]_vars => Typed'
<1> SUFFICES ASSUME Typed, [Next]_vars PROVE Typed'
  OBVIOUS
<1>1. CASE UNCHANGED vars
  BY <1>1 DEF vars, obs, Typed, TypeOK, RetriesCapped
<1>2. CASE \E p \in Paths : PatchTool(p) \/ Correct(p)
  BY <1>2, PatchTyped
<1>3. CASE ~UNCHANGED vars /\ ~\E p \in Paths : PatchTool(p) \/ Correct(p)
  BY <1>3, VerdictTyped DEF Next
<1> QED BY <1>1, <1>2, <1>3

(* Type correctness (Rollback, TypeOK), whatever the tools do: the name a  *)
(* restore would use is one the retry counter can produce, the counter     *)
(* stays within one of maxVerifyRetries, and a shadow copy is of content   *)
(* that was in the tree.                                                   *)
THEOREM TypeCorrect == Spec => []TypeOK
<1>1. Typed => TypeOK
  BY DEF Typed
<1> QED BY <1>1, InitTyped, NextTyped, PTL DEF Spec

-----------------------------------------------------------------------------
(* The tools stop with the first checkpoint (PatchIsLast).                 *)

Taken(n, p) == shadow[n][p] # NoEntry

\* What a restore brings back from an entry: v, the content or its absence.
Brings(e, v) == IF v = 0 THEN e.deleted ELSE ~e.deleted /\ e.copy = v

Untouched == \A n \in Names, p \in Paths : ~Taken(n, p)

Judging == phase \in {"verify", "reflect", "patch"}

\* While a change is judged, only the file a patch has changed has copies; it
\* has not passed a verification, and each copy is the file as it was before
\* the change, which is how it is again once the change is undone.
CopiesFaithful ==
    Judging => \A n \in Names, p \in Paths : Taken(n, p) =>
        /\ fromPatch /\ files = {p} /\ p \notin verified
        /\ Brings(shadow[n][p], IF phase = "verify" THEN before[p] ELSE tree[p])

\* A name that a restore would use was taken.
NameWasTaken ==
    /\ ckptName # 0 => \E p \in Paths : Taken(ckptName, p)
    /\ ckpt # 0 => \E p \in Paths : Taken(ckpt, p)

\* A patch under judgement has its copy.
PatchHasCopy ==
    phase = "verify" /\ fromPatch =>
        RestoreName # 0 /\ \A p \in files : Taken(RestoreName, p)

\* A change leaves no file missing that was there.
ChangeKeepsFiles ==
    phase = "verify" => \A p \in Paths : before[p] # 0 => tree[p] # 0

UndoInv == Typed /\ CopiesFaithful /\ NameWasTaken /\ PatchHasCopy /\ ChangeKeepsFiles

\* At the start there is no copy.
LEMMA InitUndo == Init => UndoInv
<1> SUFFICES ASSUME Init PROVE UndoInv
  OBVIOUS
<1>1. CopiesFaithful /\ NameWasTaken /\ PatchHasCopy /\ ChangeKeepsFiles
  BY DEF Init, CopiesFaithful, Judging, NameWasTaken, PatchHasCopy, ChangeKeepsFiles
<1> QED BY <1>1, InitTyped DEF UndoInv

\* A checkpoint of p under n brings back what the tree holds of p, if what
\* the name already held of p did.
LEMMA CheckpointBrings ==
  ASSUME TypeOK, NEW n \in Names, NEW p \in Paths, Checkpoint(n, p),
         Taken(n, p) => Brings(shadow[n][p], tree[p])
  PROVE  /\ Taken(n, p)' /\ Brings(shadow'[n][p], tree[p])
         /\ \A m \in Names, q \in Paths : <<m, q>> # <<n, p>> => shadow'[m][q] = shadow[m][q]
<1>1. /\ \A m \in Names, q \in Paths : <<m, q>> # <<n, p>> => shadow'[m][q] = shadow[m][q]
      /\ tree[p] = 0 => shadow'[n][p] = [copy |-> shadow[n][p].copy, deleted |-> TRUE]
      /\ tree[p] # 0 => shadow'[n][p] = [copy |-> tree[p], deleted |-> shadow[n][p].deleted]
  BY CheckpointTyped
<1>2. ~shadow[n][p].deleted \/ tree[p] = 0
  BY DEF Taken, Brings, NoEntry
<1>3. shadow[n][p] \in Entries
  BY DEF TypeOK, Entries
<1>4. Brings(shadow'[n][p], tree[p])
  BY <1>1, <1>2 DEF Brings
<1>5. Taken(n, p)'
  BY <1>1 DEF Taken, NoEntry
<1> QED BY <1>1, <1>4, <1>5

\* engine.Apply: before a tool's patch nothing was taken, and before a
\* correction what was taken brings back the tree as it stands.
Covered == \A n \in Names, p \in Paths : Taken(n, p) => Brings(shadow[n][p], tree[p])

\* A patch that is refused or cannot be written leaves the tree as it was.
LEMMA FailedApply ==
  ASSUME TypeOK, Covered, NEW n \in Names, NEW p \in Paths,
         Refused(n, p) \/ WriteFailed(n, p)
  PROVE  tree' = tree
<1>1. CASE Refused(n, p)
  BY <1>1 DEF Refused
<1>2. CASE WriteFailed(n, p)
  <2>1. Checkpoint(n, p) /\ tree' = Restored(shadow', n) /\ tree \in [Paths -> 0..writes]
    BY <1>2 DEF WriteFailed, TypeOK
  <2>2. Taken(n, p)' /\ Brings(shadow'[n][p], tree[p])
    BY <2>1, CheckpointBrings DEF Covered
  <2>3. \A q \in Paths \ {p} : shadow'[n][q] = shadow[n][q]
    <3>1. \A m \in Names, q \in Paths : <<m, q>> # <<n, p>> => shadow'[m][q] = shadow[m][q]
      BY <2>1, CheckpointTyped
    <3>2. \A q \in Paths \ {p} : <<n, q>> # <<n, p>>
      OBVIOUS
    <3> QED BY <3>1, <3>2
  <2>4. ASSUME NEW q \in Paths PROVE tree'[q] = tree[q]
    <3>1. shadow'[n][q] = NoEntry \/ Brings(shadow'[n][q], tree[q])
      BY <2>2, <2>3 DEF Covered, Taken
    <3>2. tree'[q] = IF shadow'[n][q].deleted THEN 0
                     ELSE IF shadow'[n][q].copy # 0 THEN shadow'[n][q].copy ELSE tree[q]
      BY <2>1 DEF Restored
    <3> QED BY <3>1, <3>2 DEF Brings, NoEntry
  <2> QED BY <2>1, <2>4 DEF Restored
<1> QED BY <1>1, <1>2

\* An accepted patch has its copy, and the copies taken bring back the tree
\* as it was before.
LEMMA AcceptedApply ==
  ASSUME TypeOK, Covered, NEW n \in Names, NEW p \in Paths, Accepted(n, p)
  PROVE  /\ Taken(n, p)' /\ before' = tree /\ verified' = verified \ {p}
         /\ \A m \in Names, q \in Paths : <<m, q>> # <<n, p>> => shadow'[m][q] = shadow[m][q]
         /\ \A m \in Names, q \in Paths : Taken(m, q)' => Brings(shadow'[m][q], before'[q])
         /\ \A q \in Paths : before'[q] # 0 => tree'[q] # 0
<1>1. /\ Checkpoint(n, p) /\ before' = tree /\ verified' = verified \ {p}
      /\ tree' = [tree EXCEPT ![p] = writes + 1] /\ writes \in Nat
      /\ tree \in [Paths -> 0..writes]
  BY DEF Accepted, Writes, TypeOK
<1>2. /\ Taken(n, p)' /\ Brings(shadow'[n][p], tree[p])
      /\ \A m \in Names, q \in Paths : <<m, q>> # <<n, p>> => shadow'[m][q] = shadow[m][q]
  BY <1>1, CheckpointBrings DEF Covered
<1>3. ASSUME NEW m \in Names, NEW q \in Paths, Taken(m, q)'
      PROVE  Brings(shadow'[m][q], tree[q])
  <2>1. CASE m = n /\ q = p
    BY <1>2, <2>1
  <2>2. CASE <<m, q>> # <<n, p>>
    BY <1>2, <1>3, <2>2 DEF Covered, Taken
  <2> QED BY <2>1, <2>2
<1>4. \A q \in Paths : before'[q] # 0 => tree'[q] # 0
  BY <1>1
<1> QED BY <1>1, <1>2, <1>3, <1>4

\* A tool that runs finds no copy: none was taken, so none is named.
LEMMA ActingFacts ==
  ASSUME UndoInv, PatchIsLast, MayAct
  PROVE  Untouched /\ Covered /\ ckptName = 0 /\ ckpt = 0
<1>1. Untouched
  BY DEF MayAct, Untouched, Taken
<1>2. ckptName \in Names \union {0} /\ ckpt \in Names \union {0}
  BY NamesFacts DEF UndoInv, Typed, TypeOK, Names
<1> QED BY <1>1, <1>2 DEF UndoInv, NameWasTaken, Untouched, Covered

\* A copy once taken stays taken.
LEMMA TakenStays ==
  ASSUME TypeOK, NEW n \in Names, NEW p \in Paths, Checkpoint(n, p)
  PROVE  \A m \in Names, q \in Paths : Taken(m, q) => Taken(m, q)'
<1>1. /\ \A m \in Names, q \in Paths : <<m, q>> # <<n, p>> => shadow'[m][q] = shadow[m][q]
      /\ tree[p] = 0 => shadow'[n][p] = [copy |-> shadow[n][p].copy, deleted |-> TRUE]
      /\ tree[p] # 0 => shadow'[n][p] = [copy |-> tree[p], deleted |-> shadow[n][p].deleted]
  BY CheckpointTyped
<1>2. Taken(n, p)'
  BY <1>1 DEF Taken, NoEntry
<1> QED BY <1>1, <1>2 DEF Taken

\* The names that were taken, unless a step takes up another.
LEMMA NamesKept ==
  ASSUME UndoInv, NEW n \in Names, NEW p \in Paths, Checkpoint(n, p)
  PROVE  /\ ckptName' = ckptName /\ ckptName # 0 => \E q \in Paths : Taken(ckptName, q)'
         /\ ckpt' = ckpt /\ ckpt # 0 => \E q \in Paths : Taken(ckpt, q)'
<1>1. ckptName \in Names \union {0} /\ ckpt \in Names \union {0}
  BY NamesFacts DEF UndoInv, Typed, TypeOK, Names
<1> QED BY <1>1, TakenStays DEF UndoInv, Typed, NameWasTaken

\* A tool's patch, the first copy of all, and a correction.
LEMMA PatchUndo ==
  ASSUME UndoInv, PatchIsLast, NEW p \in Paths, PatchTool(p) \/ Correct(p)
  PROVE  UndoInv'
<1>1. Typed' /\ TypeOK
  BY PatchTyped DEF UndoInv, Typed
<1>2. Covered
  <2>1. CASE PatchTool(p)
    BY <2>1, ActingFacts DEF PatchTool
  <2>2. CASE Correct(p)
    BY <2>2 DEF Correct, UndoInv, CopiesFaithful, Judging, Covered
  <2> QED BY <2>1, <2>2
<1>3. ASSUME NEW n \in Names, Accepted(n, p), phase' = "verify", files' = {p}, fromPatch',
             \/ ckptName' = n /\ ckpt' = 0
             \/ ckptName' = 0 /\ ckpt' = n
      PROVE  UndoInv'
  <2>1. /\ Taken(n, p)' /\ verified' = verified \ {p}
        /\ \A m \in Names, q \in Paths : <<m, q>> # <<n, p>> => shadow'[m][q] = shadow[m][q]
        /\ \A m \in Names, q \in Paths : Taken(m, q)' => Brings(shadow'[m][q], before'[q])
        /\ \A q \in Paths : before'[q] # 0 => tree'[q] # 0
    BY <1>1, <1>2, <1>3, AcceptedApply
  <2>2. n # 0
    BY NamesFacts
  <2>3. ASSUME NEW m \in Names, NEW q \in Paths, Taken(m, q)' PROVE q = p
    <3>1. CASE PatchTool(p)
      BY <2>1, <2>3, <3>1, ActingFacts DEF PatchTool, Untouched, Taken
    <3>2. CASE Correct(p)
      BY <2>1, <2>3, <3>2 DEF Correct, UndoInv, CopiesFaithful, Judging, Taken
    <3> QED BY <3>1, <3>2
  <2>4. CopiesFaithful'
    BY <1>3, <2>1, <2>3 DEF CopiesFaithful
  <2>5. NameWasTaken' /\ PatchHasCopy'
    BY <1>3, <2>1, <2>2 DEF NameWasTaken, PatchHasCopy, RestoreName
  <2> QED BY <1>1, <2>1, <2>4, <2>5 DEF UndoInv, ChangeKeepsFiles
<1>4. ASSUME NEW n \in Names, Checkpoint(n, p) \/ shadow' = shadow, phase' = "over",
             ckptName' = ckptName, ckpt' = ckpt
      PROVE  UndoInv'
  <2>1. NameWasTaken'
    BY <1>4, NamesKept DEF UndoInv, NameWasTaken, Taken
  <2> QED BY <1>1, <1>4, <2>1
      DEF UndoInv, CopiesFaithful, Judging, PatchHasCopy, ChangeKeepsFiles
<1>5. CASE PatchTool(p)
  <2>1. ckptName' = 0 /\ ckptName = 0 /\ 1 \in Names
    BY <1>5, ActingFacts, NamesFacts DEF PatchTool
  <2> QED BY <1>3, <1>4, <1>5, <2>1 DEF PatchTool, Refused, WriteFailed, obs
<1>6. CASE Correct(p)
  <2>1. retries' \in Names
    BY <1>6, NamesFacts DEF Correct, Names, TypeOK, Typed, UndoInv, RetriesCapped
  <2>2. CASE OutOfRetries(retries')
    BY <1>4, <1>6, <2>1, <2>2 DEF Correct, obs
  <2>3. CASE Accepted(retries', p) /\ ~OutOfRetries(retries') /\ phase' = "verify"
    <3>1. ckptName' = retries' /\ ckpt' = 0 /\ files' = {p} /\ fromPatch'
      BY <1>6, <2>3 DEF Correct
    <3> QED BY <1>3, <2>1, <2>3, <3>1
  <2>4. CASE Checkpoint(retries', p) /\ phase' = "over" /\ UNCHANGED <<ckptName, obs>>
    BY <1>4, <2>1, <2>4 DEF obs
  <2> QED BY <1>6, <2>2, <2>3, <2>4 DEF Correct, Refused, WriteFailed
<1> QED BY <1>5, <1>6

\* What a failing verdict makes of the tree: a file with a copy under the
\* name that is restored is as it was before the change, the others stay.
LEMMA FailFacts ==
  ASSUME UndoInv, Fail
  PROVE  /\ tree' \in [Paths -> 0..writes] /\ tree \in [Paths -> 0..writes]
         /\ ckptName' = RestoreName /\ RestoreName \in Names \union {0}
         /\ \A p \in Paths :
              IF RestoreName # 0 /\ Taken(RestoreName, p)
              THEN tree'[p] = before[p]
              ELSE tree'[p] = tree[p]
<1>1. RestoreName \in Names \union {0} /\ ckptName' = RestoreName /\ phase = "verify"
  BY NamesFacts DEF Fail, RestoreName, UndoInv, Typed, TypeOK, Names
<1>2. tree' \in [Paths -> 0..writes] /\ tree \in [Paths -> 0..writes]
  BY VerdictTyped DEF UndoInv, Typed, TypeOK, Fail
<1>3. ASSUME NEW p \in Paths, RestoreName # 0, Taken(RestoreName, p)
      PROVE  tree'[p] = before[p]
  <2>1. Brings(shadow[RestoreName][p], before[p])
    BY <1>1, <1>3 DEF UndoInv, CopiesFaithful, Judging
  <2>2. tree' = Restored(shadow, RestoreName)
    BY <1>1, <1>3 DEF Fail
  <2> QED BY <2>1, <2>2 DEF Restored, Brings
<1>4. ASSUME NEW p \in Paths, ~(RestoreName # 0 /\ Taken(RestoreName, p))
      PROVE  tree'[p] = tree[p]
  BY <1>1, <1>4 DEF Fail, Restored, Taken, NoEntry
<1> QED BY <1>1, <1>2, <1>3, <1>4

\* A failing verdict keeps the invariant: after the restore the copies bring
\* back the tree as it is.
LEMMA FailUndo == ASSUME UndoInv, Fail PROVE UndoInv'
<1>1. Typed'
  BY VerdictTyped DEF UndoInv
<1>2. /\ phase = "verify" /\ phase' = "reflect" /\ ckptName' = RestoreName
      /\ UNCHANGED <<shadow, files, ckpt, fromPatch, verified, before>>
  BY DEF Fail, obs
<1>3. CopiesFaithful'
  <2> SUFFICES ASSUME NEW n \in Names, NEW p \in Paths, Taken(n, p)
               PROVE  /\ fromPatch /\ files = {p} /\ p \notin verified
                      /\ Brings(shadow[n][p], tree'[p])
    BY <1>2 DEF CopiesFaithful, Taken
  <2>1. /\ fromPatch /\ files = {p} /\ p \notin verified
        /\ Brings(shadow[n][p], before[p])
    BY <1>2 DEF UndoInv, CopiesFaithful, Judging
  <2>2. RestoreName # 0 /\ Taken(RestoreName, p)
    BY <1>2, <2>1 DEF UndoInv, PatchHasCopy
  <2> QED BY <2>1, <2>2, FailFacts
<1>4. NameWasTaken'
  BY <1>2 DEF UndoInv, NameWasTaken, RestoreName, Taken
<1> QED BY <1>1, <1>2, <1>3, <1>4 DEF UndoInv, PatchHasCopy, ChangeKeepsFiles

\* The steps that take and restore no copy.
LEMMA OtherUndo ==
  ASSUME UndoInv, PatchIsLast,
         \/ \E p \in Paths : EditTool(p)
         \/ QuietTool \/ Finish \/ Pass \/ Decide
  PROVE  UndoInv'
<1>1. Typed' /\ TypeOK
  BY VerdictTyped DEF UndoInv, Typed
<1>2. CASE Finish \/ Pass
  <2>1. phase' \in {"act", "over"} /\ UNCHANGED <<shadow, ckptName, ckpt>>
    BY <1>2 DEF Finish, Pass, obs
  <2>2. NameWasTaken'
    BY <2>1 DEF UndoInv, NameWasTaken, Taken
  <2> QED BY <1>1, <2>1, <2>2
      DEF UndoInv, CopiesFaithful, Judging, PatchHasCopy, ChangeKeepsFiles
<1>3. CASE Decide
  <2>1. /\ phase = "reflect" /\ phase' \in {"act", "patch", "over"}
        /\ UNCHANGED <<tree, shadow, ckptName, files, ckpt, fromPatch, verified, before>>
    BY <1>3 DEF Decide, obs
  <2>2. NameWasTaken' /\ CopiesFaithful'
    BY <2>1 DEF UndoInv, NameWasTaken, CopiesFaithful, Judging, Taken
  <2> QED BY <1>1, <2>1, <2>2 DEF UndoInv, PatchHasCopy, ChangeKeepsFiles
<1>4. CASE QuietTool \/ \E p \in Paths : EditTool(p)
  <2>1. Untouched /\ ckptName = 0
    BY <1>4, ActingFacts DEF QuietTool, EditTool
  <2>2. /\ UNCHANGED <<shadow, ckptName>> /\ ckpt' = 0 /\ ~fromPatch' /\ before' = tree
    BY <1>4 DEF QuietTool, EditTool, Writes
  <2>3. \A p \in Paths : tree[p] # 0 => tree'[p] # 0
    BY <1>1, <1>4 DEF QuietTool, EditTool, Writes, TypeOK
  <2> QED BY <1>1, <2>1, <2>2, <2>3
      DEF UndoInv, NameWasTaken, CopiesFaithful, PatchHasCopy, ChangeKeepsFiles, Untouched, Taken
<1> QED BY <1>2, <1>3, <1>4

\* The invariant of the undoing holds throughout.
LEMMA AlwaysUndo == ASSUME PatchIsLast PROVE Spec => []UndoInv
<1>1. UndoInv /\ [Next]_vars => UndoInv'
  <2> SUFFICES ASSUME UndoInv, [Next]_vars PROVE UndoInv'
    OBVIOUS
  <2>1. CASE UNCHANGED vars
    <3>1. Typed'
      BY <2>1, NextTyped DEF UndoInv
    <3> QED BY <2>1, <3>1 DEF vars, obs, UndoInv, CopiesFaithful, Judging, NameWasTaken,
          PatchHasCopy, ChangeKeepsFiles, RestoreName, Taken
  <2>2. CASE \E p \in Paths : PatchTool(p) \/ Correct(p)
    BY <2>2, PatchUndo
  <2>3. CASE Fail
    BY <2>3, FailUndo
  <2> QED BY <2>1, <2>2, <2>3, OtherUndo DEF Next
<1> QED BY <1>1, InitUndo, PTL DEF Spec

\* Only a failing verdict leads to a reflection.
LEMMA ReflectIsFail ==
  ASSUME [Next]_vars, phase' = "reflect", ~UNCHANGED vars PROVE Fail
BY DEF Next, PatchTool, EditTool, Correct, QuietTool, Finish, Pass, Decide

(* VerifiedIsKept: undoing one change changes no file that has passed its  *)
(* verification (core.go, VERIFY; checkpointer_adapter.go, restore), when  *)
(* no tool runs once a checkpoint exists.  Otherwise the name patch_1 of a *)
(* second patch still holds the files of the first, and the code undoes    *)
(* both: the run shared_name.                                              *)
THEOREM VerifiedAlwaysKept == ASSUME PatchIsLast PROVE Spec => VerifiedIsKept
<1>1. ASSUME UndoInv, [Next]_vars
      PROVE  [phase' = "reflect" => \A p \in verified : tree'[p] = tree[p]]_vars
  <2> SUFFICES ASSUME phase' = "reflect", ~UNCHANGED vars, NEW p \in verified
               PROVE  tree'[p] = tree[p]
    OBVIOUS
  <2>1. Fail /\ p \in Paths /\ phase = "verify"
    BY <1>1, ReflectIsFail DEF Fail, UndoInv, Typed, TypeOK
  <2>2. ~(RestoreName # 0 /\ Taken(RestoreName, p))
    BY <1>1, <2>1, FailFacts DEF UndoInv, CopiesFaithful, Judging
  <2> QED BY <1>1, <2>1, <2>2, FailFacts
<1>2. UndoInv /\ [Next]_vars => [phase' = "reflect" => \A p \in verified : tree'[p] = tree[p]]_vars
  BY <1>1
<1> QED BY <1>2, AlwaysUndo, PTL DEF Spec, VerifiedIsKept

(* PatchIsUndone: after a failing verdict the file the patch changed is as *)
(* it was before that patch, whether a tool or a correction made it, and   *)
(* however many corrections were undone before (core.go, VERIFY).          *)
THEOREM PatchAlwaysUndone == ASSUME PatchIsLast PROVE Spec => PatchIsUndone
<1>1. ASSUME UndoInv, [Next]_vars
      PROVE  [(phase' = "reflect" /\ fromPatch) => \A p \in files : tree'[p] = before[p]]_vars
  <2> SUFFICES ASSUME phase' = "reflect", fromPatch, ~UNCHANGED vars, NEW p \in files
               PROVE  tree'[p] = before[p]
    OBVIOUS
  <2>1. Fail /\ p \in Paths /\ phase = "verify"
    BY <1>1, ReflectIsFail DEF Fail, UndoInv, Typed, TypeOK
  <2>2. RestoreName # 0 /\ Taken(RestoreName, p)
    BY <1>1, <2>1 DEF UndoInv, PatchHasCopy
  <2> QED BY <1>1, <2>1, <2>2, FailFacts
<1>2. UndoInv /\ [Next]_vars =>
        [(phase' = "reflect" /\ fromPatch) => \A p \in files : tree'[p] = before[p]]_vars
  BY <1>1
<1> QED BY <1>2, AlwaysUndo, PTL DEF Spec, PatchIsUndone

(* NoFileIsLost: a restore deletes no file that was there before the       *)
(* change, its sentinels being of files that were not                      *)
(* (checkpointer_adapter.go, checkpoint and restore).                      *)
THEOREM NoFileEverLost == ASSUME PatchIsLast PROVE Spec => NoFileIsLost
<1>1. ASSUME UndoInv, [Next]_vars
      PROVE  [phase' = "reflect" => \A p \in Paths : before[p] # 0 => tree'[p] # 0]_vars
  <2> SUFFICES ASSUME phase' = "reflect", ~UNCHANGED vars, NEW p \in Paths, before[p] # 0
               PROVE  tree'[p] # 0
    OBVIOUS
  <2>1. Fail /\ phase = "verify"
    BY <1>1, ReflectIsFail DEF Fail
  <2>2. tree[p] # 0
    BY <2>1, <1>1 DEF UndoInv, ChangeKeepsFiles
  <2> QED BY <1>1, <2>1, <2>2, FailFacts
<1>2. UndoInv /\ [Next]_vars =>
        [phase' = "reflect" => \A p \in Paths : before[p] # 0 => tree'[p] # 0]_vars
  BY <1>1
<1> QED BY <1>2, AlwaysUndo, PTL DEF Spec, NoFileIsLost

(* FailedPatchLeavesTree: a patch that is refused, or whose write fails    *)
(* half way, leaves every file as it was, the one it was about and those   *)
(* that share its checkpoint's name (engine.go, Apply).                    *)
THEOREM FailedPatchAlwaysClean == ASSUME PatchIsLast PROVE Spec => FailedPatchLeavesTree
<1>1. ASSUME UndoInv, [Next]_vars
      PROVE  [(phase \in {"act", "patch"} /\ phase' = "over") => (tree' = tree)]_vars
  <2> SUFFICES ASSUME phase \in {"act", "patch"}, phase' = "over", ~UNCHANGED vars
               PROVE  tree' = tree
    OBVIOUS
  <2>1. CASE Finish
    BY <2>1 DEF Finish
  <2>2. ASSUME NEW p \in Paths, PatchTool(p) PROVE tree' = tree
    <3>1. Refused(1, p) \/ WriteFailed(1, p)
      BY <2>2 DEF PatchTool
    <3> QED BY <1>1, <2>2, <3>1, ActingFacts, FailedApply, NamesFacts
        DEF PatchTool, UndoInv, Typed
  <2>3. ASSUME NEW p \in Paths, Correct(p) PROVE tree' = tree
    <3>1. Covered /\ TypeOK /\ retries' \in Nat \ {0}
      BY <1>1, <2>3 DEF Correct, UndoInv, CopiesFaithful, Judging, Covered, Typed, TypeOK
    <3>2. CASE OutOfRetries(retries')
      BY <2>3, <3>2 DEF Correct
    <3>3. CASE ~OutOfRetries(retries')
      <4>1. Refused(retries', p) \/ WriteFailed(retries', p)
        BY <2>3, <3>3 DEF Correct
      <4>2. retries' \in Names
        BY <3>1, <3>3, NamesFacts DEF OutOfRetries, Names
      <4> QED BY <3>1, <4>1, <4>2, FailedApply
    <3> QED BY <3>2, <3>3
  <2> QED BY <1>1, <2>1, <2>2, <2>3 DEF Next, EditTool, QuietTool, Pass, Fail, Decide
<1>2. UndoInv /\ [Next]_vars => [(phase \in {"act", "patch"} /\ phase' = "over") => (tree' = tree)]_vars
  BY <1>1
<1> QED BY <1>2, AlwaysUndo, PTL DEF Spec, FailedPatchLeavesTree

-----------------------------------------------------------------------------
(* Dispatches.                                                             *)

Snapshots == [WatchedFiles -> Nat]
FileReports == [files : SUBSET WatchedFiles, unknown : BOOLEAN]

CallTypes ==
    /\ stepOf \in [ToolCalls -> {"new", "asking", "running", "draining", "over"}]
    /\ toolState \in [ToolCalls -> {"none", "running", "sent", "joined"}]
    /\ decision \in [ToolCalls -> {"none", "yes", "no"}]
    /\ said = decision
    /\ approvals \in Nat
    /\ DOMAIN waiting \subseteq 1 .. approvals /\ \A i \in DOMAIN waiting : waiting[i] \in ToolCalls
    /\ fileVersion \in Snapshots
    /\ lastBy \in [WatchedFiles -> SUBSET ToolCalls]
    /\ seenBefore \in [ToolCalls -> Snapshots \union {Partial}]
    /\ toolOut \in [ToolCalls -> FileReports]

\* Where the worker is, by where the dispatch is.
WorkerAt(step) ==
    CASE step \in {"new", "asking"} -> {"none"}
      [] step \in {"running", "draining"} -> {"running", "sent"}
      [] step = "over" -> {"none", "joined"}

\* A call is past the gates from its approval on, asks only if it must, and
\* has no answer before it asked.
Gated(c) ==
    /\ toolState[c] \in WorkerAt(stepOf[c])
    /\ stepOf[c] = "new" => said[c] = "none"
    /\ stepOf[c] = "asking" => Refusal(c) = "none" /\ NeedsPrompt(c)
    /\ toolState[c] # "none" => Refusal(c) = "none" /\ (NeedsPrompt(c) => said[c] = "yes")

\* One entry for each call that waits unanswered, and none else.
Pending ==
    /\ \A i, j \in DOMAIN waiting : waiting[i] = waiting[j] => i = j
    /\ \A i \in DOMAIN waiting : stepOf[waiting[i]] = "asking" /\ said[waiting[i]] = "none"
    /\ \A c \in ToolCalls : stepOf[c] = "asking" /\ said[c] = "none" =>
          \E i \in DOMAIN waiting : waiting[i] = c

\* What a running command wrote is newer than its first snapshot.
Newer(c) ==
    /\ seenBefore[c] # Partial => \A f \in WatchedFiles : seenBefore[c][f] <= fileVersion[f]
    /\ \A f \in WatchedFiles : c \in lastBy[f] =>
          /\ toolState[c] # "none"
          /\ toolState[c] = "running" /\ seenBefore[c] # Partial =>
                seenBefore[c][f] < fileVersion[f]

\* What a command wrote is in the output it returned.
OutputsCover == \A c \in ToolCalls : toolState[c] \in {"sent", "joined"} => Covers(toolOut[c], c)

WorkInv ==
    /\ CallTypes /\ (\A c \in ToolCalls : Gated(c)) /\ Pending
    /\ (\A c \in ToolCalls : Newer(c)) /\ OutputsCover

\* The invariant holds before any dispatch.
LEMMA InitWork == ToolInit => WorkInv
<1> SUFFICES ASSUME ToolInit PROVE WorkInv
  OBVIOUS
<1>1. CallTypes
  <2>1. Partial \in Snapshots \union {Partial} /\ Nothing \in FileReports
    BY DEF Nothing, FileReports
  <2> QED BY <2>1 DEF ToolInit, CallTypes, Snapshots
<1>2. Pending /\ \A c \in ToolCalls : Gated(c)
  BY DEF ToolInit, Pending, Gated, WorkerAt
<1>3. (\A c \in ToolCalls : Newer(c)) /\ OutputsCover
  BY DEF ToolInit, Newer, OutputsCover, Covers
<1> QED BY <1>1, <1>2, <1>3 DEF WorkInv

\* Nothing of the tree changes for a call whose worker stays as it is.
LEMMA TreeStays ==
  ASSUME WorkInv, UNCHANGED <<fileVersion, lastBy, seenBefore, toolOut>>,
         \A c \in ToolCalls : toolState'[c] = toolState[c] \/ (toolState[c] = "sent" /\ toolState'[c] = "joined")
  PROVE  (\A c \in ToolCalls : Newer(c)') /\ OutputsCover'
BY DEF WorkInv, Newer, OutputsCover, Covers

\* A call is refused at a gate.
LEMMA RefusedKeeps == ASSUME WorkInv, NEW c \in ToolCalls, DispatchRefused(c) PROVE WorkInv'
<1> USE DEF WorkInv
<1>1. /\ stepOf[c] = "new" /\ stepOf' = [stepOf EXCEPT ![c] = "over"]
      /\ UNCHANGED <<toolState, approvals, waiting, decision, fileVersion, lastBy, seenBefore,
                     toolOut, said>>
  BY DEF DispatchRefused, Ends
<1>2. CallTypes'
  BY <1>1 DEF CallTypes
<1>3. \A d \in ToolCalls : Gated(d)'
  BY <1>1 DEF CallTypes, Gated, WorkerAt
<1>4. Pending'
  BY <1>1 DEF CallTypes, Pending
<1> QED BY <1>1, <1>2, <1>3, <1>4, TreeStays

\* A call asks for approval, under an id that nothing in pending has.
LEMMA RequestKeeps == ASSUME WorkInv, NEW c \in ToolCalls, RequestApproval(c) PROVE WorkInv'
<1> USE DEF WorkInv
<1>1. /\ stepOf[c] = "new" /\ stepOf' = [stepOf EXCEPT ![c] = "asking"]
      /\ Refusal(c) = "none" /\ NeedsPrompt(c)
      /\ approvals' = approvals + 1
      /\ waiting' = [i \in DOMAIN waiting \union {approvals'} |->
                        IF i = approvals' THEN c ELSE waiting[i]]
      /\ UNCHANGED <<toolState, decision, fileVersion, lastBy, seenBefore, toolOut, said>>
  BY DEF RequestApproval
<1>2. approvals \in Nat /\ DOMAIN waiting \subseteq 1 .. approvals /\ approvals' \notin DOMAIN waiting
  BY <1>1 DEF CallTypes
<1>3. /\ DOMAIN waiting' = DOMAIN waiting \union {approvals'} /\ waiting'[approvals'] = c
      /\ \A i \in DOMAIN waiting : waiting'[i] = waiting[i]
  BY <1>1, <1>2
<1>4. CallTypes'
  <2>1. DOMAIN waiting' \subseteq 1 .. approvals' /\ approvals' \in Nat
    BY <1>1, <1>2, <1>3
  <2> QED BY <1>1, <1>3, <2>1 DEF CallTypes
<1>5. \A d \in ToolCalls : Gated(d)'
  BY <1>1 DEF CallTypes, Gated, WorkerAt, Refusal, NeedsPrompt
<1>6. Pending'
  <2>1. /\ \A i \in DOMAIN waiting : waiting[i] # c /\ waiting[i] \in ToolCalls
        /\ said[c] = "none" /\ said' = said
        /\ stepOf'[c] = "asking" /\ \A d \in ToolCalls \ {c} : stepOf'[d] = stepOf[d]
    BY <1>1 DEF CallTypes, Pending, Gated
  <2>2. \A i \in DOMAIN waiting' : i = approvals' \/ i \in DOMAIN waiting
    BY <1>3
  <2>3. \A i, j \in DOMAIN waiting' : waiting'[i] = waiting'[j] => i = j
    BY <1>3, <2>1, <2>2 DEF Pending
  <2>4. \A i \in DOMAIN waiting' : stepOf'[waiting'[i]] = "asking" /\ said'[waiting'[i]] = "none"
    BY <1>3, <2>1, <2>2 DEF Pending
  <2>5. \A d \in ToolCalls : stepOf'[d] = "asking" /\ said'[d] = "none" =>
          \E i \in DOMAIN waiting' : waiting'[i] = d
    BY <1>3, <2>1 DEF Pending
  <2> QED BY <2>3, <2>4, <2>5 DEF Pending
<1> QED BY <1>1, <1>4, <1>5, <1>6, TreeStays

\* A human answers a call that waits.
LEMMA ResolveKeeps ==
  ASSUME WorkInv, NEW id \in DOMAIN waiting, NEW yes \in BOOLEAN, ResolveApproval(id, yes)
  PROVE  WorkInv'
<1> USE DEF WorkInv
<1> DEFINE c == waiting[id]
           answer == IF yes THEN "yes" ELSE "no"
<1>1. /\ decision' = [decision EXCEPT ![c] = answer] /\ said' = [said EXCEPT ![c] = answer]
      /\ waiting' = [i \in DOMAIN waiting \ {id} |-> waiting[i]]
      /\ UNCHANGED <<stepOf, toolState, approvals, fileVersion, lastBy, seenBefore, toolOut>>
  BY DEF ResolveApproval
<1>2. c \in ToolCalls /\ stepOf[c] = "asking" /\ said[c] = "none" /\ toolState[c] = "none"
  BY DEF CallTypes, Pending, Gated, WorkerAt
<1>3. DOMAIN waiting' = DOMAIN waiting \ {id} /\ \A i \in DOMAIN waiting' : waiting'[i] = waiting[i]
  BY <1>1
<1>4. \A i \in DOMAIN waiting' : waiting[i] # c
  BY <1>3 DEF Pending
<1> HIDE DEF c
<1>5. CallTypes'
  BY <1>1, <1>2, <1>3 DEF CallTypes
<1>6. \A d \in ToolCalls : Gated(d)'
  BY <1>1, <1>2 DEF CallTypes, Gated
<1>7. Pending'
  <2>1. \A i \in DOMAIN waiting' : waiting'[i] # c
    BY <1>3, <1>4
  <2>2. \A d \in ToolCalls : stepOf[d] = "asking" /\ said'[d] = "none" =>
          d # c /\ said[d] = "none"
    BY <1>1, <1>2 DEF CallTypes
  <2>3. \A d \in ToolCalls \ {c} : said'[d] = said[d]
    BY <1>1
  <2> QED BY <1>1, <1>3, <2>1, <2>2, <2>3 DEF CallTypes, Pending, c
<1> QED BY <1>1, <1>5, <1>6, <1>7, TreeStays

\* Dropping the entry of a call leaves the others.
LEMMA WithoutFacts ==
  ASSUME NEW c, waiting' = Without(c)
  PROVE  /\ DOMAIN waiting' = {i \in DOMAIN waiting : waiting[i] # c}
         /\ \A i \in DOMAIN waiting' : waiting'[i] = waiting[i]
BY DEF Without

\* The call is rejected, or gives up waiting.
LEMMA GivesUpKeeps == ASSUME WorkInv, NEW c \in ToolCalls, ApprovalRefused(c) PROVE WorkInv'
<1> USE DEF WorkInv
<1>1. /\ stepOf[c] = "asking" /\ stepOf' = [stepOf EXCEPT ![c] = "over"]
      /\ waiting' = Without(c)
      /\ UNCHANGED <<toolState, approvals, decision, fileVersion, lastBy, seenBefore, toolOut, said>>
  BY DEF ApprovalRefused, Ends
<1>2. CallTypes'
  BY <1>1, WithoutFacts DEF CallTypes
<1>3. \A d \in ToolCalls : Gated(d)'
  BY <1>1 DEF CallTypes, Gated, WorkerAt
<1>4. Pending'
  <2>1. /\ \A i \in DOMAIN waiting' : waiting'[i] # c /\ i \in DOMAIN waiting /\ waiting'[i] = waiting[i]
        /\ \A i \in DOMAIN waiting : waiting[i] # c => i \in DOMAIN waiting'
    BY <1>1, WithoutFacts
  <2> QED BY <1>1, <2>1 DEF CallTypes, Pending
<1> QED BY <1>1, <1>2, <1>3, <1>4, TreeStays

\* The tool's goroutine starts: the gates let it, and the human if one is asked.
LEMMA StartKeeps == ASSUME WorkInv, NEW c \in ToolCalls, Start(c) PROVE WorkInv'
<1> USE DEF WorkInv
<1>1. /\ stepOf[c] \in {"new", "asking"} /\ stepOf' = [stepOf EXCEPT ![c] = "running"]
      /\ toolState' = [toolState EXCEPT ![c] = "running"] /\ waiting' = Without(c)
      /\ \/ seenBefore' = [seenBefore EXCEPT ![c] = fileVersion]
         \/ seenBefore' = seenBefore
      /\ UNCHANGED <<approvals, decision, fileVersion, lastBy, toolOut, said>>
  BY DEF Start
<1>2. toolState[c] = "none" /\ Refusal(c) = "none" /\ (NeedsPrompt(c) => said[c] = "yes")
  BY DEF Start, CallTypes, Gated, WorkerAt
<1>3. CallTypes'
  BY <1>1, WithoutFacts DEF CallTypes
<1>4. \A d \in ToolCalls : Gated(d)'
  BY <1>1, <1>2 DEF CallTypes, Gated, WorkerAt
<1>5. Pending'
  <2>1. /\ \A i \in DOMAIN waiting' : waiting'[i] # c /\ i \in DOMAIN waiting /\ waiting'[i] = waiting[i]
        /\ \A i \in DOMAIN waiting : waiting[i] # c => i \in DOMAIN waiting'
    BY <1>1, WithoutFacts
  <2> QED BY <1>1, <2>1 DEF CallTypes, Pending
<1>6. \A d \in ToolCalls : Newer(d)'
  <2> SUFFICES ASSUME NEW d \in ToolCalls PROVE Newer(d)'
    OBVIOUS
  <2>1. CASE d # c
    BY <1>1, <2>1 DEF CallTypes, Newer
  <2>2. CASE d = c
    <3>1. \A f \in WatchedFiles : c \notin lastBy[f]
      BY <1>2 DEF Newer
    <3>2. seenBefore'[c] = fileVersion \/ seenBefore'[c] = seenBefore[c]
      BY <1>1 DEF CallTypes
    <3>3. seenBefore'[c] # Partial => \A f \in WatchedFiles : seenBefore'[c][f] <= fileVersion[f]
      BY <3>2 DEF CallTypes, Newer, Snapshots
    <3> QED BY <1>1, <2>2, <3>1, <3>3 DEF Newer
  <2> QED BY <2>1, <2>2
<1>7. OutputsCover'
  BY <1>1 DEF CallTypes, OutputsCover, Covers
<1> QED BY <1>3, <1>4, <1>5, <1>6, <1>7

\* A tool writes a file.
LEMMA WriteKeeps ==
  ASSUME WorkInv, NEW c \in ToolCalls, NEW f \in WatchedFiles, ToolWrites(c, f)
  PROVE  WorkInv'
<1> USE DEF WorkInv
<1>1. /\ toolState[c] = "running"
      /\ fileVersion' = [fileVersion EXCEPT ![f] = @ + 1]
      /\ lastBy' = [lastBy EXCEPT ![f] = @ \union {c}]
      /\ UNCHANGED <<stepOf, toolState, approvals, waiting, decision, seenBefore, toolOut, said>>
  BY DEF ToolWrites
<1>2. CallTypes'
  BY <1>1 DEF CallTypes, Snapshots
<1>3. (\A d \in ToolCalls : Gated(d)') /\ Pending'
  BY <1>1 DEF Gated, Pending
<1>4. /\ \A g \in WatchedFiles : fileVersion[g] \in Nat /\ fileVersion'[g] \in Nat
                                 /\ fileVersion[g] <= fileVersion'[g]
      /\ fileVersion[f] < fileVersion'[f]
      /\ \A g \in WatchedFiles : \A d \in lastBy'[g] : d \in lastBy[g] \/ (d = c /\ g = f)
  BY <1>1 DEF CallTypes, Snapshots
<1>5. \A d \in ToolCalls : seenBefore[d] # Partial =>
        \A g \in WatchedFiles : seenBefore[d][g] \in Nat
  BY DEF CallTypes, Snapshots
<1>6. \A d \in ToolCalls : Newer(d)'
  <2> SUFFICES ASSUME NEW d \in ToolCalls PROVE Newer(d)'
    OBVIOUS
  <2>1. seenBefore[d] # Partial => \A g \in WatchedFiles : seenBefore[d][g] <= fileVersion'[g]
    BY <1>4, <1>5 DEF Newer
  <2>2. ASSUME NEW g \in WatchedFiles, d \in lastBy'[g]
        PROVE  /\ toolState[d] # "none"
               /\ toolState[d] = "running" /\ seenBefore[d] # Partial =>
                     seenBefore[d][g] < fileVersion'[g]
    <3>1. CASE d \in lastBy[g]
      BY <1>4, <1>5, <3>1 DEF Newer
    <3>2. CASE d = c /\ g = f
      BY <1>1, <1>4, <1>5, <3>2 DEF Newer
    <3> QED BY <1>4, <2>2, <3>1, <3>2
  <2> QED BY <1>1, <2>1, <2>2 DEF Newer
<1>7. OutputsCover'
  BY <1>1, <1>4 DEF OutputsCover, Covers
<1> QED BY <1>2, <1>3, <1>6, <1>7

\* The tool returns, and its writes are reported or the files unknown.
LEMMA ReturnsKeeps == ASSUME WorkInv, NEW c \in ToolCalls, ToolReturns(c) PROVE WorkInv'
<1> USE DEF WorkInv
<1>1. /\ toolState[c] = "running" /\ toolState' = [toolState EXCEPT ![c] = "sent"]
      /\ UNCHANGED <<stepOf, approvals, waiting, decision, fileVersion, lastBy, seenBefore, said>>
  BY DEF ToolReturns
<1>2. PICK after \in {fileVersion, Partial} :
        toolOut' = [toolOut EXCEPT ![c] = DiffSnapshots(seenBefore[c], after)]
  BY DEF ToolReturns
<1> DEFINE diff == DiffSnapshots(seenBefore[c], after)
<1>3. diff \in FileReports
  BY DEF DiffSnapshots, Unknown, FileReports
<1>4. diff.unknown \/ \A f \in WatchedFiles : c \in lastBy[f] => f \in diff.files
  <2> SUFFICES ASSUME seenBefore[c] # Partial, after # Partial, NEW f \in WatchedFiles, c \in lastBy[f]
               PROVE  f \in diff.files
    BY DEF DiffSnapshots, Unknown
  <2>1. after = fileVersion /\ seenBefore[c][f] < fileVersion[f]
    BY <1>1 DEF Newer
  <2>2. seenBefore[c][f] \in Nat /\ fileVersion[f] \in Nat
    BY DEF CallTypes, Snapshots
  <2>3. fileVersion[f] # seenBefore[c][f]
    BY <2>1, <2>2
  <2> QED BY <2>1, <2>3 DEF DiffSnapshots
<1> HIDE DEF diff
<1>5. CallTypes'
  BY <1>1, <1>2, <1>3 DEF CallTypes, diff
<1>6. (\A d \in ToolCalls : Gated(d)') /\ Pending'
  BY <1>1 DEF CallTypes, Gated, Pending, WorkerAt
<1>7. \A d \in ToolCalls : Newer(d)'
  BY <1>1 DEF CallTypes, Newer
<1>8. OutputsCover'
  <2>1. toolOut'[c] = diff /\ \A d \in ToolCalls \ {c} : toolOut'[d] = toolOut[d]
                                                        /\ toolState'[d] = toolState[d]
    BY <1>1, <1>2 DEF CallTypes, diff
  <2> QED BY <1>1, <1>4, <2>1 DEF OutputsCover, Covers
<1> QED BY <1>5, <1>6, <1>7, <1>8

\* Dispatch takes the result, in time or after waiting for it, or stops
\* waiting in time.
LEMMA TakesKeeps ==
  ASSUME WorkInv, NEW c \in ToolCalls, TakeResult(c) \/ DrainResult(c) \/ TakeTimeout(c)
  PROVE  WorkInv'
<1> USE DEF WorkInv
<1>1. UNCHANGED <<approvals, waiting, decision, fileVersion, lastBy, seenBefore, toolOut, said>>
  BY DEF TakeResult, DrainResult, TakeTimeout
<1>2. stepOf[c] \in {"running", "draining"}
  BY DEF TakeResult, DrainResult, TakeTimeout
<1>3. CASE TakeResult(c) \/ DrainResult(c)
  <2>1. /\ toolState[c] = "sent" /\ toolState' = [toolState EXCEPT ![c] = "joined"]
        /\ stepOf' = [stepOf EXCEPT ![c] = "over"]
    BY <1>3 DEF TakeResult, DrainResult, WorkerDone, Ends
  <2>2. CallTypes' /\ Pending'
    BY <1>1, <1>2, <2>1 DEF CallTypes, Pending
  <2>3. \A d \in ToolCalls : Gated(d)'
    BY <1>1, <1>2, <2>1 DEF CallTypes, Gated, WorkerAt
  <2>4. \A d \in ToolCalls : toolState'[d] = toolState[d] \/ (toolState[d] = "sent" /\ toolState'[d] = "joined")
    BY <2>1 DEF CallTypes
  <2> QED BY <1>1, <2>2, <2>3, <2>4, TreeStays
<1>4. CASE TakeTimeout(c)
  <2>1. stepOf' = [stepOf EXCEPT ![c] = "draining"] /\ toolState' = toolState
        /\ stepOf[c] = "running"
    BY <1>4 DEF TakeTimeout
  <2>2. CallTypes' /\ Pending'
    BY <1>1, <2>1 DEF CallTypes, Pending
  <2>3. \A d \in ToolCalls : Gated(d)'
    BY <1>1, <2>1 DEF CallTypes, Gated, WorkerAt
  <2> QED BY <1>1, <2>1, <2>2, <2>3, TreeStays
<1> QED BY <1>3, <1>4

\* Every step keeps the invariant.
LEMMA NextWork == WorkInv /\ [ToolNext]_toolVars => WorkInv'
<1> SUFFICES ASSUME WorkInv, [ToolNext]_toolVars PROVE WorkInv'
  OBVIOUS
<1>1. ASSUME UNCHANGED <<stepOf, toolState, approvals, waiting, decision, fileVersion, lastBy,
                         seenBefore, toolOut, said>>
      PROVE  WorkInv'
  BY <1>1 DEF WorkInv, CallTypes, Gated, Pending, Newer, OutputsCover, Covers
<1>2. CASE UNCHANGED toolVars
  BY <1>1, <1>2 DEF toolVars
<1>3. ASSUME NEW c \in ToolCalls, ContextEnds(c) PROVE WorkInv'
  BY <1>1, <1>3 DEF ContextEnds
<1> QED BY <1>2, <1>3, RefusedKeeps, RequestKeeps, ResolveKeeps, GivesUpKeeps, StartKeeps,
           WriteKeeps, ReturnsKeeps, TakesKeeps
    DEF ToolNext

-----------------------------------------------------------------------------
\* An Observation is the output of a worker that is joined.
Observed(c) == answerOf[c] = "observed" => toolState[c] = "joined" /\ reported[c] = toolOut[c]

Answers == {"none", "unknown_tool", "bad_args", "not_admitted", "network_denied", "critical",
            "rejected", "ctx", "observed", "tool_error"}

AnswersAre ==
    /\ answerOf \in [ToolCalls -> Answers] /\ reported \in [ToolCalls -> FileReports]
    /\ \A c \in ToolCalls : Observed(c)

DispatchInv == WorkInv /\ AnswersAre

LEMMA InitDispatch == ToolInit => DispatchInv
<1> SUFFICES ASSUME ToolInit PROVE DispatchInv
  OBVIOUS
<1>1. Nothing \in FileReports
  BY DEF Nothing, FileReports
<1>2. AnswersAre
  BY <1>1 DEF ToolInit, AnswersAre, Answers, Observed
<1> QED BY <1>2, InitWork DEF DispatchInv

\* A dispatch ends with another answer, or goes on without one, and no worker that
\* is joined has changed.
LEMMA OtherAnswers ==
  ASSUME WorkInv, AnswersAre, NEW c \in ToolCalls, NEW a \in Answers \ {"observed"},
         answerOf' = answerOf \/ answerOf' = [answerOf EXCEPT ![c] = a],
         reported' = reported,
         \A d \in ToolCalls : toolState[d] = "joined" => toolState'[d] = "joined" /\ toolOut'[d] = toolOut[d]
  PROVE  AnswersAre'
<1>1. answerOf' \in [ToolCalls -> Answers] /\ reported' \in [ToolCalls -> FileReports]
  BY DEF AnswersAre
<1>2. ASSUME NEW d \in ToolCalls, answerOf'[d] = "observed"
      PROVE  toolState'[d] = "joined" /\ reported'[d] = toolOut'[d]
  <2>1. answerOf[d] = "observed"
    BY <1>2 DEF AnswersAre
  <2> QED BY <2>1 DEF AnswersAre, Observed
<1> QED BY <1>1, <1>2 DEF AnswersAre, Observed

\* The output of a tool that ended without an error becomes the Observation.
LEMMA ObservedKeeps ==
  ASSUME WorkInv, AnswersAre, NEW c \in ToolCalls,
         toolState' = [toolState EXCEPT ![c] = "joined"], toolOut' = toolOut,
         answerOf' = [answerOf EXCEPT ![c] = "observed"],
         reported' = [reported EXCEPT ![c] = toolOut[c]]
  PROVE  AnswersAre'
<1>1. toolOut[c] \in FileReports /\ toolState \in [ToolCalls -> {"none", "running", "sent", "joined"}]
  BY DEF WorkInv, CallTypes
<1>2. answerOf' \in [ToolCalls -> Answers] /\ reported' \in [ToolCalls -> FileReports]
  BY <1>1 DEF AnswersAre, Answers
<1>3. ASSUME NEW d \in ToolCalls PROVE Observed(d)'
  BY <1>1 DEF AnswersAre, Observed
<1> QED BY <1>2, <1>3 DEF AnswersAre

LEMMA AnswersKeep == ASSUME WorkInv, AnswersAre, ToolNext PROVE AnswersAre'
<1> DEFINE Kept == \A d \in ToolCalls :
             toolState[d] = "joined" => toolState'[d] = "joined" /\ toolOut'[d] = toolOut[d]
<1>1. toolState \in [ToolCalls -> {"none", "running", "sent", "joined"}] /\ toolOut \in [ToolCalls -> FileReports]
  BY DEF WorkInv, CallTypes
<1>2. "none" \in Answers \ {"observed"}
  BY DEF Answers
<1>3. ASSUME NEW c \in ToolCalls, DispatchRefused(c) PROVE AnswersAre'
  <2>1. Refusal(c) \in Answers \ {"observed"}
    BY DEF Refusal, Answers
  <2>2. answerOf' = [answerOf EXCEPT ![c] = Refusal(c)] /\ UNCHANGED <<toolState, toolOut, reported>>
    BY <1>3 DEF DispatchRefused, Ends
  <2> QED BY <2>1, <2>2, OtherAnswers
<1>4. ASSUME NEW c \in ToolCalls, ApprovalRefused(c) PROVE AnswersAre'
  <2>1. PICK a \in {"rejected", "ctx"} : answerOf' = [answerOf EXCEPT ![c] = a]
    BY <1>4 DEF ApprovalRefused, Ends
  <2>2. UNCHANGED <<toolState, toolOut, reported>> /\ a \in Answers \ {"observed"}
    BY <1>4 DEF ApprovalRefused, Answers
  <2> QED BY <2>1, <2>2, OtherAnswers
<1>5. ASSUME NEW c \in ToolCalls, Start(c) \/ ToolReturns(c) PROVE AnswersAre'
  <2>1. toolState[c] # "joined"
    BY <1>5, <1>1 DEF Start, ToolReturns, WorkInv, Gated, WorkerAt
  <2>2. answerOf' = answerOf /\ reported' = reported
    BY <1>5 DEF Start, ToolReturns
  <2>3. /\ \A d \in ToolCalls \ {c} : toolState'[d] = toolState[d]
        /\ \A d \in ToolCalls \ {c} : toolOut'[d] = toolOut[d]
    BY <1>1, <1>5 DEF Start, ToolReturns
  <2>4. Kept
    BY <2>1, <2>3
  <2> QED BY <1>2, <2>2, <2>4, OtherAnswers
<1>6. ASSUME NEW c \in ToolCalls,
             RequestApproval(c) \/ TakeTimeout(c) \/ ContextEnds(c) \/ \E f \in WatchedFiles : ToolWrites(c, f)
      PROVE  AnswersAre'
  <2>1. UNCHANGED <<toolState, toolOut, answerOf, reported>>
    BY <1>6 DEF RequestApproval, TakeTimeout, ContextEnds, ToolWrites
  <2> QED BY <1>2, <2>1, OtherAnswers
<1>7. ASSUME NEW id \in DOMAIN waiting, NEW yes \in BOOLEAN, ResolveApproval(id, yes) PROVE AnswersAre'
  <2>1. UNCHANGED <<toolState, toolOut, answerOf, reported>>
    BY <1>7 DEF ResolveApproval
  <2> QED BY <2>1 DEF AnswersAre, Observed
<1>8. ASSUME NEW c \in ToolCalls, TakeResult(c) PROVE AnswersAre'
  <2>1. toolState' = [toolState EXCEPT ![c] = "joined"] /\ toolOut' = toolOut
    BY <1>8 DEF TakeResult
  <2>2. CASE toolErr[c] = "ok"
    BY <1>8, <2>1, <2>2, ObservedKeeps DEF TakeResult, Ends
  <2>3. CASE toolErr[c] # "ok"
    <3>1. answerOf' = [answerOf EXCEPT ![c] = "tool_error"] /\ reported' = reported
      BY <1>8, <2>3 DEF TakeResult, Ends
    <3>2. Kept /\ "tool_error" \in Answers \ {"observed"}
      BY <1>1, <2>1 DEF Answers
    <3> QED BY <3>1, <3>2, OtherAnswers
  <2> QED BY <2>2, <2>3
<1>9. ASSUME NEW c \in ToolCalls, DrainResult(c) PROVE AnswersAre'
  <2>1. /\ toolState' = [toolState EXCEPT ![c] = "joined"] /\ toolOut' = toolOut
        /\ answerOf' = [answerOf EXCEPT ![c] = "ctx"] /\ reported' = reported
    BY <1>9 DEF DrainResult, WorkerDone, Ends
  <2>2. Kept /\ "ctx" \in Answers \ {"observed"}
    BY <1>1, <2>1 DEF Answers
  <2> QED BY <2>1, <2>2, OtherAnswers
<1> QED BY <1>3, <1>4, <1>5, <1>6, <1>7, <1>8, <1>9 DEF ToolNext

\* Every step keeps the invariant.
LEMMA NextDispatch == DispatchInv /\ [ToolNext]_toolVars => DispatchInv'
<1> SUFFICES ASSUME DispatchInv, [ToolNext]_toolVars PROVE DispatchInv'
  OBVIOUS
<1>1. WorkInv'
  BY NextWork DEF DispatchInv
<1>2. CASE ToolNext
  BY <1>1, <1>2, AnswersKeep DEF DispatchInv
<1>3. CASE UNCHANGED toolVars
  <2>1. UNCHANGED <<toolState, toolOut, answerOf, reported>>
    BY <1>3 DEF toolVars
  <2>2. AnswersAre'
    BY <2>1 DEF DispatchInv, AnswersAre, Observed
  <2> QED BY <1>1, <2>2 DEF DispatchInv
<1> QED BY <1>2, <1>3

\* What the invariant says of a state.
LEMMA DispatchIsSound == DispatchInv => ToolTypeOK /\ DispatchSound
<1> SUFFICES ASSUME DispatchInv PROVE ToolTypeOK /\ DispatchSound
  OBVIOUS
<1>1. ToolTypeOK
  BY DEF DispatchInv, WorkInv, AnswersAre, CallTypes, FileReports, ToolTypeOK
<1>2. RanOnlyAllowed
  <2> SUFFICES ASSUME NEW c \in ToolCalls, toolState[c] # "none"
               PROVE  /\ Ask[c].known /\ Ask[c].args /\ Ask[c].admitted /\ Ask[c].net
                      /\ Ask[c].risk # "critical"
                      /\ NeedsPrompt(c) => said[c] = "yes"
    BY DEF RanOnlyAllowed
  <2>1. Refusal(c) = "none" /\ (NeedsPrompt(c) => said[c] = "yes")
    BY DEF DispatchInv, WorkInv, Gated
  <2> QED BY <2>1 DEF Refusal
<1>3. PendingIsWaiting
  <2> SUFFICES ASSUME NEW c \in ToolCalls
               PROVE  Cardinality({i \in DOMAIN waiting : waiting[i] = c})
                        = IF stepOf[c] = "asking" /\ said[c] = "none" THEN 1 ELSE 0
    BY DEF PendingIsWaiting
  <2> DEFINE Of == {i \in DOMAIN waiting : waiting[i] = c}
  <2>1. CASE stepOf[c] = "asking" /\ said[c] = "none"
    <3>1. PICK i \in DOMAIN waiting : waiting[i] = c
      BY <2>1 DEF DispatchInv, WorkInv, Pending
    <3>2. Of = {i}
      BY <3>1 DEF DispatchInv, WorkInv, Pending
    <3> QED BY <2>1, <3>2, FS_Singleton
  <2>2. CASE ~(stepOf[c] = "asking" /\ said[c] = "none")
    <3>1. Of = {}
      BY <2>2 DEF DispatchInv, WorkInv, Pending
    <3> QED BY <2>2, <3>1, FS_EmptySet
  <2> QED BY <2>1, <2>2
<1>4. NoWorkerLeft
  BY DEF DispatchInv, WorkInv, Gated, WorkerAt, NoWorkerLeft
<1>5. WritesAreReported
  <2> SUFFICES ASSUME NEW c \in ToolCalls, answerOf[c] = "observed" PROVE Covers(reported[c], c)
    BY DEF WritesAreReported
  <2>1. toolState[c] = "joined" /\ reported[c] = toolOut[c]
    BY DEF DispatchInv, AnswersAre, Observed
  <2>2. Covers(toolOut[c], c)
    BY <2>1 DEF DispatchInv, WorkInv, OutputsCover
  <2> QED BY <2>1, <2>2
<1> QED BY <1>1, <1>2, <1>3, <1>4, <1>5 DEF DispatchSound

\* However many calls are dispatched at once, in whatever order the humans
\* answer and the contexts end: a tool runs only when the gates and the human
\* let it, pending holds the calls that wait unanswered and no other, no worker
\* outlives its dispatch, and an Observation returned without an error names what
\* its command wrote or says that it is unknown.
THEOREM DispatchAlwaysSound == ToolSpec => []DispatchSound
BY InitDispatch, NextDispatch, DispatchIsSound, PTL DEF ToolSpec
=============================================================================
