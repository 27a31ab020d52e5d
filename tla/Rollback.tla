------------------------------ MODULE Rollback ------------------------------
(***************************************************************************)
(* How a change is undone when its verification fails: the patch engine    *)
(* (internal/patch/engine.go, Apply), the shadow checkpoints it takes      *)
(* (cmd/yolo/checkpointer_adapter.go), the two ways a patch reaches it     *)
(* (the patch tool, cmd/yolo/exec_adapter.go, and the corrective patch of  *)
(* the PATCH state) and the restore of the VERIFY state                    *)
(* (internal/runtime/core.go).                                             *)
(*                                                                         *)
(* The working tree maps a path to the number of the write that produced   *)
(* its content, 0 when the file does not exist.  A checkpoint name is the  *)
(* number n of "patch_n"; its directory keeps, for a path, a copy, or a    *)
(* ".deleted" sentinel for a path that did not exist, or both.  One task;  *)
(* control flow that does not touch the tree is in RuntimeCore.  Reading,  *)
(* checkpointing and restoring do not fail here; writing does.             *)
(***************************************************************************)
EXTENDS Naturals, FiniteSets

CONSTANTS
    Paths,             \* the files of the repository
    Existing,          \* those there at the start
    MaxVerifyRetries,  \* maxVerifyRetries of core.go
    MaxToolPatches,    \* bound: calls of the patch tool
    MaxWrites,         \* bound: writes of any kind
    PatchIsLast        \* bound: once a checkpoint exists, no further tool runs

ASSUME RollbackAssumption ==
    /\ IsFiniteSet(Paths) /\ Existing \subseteq Paths
    /\ MaxVerifyRetries \in Nat /\ MaxToolPatches \in Nat /\ MaxWrites \in Nat
    /\ PatchIsLast \in BOOLEAN

Names == 1..(MaxVerifyRetries + 1)

VARIABLES
    tree,      \* the working tree
    shadow,    \* the shadow directories, by name and path
    ckptName,  \* h.ckptName, 0 for ""
    files,     \* h.lastObs.Files
    ckpt,      \* h.lastObs.Checkpoint, 0 for ""
    fromPatch, \* h.lastObs.FromPatch
    retries,   \* h.retries
    phase,     \* act, verify, reflect, patch, over
    writes,    \* writes so far; numbers their contents
    patches,   \* calls of the patch tool so far
    verified,  \* history: the paths whose content has passed a verification
    before     \* history: the tree before the change under verification

obs == <<files, ckpt, fromPatch>>
vars == <<tree, shadow, ckptName, obs, retries, phase, writes, patches,
          verified, before>>

NoEntry == [copy |-> 0, deleted |-> FALSE]

Init ==
    /\ tree = [p \in Paths |-> IF p \in Existing THEN 1 ELSE 0]
    /\ shadow = [n \in Names |-> [p \in Paths |-> NoEntry]]
    /\ ckptName = 0 /\ files = {} /\ ckpt = 0 /\ fromPatch = FALSE /\ retries = 0
    /\ phase = "act" /\ writes = 1 /\ patches = 0
    /\ verified = Paths /\ before = tree

----------------------------------------------------------------------------
(* The shadow tree.                                                        *)

\* checkpoint: copy the path under the name, or mark that it did not exist.
\* What the name already holds is not cleared.
CheckpointMarked(n, p) ==     \* mutant: a sentinel whether or not the file was there
    shadow' = [shadow EXCEPT ![n][p] = [copy |-> tree[p], deleted |-> TRUE]]

Checkpoint(n, p) ==
    shadow' = IF tree[p] = 0
              THEN [shadow EXCEPT ![n][p].deleted = TRUE]
              ELSE [shadow EXCEPT ![n][p].copy = tree[p]]

\* restore: filepath.Walk visits "f" before "f.deleted", so a sentinel wins.
\* A name that was never taken restores nothing (an error nobody reads).
RestoredWhole(sh, n) ==       \* mutant: the tree rebuilt from the directory alone
    [p \in Paths |-> IF sh[n][p].deleted THEN 0 ELSE sh[n][p].copy]

Restored(sh, n) ==
    [p \in Paths |->
        IF sh[n][p].deleted THEN 0
        ELSE IF sh[n][p].copy # 0 THEN sh[n][p].copy
        ELSE tree[p]]

----------------------------------------------------------------------------
(* engine.Apply: a checkpoint first, then refuse, fail or write.           *)

\* No SEARCH block matches, the result is empty or does not parse: nothing
\* has been written.
Refused(n, p) ==
    /\ Checkpoint(n, p)
    /\ UNCHANGED <<tree, writes, verified, before>>

\* Mutant: a failed write that leaves a truncated file behind.
WriteFailedDirty(n, p) ==
    /\ Checkpoint(n, p)
    /\ tree' = [tree EXCEPT ![p] = 0]
    /\ UNCHANGED <<writes, verified, before>>

\* The write failed half way: the checkpoint is restored.
WriteFailed(n, p) ==
    /\ Checkpoint(n, p)
    /\ tree' = Restored(shadow', n)
    /\ UNCHANGED <<writes, verified, before>>

\* A new content of p, by any tool.
Writes(p) ==
    /\ writes < MaxWrites
    /\ writes' = writes + 1
    /\ tree' = [tree EXCEPT ![p] = writes + 1]
    /\ before' = tree
    /\ verified' = verified \ {p}

Accepted(n, p) ==
    /\ Checkpoint(n, p)
    /\ Writes(p)

----------------------------------------------------------------------------
(* EXECUTE: the tools that write.                                          *)

MayAct ==
    /\ phase = "act"
    /\ PatchIsLast => \A n \in Names, p \in Paths : shadow[n][p] = NoEntry

\* dispatchPatch always asks for sequence number 1; a refusal or a failure is
\* a Dispatch error and ends the task.
PatchTool(p) ==
    /\ MayAct /\ patches < MaxToolPatches
    /\ patches' = patches + 1
    /\ \/ /\ Accepted(1, p)
          /\ files' = {p} /\ ckpt' = 1 /\ fromPatch' = TRUE
          /\ phase' = "verify"
       \/ /\ Refused(1, p) \/ WriteFailed(1, p)
          /\ phase' = "over"
          /\ UNCHANGED obs
    /\ UNCHANGED <<ckptName, retries>>

\* edit_file, or a command that wrote p: no checkpoint.
EditTool(p) ==
    /\ MayAct
    /\ Writes(p)
    /\ files' = {p} /\ ckpt' = 0 /\ fromPatch' = FALSE
    /\ phase' = "verify"
    /\ UNCHANGED <<shadow, ckptName, retries, patches>>

\* A tool that wrote nothing; it is verified all the same.
QuietTool ==
    /\ MayAct
    /\ files' = {} /\ ckpt' = 0 /\ fromPatch' = FALSE
    /\ phase' = "verify"
    /\ before' = tree
    /\ UNCHANGED <<tree, shadow, ckptName, retries, writes, patches, verified>>

\* The plan is finished.
Finish ==
    /\ phase = "act"
    /\ phase' = "over"
    /\ UNCHANGED <<tree, shadow, ckptName, obs, retries, writes, patches,
                   verified, before>>

----------------------------------------------------------------------------
(* VERIFY and PATCH.                                                       *)

\* A pass vouches for the tree as it stands.
Pass ==
    /\ phase = "verify" /\ files # {}
    /\ phase' = "act"
    /\ verified' = Paths
    /\ UNCHANGED <<tree, shadow, ckptName, obs, retries, writes, patches, before>>

\* Mutant: the observation's checkpoint, whatever a correction recorded since.
ObservedName == ckpt

\* The name to restore: the handle's, and the observation's only when the
\* handle has none.
RestoreName == IF ckptName = 0 THEN ckpt ELSE ckptName

\* A failing verdict restores, then asks for a reflection.
Fail ==
    /\ phase = "verify"
    /\ ckptName' = RestoreName
    /\ tree' = IF ckptName' = 0 THEN tree ELSE Restored(shadow, ckptName')
    /\ phase' = "reflect"
    /\ UNCHANGED <<shadow, obs, retries, writes, patches, verified, before>>

\* Replan, correct, or abort.
Decide ==
    /\ phase = "reflect"
    /\ \/ phase' = "act"
       \/ phase' = "patch" /\ files # {}
       \/ phase' = "over"
    /\ UNCHANGED <<tree, shadow, ckptName, obs, retries, writes, patches,
                   verified, before>>

OutOfRetriesLate(r) ==  \* mutant: one retry too many
    r > MaxVerifyRetries + 1

OutOfRetries(r) == r > MaxVerifyRetries

\* The corrective patch: its sequence number is the retry, its target one of
\* the files of the failing change.
Correct(p) ==
    /\ phase = "patch" /\ p \in files
    /\ retries' = retries + 1
    /\ \/ /\ OutOfRetries(retries')
          /\ phase' = "over"
          /\ UNCHANGED <<tree, shadow, ckptName, obs, writes, verified, before>>
       \/ /\ ~OutOfRetries(retries')
          /\ Accepted(retries', p)
          /\ ckptName' = retries'
          /\ files' = {p} /\ ckpt' = 0 /\ fromPatch' = TRUE
          /\ phase' = "verify"
       \/ /\ ~OutOfRetries(retries')
          /\ Refused(retries', p) \/ WriteFailed(retries', p)
          /\ phase' = "over"
          /\ UNCHANGED <<ckptName, obs>>
    /\ UNCHANGED patches

Next ==
    \/ \E p \in Paths : PatchTool(p) \/ EditTool(p) \/ Correct(p)
    \/ QuietTool \/ Finish \/ Pass \/ Fail \/ Decide

Spec == Init /\ [][Next]_vars

----------------------------------------------------------------------------
(* Properties.                                                             *)

\* Type invariant: every name in use is one the retry counter can produce and
\* contents come from writes that happened.
TypeOK ==
    /\ tree \in [Paths -> 0..writes]
    /\ shadow \in [Names -> [Paths -> [copy : 0..writes, deleted : BOOLEAN]]]
    /\ ckptName \in 0..MaxVerifyRetries \union {1}
    /\ ckpt \in {0, 1} /\ fromPatch \in BOOLEAN
    /\ files \subseteq Paths /\ verified \subseteq Paths
    /\ retries \in 0..(MaxVerifyRetries + 1)
    /\ phase \in {"act", "verify", "reflect", "patch", "over"}
    /\ writes \in Nat /\ patches \in 0..MaxToolPatches
    /\ before \in [Paths -> 0..writes]

\* The restore that follows a failing verdict changes no file whose content
\* has passed its verification: undoing one change does not undo another that
\* was accepted.
VerifiedIsKept ==
    [][phase' = "reflect" => \A p \in verified : tree'[p] = tree[p]]_vars

\* After it, a file the failing patch changed is as it was before that patch
\* (core.go, VERIFY: "so the file is unchanged before Reflection proposes a
\* corrective patch").
PatchIsUndone ==
    [][(phase' = "reflect" /\ fromPatch) =>
          \A p \in files : tree'[p] = before[p]]_vars

\* It deletes no file that was there before the change under verification
\* (checkpointer_adapter.go: the sentinel is there "so Restore can remove a
\* newly-created file").
NoFileIsLost ==
    [][phase' = "reflect" => \A p \in Paths : before[p] # 0 => tree'[p] # 0]_vars

\* A patch that was refused, or whose write failed, leaves the tree as it was
\* (engine.go: "the tree is left clean").
FailedPatchLeavesTree ==
    [][(phase \in {"act", "patch"} /\ phase' = "over") => (tree' = tree)]_vars
=============================================================================
