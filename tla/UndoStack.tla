------------------------------ MODULE UndoStack ------------------------------
(***************************************************************************)
(* The undo stack of one task (internal/session/history.go) and the        *)
(* rollback of its cancellation (cancel.go), over the checkpointer stub    *)
(* that mints snapshot numbers (checkpointer.go).  The manager's copy and  *)
(* the one on disk part when a save fails; a restart takes the one on      *)
(* disk.                                                                   *)
(***************************************************************************)
EXTENDS Naturals, Sequences

CONSTANTS
    EntryNames,       \* summaries of entries, the names of checkpoints among them
    MaxEntries,  \* bound: length of the stack
    MaxSnaps,    \* bound: snapshots taken
    NoName       \* the empty checkpoint pointer

ASSUME UndoAssumption == NoName \notin EntryNames /\ MaxEntries \in Nat /\ MaxSnaps \in Nat

VARIABLES
    history,    \* Task.History in memory
    checkpoint, \* Task.Checkpoint in memory
    saved,      \* what the task file holds of both
    snaps,      \* snapshots minted by InMemCheckpointer
    rolledTo,   \* the last Rollback, 0 for none
    ended       \* the task is CANCELLED

undoVars == <<history, checkpoint, saved, snaps, rolledTo, ended>>

Latest(h) == h[Len(h)]
But(h, n) == SubSeq(h, 1, n)
IsNamed(h, name) == {i \in DOMAIN h : h[i].name = name}
FirstNamed(h, name) == CHOOSE i \in IsNamed(h, name) : \A j \in IsNamed(h, name) : i <= j

UndoInit ==
    /\ history = <<>> /\ checkpoint = NoName
    /\ saved = [history |-> <<>>, checkpoint |-> NoName]
    /\ snaps = 0 /\ rolledTo = 0 /\ ended = FALSE

\* SaveTask of the copy taken under the lock, or its failure.
SaveOrFail == saved' \in {saved, [history |-> history', checkpoint |-> checkpoint']}

\* Seq is the position on the stack.
NextSeq == Len(history)

\* RecordEntry: the entry stays in memory although the save fails.
RecordEntry(name, reversible) ==
    /\ ~ ended /\ Len(history) < MaxEntries
    /\ history' = Append(history, [seq |-> NextSeq, kind |-> "patch", snap |-> snaps,
                                   name |-> name, reversible |-> reversible])
    /\ checkpoint' = checkpoint
    /\ SaveOrFail
    /\ UNCHANGED <<snaps, rolledTo, ended>>

\* Checkpoint: a snapshot, an entry and the pointer. A failing snapshot changes
\* nothing.
TakeCheckpoint(name) ==
    /\ ~ ended /\ Len(history) < MaxEntries /\ snaps < MaxSnaps
    /\ snaps' = snaps + 1
    /\ history' = Append(history, [seq |-> NextSeq, kind |-> "checkpoint", snap |-> snaps + 1,
                                   name |-> name, reversible |-> TRUE])
    /\ checkpoint' = name
    /\ SaveOrFail
    /\ UNCHANGED <<rolledTo, ended>>

\* Where Undo leaves the pointer: the entry that is now on top, of any kind.
PointerAfter(h) == IF h = <<>> THEN NoName ELSE Latest(h).name

\* Undo: ErrNothingToUndo and ErrNotReversible change nothing; neither does a
\* rollback that fails.
Undo ==
    /\ ~ ended /\ history # <<>> /\ Latest(history).reversible
    /\ rolledTo' = Latest(history).snap
    /\ history' = But(history, Len(history) - 1)
    /\ checkpoint' = PointerAfter(history')
    /\ SaveOrFail
    /\ UNCHANGED <<snaps, ended>>

\* Restore: back to the first entry of that name; the later ones are discarded.
Restore(name) ==
    /\ ~ ended /\ IsNamed(history, name) # {}
    /\ rolledTo' = history[FirstNamed(history, name)].snap
    /\ history' = But(history, FirstNamed(history, name))
    /\ checkpoint' = name
    /\ SaveOrFail
    /\ UNCHANGED <<snaps, ended>>

\* The rollback of Cancel: to the first entry named like the pointer; none is
\* made without a pointer, and its error is dropped.
CancelTask ==
    /\ ~ ended
    /\ rolledTo' = IF checkpoint # NoName /\ IsNamed(history, checkpoint) # {}
                   THEN history[FirstNamed(history, checkpoint)].snap ELSE rolledTo
    /\ ended' = TRUE
    /\ UNCHANGED <<history, checkpoint, snaps>>
    /\ SaveOrFail

\* A restart before the end: the task comes back as it was saved last.
Reload ==
    /\ ~ ended
    /\ history' = saved.history /\ checkpoint' = saved.checkpoint
    /\ UNCHANGED <<saved, snaps, rolledTo, ended>>

UndoNext ==
    \/ \E n \in EntryNames : \/ \E r \in BOOLEAN : RecordEntry(n, r)
                        \/ TakeCheckpoint(n) \/ Restore(n)
    \/ Undo \/ CancelTask \/ Reload

UndoSpec == UndoInit /\ [][UndoNext]_undoVars

-----------------------------------------------------------------------------
\* Properties

UndoTypeOK ==
    /\ Len(history) <= MaxEntries /\ Len(saved.history) <= MaxEntries
    /\ checkpoint \in EntryNames \union {NoName}
    /\ snaps \in 0 .. MaxSnaps /\ rolledTo \in 0 .. MaxSnaps /\ ended \in BOOLEAN

Resolves(h, c) == c = NoName \/ IsNamed(h, c) # {}

Dense(h) == \A i \in DOMAIN h : h[i].seq = i - 1

\* From the bottom of the stack to its top, snapshots never run backwards.
Ascends(h) == \A i, j \in DOMAIN h : i < j => h[i].snap <= h[j].snap

\* In memory and on disk, after any mix of undos, restores, failed saves and
\* restarts: the checkpoint pointer names an entry that is still on the stack,
\* so a cancellation finds what to roll back to; the Seqs of the entries are
\* their positions; and undoing from the top goes back in time.
StackSound ==
    /\ Resolves(history, checkpoint) /\ Resolves(saved.history, saved.checkpoint)
    /\ Dense(history) /\ Dense(saved.history)
    /\ Ascends(history) /\ Ascends(saved.history)
=============================================================================
