---------------------------- MODULE SessionStore ----------------------------
(***************************************************************************)
(* The session store (internal/session/store.go) under the managers of     *)
(* several processes (manager.go, resume.go): ids are claimed by creating  *)
(* a file exclusively, records are replaced by a rename, and a process may *)
(* die at any step.  A manager is used by one goroutine here; how the      *)
(* goroutines of one process meet in it is in RuntimeCore.                 *)
(*                                                                         *)
(* A file is Absent, Torn (created, its content not yet whole) or a record *)
(* with the process that created it.  The rename of writeJSON makes a save *)
(* one step; a save that fails leaves the file and may leave a scratch     *)
(* file, which nothing reads.                                              *)
(***************************************************************************)
EXTENDS Naturals, Sequences, FiniteSets

CONSTANTS
    Proc,         \* the processes, each one life
    MaxSession,   \* bound: session ids
    MaxTask,      \* bound: task ids
    Outcomes,     \* the statuses a task may be given
    SharedResume, \* whether a session another live process holds is resumed
    Absent, Torn

ASSUME StoreAssumption ==
    /\ MaxSession \in Nat /\ MaxTask \in Nat
    /\ Outcomes \subseteq {"PAUSED", "DONE", "FAILED", "CANCELLED"}
    /\ SharedResume \in BOOLEAN /\ Absent # Torn

VARIABLES
    sessFile, taskFile, \* what is on disk
    alive,              \* the process has not crashed
    seeded,             \* Manager.seedOnce has run
    sessN, taskN,       \* Manager's counters
    sessions, tasks,    \* Manager's maps
    doing,              \* what the process is in the middle of
    created,            \* history: who was told that the session or task is his
    started             \* history: <<session, task>> whose StartTask returned nil

storeVars == <<sessFile, taskFile, alive, seeded, sessN, taskN, sessions, tasks,
               doing, created, started>>

SessionId == 1 .. MaxSession
TaskNumber == 1 .. MaxTask
Terminal == {"DONE", "FAILED", "CANCELLED"}
Status == {"PENDING", "RUNNING", "PAUSED"} \union Terminal

\* Absent and Torn are nothing that is written or held.
ASSUME NoneAssumption ==
    \A none \in {Absent, Torn} :
        /\ none \notin [by : Proc, tasks : Seq(TaskNumber)]
        /\ none \notin [by : Proc, sid : SessionId, status : Status]
        /\ none \notin Seq(TaskNumber) /\ none \notin Status

Whole(f) == f \notin {Absent, Torn}
Idle == [at |-> "idle"]

StoreInit ==
    /\ sessFile = [s \in SessionId |-> Absent]
    /\ taskFile = [t \in TaskNumber |-> Absent]
    /\ alive = [p \in Proc |-> TRUE]
    /\ seeded = [p \in Proc |-> FALSE]
    /\ sessN = [p \in Proc |-> 0] /\ taskN = [p \in Proc |-> 0]
    /\ sessions = [p \in Proc |-> [s \in SessionId |-> Absent]]
    /\ tasks = [p \in Proc |-> [t \in TaskNumber |-> Absent]]
    /\ doing = [p \in Proc |-> Idle]
    /\ created = {} /\ started = {}

Highest(S) == IF S = {} THEN 0 ELSE CHOOSE n \in S : \A m \in S : m <= n

\* ListSessions: what does not load is skipped.
Listed == {s \in SessionId : Whole(sessFile[s])}

TasksListed == UNION {{sessFile[s].tasks[i] : i \in DOMAIN sessFile[s].tasks} : s \in Listed}

\* seedCounters: once per manager, before its first claim. A process that only
\* resumes does not come here.
Seed(p) ==
    /\ ~ seeded[p]
    /\ seeded' = [seeded EXCEPT ![p] = TRUE]
    /\ sessN' = [sessN EXCEPT ![p] = Highest(Listed)]
    /\ taskN' = [taskN EXCEPT ![p] = Highest(TasksListed)]
    /\ UNCHANGED <<sessFile, taskFile, alive, sessions, tasks, doing, created, started>>

\* OpenFile with O_CREATE and O_EXCL.
ClaimFree(f) == f = Absent

-----------------------------------------------------------------------------
\* OpenSession

\* The next number is tried; ErrIDTaken only moves the counter.
ClaimSession(p) ==
    /\ alive[p] /\ seeded[p] /\ doing[p] = Idle /\ sessN[p] < MaxSession
    /\ LET s == sessN[p] + 1
       IN  /\ sessN' = [sessN EXCEPT ![p] = s]
           /\ IF ClaimFree(sessFile[s])
              THEN /\ sessFile' = [sessFile EXCEPT ![s] = Torn]
                   /\ doing' = [doing EXCEPT ![p] = [at |-> "session", sid |-> s]]
              ELSE UNCHANGED <<sessFile, doing>>
    /\ UNCHANGED <<taskFile, alive, seeded, taskN, sessions, tasks, created, started>>

\* The record is written and fsynced, and only then registered.
SessionWritten(p) ==
    /\ alive[p] /\ doing[p].at = "session"
    /\ LET s == doing[p].sid
       IN  /\ sessFile' = [sessFile EXCEPT ![s] = [by |-> p, tasks |-> <<>>]]
           /\ sessions' = [sessions EXCEPT ![p][s] = <<>>]
           /\ created' = created \union {[file |-> "session", id |-> s, by |-> p]}
    /\ doing' = [doing EXCEPT ![p] = Idle]
    /\ UNCHANGED <<taskFile, alive, seeded, sessN, taskN, tasks, started>>

\* The write fails: the file is removed, if that works, and the error returned.
SessionFailed(p) ==
    /\ alive[p] /\ doing[p].at = "session"
    /\ sessFile' \in {sessFile, [sessFile EXCEPT ![doing[p].sid] = Absent]}
    /\ doing' = [doing EXCEPT ![p] = Idle]
    /\ UNCHANGED <<taskFile, alive, seeded, sessN, taskN, sessions, tasks, created, started>>

-----------------------------------------------------------------------------
\* StartTask

ClaimTask(p, s) ==
    /\ alive[p] /\ seeded[p] /\ doing[p] = Idle /\ taskN[p] < MaxTask
    /\ sessions[p][s] # Absent                      \* else ErrUnknownSession
    /\ LET t == taskN[p] + 1
       IN  /\ taskN' = [taskN EXCEPT ![p] = t]
           /\ IF ClaimFree(taskFile[t])
              THEN /\ taskFile' = [taskFile EXCEPT ![t] = Torn]
                   /\ doing' = [doing EXCEPT ![p] = [at |-> "task", sid |-> s, tid |-> t]]
              ELSE UNCHANGED <<taskFile, doing>>
    /\ UNCHANGED <<sessFile, alive, seeded, sessN, sessions, tasks, created, started>>

\* The task is on disk; it is registered and added to its session in memory.
TaskWritten(p) ==
    /\ alive[p] /\ doing[p].at = "task"
    /\ LET s == doing[p].sid
           t == doing[p].tid
       IN  /\ taskFile' = [taskFile EXCEPT ![t] = [by |-> p, sid |-> s, status |-> "PENDING"]]
           /\ tasks' = [tasks EXCEPT ![p][t] = "PENDING"]
           /\ sessions' = [sessions EXCEPT ![p][s] = Append(@, t)]
           /\ created' = created \union {[file |-> "task", id |-> t, by |-> p]}
    /\ doing' = [doing EXCEPT ![p] = [@ EXCEPT !.at = "list"]]
    /\ UNCHANGED <<sessFile, alive, seeded, sessN, taskN, started>>

TaskFailed(p) ==
    /\ alive[p] /\ doing[p].at = "task"
    /\ taskFile' \in {taskFile, [taskFile EXCEPT ![doing[p].tid] = Absent]}
    /\ doing' = [doing EXCEPT ![p] = Idle]
    /\ UNCHANGED <<sessFile, alive, seeded, sessN, taskN, sessions, tasks, created, started>>

Snapshot(p, s) == sessions[p][s]

\* SaveSession succeeds, and with it StartTask.
SessionListed(p) ==
    /\ alive[p] /\ doing[p].at = "list"
    /\ LET s == doing[p].sid
       IN  /\ sessFile' = [sessFile EXCEPT ![s] = [by |-> @.by, tasks |-> Snapshot(p, s)]]
           /\ started' = started \union {<<s, doing[p].tid>>}
    /\ doing' = [doing EXCEPT ![p] = Idle]
    /\ UNCHANGED <<taskFile, alive, seeded, sessN, taskN, sessions, tasks, created>>

\* SaveSession fails: StartTask returns the error, the task stays on disk and in
\* the session in memory.
ListFailed(p) ==
    /\ alive[p] /\ doing[p].at = "list"
    /\ doing' = [doing EXCEPT ![p] = Idle]
    /\ UNCHANGED <<sessFile, taskFile, alive, seeded, sessN, taskN, sessions, tasks, created, started>>

-----------------------------------------------------------------------------
\* Status changes, Resume, crashes

\* CompleteTask, Fail, Cancel and Pause: the status changes in memory, then the
\* record is replaced, or the save fails. Fail and Cancel refuse a task that
\* has ended; Pause and CompleteTask do not look, and nobody calls them then.
SetStatus(p, t, st) ==
    /\ alive[p] /\ doing[p] = Idle
    /\ tasks[p][t] \notin {Absent} \union Terminal
    /\ tasks' = [tasks EXCEPT ![p][t] = st]
    /\ taskFile' \in {taskFile, [taskFile EXCEPT ![t].status = st]}
    /\ UNCHANGED <<sessFile, alive, seeded, sessN, taskN, sessions, doing, created, started>>

\* The interrupted-task rule of Resume.
Interrupted(st) == IF st = "RUNNING" THEN "PAUSED" ELSE st

HeldElsewhere(p, s) == \E q \in Proc \ {p} : alive[q] /\ sessions[q][s] # Absent

\* Resume: a session that does not load changes nothing; otherwise it is
\* installed, and its latest task with it when that one loads.
Resume(p, s) ==
    /\ alive[p] /\ doing[p] = Idle
    /\ Whole(sessFile[s])                 \* else ErrUnknownSession or damage
    /\ SharedResume \/ ~ HeldElsewhere(p, s)
    /\ sessions' = [sessions EXCEPT ![p][s] = sessFile[s].tasks]
    /\ LET n == Len(sessFile[s].tasks)
           t == sessFile[s].tasks[n]
       IN  IF n > 0 /\ Whole(taskFile[t])
           THEN LET st == Interrupted(taskFile[t].status)
                IN  /\ tasks' = [tasks EXCEPT ![p][t] = st]
                    /\ taskFile' \in {[taskFile EXCEPT ![t].status = st]}
                                     \union (IF st # taskFile[t].status THEN {taskFile} ELSE {})
           ELSE UNCHANGED <<tasks, taskFile>>
    /\ UNCHANGED <<sessFile, alive, seeded, sessN, taskN, doing, created, started>>

\* The process dies; a file it was creating stays torn.
Die(p) ==
    /\ alive[p]
    /\ alive' = [alive EXCEPT ![p] = FALSE]
    /\ sessions' = [sessions EXCEPT ![p] = [s \in SessionId |-> Absent]]
    /\ tasks' = [tasks EXCEPT ![p] = [t \in TaskNumber |-> Absent]]
    /\ doing' = [doing EXCEPT ![p] = Idle]
    /\ UNCHANGED <<sessFile, taskFile, seeded, sessN, taskN, created, started>>

StoreNext ==
    \E p \in Proc :
        \/ alive[p] /\ Seed(p)
        \/ ClaimSession(p) \/ SessionWritten(p) \/ SessionFailed(p)
        \/ \E s \in SessionId : ClaimTask(p, s) \/ Resume(p, s)
        \/ TaskWritten(p) \/ TaskFailed(p)
        \/ SessionListed(p) \/ ListFailed(p)
        \/ \E t \in TaskNumber, st \in Outcomes : SetStatus(p, t, st)
        \/ Die(p)

StoreSpec == StoreInit /\ [][StoreNext]_storeVars

-----------------------------------------------------------------------------
\* Properties

StoreTypeOK ==
    /\ \A s \in SessionId : Whole(sessFile[s]) =>
          sessFile[s].by \in Proc /\ \A i \in DOMAIN sessFile[s].tasks : sessFile[s].tasks[i] \in TaskNumber
    /\ \A t \in TaskNumber : Whole(taskFile[t]) =>
          taskFile[t].by \in Proc /\ taskFile[t].sid \in SessionId /\ taskFile[t].status \in Status
    /\ \A p \in Proc : /\ alive[p] \in BOOLEAN /\ seeded[p] \in BOOLEAN
                       /\ sessN[p] \in 0 .. MaxSession /\ taskN[p] \in 0 .. MaxTask
                       /\ doing[p].at \in {"idle", "session", "task", "list"}

\* An id belongs to one process for ever: whoever was told that a session or a
\* task is his finds his own record there, whatever other processes claim,
\* fail to write, remove or leave torn.
OneOwner ==
    \A c \in created :
        LET f == IF c.file = "session" THEN sessFile[c.id] ELSE taskFile[c.id]
        IN  Whole(f) /\ f.by = c.by

\* A task whose StartTask returned nil is listed by its session on disk, through
\* failed saves, crashes and resumes, as long as two live processes do not hold
\* the session at once.
StartedIsListed ==
    \A st \in started :
        \E i \in DOMAIN sessFile[st[1]].tasks : sessFile[st[1]].tasks[i] = st[2]

\* Every task a session lists is a whole record of that session: the task is on
\* disk before its session names it.
ListedIsWhole ==
    \A s \in Listed : \A i \in DOMAIN sessFile[s].tasks :
        LET f == taskFile[sessFile[s].tasks[i]] IN Whole(f) /\ f.sid = s

\* The store, as one invariant.
StoreSound == OneOwner /\ StartedIsListed /\ ListedIsWhole
=============================================================================
