--------------------------- MODULE MemoryListener ---------------------------
(***************************************************************************)
(* Project memory (internal/memory): the listener that drains the bus into *)
(* the stores (listener.go), the background jobs it leaves behind - the    *)
(* reindex of patched files and the saves after a completed task - and     *)
(* Close with its flush (store.go).  One session and one task.             *)
(*                                                                         *)
(* Texts, chunks and embeddings are abstracted: the index holds of a file  *)
(* the version it was read at, a conversation is the number of its         *)
(* messages, and what a query finds is a choice.                           *)
(***************************************************************************)
EXTENDS Naturals, Sequences, SequencesExt, FiniteSets

CONSTANTS
    MemoryFiles, \* files patches touch
    Lessons,     \* texts of insights
    MaxInsights, \* maxInsights
    ExecWindow,  \* execWindow
    MaxMail,     \* bound: events of the session
    MaxUses      \* bound: retrievals

ASSUME MemoryAssumption ==
    /\ MaxInsights \in Nat \ {0} /\ ExecWindow \in Nat \ {0}
    /\ MaxMail \in Nat /\ MaxUses \in Nat

VARIABLES
    mail,     \* the envelopes in the listener's channel
    mailed,   \* events published so far, which is also their Seq
    busOpen,  \* the bus has not closed the channel
    listener, \* "draining", "done"; then "closing", "closed" of Store.Close
    marked,   \* Store.seen
    version,  \* the files of the tree: how often each was patched
    working,  \* WorkingMemory: the task and its state
    dialogue,     \* messages in the conversation
    execs,    \* ExecHistoryStore: the Seqs of the entries kept
    execSeq,  \* its seqCounter
    insights, \* KnowledgeStore.items: [text, seq, used]
    insightSeq, \* its nextSeq
    uses,     \* retrievals so far, the clock of LastUsed
    touched,  \* Seqs a retrieval has found and not yet bumped
    pref,     \* the preference: its value in memory
    prefErr,  \* the last save of a preference: "none" or a failure, "announced" or "unheard"
    staleAgents, agentsRead, agentsHeld, \* ProjectStore: stale, a read under way, the cache
    index,    \* the version of a file its chunks are of
    jobs,     \* background jobs
    memDisk   \* what the files under the root hold

memoryVars == <<mail, mailed, busOpen, listener, marked, version, working, dialogue, execs, execSeq,
                insights, insightSeq, uses, touched, pref, prefErr, staleAgents, agentsRead,
                agentsHeld, index, jobs, memDisk>>

storeParts == <<working, dialogue, execs, execSeq, insights, insightSeq, pref, prefErr>>

NotRead == MaxMail + 1

MemoryInit ==
    /\ mail = <<>> /\ mailed = 0 /\ busOpen = TRUE /\ listener = "draining" /\ marked = {}
    /\ version = [f \in MemoryFiles |-> 0]
    /\ working = [task |-> FALSE, state |-> FALSE]
    /\ dialogue = 0 /\ execs = <<>> /\ execSeq = 0
    /\ insights = <<>> /\ insightSeq = 0 /\ uses = 0 /\ touched = {}
    /\ pref = 0 /\ prefErr = "none"
    /\ staleAgents = FALSE /\ agentsRead = NotRead /\ agentsHeld = 0
    /\ index = [f \in MemoryFiles |-> 0]
    /\ jobs = {}
    /\ memDisk = [dialogue |-> 0, execs |-> <<>>, insights |-> <<>>, pref |-> 0]

Events ==
    [kind : {"assistant", "tool", "started", "state", "preference", "completed"}]
    \union [kind : {"insight"}, text : Lessons]
    \union [kind : {"patch"}, file : MemoryFiles]

\* A patch is on disk before its event is published.
Publish(e) ==
    /\ busOpen /\ mailed < MaxMail
    /\ mailed' = mailed + 1
    /\ mail' = Append(mail, [seq |-> mailed + 1, evt |-> e])
    /\ version' = IF e.kind = "patch" THEN [version EXCEPT ![e.file] = @ + 1] ELSE version
    /\ UNCHANGED <<busOpen, listener, marked, storeParts, uses, touched, staleAgents, agentsRead,
                   agentsHeld, index, jobs, memDisk>>

\* The same envelope comes once more, from a replay.
Repeat ==
    /\ mail # <<>> /\ Len(mail) < 2 /\ Head(mail).seq \notin marked
    /\ mail' = <<Head(mail)>> \o mail
    /\ UNCHANGED <<mailed, busOpen, listener, marked, version, storeParts, uses, touched,
                   staleAgents, agentsRead, agentsHeld, index, jobs, memDisk>>

CloseBusChannel ==
    /\ busOpen /\ busOpen' = FALSE
    /\ UNCHANGED <<mail, mailed, listener, marked, version, storeParts, uses, touched, staleAgents,
                   agentsRead, agentsHeld, index, jobs, memDisk>>

-----------------------------------------------------------------------------
\* The stores

Window(s) == IF Len(s) > ExecWindow THEN SubSeq(s, Len(s) - ExecWindow + 1, Len(s)) ELSE s

Older(a, b) == a.used < b.used \/ (a.used = b.used /\ a.seq < b.seq)

\* evictLocked: the least recently used goes first, the lower Seq among equals.
\* It is called behind every append, so one insight at most is too many.
Evict(items) ==
    LET oldest == CHOOSE i \in DOMAIN items :
                      \A j \in DOMAIN items : ~ Older(items[j], items[i])
    IN  IF Len(items) <= MaxInsights THEN items ELSE RemoveAt(items, oldest)

\* KnowledgeStore.Record: a text already there only changes its source.
RecordInsight(text) ==
    IF \E i \in DOMAIN insights : insights[i].text = text
    THEN UNCHANGED <<insights, insightSeq>>
    ELSE /\ insightSeq' = insightSeq + 1
         /\ insights' = Evict(Append(insights, [text |-> text, seq |-> insightSeq + 1, used |-> 0]))

\* KnowledgeStore.Retrieve: what the query finds, and under a second lock the
\* bump of what is still there.
RetrieveFind ==
    /\ touched = {} /\ uses < MaxUses /\ insights # <<>> /\ listener # "closed"
    /\ touched' \in SUBSET {insights[i].seq : i \in DOMAIN insights} \ {{}}
    /\ uses' = uses + 1
    /\ UNCHANGED <<mail, mailed, busOpen, listener, marked, version, storeParts, staleAgents,
                   agentsRead, agentsHeld, index, jobs, memDisk>>

RetrieveTouch ==
    /\ touched # {} /\ listener # "closed"
    /\ insights' = [i \in DOMAIN insights |->
                       IF insights[i].seq \in touched THEN [insights[i] EXCEPT !.used = uses]
                       ELSE insights[i]]
    /\ touched' = {}
    /\ UNCHANGED <<mail, mailed, busOpen, listener, marked, version, working, dialogue, execs, execSeq,
                   insightSeq, uses, pref, prefErr, staleAgents, agentsRead, agentsHeld, index,
                   jobs, memDisk>>

\* ProjectStore.Project reads AGENTS.md with the lock released.
ProjectRead ==
    /\ agentsRead = NotRead /\ staleAgents
    /\ \E f \in MemoryFiles : agentsRead' = version[f]
    /\ UNCHANGED <<mail, mailed, busOpen, listener, marked, version, storeParts, uses, touched,
                   staleAgents, agentsHeld, index, jobs, memDisk>>

ProjectHold ==
    /\ agentsRead # NotRead
    /\ agentsHeld' = agentsRead /\ staleAgents' = FALSE /\ agentsRead' = NotRead
    /\ UNCHANGED <<mail, mailed, busOpen, listener, marked, version, storeParts, uses, touched,
                   index, jobs, memDisk>>

-----------------------------------------------------------------------------
\* The listener

\* A failed save is announced with TryPublish, whose answer is not looked at: a
\* closed bus and a log that refuses the event return an error, and a subscriber
\* whose channel is full does not get it.
PrefErrsAfter(failed) ==
    IF ~ failed THEN {"none"}
    ELSE IF busOpen THEN {"announced", "unheard"} ELSE {"unheard"}

Job(seq, kind, arg) == [seq |-> seq, kind |-> kind, arg |-> arg, at |-> "todo", got |-> 0]

\* dispatch, by the type of the event.
Apply(seq, e) ==
    /\ working' = CASE e.kind = "started"   -> [task |-> TRUE, state |-> FALSE]
                    [] e.kind = "state"     -> [working EXCEPT !.state = TRUE]
                    [] e.kind = "completed" -> [task |-> FALSE, state |-> FALSE]
                    [] OTHER -> working
    /\ dialogue' = IF e.kind = "assistant" THEN dialogue + 1 ELSE dialogue
    /\ IF e.kind = "tool"
       THEN execSeq' = execSeq + 1 /\ execs' = Window(Append(execs, execSeq + 1))
       ELSE UNCHANGED <<execs, execSeq>>
    /\ IF e.kind = "insight" THEN RecordInsight(e.text) ELSE UNCHANGED <<insights, insightSeq>>
    /\ IF e.kind = "preference"
       THEN \E failed \in BOOLEAN :
                /\ pref' = seq
                /\ prefErr' \in PrefErrsAfter(failed)
                /\ memDisk' = IF failed THEN memDisk ELSE [memDisk EXCEPT !.pref = seq]
       ELSE UNCHANGED <<pref, prefErr, memDisk>>
    /\ staleAgents' = (staleAgents \/ e.kind = "patch")
    /\ jobs' = CASE e.kind = "patch"     -> jobs \union {Job(seq, "reindex", e.file)}
                 [] e.kind = "completed" -> jobs \union {Job(seq, "save", "conversation")}
                 [] OTHER -> jobs

IsNew(seq) == seq \notin marked

Deliver ==
    /\ listener = "draining" /\ mail # <<>>
    /\ mail' = Tail(mail)
    /\ marked' = marked \union {Head(mail).seq}
    /\ IF IsNew(Head(mail).seq) THEN Apply(Head(mail).seq, Head(mail).evt)
       ELSE UNCHANGED <<storeParts, staleAgents, jobs, memDisk>>
    /\ UNCHANGED <<mailed, busOpen, listener, version, uses, touched, agentsRead, agentsHeld, index>>

ListenerEnds ==
    /\ listener = "draining" /\ mail = <<>> /\ ~ busOpen
    /\ listener' = "done"
    /\ UNCHANGED <<mail, mailed, busOpen, marked, version, storeParts, uses, touched, staleAgents,
                   agentsRead, agentsHeld, index, jobs, memDisk>>

-----------------------------------------------------------------------------
\* The background jobs

\* Reindex reads the file, and replaces its chunks in a later critical section.
ReindexRead(j) ==
    /\ j.kind = "reindex" /\ j.at = "todo"
    /\ jobs' = (jobs \ {j}) \union {[j EXCEPT !.at = "read", !.got = version[j.arg]]}
    /\ UNCHANGED <<mail, mailed, busOpen, listener, marked, version, storeParts, uses, touched,
                   staleAgents, agentsRead, agentsHeld, index, memDisk>>

ReindexInstall(j) ==
    /\ j.kind = "reindex" /\ j.at = "read"
    /\ index' = [index EXCEPT ![j.arg] = j.got]
    /\ jobs' = jobs \ {j}
    /\ UNCHANGED <<mail, mailed, busOpen, listener, marked, version, storeParts, uses, touched,
                   staleAgents, agentsRead, agentsHeld, memDisk>>

Saved(what) ==
    CASE what = "conversation" -> [memDisk EXCEPT !.dialogue = dialogue]
      [] what = "exec"         -> [memDisk EXCEPT !.execs = execs]
      [] what = "insights"     -> [memDisk EXCEPT !.insights = insights]

\* MUTANT: the saves start over.
NextSaveAgain == [conversation |-> "exec", exec |-> "insights", insights |-> "conversation"]

NextSave == [conversation |-> "exec", exec |-> "insights", insights |-> "over"]

\* The three saves after task.completed, each under the lock of its store; their
\* errors are dropped.
SaveStep(j) ==
    /\ j.kind = "save"
    /\ memDisk' \in {memDisk, Saved(j.arg)}
    /\ jobs' = (jobs \ {j}) \union
               (IF NextSave[j.arg] = "over" THEN {} ELSE {[j EXCEPT !.arg = NextSave[j.arg]]})
    /\ UNCHANGED <<mail, mailed, busOpen, listener, marked, version, storeParts, uses, touched,
                   staleAgents, agentsRead, agentsHeld, index>>

-----------------------------------------------------------------------------
\* Store.Close

JobsDone == jobs = {}

\* Close waits for the listener, then for the jobs, and flushes every store.
\* touched: a retrieval belongs to the drive loop, which has ended by then.
CloseStore ==
    /\ listener = "done" /\ JobsDone /\ touched = {}
    /\ listener' = "closed"
    /\ memDisk' = [dialogue |-> dialogue, execs |-> execs, insights |-> insights, pref |-> pref]
    /\ UNCHANGED <<mail, mailed, busOpen, marked, version, storeParts, uses, touched, staleAgents,
                   agentsRead, agentsHeld, index, jobs>>

\* A save of the flush fails: the others are tried all the same, and Close
\* returns the error.
CloseStoreFailed ==
    /\ listener = "done" /\ JobsDone /\ touched = {}
    /\ listener' = "failed"
    /\ \E lost \in {"dialogue", "execs", "insights", "pref"} :
          memDisk' = [[dialogue |-> dialogue, execs |-> execs, insights |-> insights, pref |-> pref]
                         EXCEPT ![lost] = memDisk[lost]]
    /\ UNCHANGED <<mail, mailed, busOpen, marked, version, storeParts, uses, touched, staleAgents,
                   agentsRead, agentsHeld, index, jobs>>

MemoryNext ==
    \/ \E e \in Events : Publish(e)
    \/ Repeat \/ CloseBusChannel \/ Deliver \/ ListenerEnds
    \/ RetrieveFind \/ RetrieveTouch \/ ProjectRead \/ ProjectHold
    \/ \E j \in jobs : ReindexRead(j) \/ ReindexInstall(j) \/ SaveStep(j)
    \/ CloseStore \/ CloseStoreFailed

MemoryFairness ==
    /\ WF_memoryVars(Deliver \/ ListenerEnds \/ CloseStore)
    /\ WF_memoryVars(RetrieveTouch)
    /\ WF_memoryVars(\E j \in jobs : ReindexRead(j) \/ ReindexInstall(j) \/ SaveStep(j))

MemorySpec == MemoryInit /\ [][MemoryNext]_memoryVars /\ MemoryFairness

-----------------------------------------------------------------------------
\* Properties

MemoryTypeOK ==
    /\ listener \in {"draining", "done", "closed", "failed"}
    /\ marked \subseteq 1 .. MaxMail /\ pref \in 0 .. MaxMail
    /\ prefErr \in {"none", "announced", "unheard"}
    /\ \A f \in MemoryFiles : index[f] \in 0 .. version[f]
    /\ \A j \in jobs : j.kind \in {"reindex", "save"} /\ j.seq \in marked

\* The insights are distinct, in the order they were learned, at most
\* MaxInsights, and under Seqs that are never given twice - with retrievals that
\* bump what another event has just evicted.
InsightsSound ==
    /\ Len(insights) <= MaxInsights
    /\ \A i, j \in DOMAIN insights : i < j =>
          insights[i].seq < insights[j].seq /\ insights[i].text # insights[j].text
    /\ \A i \in DOMAIN insights : insights[i].seq <= insightSeq

\* Every tool result is counted once, redeliveries included, and the history is
\* the last ExecWindow of them.
HistoryIsRecent ==
    /\ \A i \in DOMAIN execs : execs[i] = execSeq - Len(execs) + i
    /\ execSeq <= Cardinality(marked)

\* What the user told the system to remember is on disk, unless its own save
\* failed: no job, no other save and no failed flush takes it away again.
PreferenceKept == memDisk.pref = pref \/ prefErr # "none"

\* When Close has returned nil no job is left to write, and the files hold what
\* every event delivered in the session left in memory.
ClosedIsDurable ==
    listener = "closed" =>
        /\ jobs = {} /\ mail = <<>>
        /\ memDisk = [dialogue |-> dialogue, execs |-> execs, insights |-> insights, pref |-> pref]

MemorySound == InsightsSound /\ HistoryIsRecent /\ PreferenceKept /\ ClosedIsDurable

\* Close returns once the bus is closed, however many jobs are under way.
CloseEnds == ~ busOpen ~> listener \in {"closed", "failed"}

\* Three properties that do not hold (README): a preference that is not on disk was
\* announced as lost (listener.go:156-170), the index follows the last patch when
\* all is done, and an invalidation during a read of AGENTS.md is not lost.
LossIsAnnounced == memDisk.pref = pref \/ prefErr = "announced"
IndexIsCurrent == (jobs = {} /\ mail = <<>>) => index = version
AgentsIsCurrent ==
    (mail = <<>> /\ agentsRead = NotRead /\ ~ staleAgents) => \E f \in MemoryFiles : agentsHeld = version[f]
=============================================================================
