----------------------------- MODULE DurableLog -----------------------------
(***************************************************************************)
(* The durability log of the event bus (internal/event/log.go), its codec  *)
(* (codec.go), Replay, and the de-duplication of a subscriber (dedup.go),  *)
(* over several lives of a process that writes to one file.  The file is a *)
(* sequence of pieces: a line that decodes, a line whose newline is        *)
(* missing, a torn one, or one cut where its next value is due.  What was  *)
(* not fsynced may be lost or torn by a crash; what was fsynced stays.     *)
(*                                                                         *)
(* An event is its number of publication over all lives (id).  A payload   *)
(* is a tree: a leaf [leaf |-> text], or [keys |-> <<...>>, kids |-> ...]. *)
(***************************************************************************)
EXTENDS Naturals, Sequences, FiniteSets

CONSTANTS
    LogLives,     \* bound: how often a process opens the file
    LogAppends,   \* bound: events published over all lives
    Payloads,     \* the payload trees events carry
    Secret, Mask, \* a leaf text that matches a redaction rule, and its mask
    Topic,        \* the topics that are published
    Registered,   \* those the reader has a factory for
    RedactModes,  \* whether SetLogRedactor was called with a redactor: the cases
    ShortWrites   \* whether a write may stop short (a full disk)

ASSUME LogAssumption ==
    /\ LogLives \in Nat /\ LogAppends \in Nat
    /\ Registered \subseteq Topic
    /\ RedactModes \subseteq BOOLEAN /\ ShortWrites \in BOOLEAN /\ Secret # Mask

VARIABLES
    redacting, \* a redactor is installed
    disk,      \* the file, piece by piece
    synced,    \* how many pieces the last fsync covered
    up,        \* a process holds the log open
    lives,     \* how many have opened it
    logNext,   \* Bus.next of the process
    encBroken, \* json.Encoder keeps its first write error
    writing,   \* Append is between its write and its fsync
    published, \* events published so far, in all lives
    acked,     \* ids whose Append returned nil, in order
    seen,      \* Dedup.seen of the subscriber
    applied,   \* ids the subscriber applied, in order
    toApply    \* what it has still to receive: replayed or live

logVars == <<redacting, disk, synced, up, lives, logNext, encBroken, writing, published,
             acked, seen, applied, toApply>>

-----------------------------------------------------------------------------
\* Redaction

IsLeaf(v) == "leaf" \in DOMAIN v

\* One value, given the redaction r of the values below it: strings are
\* masked, keys, shape and the other literals are copied.
RedactValue(v, r) ==
    IF IsLeaf(v)
    THEN [leaf |-> IF v.leaf = Secret THEN Mask ELSE v.leaf]
    ELSE [v EXCEPT !.kids = [i \in DOMAIN @ |-> r[@[i]]]]

Below(V) == UNION {{v.kids[i] : i \in DOMAIN v.kids} : v \in {w \in V : ~ IsLeaf(w)}}

\* The payloads are at most three levels deep.
ASSUME PayloadAssumption ==
    /\ \A v \in Payloads \union Below(Payloads) : IsLeaf(v) \/ "kids" \in DOMAIN v
    /\ \A v \in Below(Below(Payloads)) : IsLeaf(v)

RedactPayload ==
    LET two == Below(Payloads)
        leaves == Below(two)
        r0 == [v \in leaves |-> RedactValue(v, <<>>)]
        r1 == [v \in two |-> RedactValue(v, r0)]
    IN  [v \in Payloads |-> RedactValue(v, r1)]

Encoded(v) == IF redacting THEN RedactPayload[v] ELSE v

Leaves(v) ==
    LET one == Below({v})
    IN  {w.leaf : w \in {x \in {v} \union one \union Below(one) : IsLeaf(x)}}

-----------------------------------------------------------------------------
\* Replay

\* gap: cut behind a ':', a '[' or a ',' of an array, where a value is due.
Fragments == {"torn", "gap"}
Forms == {"line", "open"} \union Fragments

\* What the decoder says at piece i. It reads values, not lines, so a missing
\* newline does not hurt it. A fragment is an unexpected end when nothing
\* follows, and a syntax error when a record does - but not at a gap, which takes
\* the next piece for its nested value and wants more behind that.
Decodes(f, i) ==
    IF f[i].form \in Fragments
    THEN IF \A j \in i .. Len(f) - 1 : f[j].form = "gap" THEN "truncated" ELSE "error"
    ELSE IF f[i].topic \notin Registered THEN "error" ELSE "ok"

\* The last record of the file, when it stands where a fragment wants a value.
Swallowed(f, id) ==
    Len(f) > 1 /\ f[Len(f) - 1].form = "gap" /\ f[Len(f)].id = id

Ids(f) == [i \in DOMAIN f |-> f[i].id]

\* Replay stops at the first piece that does not decode: an error returns
\* nothing, a torn end returns what came before it.
Replay(f) ==
    LET bad == {i \in DOMAIN f : Decodes(f, i) # "ok"}
        stop == CHOOSE i \in bad : \A j \in bad : i <= j
    IN  IF bad = {} THEN [says |-> "ok", got |-> f]
        ELSE IF Decodes(f, stop) = "error" THEN [says |-> "error", got |-> <<>>]
        ELSE [says |-> "truncated", got |-> SubSeq(f, 1, stop - 1)]

-----------------------------------------------------------------------------
\* The steps

LogInit ==
    /\ redacting \in RedactModes
    /\ disk = <<>> /\ synced = 0
    /\ up = FALSE /\ lives = 0 /\ logNext = 0 /\ encBroken = FALSE
    /\ writing = FALSE /\ published = 0 /\ acked = <<>>
    /\ seen = {} /\ applied = <<>> /\ toApply = <<>>

\* event.Open: the file is opened for appending as it is. The subscriber of the
\* new process first recovers what Replay returns, then takes live events.
OpenBus ==
    /\ ~ up /\ lives < LogLives
    /\ up' = TRUE /\ lives' = lives + 1
    /\ logNext' = 0 /\ encBroken' = FALSE /\ seen' = {}
    /\ toApply' = Replay(disk).got
    /\ UNCHANGED <<redacting, disk, synced, writing, published, acked, applied>>

\* Publish stamps the next Seq; Append writes the line.
Line(topic, body, form) ==
    [id |-> published + 1, seq |-> logNext + 1, topic |-> topic,
     body |-> Encoded(body), form |-> form]

AppendLine(topic, body) ==
    /\ up /\ ~ writing /\ published < LogAppends /\ ~ encBroken
    /\ disk' = Append(disk, Line(topic, body, "line"))
    /\ writing' = TRUE
    /\ logNext' = logNext + 1 /\ published' = published + 1
    /\ UNCHANGED <<redacting, synced, up, lives, encBroken, acked, seen, applied, toApply>>

\* The write stops short (a full disk): Append fails and a fragment stays, or
\* nothing at all. Without a redactor the encoder remembers the error.
AppendShort(topic, body) ==
    /\ ShortWrites
    /\ up /\ ~ writing /\ published < LogAppends /\ ~ encBroken
    /\ \/ \E form \in {"open"} \union Fragments : disk' = Append(disk, Line(topic, body, form))
       \/ UNCHANGED disk
    /\ logNext' = logNext + 1 /\ published' = published + 1
    /\ encBroken' = ~ redacting
    /\ UNCHANGED <<redacting, synced, up, lives, writing, acked, seen, applied, toApply>>

\* The encoder refuses to write after its first error.
AppendRefused ==
    /\ up /\ ~ writing /\ published < LogAppends /\ encBroken
    /\ logNext' = logNext + 1 /\ published' = published + 1
    /\ UNCHANGED <<redacting, disk, synced, up, lives, encBroken, writing, acked, seen, applied, toApply>>

\* MUTANT: Append returns without the fsync.
SyncedNever == synced

SyncedAll == Len(disk)

\* Sync succeeds: the event is durable, and is handed to the subscriber.
AppendSync ==
    /\ writing
    /\ synced' = SyncedAll
    /\ acked' = Append(acked, disk[Len(disk)].id)
    /\ toApply' = Append(toApply, disk[Len(disk)])
    /\ writing' = FALSE
    /\ UNCHANGED <<redacting, disk, up, lives, logNext, encBroken, published, seen, applied>>

\* Sync fails: the line may be there and nobody is told of it.
AppendSyncFailed ==
    /\ writing
    /\ writing' = FALSE
    /\ UNCHANGED <<redacting, disk, synced, up, lives, logNext, encBroken, published, acked, seen, applied, toApply>>

Mark(seq) == seq \notin seen

\* The subscriber receives the next envelope and applies it if Mark says so.
ApplyNext ==
    /\ up /\ toApply # <<>>
    /\ LET e == Head(toApply)
       IN  /\ applied' = IF Mark(e.seq) THEN Append(applied, e.id) ELSE applied
           /\ seen' = seen \union {e.seq}
    /\ toApply' = Tail(toApply)
    /\ UNCHANGED <<redacting, disk, synced, up, lives, logNext, encBroken, writing, published, acked>>

\* At-least-once: an envelope not yet applied is delivered a second time.
Redeliver ==
    /\ up /\ toApply # <<>> /\ Len(toApply) < 2
    /\ toApply' = <<Head(toApply)>> \o toApply
    /\ UNCHANGED <<redacting, disk, synced, up, lives, logNext, encBroken, writing, published, acked, seen, applied>>

CloseFile ==
    /\ up /\ ~ writing
    /\ up' = FALSE /\ toApply' = <<>> /\ seen' = {} /\ applied' = <<>>
    /\ UNCHANGED <<redacting, disk, synced, lives, logNext, encBroken, writing, published, acked>>

\* The process or the machine dies: of what was not fsynced any prefix is left,
\* and the last piece of it may be cut. The subscriber's memory is gone.
Crash ==
    /\ up
    /\ \E n \in synced .. Len(disk) : \E form \in Forms :
          disk' = IF n = synced THEN SubSeq(disk, 1, n)
                  ELSE [SubSeq(disk, 1, n) EXCEPT ![n].form = IF disk[n].form = "line" THEN form ELSE @]
    /\ up' = FALSE /\ writing' = FALSE
    /\ toApply' = <<>> /\ seen' = {} /\ applied' = <<>>
    /\ UNCHANGED <<redacting, synced, lives, logNext, encBroken, published, acked>>

LogNext ==
    \/ OpenBus
    \/ \E t \in Topic, b \in Payloads : AppendLine(t, b) \/ AppendShort(t, b)
    \/ AppendRefused \/ AppendSync \/ AppendSyncFailed
    \/ ApplyNext \/ Redeliver
    \/ CloseFile \/ Crash

LogSpec == LogInit /\ [][LogNext]_logVars

-----------------------------------------------------------------------------
\* Properties

LogTypeOK ==
    /\ synced \in 0 .. Len(disk)
    /\ \A i \in DOMAIN disk :
          /\ disk[i].id \in 1 .. LogAppends /\ disk[i].seq \in 1 .. LogAppends
          /\ disk[i].topic \in Topic /\ disk[i].form \in Forms
    /\ up \in BOOLEAN /\ writing \in BOOLEAN /\ encBroken \in BOOLEAN
    /\ lives \in 0 .. LogLives /\ logNext \in 0 .. LogAppends /\ published \in 0 .. LogAppends
    /\ seen \subseteq 1 .. LogAppends

Increasing(s) == \A i, j \in DOMAIN s : i < j => s[i] < s[j]

\* Whatever the crashes, the short writes and the reopenings: when Replay
\* returns records they are in the order of publication, and every event whose
\* Append returned nil is among them - all of them when it returns nil; with
\* ErrTruncatedLog all but the very last record, if that stands behind a
\* fragment cut where a value is due. Every other loss is the hard error.
NoSilentLoss ==
    LET r == Replay(disk)
        Got(id) == \E j \in DOMAIN r.got : r.got[j].id = id
    IN  r.says # "error" =>
            /\ Increasing(Ids(r.got))
            /\ \A i \in DOMAIN acked :
                  Got(acked[i]) \/ (r.says = "truncated" /\ Swallowed(disk, acked[i]))

\* With a redactor installed no string that matches a rule reaches the file,
\* at whatever depth of the payload it lies.
NoSecretOnDisk ==
    redacting => \A i \in DOMAIN disk : Secret \notin Leaves(disk[i].body)

\* A subscriber that deduplicates on Seq applies no event twice in its life,
\* recovery and redelivery included.
AppliedOnce == \A i, j \in DOMAIN applied : i # j => applied[i] # applied[j]

\* The log, as one invariant.
LogSound == LogTypeOK /\ NoSilentLoss /\ NoSecretOnDisk /\ AppliedOnce

\* What log.go:273-275 says of Replay: a crash leaves a torn record only at the
\* end, and what came before it is recovered. It does not hold, even without
\* short writes: the file is opened for appending as it is, and the next
\* process puts its records behind the torn one.
CrashStaysReadable == Replay(disk).says # "error"

\* And that ErrTruncatedLog comes with the records that did survive
\* (log.go:273-275): it does not hold of a fsynced last record that the
\* fragment in front of it swallows.
AckedSurvive ==
    LET r == Replay(disk)
    IN  r.says = "truncated" =>
            \A i \in DOMAIN acked : \E j \in DOMAIN r.got : r.got[j].id = acked[i]
=============================================================================
