------------------------------ MODULE EventBus ------------------------------
(***************************************************************************)
(* The in-process event bus (internal/event/bus.go): Publish, TryPublish,  *)
(* Subscribe, Unsubscribe and Close, with the durability log, the bounded  *)
(* subscriber channels and the ticket gate (subGate) of each subscription. *)
(*                                                                         *)
(* One step is one critical section of the code (a mutex held and          *)
(* released, one atomic load or swap, one channel operation).  The two     *)
(* mutexes that only protect a single step (subsMu, subGate.mu) need no    *)
(* variable; fanoutMu is held across several steps and has one.            *)
(*                                                                         *)
(* A subscription is the number of its Subscribe call, so that the order   *)
(* of the slice Bus.subs is the order of the numbers.                      *)
(***************************************************************************)
EXTENDS Integers, FiniteSets, Sequences

CONSTANTS
  Publishers,     \* goroutines that call Publish or TryPublish
  TryPublishers,  \* those of them that call TryPublish
  Topics,         \* topics of the events published: sequences of segments
  PatternSets,    \* the pattern sets that Subscribe may be called with
  MaxSubs,        \* bound: number of Subscribe calls
  MaxSeq,         \* bound: number of envelopes stamped
  Buf             \* capacity of a subscriber channel (64 in the code)

ASSUME BusAssumption ==
  /\ TryPublishers \subseteq Publishers
  /\ MaxSubs \in Nat /\ MaxSeq \in Nat
  /\ Buf \in Nat \ {0}

Subs == 1 .. MaxSubs
NoTicket == -1
NoSub == 0
Nobody == "nobody"
ASSUME NobodyAssumption == Nobody \notin Publishers

VARIABLES
  next,      \* Bus.next: the last Seq handed out
  closed,    \* Bus.closed
  closeCh,   \* TRUE once Bus.closeCh is closed
  fanoutMu,  \* the publisher that holds fanoutMu, or Nobody
  log,       \* the Seqs that Append made durable
  logClosed, \* TRUE once the log file is closed
  nsubs,     \* number of Subscribe calls so far
  subs,      \* Bus.subs
  topics,    \* subscription.topics
  ch,        \* contents of subscription.ch
  chClosed,  \* TRUE once subscription.ch is closed
  done,      \* TRUE once subscription.done is closed
  gate,      \* subscription.gate
  got,       \* what the consumer of the channel has received so far
  pc,        \* where each publisher is
  evt,       \* topic and Seq of the envelope each publisher carries
  ticket,    \* tickets a publisher still has to use, per subscription
  at,        \* the subscription whose gate a publisher is inside, or NoSub
  res,       \* result of the delivery in progress: "ok" or "err"
  ctx,       \* TRUE once the publisher's context is cancelled
  stats,     \* Stats: published and dropped
  lost,      \* deliveries given up with an error returned to the publisher
  unsub,     \* progress of Unsubscribe on each subscription
  closer,    \* progress of Close, and the subscriptions it has taken
  panic      \* TRUE if a send or a close hit a closed channel

busVars == <<next, closed, closeCh, fanoutMu, log, logClosed>>
subVars == <<nsubs, subs, topics>>
chanVars == <<ch, chClosed, done, got>>
pubVars == <<pc, evt, ticket, at, res, ctx>>
countVars == <<stats, lost>>
endVars == <<unsub, closer>>
worldVars == <<busVars, subVars, chanVars, endVars, panic>> \* all but a fan-out's own
vars == <<busVars, subVars, chanVars, gate, pubVars, countVars, endVars, panic>>

(***************************************************************************)
(* Topic matching.  A pattern is a sequence of segments that is either     *)
(* exact or a prefix wildcard ("a.b.>"); the bare ">" is the empty prefix. *)
(***************************************************************************)
Covers(w, t) ==
  IF w.wild THEN /\ Len(w.segs) < Len(t)
                 /\ SubSeq(t, 1, Len(w.segs)) = w.segs
            ELSE w.segs = t

Matches(patterns, t) == \E w \in patterns : Covers(w, t)

-----------------------------------------------------------------------------
(* The gate of a subscription: pure operations on its record. *)

Gates == [next: Nat, serving: Nat, skipped: SUBSET Nat, sending: BOOLEAN,
          closed: BOOLEAN]

NewGate == [next |-> 0, serving |-> 0, skipped |-> {}, sending |-> FALSE,
            closed |-> FALSE]

Reserve(g) == [g EXCEPT !.next = @ + 1]

\* advanceLocked: the next ticket that was not abandoned out of order.  The
\* gates an operation may leave behind are written as a set; it has one element.
NextTurns(g) ==
  {t \in (g.serving + 1) .. (g.next + 1) :
     t \notin g.skipped /\ (g.serving + 1) .. (t - 1) \subseteq g.skipped}

AdvanceNoSkip(g) == {[g EXCEPT !.serving = @ + 1]} \* mutant: skipped ignored

Advance(g) ==
  {[g EXCEPT !.serving = t, !.skipped = @ \ (g.serving .. t)] : t \in NextTurns(g)}

EnterGate(g) == [g EXCEPT !.sending = TRUE]
LeaveGateKeep(g) == {[g EXCEPT !.sending = FALSE]} \* mutant: the turn is kept
LeaveGate(g) == Advance([g EXCEPT !.sending = FALSE])

AbandonAdvance(g, t) == Advance(g) \* mutant: whoever's turn it is moves on

Abandon(g, t) ==
  IF g.serving = t THEN Advance(g) ELSE {[g EXCEPT !.skipped = @ \cup {t}]}

ShutGate(g) == [g EXCEPT !.closed = TRUE]

-----------------------------------------------------------------------------
NoTopic == <<>>
NoEvent == [topic |-> NoTopic, seq |-> 0]

Init ==
  /\ next = 0 /\ closed = FALSE /\ closeCh = FALSE /\ fanoutMu = Nobody
  /\ log = {} /\ logClosed = FALSE
  /\ nsubs = 0 /\ subs = {} /\ topics = [s \in Subs |-> {}]
  /\ ch = [s \in Subs |-> <<>>] /\ got = [s \in Subs |-> <<>>]
  /\ chClosed = [s \in Subs |-> FALSE] /\ done = [s \in Subs |-> FALSE]
  /\ gate = [s \in Subs |-> NewGate]
  /\ pc = [p \in Publishers |-> "idle"]
  /\ evt = [p \in Publishers |-> NoEvent]
  /\ ticket = [p \in Publishers |-> [s \in Subs |-> NoTicket]]
  /\ at = [p \in Publishers |-> NoSub]
  /\ res = [p \in Publishers |-> "ok"]
  /\ ctx = [p \in Publishers |-> FALSE]
  /\ stats = [published |-> 0, dropped |-> 0] /\ lost = 0
  /\ unsub = [s \in Subs |-> "no"]
  /\ closer = [pc |-> "no", subs |-> {}]
  /\ panic = FALSE

Go(p, there) == pc' = [pc EXCEPT ![p] = there]

\* The call returns and its locals are gone.
Return(p) ==
  /\ Go(p, "idle")
  /\ evt' = [evt EXCEPT ![p] = NoEvent]
  /\ ctx' = [ctx EXCEPT ![p] = FALSE]

DropSilent == UNCHANGED stats        \* mutant: the drop is not counted
Drop == stats' = [stats EXCEPT !.dropped = @ + 1]
Held(p) == {s \in Subs : ticket[p][s] # NoTicket}
IsTarget(p, s) == s \in Held(p) /\ \A u \in Held(p) : s <= u
Retire(p, s) == ticket' = [ticket EXCEPT ![p][s] = NoTicket]

-----------------------------------------------------------------------------
(* Publish and TryPublish. *)

\* The first check of Bus.closed; a closed bus returns ErrBusClosed at once.
Call(p, t) ==
  /\ pc[p] = "idle" /\ ~closed
  /\ next + Cardinality({q \in Publishers : pc[q] = "stamp"}) < MaxSeq
  /\ evt' = [evt EXCEPT ![p].topic = t]
  /\ Go(p, "stamp")
  /\ UNCHANGED <<worldVars, gate, ticket, at, res, ctx, countVars>>

\* stamp, first half: fanoutMu is taken, Bus.closed read again.
StampClosed(p) ==
  /\ pc[p] = "stamp" /\ fanoutMu = Nobody /\ closed
  /\ Return(p)
  /\ UNCHANGED <<worldVars, gate, ticket, at, res, countVars>>

\* Append succeeded: fanoutMu stays held for the reservation.
HoldNothing(p) == fanoutMu' = Nobody \* mutant: fanoutMu released too early
HoldFanout(p) == fanoutMu' = p

Appended(p) ==
  /\ log' = log \cup {next + 1}
  /\ HoldFanout(p)
  /\ evt' = [evt EXCEPT ![p].seq = next + 1]
  /\ Go(p, "reserve")
  /\ UNCHANGED ctx

\* mutant: a failed Append is not an error
AppendIgnored(p) ==
  /\ fanoutMu' = p
  /\ evt' = [evt EXCEPT ![p].seq = next + 1]
  /\ Go(p, "reserve")
  /\ UNCHANGED <<ctx, log>>

\* Append failed: the event never fans out.
AppendFailed(p) == fanoutMu' = Nobody /\ Return(p) /\ UNCHANGED log

\* stamp reads Bus.closed again; the Seq is consumed even if Append fails.
OpenUnchecked == TRUE                \* mutant: no second look at Bus.closed
StillOpen == ~closed

Stamp(p) ==
  /\ pc[p] = "stamp" /\ fanoutMu = Nobody /\ StillOpen
  /\ next' = next + 1
  /\ Appended(p) \/ AppendFailed(p)
  /\ UNCHANGED <<closed, closeCh, logClosed, subVars, chanVars, gate, ticket,
                 at, res, countVars, endVars, panic>>

\* stamp, second half: a ticket on every matching subscription, under subsMu.
Targets(p) == {s \in subs : Matches(topics[s], evt[p].topic)}

ReserveTickets(p) ==
  /\ pc[p] = "reserve"
  /\ fanoutMu' = Nobody
  /\ ticket' = [ticket EXCEPT ![p] =
                  [s \in Subs |-> IF s \in Targets(p) THEN gate[s].next
                                                      ELSE NoTicket]]
  /\ gate' = [s \in Subs |-> IF s \in Targets(p) THEN Reserve(gate[s])
                                                 ELSE gate[s]]
  /\ Go(p, "fan")
  /\ UNCHANGED <<next, closed, closeCh, log, logClosed, subVars, chanVars,
                 evt, at, res, ctx, countVars, endVars, panic>>

\* The end of the fan-out: every target was served or counted as dropped.
Complete(p) ==
  /\ pc[p] = "fan" /\ Held(p) = {}
  /\ stats' = [stats EXCEPT !.published = @ + 1]
  /\ Return(p)
  /\ UNCHANGED <<worldVars, gate, ticket, at, res, lost>>

\* gate.enter returns true; gate.tryEnter has the same condition.
Enter(p, s) ==
  /\ pc[p] = "fan" /\ IsTarget(p, s)
  /\ ~gate[s].closed /\ gate[s].serving = ticket[p][s]
  /\ gate' = [gate EXCEPT ![s] = EnterGate(@)]
  /\ at' = [at EXCEPT ![p] = s]
  /\ Go(p, "select")
  /\ UNCHANGED <<worldVars, evt, ticket, res, ctx, countVars>>

\* gate.enter returns false: an error if the bus closed, otherwise a drop.
EnterShut(p, s) ==
  /\ pc[p] = "fan" /\ p \notin TryPublishers /\ IsTarget(p, s)
  /\ gate[s].closed
  /\ Retire(p, s)
  /\ \/ /\ closed /\ Go(p, "giveup") /\ lost' = lost + 1 /\ UNCHANGED stats
     \/ /\ ~closed /\ Drop /\ UNCHANGED <<pc, lost>>
  /\ UNCHANGED <<worldVars, gate, evt, at, res, ctx>>

\* gate.tryEnter returns false: the ticket is abandoned in a second step.
TryMiss(p, s) ==
  /\ pc[p] = "fan" /\ p \in TryPublishers /\ IsTarget(p, s)
  /\ gate[s].closed \/ gate[s].serving # ticket[p][s]
  /\ Go(p, "retire")
  /\ UNCHANGED <<worldVars, gate, evt, ticket, at, res, ctx, countVars>>

TryRetire(p, s) ==
  /\ pc[p] = "retire" /\ IsTarget(p, s)
  /\ \E g \in Abandon(gate[s], ticket[p][s]) : gate' = [gate EXCEPT ![s] = g]
  /\ Retire(p, s)
  /\ Drop
  /\ Go(p, "fan")
  /\ UNCHANGED <<worldVars, evt, at, res, ctx, lost>>

\* The send: room in the channel, or a panic if it is closed.
SendOK(p, s) ==
  /\ pc[p] = "select" /\ at[p] = s
  /\ \/ /\ chClosed[s] /\ panic' = TRUE /\ UNCHANGED ch
     \/ /\ ~chClosed[s] /\ Len(ch[s]) < Buf
        /\ ch' = [ch EXCEPT ![s] = Append(@, evt[p].seq)]
        /\ UNCHANGED panic
  /\ res' = [res EXCEPT ![p] = "ok"]
  /\ Go(p, "leave")
  /\ UNCHANGED <<busVars, subVars, chClosed, done, got, gate, evt, ticket, at,
                 ctx, countVars, endVars>>

\* The other arms of the select: detached, context cancelled, bus closed; and
\* the default arm of TryPublish.
DropArm(p, s) ==
  IF p \in TryPublishers THEN ~chClosed[s] /\ Len(ch[s]) >= Buf ELSE done[s]

SendDropped(p, s) ==
  /\ pc[p] = "select" /\ at[p] = s
  /\ DropArm(p, s)
  /\ Drop
  /\ res' = [res EXCEPT ![p] = "ok"]
  /\ Go(p, "leave")
  /\ UNCHANGED <<worldVars, gate, evt, ticket, at, ctx, lost>>

FailArmCtxOnly(p) == ctx[p]          \* mutant: closeCh not in the select
FailArm(p) == ctx[p] \/ closeCh

SendFailed(p, s) ==
  /\ pc[p] = "select" /\ at[p] = s /\ p \notin TryPublishers
  /\ FailArm(p)
  /\ lost' = lost + 1
  /\ res' = [res EXCEPT ![p] = "err"]
  /\ Go(p, "leave")
  /\ UNCHANGED <<worldVars, gate, evt, ticket, at, ctx, stats>>

\* The deferred gate.leave.
Leave(p, s) ==
  /\ pc[p] = "leave" /\ at[p] = s
  /\ \E g \in LeaveGate(gate[s]) : gate' = [gate EXCEPT ![s] = g]
  /\ Retire(p, s)
  /\ at' = [at EXCEPT ![p] = NoSub]
  /\ res' = [res EXCEPT ![p] = "ok"]
  /\ Go(p, IF res[p] = "ok" THEN "fan" ELSE "giveup")
  /\ UNCHANGED <<worldVars, evt, ctx, countVars>>

\* Publish returns an error: the tickets it will not use are abandoned.
GiveUp(p, s) ==
  /\ pc[p] = "giveup" /\ IsTarget(p, s)
  /\ \E g \in Abandon(gate[s], ticket[p][s]) : gate' = [gate EXCEPT ![s] = g]
  /\ Retire(p, s)
  /\ lost' = lost + 1
  /\ UNCHANGED <<worldVars, pc, evt, at, res, ctx, stats>>

ReturnErr(p) ==
  /\ pc[p] = "giveup" /\ Held(p) = {}
  /\ Return(p)
  /\ UNCHANGED <<worldVars, gate, ticket, at, res, countVars>>

\* The caller cancels the context of a Publish in progress.
CancelCtx(p) ==
  /\ pc[p] # "idle" /\ p \notin TryPublishers /\ ~ctx[p]
  /\ ctx' = [ctx EXCEPT ![p] = TRUE]
  /\ UNCHANGED <<worldVars, gate, pc, evt, ticket, at, res, countVars>>

-----------------------------------------------------------------------------
(* Subscribers. *)

NewIdStale == nsubs                  \* mutant: off by one
NewId == nsubs + 1

Subscribe(pats) ==
  /\ nsubs < MaxSubs
  /\ nsubs' = nsubs + 1
  /\ subs' = subs \cup {NewId}
  /\ topics' = [topics EXCEPT ![nsubs + 1] = pats]
  /\ UNCHANGED <<busVars, chanVars, gate, pubVars, countVars, endVars, panic>>

Receive(s) ==
  /\ ch[s] # <<>>
  /\ got' = [got EXCEPT ![s] = Append(@, Head(ch[s]))]
  /\ ch' = [ch EXCEPT ![s] = Tail(@)]
  /\ UNCHANGED <<busVars, subVars, chClosed, done, gate, pubVars, countVars,
                 endVars, panic>>

UnsubGo(s, there) == unsub' = [unsub EXCEPT ![s] = there]

\* Unsubscribe: out of the slice, done closed, gate shut, channel closed.
UnsubRemove(s) ==
  /\ s \in subs /\ unsub[s] = "no"
  /\ subs' = subs \ {s}
  /\ UnsubGo(s, "removed")
  /\ UNCHANGED <<busVars, nsubs, topics, chanVars, gate, pubVars, countVars,
                 closer, panic>>

SignalDone(s) == done' = [done EXCEPT ![s] = TRUE]

UnsubDone(s) ==
  /\ unsub[s] = "removed"
  /\ SignalDone(s)
  /\ UnsubGo(s, "done")
  /\ UNCHANGED <<busVars, subVars, ch, chClosed, got, gate, pubVars, countVars,
                 closer, panic>>

\* gate.shutdown, up to the wait for the send in flight; a gate already shut
\* ends the call without closing the channel.
UnsubShut(s) ==
  /\ unsub[s] = "done"
  /\ gate' = [gate EXCEPT ![s] = ShutGate(@)]
  /\ UnsubGo(s, IF gate[s].closed THEN "gone" ELSE "shut")
  /\ UNCHANGED <<busVars, subVars, chanVars, pubVars, countVars, closer, panic>>

QuiescedNoWait(s) == TRUE            \* mutant: the send in flight is not awaited
Quiesced(s) == ~gate[s].sending

CloseChan(s) ==
  /\ chClosed' = [chClosed EXCEPT ![s] = TRUE]
  /\ panic' = (panic \/ chClosed[s])

UnsubClose(s) ==
  /\ unsub[s] = "shut" /\ Quiesced(s)
  /\ CloseChan(s)
  /\ UnsubGo(s, "gone")
  /\ UNCHANGED <<busVars, subVars, ch, done, got, gate, pubVars, countVars,
                 closer>>

-----------------------------------------------------------------------------
(* Close. *)

CloseSwap ==
  /\ ~closed
  /\ closed' = TRUE
  /\ closer' = [closer EXCEPT !.pc = "signal"]
  /\ UNCHANGED <<next, closeCh, fanoutMu, log, logClosed, subVars, chanVars,
                 gate, pubVars, countVars, unsub, panic>>

CloseSignal ==
  /\ closer.pc = "signal"
  /\ closeCh' = TRUE
  /\ closer' = [closer EXCEPT !.pc = "take"]
  /\ UNCHANGED <<next, closed, fanoutMu, log, logClosed, subVars, chanVars,
                 gate, pubVars, countVars, unsub, panic>>

CloseTake ==
  /\ closer.pc = "take"
  /\ closer' = [pc |-> "shut", subs |-> subs]
  /\ subs' = {}
  /\ UNCHANGED <<busVars, nsubs, topics, chanVars, gate, pubVars, countVars,
                 unsub, panic>>

IsNextToShut(s) == s \in closer.subs /\ \A u \in closer.subs : s <= u

CloseShut(s) ==
  /\ closer.pc = "shut" /\ IsNextToShut(s)
  /\ gate' = [gate EXCEPT ![s] = ShutGate(@)]
  /\ closer' = IF gate[s].closed THEN [closer EXCEPT !.subs = @ \ {s}]
                                 ELSE [closer EXCEPT !.pc = "quiesce"]
  /\ UNCHANGED <<busVars, subVars, chanVars, pubVars, countVars, unsub, panic>>

CloseQuiesce(s) ==
  /\ closer.pc = "quiesce" /\ IsNextToShut(s) /\ Quiesced(s)
  /\ CloseChan(s)
  /\ closer' = [pc |-> "shut", subs |-> closer.subs \ {s}]
  /\ UNCHANGED <<busVars, subVars, ch, done, got, gate, pubVars, countVars,
                 unsub>>

CloseLog ==
  /\ closer.pc = "shut" /\ closer.subs = {} /\ fanoutMu = Nobody
  /\ logClosed' = TRUE
  /\ closer' = [closer EXCEPT !.pc = "done"]
  /\ UNCHANGED <<next, closed, closeCh, fanoutMu, log, subVars, chanVars, gate,
                 pubVars, countVars, unsub, panic>>

-----------------------------------------------------------------------------
PublishStep(p) ==
  \/ StampClosed(p) \/ Stamp(p) \/ ReserveTickets(p) \/ Complete(p)
  \/ ReturnErr(p)
  \/ \E s \in Subs : \/ Enter(p, s) \/ EnterShut(p, s)
                     \/ TryMiss(p, s) \/ TryRetire(p, s)
                     \/ SendOK(p, s) \/ SendDropped(p, s) \/ SendFailed(p, s)
                     \/ Leave(p, s) \/ GiveUp(p, s)

UnsubStep(s) == UnsubDone(s) \/ UnsubShut(s) \/ UnsubClose(s)

CloseStep ==
  \/ CloseSignal \/ CloseTake \/ CloseLog
  \/ \E s \in Subs : CloseShut(s) \/ CloseQuiesce(s)

\* What callers may do, none of it obligatory.
Environment ==
  \/ \E p \in Publishers : CancelCtx(p) \/ \E t \in Topics : Call(p, t)
  \/ \E pats \in PatternSets : Subscribe(pats)
  \/ \E s \in Subs : UnsubRemove(s)
  \/ CloseSwap

Next ==
  \/ Environment
  \/ \E p \in Publishers : PublishStep(p)
  \/ \E s \in Subs : UnsubStep(s) \/ Receive(s)
  \/ CloseStep

Spec == Init /\ [][Next]_vars

(***************************************************************************)
(* Goroutines that can run do run; nobody has to receive.  fanoutMu is     *)
(* only held across Append, and sync.Mutex hands a starving waiter the     *)
(* lock: strong fairness of stamp.                                         *)
(***************************************************************************)
Fairness ==
  /\ \A p \in Publishers : WF_vars(PublishStep(p))
                           /\ SF_vars(Stamp(p) \/ StampClosed(p))
  /\ \A s \in Subs : WF_vars(UnsubStep(s))
  /\ WF_vars(CloseStep)
  /\ SF_vars(CloseLog)

\* The consumers in D keep receiving, the others may stall for ever.
Draining(D) == \A s \in D : WF_vars(Receive(s))

FairSpec == Spec /\ Fairness
StalledSpec == FairSpec /\ Draining(Subs \ {1})

-----------------------------------------------------------------------------
(* Properties. *)

BusType ==
  /\ next \in Nat /\ closed \in BOOLEAN /\ closeCh \in BOOLEAN
  /\ fanoutMu \in Publishers \cup {Nobody}
  /\ log \subseteq Nat /\ logClosed \in BOOLEAN
SubType ==
  /\ nsubs \in 0 .. MaxSubs /\ subs \subseteq 1 .. nsubs
  /\ topics \in [Subs -> PatternSets \cup {{}}]
ChanType ==
  /\ ch \in [Subs -> Seq(Nat)] /\ got \in [Subs -> Seq(Nat)]
  /\ chClosed \in [Subs -> BOOLEAN] /\ done \in [Subs -> BOOLEAN]
  /\ panic \in BOOLEAN
GateType == gate \in [Subs -> Gates]
PubType ==
  /\ pc \in [Publishers -> {"idle", "stamp", "reserve", "fan", "retire",
                            "select", "leave", "giveup"}]
  /\ evt \in [Publishers -> [topic: Topics \cup {NoTopic}, seq: Nat]]
  /\ ticket \in [Publishers -> [Subs -> Nat \cup {NoTicket}]]
  /\ at \in [Publishers -> Subs \cup {NoSub}]
  /\ res \in [Publishers -> {"ok", "err"}]
  /\ ctx \in [Publishers -> BOOLEAN]
CountType == stats \in [published: Nat, dropped: Nat] /\ lost \in Nat
EndType ==
  /\ unsub \in [Subs -> {"no", "removed", "done", "shut", "gone"}]
  /\ closer \in [pc: {"no", "signal", "take", "shut", "quiesce", "done"},
                 subs: SUBSET Subs]

TypeOK ==
  BusType /\ SubType /\ ChanType /\ GateType /\ PubType /\ CountType /\ EndType

\* No send and no close ever meets a closed channel: "a send-on-closed channel
\* is structurally impossible" (bus.go, close safety).
NoPanic == ~panic

\* One sender at a time is past the gate of a subscription, it holds the
\* ticket being served, and the channel is not closed under it.
Inside(p, s) == pc[p] \in {"select", "leave"} /\ at[p] = s
GateExclusion ==
  \A p \in Publishers, s \in Subs : Inside(p, s) =>
    /\ gate[s].sending /\ gate[s].serving = ticket[p][s] /\ ~chClosed[s]
    /\ \A q \in Publishers : Inside(q, s) => q = p

\* Per-subscriber FIFO: what a subscriber has received and what waits in its
\* channel is in increasing Seq order, whatever was dropped in between.
Stream(s) == got[s] \o ch[s]
SeqOrder ==
  \A s \in Subs : \A i, j \in 1 .. Len(Stream(s)) :
    i < j => Stream(s)[i] < Stream(s)[j]

\* While a gate is open every ticket from the one being served on is either
\* abandoned or still in the hands of a publisher: nobody waits for a turn
\* that never comes.
NoStrandedTicket ==
  \A s \in Subs : ~gate[s].closed =>
    /\ gate[s].serving \notin gate[s].skipped
    /\ \A t \in gate[s].serving .. (gate[s].next - 1) :
         t \in gate[s].skipped \/ \E p \in Publishers : ticket[p][s] = t

\* Durability before visibility: nothing is in a channel that is not in the
\* log, and the log is not written once Close has closed it.
DurableBeforeVisible ==
  \A s \in Subs : \A i \in 1 .. Len(Stream(s)) : Stream(s)[i] \in log
NoAppendAfterClose == [][logClosed => log' = log]_vars

\* No delivery vanishes: there are as many tickets handed out as deliveries made,
\* counted in Stats().Dropped, given up with an error to the publisher, and still
\* owed.
Numbered(n) == UNION {{s} \X (1 .. n[s]) : s \in Subs}
TicketsOut == Numbered([s \in Subs |-> gate[s].next])
Made == Numbered([s \in Subs |-> Len(Stream(s))])
Owes(p, s) == ticket[p][s] # NoTicket /\ ~(pc[p] = "leave" /\ at[p] = s)
Owed == {d \in Publishers \X Subs : Owes(d[1], d[2])}
NothingSilent ==
  Cardinality(TicketsOut)
    = Cardinality(Made) + Cardinality(Owed) + stats.dropped + lost

\* As long as every consumer drains, every Publish returns.
PublishReturns ==
  Draining(Subs) => \A p \in Publishers : pc[p] # "idle" ~> pc[p] = "idle"

\* Whether or not anybody drains, TryPublish returns all the same.
TryPublishReturns ==
  \A p \in TryPublishers : pc[p] # "idle" ~> pc[p] = "idle"

\* Whether or not anybody drains, Close ends and releases every publisher
\* parked on a full channel or on its turn.
CloseReleases ==
  closed ~> (closer.pc = "done" /\ \A p \in Publishers : pc[p] = "idle")

\* Whether or not anybody drains, Unsubscribe ends, with the channel closed
\* for its consumer.
UnsubscribeCloses ==
  \A s \in Subs : unsub[s] = "removed" ~> (unsub[s] = "gone" /\ chClosed[s])

\* The three together: what ends without any consumer's help.
CallsEnd == TryPublishReturns /\ CloseReleases /\ UnsubscribeCloses

\* "A subscriber that stalls only blocks the publishers that target it"
\* (bus.go:9-10): with all consumers but the first draining, a publisher that
\* only has deliveries left to the others returns.
StallBlocksOnlyTargeters ==
  \A p \in Publishers :
    (pc[p] = "fan" /\ 1 \notin Held(p)) ~> pc[p] = "idle"
=============================================================================
