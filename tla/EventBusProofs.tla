--------------------------- MODULE EventBusProofs ---------------------------
(***************************************************************************)
(* Proofs about EventBus, for every number of publishers, subscriptions    *)
(* and events and every channel capacity: types and who is inside a gate   *)
(* (InductiveInvariant); per-subscriber FIFO; durability before            *)
(* visibility; that every turn of a gate belongs to somebody; and that no  *)
(* delivery that was promised goes uncounted.                              *)
(***************************************************************************)
EXTENDS EventBus, SequenceTheorems, FiniteSetTheorems, TLAPS

-----------------------------------------------------------------------------
(* The gate operations keep the shape of a gate. *)

\* advanceLocked only moves serving (forward) and forgets skipped tickets.
LEMMA AdvanceLemma ==
  ASSUME NEW g \in Gates, NEW h \in Advance(g)
  PROVE  /\ h \in Gates
         /\ h.next = g.next /\ h.sending = g.sending /\ h.closed = g.closed
         /\ h.serving > g.serving
<1>1. PICK t \in NextTurns(g) :
        h = [g EXCEPT !.serving = t, !.skipped = @ \ (g.serving .. t)]
  BY DEF Advance
<1>2. t \in Nat /\ t > g.serving
  BY DEF NextTurns, Gates
<1> QED BY <1>1, <1>2 DEF Gates

LEMMA LeaveLemma ==
  ASSUME NEW g \in Gates, NEW h \in LeaveGate(g)
  PROVE  /\ h \in Gates
         /\ h.next = g.next /\ ~h.sending /\ h.closed = g.closed
<1> DEFINE k == [g EXCEPT !.sending = FALSE]
<1>1. k \in Gates /\ k.next = g.next /\ ~k.sending /\ k.closed = g.closed
  BY DEF Gates
<1>2. h \in Advance(k)
  BY DEF LeaveGate
<1> QED BY <1>1, <1>2, AdvanceLemma

\* abandon leaves next, sending and closed alone, and serving too unless the
\* ticket is the one being served.
LEMMA AbandonLemma ==
  ASSUME NEW g \in Gates, NEW t \in Nat, NEW h \in Abandon(g, t)
  PROVE  /\ h \in Gates
         /\ h.next = g.next /\ h.sending = g.sending /\ h.closed = g.closed
         /\ g.serving # t => h.serving = g.serving
<1>1. CASE g.serving = t
  BY <1>1, AdvanceLemma DEF Abandon
<1>2. CASE g.serving # t
  BY <1>2 DEF Abandon, Gates
<1> QED BY <1>1, <1>2

\* The other operations, and the gate of a new subscription.
LEMMA GateLemma ==
  /\ NewGate \in Gates
  /\ \A g \in Gates : /\ Reserve(g) \in Gates
                      /\ EnterGate(g) \in Gates
                      /\ ShutGate(g) \in Gates
<1>1. NewGate \in Gates
  BY DEF Gates, NewGate
<1>2. ASSUME NEW g \in Gates PROVE Reserve(g) \in Gates
  BY DEF Gates, Reserve
<1>3. ASSUME NEW g \in Gates PROVE EnterGate(g) \in Gates
  BY DEF Gates, EnterGate
<1>4. ASSUME NEW g \in Gates PROVE ShutGate(g) \in Gates
  BY DEF Gates, ShutGate
<1> QED BY <1>1, <1>2, <1>3, <1>4

-----------------------------------------------------------------------------
(* Type correctness. *)

LEMMA InitType == Init => TypeOK
<1> SUFFICES ASSUME Init PROVE TypeOK
  OBVIOUS
<1> USE DEF Init
<1>1. BusType
  BY DEF BusType
<1>2. SubType
  BY BusAssumption DEF SubType
<1>3. ChanType
  <2>1. <<>> \in Seq(Nat)
    OBVIOUS
  <2> QED BY <2>1 DEF ChanType
<1>4. GateType
  BY GateLemma DEF GateType
<1>5. PubType
  BY DEF PubType, NoEvent, NoTicket, NoSub
<1>6. CountType
  BY DEF CountType
<1>7. EndType
  <2>1. unsub \in [Subs -> {"no", "removed", "done", "shut", "gone"}]
    OBVIOUS
  <2>2. closer \in [pc: {"no", "signal", "take", "shut", "quiesce", "done"},
                     subs: SUBSET Subs]
    <3>1. {} \in SUBSET Subs
      OBVIOUS
    <3> QED BY <3>1
  <2> QED BY <2>1, <2>2 DEF EndType
<1> QED BY <1>1, <1>2, <1>3, <1>4, <1>5, <1>6, <1>7 DEF TypeOK

LEMMA CountLemma ==
  ASSUME NEW c \in [published: Nat, dropped: Nat]
  PROVE  /\ [c EXCEPT !.dropped = @ + 1] \in [published: Nat, dropped: Nat]
         /\ [c EXCEPT !.published = @ + 1] \in [published: Nat, dropped: Nat]
OBVIOUS

LEMMA NextType == TypeOK /\ [Next]_vars => TypeOK'
<1> SUFFICES ASSUME TypeOK, [Next]_vars PROVE TypeOK'
  OBVIOUS
<1> USE BusAssumption DEF TypeOK, Subs, vars, busVars, worldVars, subVars,
    chanVars, pubVars, countVars, endVars, SubType, PubType, GateType, BusType
<1>1. ASSUME NEW p \in Publishers, NEW t \in Topics, Call(p, t) PROVE TypeOK'
  <2>1. UNCHANGED <<next, closed, closeCh, fanoutMu, log, logClosed, nsubs,
                   subs, topics, ch, chClosed, done, got, panic, gate, stats,
                   lost, unsub, closer>>
    BY <1>1 DEF Call
  <2>2. PubType'
    BY <1>1 DEF Call, Go, NoTicket, NoSub
  <2> QED BY <2>1, <2>2 DEF ChanType, CountType, EndType
<1>2. ASSUME NEW p \in Publishers, CancelCtx(p) PROVE TypeOK'
  <2>1. UNCHANGED <<next, closed, closeCh, fanoutMu, log, logClosed, nsubs,
                   subs, topics, ch, chClosed, done, got, panic, gate, stats,
                   lost, unsub, closer>>
    BY <1>2 DEF CancelCtx
  <2>2. PubType'
    BY <1>2 DEF CancelCtx, NoTicket, NoSub
  <2> QED BY <2>1, <2>2 DEF ChanType, CountType, EndType
<1>3. ASSUME NEW p \in Publishers, StampClosed(p) PROVE TypeOK'
  <2>1. UNCHANGED <<next, closed, closeCh, fanoutMu, log, logClosed, nsubs,
                   subs, topics, ch, chClosed, done, got, panic, gate, stats,
                   lost, unsub, closer>>
    BY <1>3 DEF StampClosed
  <2>2. PubType'
    BY <1>3 DEF StampClosed, Return, Go, NoTicket, NoSub, NoEvent
  <2> QED BY <2>1, <2>2 DEF ChanType, CountType, EndType
<1>4. ASSUME NEW p \in Publishers, Stamp(p) PROVE TypeOK'
  <2>1. UNCHANGED <<nsubs, subs, topics, ch, chClosed, done, got, panic, gate,
                   stats, lost, unsub, closer>>
    BY <1>4 DEF Stamp
  <2>2. BusType'
    BY <1>4 DEF Stamp, Appended, Go, HoldFanout, AppendFailed, Return, StillOpen
  <2>3. PubType'
    <3>1. next + 1 \in Nat
      BY DEF BusType
    <3>2. CASE Appended(p)
      BY <1>4, <3>1, <3>2 DEF Stamp, Appended, Go
    <3>3. CASE AppendFailed(p)
      BY <1>4, <3>3 DEF Stamp, AppendFailed, Return, Go, NoEvent
    <3> QED BY <1>4, <3>2, <3>3 DEF Stamp
  <2> QED BY <2>1, <2>2, <2>3 DEF ChanType, CountType, EndType
<1>5. ASSUME NEW p \in Publishers, ReserveTickets(p) PROVE TypeOK'
  <2>1. UNCHANGED <<nsubs, subs, topics, ch, chClosed, done, got, panic, stats,
                   lost, unsub, closer>>
    BY <1>5 DEF ReserveTickets
  <2>2. BusType'
    BY <1>5 DEF ReserveTickets, Go
  <2>3. GateType'
    BY <1>5, GateLemma DEF ReserveTickets, Go
  <2>4. PubType'
    <3>1. \A u \in Subs : gate[u].next \in Nat
      BY DEF GateType, Gates
    <3>2. ticket' \in [Publishers -> [Subs -> Nat \cup {NoTicket}]]
      BY <1>5, <3>1 DEF ReserveTickets
    <3> QED BY <1>5, <3>2 DEF ReserveTickets, Go
  <2> QED BY <2>1, <2>2, <2>3, <2>4 DEF ChanType, CountType, EndType
<1>6. ASSUME NEW p \in Publishers, Complete(p) PROVE TypeOK'
  <2>1. UNCHANGED <<next, closed, closeCh, fanoutMu, log, logClosed, nsubs,
                   subs, topics, ch, chClosed, done, got, panic, gate, unsub,
                   closer>>
    BY <1>6 DEF Complete
  <2>2. PubType'
    BY <1>6 DEF Complete, Return, Go, Held, NoTicket, NoSub, NoEvent
  <2>3. CountType'
    BY <1>6, CountLemma DEF Complete, Return, Go, Held, CountType
  <2> QED BY <2>1, <2>2, <2>3 DEF ChanType, EndType
<1>7. ASSUME NEW p \in Publishers, ReturnErr(p) PROVE TypeOK'
  <2>1. UNCHANGED <<next, closed, closeCh, fanoutMu, log, logClosed, nsubs,
                   subs, topics, ch, chClosed, done, got, panic, gate, stats,
                   lost, unsub, closer>>
    BY <1>7 DEF ReturnErr
  <2>2. PubType'
    BY <1>7 DEF ReturnErr, Return, Go, Held, NoTicket, NoSub, NoEvent
  <2> QED BY <2>1, <2>2 DEF ChanType, CountType, EndType
<1>8. ASSUME NEW p \in Publishers, NEW s \in Subs, Enter(p, s) PROVE TypeOK'
  <2>1. UNCHANGED <<next, closed, closeCh, fanoutMu, log, logClosed, nsubs,
                   subs, topics, ch, chClosed, done, got, panic, stats, lost,
                   unsub, closer>>
    BY <1>8 DEF Enter
  <2>2. GateType'
    BY <1>8, GateLemma DEF Enter, Go, IsTarget, Held
  <2>3. PubType'
    BY <1>8 DEF Enter, Go, IsTarget, Held, NoTicket, NoSub
  <2> QED BY <2>1, <2>2, <2>3 DEF ChanType, CountType, EndType
<1>9. ASSUME NEW p \in Publishers, NEW s \in Subs, EnterShut(p, s) PROVE TypeOK'
  <2>1. UNCHANGED <<next, closed, closeCh, fanoutMu, log, logClosed, nsubs,
                   subs, topics, ch, chClosed, done, got, panic, gate, unsub,
                   closer>>
    BY <1>9 DEF EnterShut
  <2>2. PubType'
    BY <1>9 DEF EnterShut, Go, Drop, Retire, IsTarget, Held, NoTicket, NoSub
  <2>3. CountType'
    BY <1>9, CountLemma, SMTT(30)
    DEF EnterShut, Go, Drop, Retire, IsTarget, Held, CountType
  <2> QED BY <2>1, <2>2, <2>3 DEF ChanType, EndType
<1>10. ASSUME NEW p \in Publishers, NEW s \in Subs, TryMiss(p, s) PROVE TypeOK'
  <2>1. UNCHANGED <<next, closed, closeCh, fanoutMu, log, logClosed, nsubs,
                   subs, topics, ch, chClosed, done, got, panic, gate, stats,
                   lost, unsub, closer>>
    BY <1>10 DEF TryMiss
  <2>2. PubType'
    BY <1>10 DEF TryMiss, Go, IsTarget, Held, NoTicket, NoSub
  <2> QED BY <2>1, <2>2 DEF ChanType, CountType, EndType
<1>11. ASSUME NEW p \in Publishers, NEW s \in Subs, TryRetire(p, s)
     PROVE TypeOK'
  <2>1. UNCHANGED <<next, closed, closeCh, fanoutMu, log, logClosed, nsubs,
                   subs, topics, ch, chClosed, done, got, panic, unsub, closer>>
    BY <1>11 DEF TryRetire
  <2>2. GateType'
    BY <1>11, AbandonLemma DEF TryRetire, Go, Drop, Retire, IsTarget, Held
  <2>3. PubType'
    BY <1>11 DEF TryRetire, Go, Drop, Retire, IsTarget, Held, NoTicket, NoSub
  <2>4. CountType'
    BY <1>11, CountLemma
    DEF TryRetire, Go, Drop, Retire, IsTarget, Held, CountType
  <2> QED BY <2>1, <2>2, <2>3, <2>4 DEF ChanType, EndType
<1>12. ASSUME NEW p \in Publishers, NEW s \in Subs, SendOK(p, s) PROVE TypeOK'
  <2>1. UNCHANGED <<next, closed, closeCh, fanoutMu, log, logClosed, nsubs,
                   subs, topics, gate, stats, lost, unsub, closer>>
    BY <1>12 DEF SendOK
  <2>2. ChanType'
    <3>1. evt[p].seq \in Nat
      BY DEF PubType
    <3>2. Append(ch[s], evt[p].seq) \in Seq(Nat)
      BY <3>1 DEF ChanType
    <3>3. ch' \in [Subs -> Seq(Nat)]
      BY <1>12, <3>2 DEF SendOK, ChanType
    <3> QED BY <1>12, <3>3 DEF SendOK, ChanType
  <2>3. PubType'
    BY <1>12 DEF SendOK, Go, NoTicket, NoSub
  <2> QED BY <2>1, <2>2, <2>3 DEF CountType, EndType
<1>13. ASSUME NEW p \in Publishers, NEW s \in Subs, SendDropped(p, s)
     PROVE TypeOK'
  <2>1. UNCHANGED <<next, closed, closeCh, fanoutMu, log, logClosed, nsubs,
                   subs, topics, ch, chClosed, done, got, panic, gate, unsub,
                   closer>>
    BY <1>13 DEF SendDropped
  <2>2. PubType'
    BY <1>13 DEF SendDropped, Go, Drop, NoTicket, NoSub
  <2>3. CountType'
    BY <1>13, CountLemma DEF SendDropped, Go, Drop, CountType
  <2> QED BY <2>1, <2>2, <2>3 DEF ChanType, EndType
<1>14. ASSUME NEW p \in Publishers, NEW s \in Subs, SendFailed(p, s)
     PROVE TypeOK'
  <2>1. UNCHANGED <<next, closed, closeCh, fanoutMu, log, logClosed, nsubs,
                   subs, topics, ch, chClosed, done, got, panic, gate, unsub,
                   closer>>
    BY <1>14 DEF SendFailed
  <2>2. PubType'
    BY <1>14 DEF SendFailed, Go, NoTicket, NoSub
  <2>3. CountType'
    BY <1>14, CountLemma DEF SendFailed, Go, CountType
  <2> QED BY <2>1, <2>2, <2>3 DEF ChanType, EndType
<1>15. ASSUME NEW p \in Publishers, NEW s \in Subs, Leave(p, s) PROVE TypeOK'
  <2>1. UNCHANGED <<next, closed, closeCh, fanoutMu, log, logClosed, nsubs,
                   subs, topics, ch, chClosed, done, got, panic, stats, lost,
                   unsub, closer>>
    BY <1>15 DEF Leave
  <2>2. GateType'
    BY <1>15, LeaveLemma DEF Leave, Go, Retire
  <2>3. PubType'
    BY <1>15 DEF Leave, Go, Retire, NoTicket, NoSub
  <2> QED BY <2>1, <2>2, <2>3 DEF ChanType, CountType, EndType
<1>16. ASSUME NEW p \in Publishers, NEW s \in Subs, GiveUp(p, s) PROVE TypeOK'
  <2>1. UNCHANGED <<next, closed, closeCh, fanoutMu, log, logClosed, nsubs,
                   subs, topics, ch, chClosed, done, got, panic, unsub, closer>>
    BY <1>16 DEF GiveUp
  <2>2. GateType'
    BY <1>16, AbandonLemma DEF GiveUp, Retire, IsTarget, Held
  <2>3. PubType'
    BY <1>16 DEF GiveUp, Retire, IsTarget, Held, NoTicket, NoSub
  <2>4. CountType'
    BY <1>16, CountLemma DEF GiveUp, Retire, IsTarget, Held, CountType
  <2> QED BY <2>1, <2>2, <2>3, <2>4 DEF ChanType, EndType
<1>17. ASSUME NEW pats \in PatternSets, Subscribe(pats) PROVE TypeOK'
  <2>1. UNCHANGED <<next, closed, closeCh, fanoutMu, log, logClosed, ch,
                   chClosed, done, got, panic, gate, pc, evt, ticket, at, res,
                   ctx, stats, lost, unsub, closer>>
    BY <1>17 DEF Subscribe
  <2>2. SubType'
    BY <1>17 DEF Subscribe, NewId
  <2> QED BY <2>1, <2>2 DEF ChanType, CountType, EndType
<1>18. ASSUME NEW s \in Subs, UnsubRemove(s) PROVE TypeOK'
  <2>1. UNCHANGED <<next, closed, closeCh, fanoutMu, log, logClosed, ch,
                   chClosed, done, got, panic, gate, pc, evt, ticket, at, res,
                   ctx, stats, lost>>
    BY <1>18 DEF UnsubRemove
  <2>2. SubType'
    BY <1>18 DEF UnsubRemove, UnsubGo
  <2>3. EndType'
    BY <1>18 DEF UnsubRemove, UnsubGo, EndType
  <2> QED BY <2>1, <2>2, <2>3 DEF ChanType, CountType
<1>19. ASSUME NEW s \in Subs, UnsubDone(s) PROVE TypeOK'
  <2>1. UNCHANGED <<next, closed, closeCh, fanoutMu, log, logClosed, nsubs,
                   subs, topics, gate, pc, evt, ticket, at, res, ctx, stats,
                   lost>>
    BY <1>19 DEF UnsubDone
  <2>2. ChanType'
    BY <1>19 DEF UnsubDone, UnsubGo, SignalDone, ChanType
  <2>3. EndType'
    BY <1>19 DEF UnsubDone, UnsubGo, SignalDone, EndType
  <2> QED BY <2>1, <2>2, <2>3 DEF CountType
<1>20. ASSUME NEW s \in Subs, UnsubShut(s) PROVE TypeOK'
  <2>1. UNCHANGED <<next, closed, closeCh, fanoutMu, log, logClosed, nsubs,
                   subs, topics, ch, chClosed, done, got, panic, pc, evt,
                   ticket, at, res, ctx, stats, lost>>
    BY <1>20 DEF UnsubShut
  <2>2. GateType'
    BY <1>20, GateLemma DEF UnsubShut, UnsubGo
  <2>3. EndType'
    BY <1>20 DEF UnsubShut, UnsubGo, EndType
  <2> QED BY <2>1, <2>2, <2>3 DEF ChanType, CountType
<1>21. ASSUME NEW s \in Subs, UnsubClose(s) PROVE TypeOK'
  <2>1. UNCHANGED <<next, closed, closeCh, fanoutMu, log, logClosed, nsubs,
                   subs, topics, gate, pc, evt, ticket, at, res, ctx, stats,
                   lost>>
    BY <1>21 DEF UnsubClose
  <2>2. ChanType'
    BY <1>21 DEF UnsubClose, UnsubGo, CloseChan, ChanType
  <2>3. EndType'
    BY <1>21 DEF UnsubClose, UnsubGo, CloseChan, EndType
  <2> QED BY <2>1, <2>2, <2>3 DEF CountType
<1>22. ASSUME NEW s \in Subs, Receive(s) PROVE TypeOK'
  <2>1. UNCHANGED <<next, closed, closeCh, fanoutMu, log, logClosed, nsubs,
                   subs, topics, gate, pc, evt, ticket, at, res, ctx, stats,
                   lost, unsub, closer>>
    BY <1>22 DEF Receive
  <2>2. ChanType'
    BY <1>22, SMTT(30) DEF Receive, ChanType
  <2> QED BY <2>1, <2>2 DEF CountType, EndType
<1>23. ASSUME NEW s \in Subs, CloseShut(s) PROVE TypeOK'
  <2>1. UNCHANGED <<next, closed, closeCh, fanoutMu, log, logClosed, nsubs,
                   subs, topics, ch, chClosed, done, got, panic, pc, evt,
                   ticket, at, res, ctx, stats, lost>>
    BY <1>23 DEF CloseShut
  <2>2. GateType'
    BY <1>23, GateLemma DEF CloseShut
  <2>3. EndType'
    BY <1>23 DEF CloseShut, EndType
  <2> QED BY <2>1, <2>2, <2>3 DEF ChanType, CountType
<1>24. ASSUME NEW s \in Subs, CloseQuiesce(s) PROVE TypeOK'
  <2>1. UNCHANGED <<next, closed, closeCh, fanoutMu, log, logClosed, nsubs,
                   subs, topics, gate, pc, evt, ticket, at, res, ctx, stats,
                   lost>>
    BY <1>24 DEF CloseQuiesce
  <2>2. ChanType'
    BY <1>24 DEF CloseQuiesce, CloseChan, ChanType
  <2>3. EndType'
    BY <1>24 DEF CloseQuiesce, CloseChan, EndType
  <2> QED BY <2>1, <2>2, <2>3 DEF CountType
<1>25. ASSUME CloseSwap PROVE TypeOK'
  <2>1. UNCHANGED <<nsubs, subs, topics, ch, chClosed, done, got, panic, gate,
                   pc, evt, ticket, at, res, ctx, stats, lost>>
    BY <1>25 DEF CloseSwap
  <2>2. BusType'
    BY <1>25 DEF CloseSwap
  <2>3. EndType'
    BY <1>25 DEF CloseSwap, EndType
  <2> QED BY <2>1, <2>2, <2>3 DEF ChanType, CountType
<1>26. ASSUME CloseSignal PROVE TypeOK'
  <2>1. UNCHANGED <<nsubs, subs, topics, ch, chClosed, done, got, panic, gate,
                   pc, evt, ticket, at, res, ctx, stats, lost>>
    BY <1>26 DEF CloseSignal
  <2>2. BusType'
    BY <1>26 DEF CloseSignal
  <2>3. EndType'
    BY <1>26 DEF CloseSignal, EndType
  <2> QED BY <2>1, <2>2, <2>3 DEF ChanType, CountType
<1>27. ASSUME CloseTake PROVE TypeOK'
  <2>1. UNCHANGED <<next, closed, closeCh, fanoutMu, log, logClosed, ch,
                   chClosed, done, got, panic, gate, pc, evt, ticket, at, res,
                   ctx, stats, lost>>
    BY <1>27 DEF CloseTake
  <2>2. SubType'
    BY <1>27 DEF CloseTake
  <2>3. EndType'
    BY <1>27 DEF CloseTake, EndType
  <2> QED BY <2>1, <2>2, <2>3 DEF ChanType, CountType
<1>28. ASSUME CloseLog PROVE TypeOK'
  <2>1. UNCHANGED <<nsubs, subs, topics, ch, chClosed, done, got, panic, gate,
                   pc, evt, ticket, at, res, ctx, stats, lost>>
    BY <1>28 DEF CloseLog
  <2>2. BusType'
    BY <1>28 DEF CloseLog
  <2>3. EndType'
    BY <1>28 DEF CloseLog, EndType
  <2> QED BY <2>1, <2>2, <2>3 DEF ChanType, CountType
<1>29. CASE UNCHANGED vars
  BY <1>29 DEF ChanType, CountType, EndType
<1> QED
  BY <1>1, <1>2, <1>3, <1>4, <1>5, <1>6, <1>7, <1>8, <1>9, <1>10, <1>11, <1>12,
      <1>13, <1>14, <1>15, <1>16, <1>17, <1>18, <1>19, <1>20, <1>21, <1>22,
      <1>23, <1>24, <1>25, <1>26, <1>27, <1>28, <1>29
  DEF Next, Environment, PublishStep, UnsubStep, CloseStep

\* Every reachable state is well typed.
THEOREM TypeCorrect == Spec => []TypeOK
<1>1. Init => TypeOK
  BY InitType
<1>2. TypeOK /\ [Next]_vars => TypeOK'
  BY NextType
<1> QED BY <1>1, <1>2, PTL DEF Spec

-----------------------------------------------------------------------------
(***************************************************************************)
(* One sender per gate, and no send or close on a closed channel.          *)
(*                                                                         *)
(* Tickets:  two publishers never hold the same ticket of a subscription,  *)
(*           so at most one of them can find its own ticket being served.  *)
(* Inside:   a publisher past the gate holds the ticket being served and   *)
(*           the gate says that a send is in flight.                       *)
(* Closing:  a channel is closed by the one party (an Unsubscribe call or  *)
(*           Close) that took the subscription out of Bus.subs, and only   *)
(*           with its gate shut and no send in flight.                     *)
(***************************************************************************)
Tickets ==
  \A p \in Publishers, s \in Subs : ticket[p][s] # NoTicket =>
    /\ ticket[p][s] < gate[s].next
    /\ \A q \in Publishers : ticket[q][s] = ticket[p][s] => q = p

InsideOK ==
  \A p \in Publishers : pc[p] \in {"select", "leave"} =>
    /\ at[p] \in Subs
    /\ gate[at[p]].sending
    /\ ticket[p][at[p]] # NoTicket
    /\ gate[at[p]].serving = ticket[p][at[p]]

Untouched(s) == unsub[s] = "no" /\ ~gate[s].closed /\ ~chClosed[s]

Closing ==
  /\ closer.pc \in {"no", "signal", "take", "done"} => closer.subs = {}
  /\ ~closed => closer.pc = "no"
  /\ \A s \in Subs :
       /\ s \in subs => Untouched(s) /\ s \notin closer.subs
       /\ s > nsubs => Untouched(s) /\ s \notin closer.subs
       /\ s \in closer.subs =>
            /\ unsub[s] = "no" /\ ~chClosed[s]
            /\ gate[s].closed <=> (closer.pc = "quiesce" /\ IsNextToShut(s))
       /\ unsub[s] \in {"removed", "done"} => ~gate[s].closed /\ ~chClosed[s]
       /\ unsub[s] = "shut" => gate[s].closed /\ ~chClosed[s]
       /\ chClosed[s] => gate[s].closed /\ ~gate[s].sending
  /\ ~panic

IInv == TypeOK /\ Tickets /\ InsideOK /\ Closing

LEMMA InitIInv == Init => IInv
<1> SUFFICES ASSUME Init PROVE IInv
  OBVIOUS
<1> USE DEF Init
<1>1. TypeOK
  BY InitType
<1>2. Tickets
  BY DEF Tickets
<1>3. InsideOK
  BY DEF InsideOK
<1>4. Closing
  BY DEF Closing, Untouched, NewGate
<1> QED BY <1>1, <1>2, <1>3, <1>4 DEF IInv

LEMMA NextIInv == IInv /\ [Next]_vars => IInv'
<1> SUFFICES ASSUME IInv, [Next]_vars PROVE IInv'
  OBVIOUS
<1>0. TypeOK'
  BY NextType DEF IInv
<1> USE BusAssumption, <1>0 DEF IInv, TypeOK, Subs, vars, busVars, worldVars,
    subVars, chanVars, pubVars, countVars, endVars
<1>1. ASSUME NEW p \in Publishers, NEW t \in Topics, Call(p, t) PROVE IInv'
  <2>1. Tickets'
    BY <1>1 DEF Call, Go, Tickets
  <2>2. InsideOK'
    BY <1>1 DEF Call, Go, InsideOK, PubType, GateType, NoTicket, NoSub, Tickets
  <2>3. Closing'
    BY <1>1 DEF Call, Go, Closing, Untouched, IsNextToShut
  <2> QED BY <2>1, <2>2, <2>3
<1>2. ASSUME NEW p \in Publishers, CancelCtx(p) PROVE IInv'
  BY <1>2, TypeOK'
  DEF CancelCtx, Tickets, InsideOK, Closing, Untouched, IsNextToShut
<1>3. ASSUME NEW p \in Publishers, StampClosed(p) PROVE IInv'
  <2>1. Tickets'
    BY <1>3 DEF StampClosed, Return, Go, Tickets
  <2>2. InsideOK'
    BY <1>3
    DEF StampClosed, Return, Go, InsideOK, PubType, GateType, NoTicket, NoSub,
        Tickets
  <2>3. Closing'
    BY <1>3 DEF StampClosed, Return, Go, Closing, Untouched, IsNextToShut
  <2> QED BY <2>1, <2>2, <2>3
<1>4. ASSUME NEW p \in Publishers, Stamp(p) PROVE IInv'
  <2>1. Tickets'
    BY <1>4
    DEF Stamp, Appended, Go, HoldFanout, AppendFailed, Return, StillOpen,
        Tickets
  <2>2. InsideOK'
    BY <1>4
    DEF Stamp, Appended, Go, HoldFanout, AppendFailed, Return, StillOpen,
        InsideOK, PubType, GateType, NoTicket, NoSub, Tickets
  <2>3. Closing'
    BY <1>4
    DEF Stamp, Appended, Go, HoldFanout, AppendFailed, Return, StillOpen,
        Closing, Untouched, IsNextToShut
  <2> QED BY <2>1, <2>2, <2>3
<1>5. ASSUME NEW p \in Publishers, ReserveTickets(p) PROVE IInv'
  <2>1. Tickets'
    BY <1>5
    DEF ReserveTickets, Go, Tickets, PubType, GateType, NoTicket, Reserve, Gates
  <2>2. InsideOK'
    BY <1>5
    DEF ReserveTickets, Go, InsideOK, PubType, GateType, NoTicket, NoSub,
        Tickets, Reserve, Gates
  <2>3. Closing'
    BY <1>5
    DEF ReserveTickets, Go, Closing, Untouched, IsNextToShut, GateType,
        ChanType, EndType, SubType, InsideOK, Reserve, Gates
  <2> QED BY <2>1, <2>2, <2>3
<1>6. ASSUME NEW p \in Publishers, Complete(p) PROVE IInv'
  <2>1. Tickets'
    BY <1>6 DEF Complete, Return, Go, Held, Tickets
  <2>2. InsideOK'
    BY <1>6
    DEF Complete, Return, Go, Held, InsideOK, PubType, GateType, NoTicket,
        NoSub, Tickets
  <2>3. Closing'
    BY <1>6 DEF Complete, Return, Go, Held, Closing, Untouched, IsNextToShut
  <2> QED BY <2>1, <2>2, <2>3
<1>7. ASSUME NEW p \in Publishers, ReturnErr(p) PROVE IInv'
  <2>1. Tickets'
    BY <1>7 DEF ReturnErr, Return, Go, Held, Tickets
  <2>2. InsideOK'
    BY <1>7
    DEF ReturnErr, Return, Go, Held, InsideOK, PubType, GateType, NoTicket,
        NoSub, Tickets
  <2>3. Closing'
    BY <1>7 DEF ReturnErr, Return, Go, Held, Closing, Untouched, IsNextToShut
  <2> QED BY <2>1, <2>2, <2>3
<1>8. ASSUME NEW p \in Publishers, NEW s \in Subs, Enter(p, s) PROVE IInv'
  <2>1. Tickets'
    BY <1>8, SMTT(20)
    DEF Enter, Go, IsTarget, Held, Tickets, PubType, GateType, NoTicket,
        EnterGate, Gates
  <2>2. InsideOK'
    BY <1>8, SMTT(30)
    DEF Enter, Go, IsTarget, Held, InsideOK, PubType, GateType, NoTicket, NoSub,
        Tickets, EnterGate, Gates
  <2>3. Closing'
    BY <1>8, SMTT(20)
    DEF Enter, Go, IsTarget, Held, Closing, Untouched, IsNextToShut, GateType,
        ChanType, EndType, SubType, InsideOK, EnterGate, Gates
  <2> QED BY <2>1, <2>2, <2>3
<1>9. ASSUME NEW p \in Publishers, NEW s \in Subs, EnterShut(p, s) PROVE IInv'
  <2>1. Tickets'
    BY <1>9
    DEF EnterShut, Go, Drop, Retire, IsTarget, Held, Tickets, PubType, GateType,
        NoTicket
  <2>2. InsideOK'
    BY <1>9
    DEF EnterShut, Go, Drop, Retire, IsTarget, Held, InsideOK, PubType,
        GateType, NoTicket, NoSub, Tickets
  <2>3. Closing'
    BY <1>9
    DEF EnterShut, Go, Drop, Retire, IsTarget, Held, Closing, Untouched,
        IsNextToShut
  <2> QED BY <2>1, <2>2, <2>3
<1>10. ASSUME NEW p \in Publishers, NEW s \in Subs, TryMiss(p, s) PROVE IInv'
  <2>1. Tickets'
    BY <1>10 DEF TryMiss, Go, IsTarget, Held, Tickets
  <2>2. InsideOK'
    BY <1>10
    DEF TryMiss, Go, IsTarget, Held, InsideOK, PubType, GateType, NoTicket,
        NoSub, Tickets
  <2>3. Closing'
    BY <1>10 DEF TryMiss, Go, IsTarget, Held, Closing, Untouched, IsNextToShut
  <2> QED BY <2>1, <2>2, <2>3
<1>11. ASSUME NEW p \in Publishers, NEW s \in Subs, TryRetire(p, s) PROVE IInv'
  <2>0. PICK g \in Gates :
          /\ gate' = [gate EXCEPT ![s] = g]
          /\ g.next = gate[s].next /\ g.sending = gate[s].sending
          /\ g.closed = gate[s].closed
          /\ gate[s].serving # ticket[p][s] => g.serving = gate[s].serving
    <3>1. PICK g \in Abandon(gate[s], ticket[p][s]) : gate' = [gate EXCEPT ![s] = g]
      BY <1>11 DEF TryRetire
    <3>2. ticket[p][s] \in Nat /\ gate[s] \in Gates
      BY <1>11 DEF TryRetire, IsTarget, Held, PubType, GateType
    <3> QED BY <3>1, <3>2, AbandonLemma, ZenonT(30)
  <2>1. Tickets'
    BY <1>11, <2>0
    DEF TryRetire, Go, Drop, Retire, IsTarget, Held, Tickets, PubType, GateType,
        NoTicket
  <2>2. InsideOK'
    BY <1>11, <2>0
    DEF TryRetire, Go, Drop, Retire, IsTarget, Held, InsideOK, PubType,
        GateType, NoTicket, NoSub, Tickets
  <2>3. Closing'
    BY <1>11, <2>0
    DEF TryRetire, Go, Drop, Retire, IsTarget, Held, Closing, Untouched,
        IsNextToShut, GateType, ChanType, EndType, SubType, InsideOK
  <2> QED BY <2>1, <2>2, <2>3
<1>12. ASSUME NEW p \in Publishers, NEW s \in Subs, SendOK(p, s) PROVE IInv'
  <2>1. Tickets'
    BY <1>12 DEF SendOK, Go, Tickets
  <2>2. InsideOK'
    BY <1>12
    DEF SendOK, Go, InsideOK, PubType, GateType, NoTicket, NoSub, Tickets
  <2>3. Closing'
    BY <1>12
    DEF SendOK, Go, Closing, Untouched, IsNextToShut, GateType, ChanType,
        EndType, SubType, InsideOK
  <2> QED BY <2>1, <2>2, <2>3
<1>13. ASSUME NEW p \in Publishers, NEW s \in Subs, SendDropped(p, s)
     PROVE IInv'
  <2>1. Tickets'
    BY <1>13 DEF SendDropped, Go, Drop, Tickets
  <2>2. InsideOK'
    BY <1>13
    DEF SendDropped, Go, Drop, InsideOK, PubType, GateType, NoTicket, NoSub,
        Tickets
  <2>3. Closing'
    BY <1>13 DEF SendDropped, Go, Drop, Closing, Untouched, IsNextToShut
  <2> QED BY <2>1, <2>2, <2>3
<1>14. ASSUME NEW p \in Publishers, NEW s \in Subs, SendFailed(p, s) PROVE IInv'
  <2>1. Tickets'
    BY <1>14 DEF SendFailed, Go, Tickets
  <2>2. InsideOK'
    BY <1>14
    DEF SendFailed, Go, InsideOK, PubType, GateType, NoTicket, NoSub, Tickets
  <2>3. Closing'
    BY <1>14 DEF SendFailed, Go, Closing, Untouched, IsNextToShut
  <2> QED BY <2>1, <2>2, <2>3
<1>15. ASSUME NEW p \in Publishers, NEW s \in Subs, Leave(p, s) PROVE IInv'
  <2>1. Tickets'
    BY <1>15, LeaveLemma
    DEF Leave, Go, Retire, Tickets, PubType, GateType, NoTicket
  <2>2. InsideOK'
    BY <1>15, LeaveLemma
    DEF Leave, Go, Retire, InsideOK, PubType, GateType, NoTicket, NoSub, Tickets
  <2>3. Closing'
    BY <1>15, LeaveLemma
    DEF Leave, Go, Retire, Closing, Untouched, IsNextToShut, GateType, ChanType,
        EndType, SubType, InsideOK
  <2> QED BY <2>1, <2>2, <2>3
<1>16. ASSUME NEW p \in Publishers, NEW s \in Subs, GiveUp(p, s) PROVE IInv'
  <2>0. PICK g \in Gates :
          /\ gate' = [gate EXCEPT ![s] = g]
          /\ g.next = gate[s].next /\ g.sending = gate[s].sending
          /\ g.closed = gate[s].closed
          /\ gate[s].serving # ticket[p][s] => g.serving = gate[s].serving
    <3>1. PICK g \in Abandon(gate[s], ticket[p][s]) : gate' = [gate EXCEPT ![s] = g]
      BY <1>16 DEF GiveUp
    <3>2. ticket[p][s] \in Nat /\ gate[s] \in Gates
      BY <1>16 DEF GiveUp, IsTarget, Held, PubType, GateType
    <3> QED BY <3>1, <3>2, AbandonLemma, ZenonT(30)
  <2>1. Tickets'
    BY <1>16, <2>0
    DEF GiveUp, Retire, IsTarget, Held, Tickets, PubType, GateType, NoTicket
  <2>2. InsideOK'
    BY <1>16, <2>0
    DEF GiveUp, Retire, IsTarget, Held, InsideOK, PubType, GateType, NoTicket,
        NoSub, Tickets
  <2>3. Closing'
    BY <1>16, <2>0
    DEF GiveUp, Retire, IsTarget, Held, Closing, Untouched, IsNextToShut,
        GateType, ChanType, EndType, SubType, InsideOK
  <2> QED BY <2>1, <2>2, <2>3
<1>17. ASSUME NEW pats \in PatternSets, Subscribe(pats) PROVE IInv'
  <2>1. Tickets'
    BY <1>17 DEF Subscribe, NewId, Tickets
  <2>2. InsideOK'
    BY <1>17 DEF Subscribe, NewId, InsideOK
  <2>3. Closing'
    BY <1>17
    DEF Subscribe, NewId, Closing, Untouched, IsNextToShut, GateType, ChanType,
        EndType, SubType, InsideOK
  <2> QED BY <2>1, <2>2, <2>3
<1>18. ASSUME NEW s \in Subs, UnsubRemove(s) PROVE IInv'
  <2>1. Tickets'
    BY <1>18 DEF UnsubRemove, UnsubGo, Tickets
  <2>2. InsideOK'
    BY <1>18 DEF UnsubRemove, UnsubGo, InsideOK
  <2>3. Closing'
    BY <1>18
    DEF UnsubRemove, UnsubGo, Closing, Untouched, IsNextToShut, GateType,
        ChanType, EndType, SubType, InsideOK
  <2> QED BY <2>1, <2>2, <2>3
<1>19. ASSUME NEW s \in Subs, UnsubDone(s) PROVE IInv'
  <2>1. Tickets'
    BY <1>19 DEF UnsubDone, UnsubGo, SignalDone, Tickets
  <2>2. InsideOK'
    BY <1>19 DEF UnsubDone, UnsubGo, SignalDone, InsideOK
  <2>3. Closing'
    BY <1>19
    DEF UnsubDone, UnsubGo, SignalDone, Closing, Untouched, IsNextToShut,
        GateType, ChanType, EndType, SubType, InsideOK
  <2> QED BY <2>1, <2>2, <2>3
<1>20. ASSUME NEW s \in Subs, UnsubShut(s) PROVE IInv'
  <2>1. Tickets'
    BY <1>20
    DEF UnsubShut, UnsubGo, Tickets, PubType, GateType, NoTicket, ShutGate,
        Gates
  <2>2. InsideOK'
    BY <1>20
    DEF UnsubShut, UnsubGo, InsideOK, PubType, GateType, NoTicket, NoSub,
        Tickets, ShutGate, Gates
  <2>3. Closing'
    BY <1>20, SMTT(20)
    DEF UnsubShut, UnsubGo, Closing, Untouched, IsNextToShut, GateType,
        ChanType, EndType, SubType, InsideOK, ShutGate, Gates
  <2> QED BY <2>1, <2>2, <2>3
<1>21. ASSUME NEW s \in Subs, UnsubClose(s) PROVE IInv'
  <2>1. Tickets'
    BY <1>21 DEF UnsubClose, UnsubGo, CloseChan, Tickets
  <2>2. InsideOK'
    BY <1>21 DEF UnsubClose, UnsubGo, CloseChan, InsideOK
  <2>3. Closing'
    BY <1>21
    DEF UnsubClose, UnsubGo, CloseChan, Quiesced, Closing, Untouched,
        IsNextToShut, GateType, ChanType, EndType, SubType, InsideOK
  <2> QED BY <2>1, <2>2, <2>3
<1>22. ASSUME NEW s \in Subs, Receive(s) PROVE IInv'
  BY <1>22, TypeOK'
  DEF Receive, Tickets, InsideOK, Closing, Untouched, IsNextToShut
<1>23. ASSUME NEW s \in Subs, CloseShut(s) PROVE IInv'
  <2>1. Tickets'
    BY <1>23
    DEF CloseShut, Tickets, PubType, GateType, NoTicket, ShutGate, Gates
  <2>2. InsideOK'
    BY <1>23
    DEF CloseShut, InsideOK, PubType, GateType, NoTicket, NoSub, Tickets,
        ShutGate, Gates
  <2>3. Closing'
    BY <1>23, SMTT(20)
    DEF CloseShut, Closing, Untouched, IsNextToShut, GateType, ChanType,
        EndType, SubType, InsideOK, ShutGate, Gates
  <2> QED BY <2>1, <2>2, <2>3
<1>24. ASSUME NEW s \in Subs, CloseQuiesce(s) PROVE IInv'
  <2>1. Tickets'
    BY <1>24 DEF CloseQuiesce, CloseChan, Tickets
  <2>2. InsideOK'
    BY <1>24 DEF CloseQuiesce, CloseChan, InsideOK
  <2>3. Closing'
    BY <1>24
    DEF CloseQuiesce, CloseChan, Quiesced, Closing, Untouched, IsNextToShut,
        GateType, ChanType, EndType, SubType, InsideOK
  <2> QED BY <2>1, <2>2, <2>3
<1>25. ASSUME CloseSwap PROVE IInv'
  <2>1. Tickets'
    BY <1>25 DEF CloseSwap, Tickets
  <2>2. InsideOK'
    BY <1>25 DEF CloseSwap, InsideOK
  <2>3. Closing'
    BY <1>25
    DEF CloseSwap, Closing, Untouched, IsNextToShut, GateType, ChanType,
        EndType, SubType, InsideOK
  <2> QED BY <2>1, <2>2, <2>3
<1>26. ASSUME CloseSignal PROVE IInv'
  <2>1. Tickets'
    BY <1>26 DEF CloseSignal, Tickets
  <2>2. InsideOK'
    BY <1>26 DEF CloseSignal, InsideOK
  <2>3. Closing'
    BY <1>26
    DEF CloseSignal, Closing, Untouched, IsNextToShut, GateType, ChanType,
        EndType, SubType, InsideOK
  <2> QED BY <2>1, <2>2, <2>3
<1>27. ASSUME CloseTake PROVE IInv'
  <2>1. Tickets'
    BY <1>27 DEF CloseTake, Tickets
  <2>2. InsideOK'
    BY <1>27 DEF CloseTake, InsideOK
  <2>3. Closing'
    BY <1>27
    DEF CloseTake, Closing, Untouched, IsNextToShut, GateType, ChanType,
        EndType, SubType, InsideOK
  <2> QED BY <2>1, <2>2, <2>3
<1>28. ASSUME CloseLog PROVE IInv'
  <2>1. Tickets'
    BY <1>28 DEF CloseLog, Tickets
  <2>2. InsideOK'
    BY <1>28 DEF CloseLog, InsideOK
  <2>3. Closing'
    BY <1>28
    DEF CloseLog, Closing, Untouched, IsNextToShut, GateType, ChanType, EndType,
        SubType, InsideOK
  <2> QED BY <2>1, <2>2, <2>3
<1>29. CASE UNCHANGED vars
  BY <1>29 DEF Tickets, InsideOK, Closing, Untouched, IsNextToShut
<1> QED
  BY <1>1, <1>2, <1>3, <1>4, <1>5, <1>6, <1>7, <1>8, <1>9, <1>10, <1>11, <1>12,
      <1>13, <1>14, <1>15, <1>16, <1>17, <1>18, <1>19, <1>20, <1>21, <1>22,
      <1>23, <1>24, <1>25, <1>26, <1>27, <1>28, <1>29
  DEF Next, Environment, PublishStep, UnsubStep, CloseStep

THEOREM InductiveInvariant == Spec => []IInv
<1>1. Init => IInv
  BY InitIInv
<1>2. IInv /\ [Next]_vars => IInv'
  BY NextIInv
<1> QED BY <1>1, <1>2, PTL DEF Spec

\* One sender at a time is past the gate of a subscription, with the ticket
\* being served and an open channel.
THEOREM OneSenderPerGate == Spec => []GateExclusion
<1>1. IInv => GateExclusion
  <2> SUFFICES ASSUME IInv,
                      NEW p \in Publishers, NEW s \in Subs, Inside(p, s)
               PROVE  /\ gate[s].sending /\ gate[s].serving = ticket[p][s]
                      /\ ~chClosed[s]
                      /\ \A q \in Publishers : Inside(q, s) => q = p
    BY DEF GateExclusion
  <2> USE DEF IInv, Inside, InsideOK
  <2>1. gate[s].sending /\ gate[s].serving = ticket[p][s]
    OBVIOUS
  <2>2. ~chClosed[s]
    BY <2>1 DEF Closing
  <2>3. \A q \in Publishers : Inside(q, s) => q = p
    BY <2>1 DEF Tickets
  <2> QED BY <2>1, <2>2, <2>3
<1> QED BY <1>1, InductiveInvariant, PTL

\* No send and no close ever meets a closed channel.
THEOREM NeverPanics == Spec => []NoPanic
<1>1. IInv => NoPanic
  BY DEF IInv, Closing, NoPanic
<1> QED BY <1>1, InductiveInvariant, PTL

-----------------------------------------------------------------------------
(* The order: the envelope in the hands of the holder of fanoutMu has          *)
(* the newest Seq (Stamping); tickets of one subscription are ordered as       *)
(* the Seqs they were reserved for (TicketOrder); a ticket still held is       *)
(* never overtaken by the turn (also TicketOrder); so the publisher whose      *)
(* turn it is carries a Seq above everything already in the stream and         *)
(* below what the others that wait carry (Streams).                            *)

Ordered(q) == \A i, j \in 1 .. Len(q) : i < j => q[i] < q[j]
Below(q, n) == \A i \in 1 .. Len(q) : q[i] < n

Holds(p, s) == ticket[p][s] # NoTicket
Sent(p, s) == pc[p] = "leave" /\ at[p] = s

Stamping ==
  \A p \in Publishers : pc[p] = "reserve" => fanoutMu = p /\ evt[p].seq = next

NoneHeld ==
  \A p \in Publishers : pc[p] \in {"idle", "stamp", "reserve"} =>
    \A s \in Subs : ~Holds(p, s)

Skips ==
  \A s \in Subs : /\ gate[s].serving <= gate[s].next
                  /\ \A t \in gate[s].skipped : t < gate[s].next

TicketOrder ==
  \A p \in Publishers, s \in Subs : Holds(p, s) =>
    /\ gate[s].serving <= ticket[p][s]
    /\ ticket[p][s] \notin gate[s].skipped
    /\ evt[p].seq <= next
    /\ \A q \in Publishers : pc[q] = "reserve" => evt[p].seq < next
    /\ \A q \in Publishers :
         Holds(q, s) /\ ticket[p][s] < ticket[q][s] => evt[p].seq < evt[q].seq

Streams ==
  \A s \in Subs :
    /\ Ordered(Stream(s))
    /\ Below(Stream(s), next + 1)
    /\ \A p \in Publishers :
         /\ pc[p] = "reserve" => Below(Stream(s), next)
         /\ Holds(p, s) /\ ~Sent(p, s) => Below(Stream(s), evt[p].seq)

OrderInv == IInv /\ Stamping /\ NoneHeld /\ Skips /\ TicketOrder /\ Streams

-----------------------------------------------------------------------------
\* A receive moves an envelope from the channel to the consumer: the stream
\* is the same.
LEMMA ReceiveStream ==
  ASSUME NEW a \in Seq(Nat), NEW b \in Seq(Nat), b # <<>>
  PROVE  Append(a, Head(b)) \o Tail(b) = a \o b
<1> DEFINE l == Append(a, Head(b)) \o Tail(b)
           r == a \o b
<1>1. Tail(b) \in Seq(Nat) /\ Len(Tail(b)) = Len(b) - 1
      /\ \A i \in 1 .. Len(b) - 1 : Tail(b)[i] = b[i + 1]
  BY HeadTailProperties
<1>2. Append(a, Head(b)) \in Seq(Nat) /\ Head(b) = b[1] /\ Len(b) > 0
  BY HeadTailProperties, EmptySeq
<1>3. l \in Seq(Nat) /\ r \in Seq(Nat) /\ Len(l) = Len(r)
  BY <1>1, <1>2
<1>4. ASSUME NEW i \in 1 .. Len(l) PROVE l[i] = r[i]
  <2>1. CASE i <= Len(a)
    BY <1>1, <1>2, <2>1
  <2>2. CASE i = Len(a) + 1
    BY <1>1, <1>2, <2>2
  <2>3. CASE i > Len(a) + 1
    BY <1>1, <1>2, <1>3, <2>3
  <2> QED BY <2>1, <2>2, <2>3, <1>3
<1> QED BY <1>3, <1>4, SeqEqual

\* A send appends to the stream.
LEMMA SendStream ==
  ASSUME NEW a \in Seq(Nat), NEW b \in Seq(Nat), NEW n \in Nat
  PROVE  a \o Append(b, n) = Append(a \o b, n)
<1> DEFINE l == a \o Append(b, n)
           r == Append(a \o b, n)
<1>1. l \in Seq(Nat) /\ r \in Seq(Nat) /\ Len(l) = Len(r)
  OBVIOUS
<1>2. ASSUME NEW i \in 1 .. Len(l) PROVE l[i] = r[i]
  BY <1>2
<1> QED BY <1>1, <1>2, SeqEqual

\* Appending a value above all others keeps a stream ordered.
LEMMA AppendOrdered ==
  ASSUME NEW q \in Seq(Nat), NEW n \in Nat, Ordered(q), Below(q, n)
  PROVE  /\ Ordered(Append(q, n))
         /\ \A m \in Nat : n < m => Below(Append(q, n), m)
BY DEF Ordered, Below

LEMMA BelowMono ==
  ASSUME NEW q \in Seq(Nat), NEW m \in Nat, NEW n \in Nat, m <= n, Below(q, m)
  PROVE  Below(q, n)
BY DEF Below

\* The turn moves past abandoned tickets only.
LEMMA AdvanceTurn ==
  ASSUME NEW g \in Gates, NEW h \in Advance(g), NEW t \in Nat,
         t > g.serving, t \notin g.skipped
  PROVE  h.serving <= t /\ t \notin h.skipped /\ h.skipped \subseteq g.skipped
<1>1. PICK n \in NextTurns(g) :
        h = [g EXCEPT !.serving = n, !.skipped = @ \ (g.serving .. n)]
  BY DEF Advance
<1>2. n \in Nat /\ h.serving = n /\ h.skipped = g.skipped \ (g.serving .. n)
  BY <1>1 DEF NextTurns, Gates
<1>3. n <= t
  BY <1>2, <1>1 DEF NextTurns, Gates
<1> QED BY <1>2, <1>3

\* The turn never passes the next ticket to hand out.
LEMMA AdvanceBound ==
  ASSUME NEW g \in Gates, NEW h \in Advance(g),
         g.serving < g.next, g.next \notin g.skipped
  PROVE  h.serving <= g.next
<1>1. PICK n \in NextTurns(g) :
        h = [g EXCEPT !.serving = n, !.skipped = @ \ (g.serving .. n)]
  BY DEF Advance
<1>2. n \in Nat /\ h.serving = n
  BY <1>1 DEF NextTurns, Gates
<1>3. n <= g.next
  BY <1>1, <1>2 DEF NextTurns, Gates
<1> QED BY <1>2, <1>3

\* advanceLocked deletes skipped entries and adds none.
LEMMA AdvanceForgets ==
  ASSUME NEW g \in Gates, NEW h \in Advance(g)
  PROVE  h.skipped \subseteq g.skipped
BY DEF Advance, NextTurns, Gates

\* What a move of the turn means for the tickets still held.
LEMMA AdvanceAll ==
  ASSUME NEW o \in Gates, NEW g \in Advance(o),
         o.serving < o.next, \A t \in o.skipped : t < o.next
  PROVE  /\ g \in Gates /\ g.next = o.next
         /\ \A t \in Nat : /\ t >= o.serving /\ t \notin o.skipped
                           /\ t # o.serving
                           => t >= g.serving /\ t \notin g.skipped
         /\ g.serving <= g.next /\ \A t \in g.skipped : t < g.next
<1>1. /\ g \in Gates /\ g.next = o.next /\ g.serving \in Nat /\ g.next \in Nat
      /\ o.serving \in Nat
  BY AdvanceLemma DEF Gates
<1>2. o.next \notin o.skipped
  BY <1>1
<1>3. g.serving <= g.next
  BY <1>1, <1>2, AdvanceBound
<1>4. \A t \in g.skipped : t < g.next
  BY <1>1, AdvanceForgets
<1>5. ASSUME NEW t \in Nat, t >= o.serving, t \notin o.skipped, t # o.serving
      PROVE  t >= g.serving /\ t \notin g.skipped
  <2>1. t > o.serving
    BY <1>1, <1>5
  <2>2. g.serving <= t /\ t \notin g.skipped
    BY <1>5, <2>1, AdvanceTurn
  <2> QED BY <1>1, <2>2
<1> QED BY <1>1, <1>3, <1>4, <1>5

\* Retiring a held ticket moves the turn past no other held ticket.
LEMMA RetireTurn ==
  ASSUME OrderInv, NEW p \in Publishers, NEW s \in Subs, Holds(p, s),
         NEW g, \/ g \in Abandon(gate[s], ticket[p][s])
                \/ g \in LeaveGate(gate[s]) /\ pc[p] = "leave" /\ at[p] = s
  PROVE  /\ g \in Gates /\ g.next = gate[s].next
         /\ \A t \in Nat : /\ t >= gate[s].serving /\ t \notin gate[s].skipped
                           /\ t # ticket[p][s]
                           => t >= g.serving /\ t \notin g.skipped
         /\ g.serving <= g.next /\ \A t \in g.skipped : t < g.next
<1> DEFINE o == gate[s]
           mine == ticket[p][s]
<1>1. o \in Gates /\ mine \in Nat /\ mine < o.next
  BY DEF OrderInv, IInv, TypeOK, GateType, PubType, Tickets, Holds
<1>2. o.serving <= o.next /\ \A t \in o.skipped : t < o.next
  BY DEF OrderInv, Skips
<1>3. CASE o.serving = mine /\ g \in Advance(o)
  BY <1>1, <1>2, <1>3, AdvanceAll
<1>4. CASE o.serving # mine /\ g \in Abandon(o, mine)
  BY <1>1, <1>2, <1>4 DEF Abandon, Gates
<1>5. CASE g \in LeaveGate(o) /\ pc[p] = "leave" /\ at[p] = s
  <2> DEFINE k == [o EXCEPT !.sending = FALSE]
  <2>1. /\ k \in Gates /\ k.next = o.next /\ k.serving = o.serving
        /\ k.skipped = o.skipped
    BY <1>1 DEF Gates
  <2>2. g \in Advance(k)
    BY <1>5 DEF LeaveGate
  <2>3. o.serving = mine
    BY <1>5 DEF OrderInv, IInv, InsideOK
  <2> HIDE DEF k
  <2> QED BY <1>1, <1>2, <2>1, <2>2, <2>3, AdvanceAll
<1> QED BY <1>3, <1>4, <1>5 DEF Abandon

LEMMA InitOrder == Init => OrderInv
<1> SUFFICES ASSUME Init PROVE OrderInv
  OBVIOUS
<1>1. IInv
  BY InitIInv
<1>2. \A s \in Subs : Len(Stream(s)) = 0
  BY DEF Init, Stream
<1>3. Stamping /\ NoneHeld /\ TicketOrder
  BY DEF Init, Stamping, NoneHeld, TicketOrder, Holds
<1>4. Skips
  BY DEF Init, Skips, NewGate
<1>5. Streams
  BY <1>2 DEF Streams, Ordered, Below
<1> QED BY <1>1, <1>3, <1>4, <1>5 DEF OrderInv

LEMMA NextOrder == OrderInv /\ [Next]_vars => OrderInv'
<1> SUFFICES ASSUME OrderInv, [Next]_vars PROVE OrderInv'
  OBVIOUS
<1>0. IInv'
  BY NextIInv DEF OrderInv
<1> USE BusAssumption, NobodyAssumption, <1>0 DEF OrderInv, IInv, TypeOK, Subs,
    vars, busVars, worldVars, subVars, chanVars, pubVars, countVars, endVars
<1>1. ASSUME NEW p \in Publishers, NEW t \in Topics, Call(p, t) PROVE OrderInv'
  <2>1. Stamping'
    BY <1>1
    DEF Call, Go, Stamping, PubType, GateType, BusType, SubType, NoTicket, NoSub
  <2>2. NoneHeld'
    BY <1>1
    DEF Call, Go, NoneHeld, Holds, PubType, GateType, BusType, SubType,
        NoTicket, NoSub
  <2>3. Skips'
    BY <1>1 DEF Call, Go, Skips
  <2>4. TicketOrder'
    BY <1>1, SMTT(20)
    DEF Call, Go, TicketOrder, Holds, PubType, GateType, BusType, SubType,
        NoTicket, NoSub, Tickets, Skips, NoneHeld
  <2>5. Streams'
    BY <1>1
    DEF Call, Go, Streams, Stream, Holds, Sent, PubType, GateType, BusType,
        SubType, NoTicket, NoSub, Stamping, NoneHeld
  <2> QED BY <2>1, <2>2, <2>3, <2>4, <2>5
<1>2. ASSUME NEW p \in Publishers, CancelCtx(p) PROVE OrderInv'
  BY <1>2
  DEF CancelCtx, Stamping, NoneHeld, Skips, TicketOrder, Streams, Stream, Holds,
      Sent
<1>3. ASSUME NEW p \in Publishers, StampClosed(p) PROVE OrderInv'
  <2>1. Stamping'
    BY <1>3
    DEF StampClosed, Return, Go, Stamping, PubType, GateType, BusType, SubType,
        NoTicket, NoSub
  <2>2. NoneHeld'
    BY <1>3
    DEF StampClosed, Return, Go, NoneHeld, Holds, PubType, GateType, BusType,
        SubType, NoTicket, NoSub
  <2>3. Skips'
    BY <1>3 DEF StampClosed, Return, Go, Skips
  <2>4. TicketOrder'
    BY <1>3
    DEF StampClosed, Return, Go, TicketOrder, Holds, PubType, GateType, BusType,
        SubType, NoTicket, NoSub, Tickets, Skips, NoneHeld
  <2>5. Streams'
    BY <1>3
    DEF StampClosed, Return, Go, Streams, Stream, Holds, Sent, PubType,
        GateType, BusType, SubType, NoTicket, NoSub, Stamping, NoneHeld
  <2> QED BY <2>1, <2>2, <2>3, <2>4, <2>5
<1>4. ASSUME NEW p \in Publishers, Stamp(p) PROVE OrderInv'
  <2>1. Stamping'
    BY <1>4
    DEF Stamp, Appended, Go, HoldFanout, AppendFailed, Return, StillOpen,
        Stamping, PubType, GateType, BusType, SubType, NoTicket, NoSub
  <2>2. NoneHeld'
    BY <1>4
    DEF Stamp, Appended, Go, HoldFanout, AppendFailed, Return, StillOpen,
        NoneHeld, Holds, PubType, GateType, BusType, SubType, NoTicket, NoSub
  <2>3. Skips'
    BY <1>4
    DEF Stamp, Appended, Go, HoldFanout, AppendFailed, Return, StillOpen, Skips
  <2>4. TicketOrder'
    <3>1. pc[p] = "stamp" /\ next' = next + 1 /\ UNCHANGED <<ticket, gate>>
      BY <1>4 DEF Stamp
    <3>2. \A q \in Publishers : q # p => evt'[q] = evt[q]
      BY <1>4 DEF Stamp, Appended, AppendFailed, Return, PubType
    <3>3. \A u \in Subs : ~Holds(p, u)
      BY <3>1 DEF NoneHeld
    <3>4. next \in Nat /\ \A q \in Publishers : evt[q].seq \in Nat
      BY DEF BusType, PubType
    <3> QED BY <3>1, <3>2, <3>3, <3>4 DEF TicketOrder, Holds
  <2>5. Streams'
    <3>1. pc[p] = "stamp" /\ next' = next + 1 /\ UNCHANGED <<ticket, ch, got, at>>
      BY <1>4 DEF Stamp
    <3>2. \A q \in Publishers : q # p => evt'[q] = evt[q] /\ pc'[q] = pc[q]
      BY <1>4 DEF Stamp, Appended, AppendFailed, Return, Go, PubType
    <3>3. \A u \in Subs : ~Holds(p, u)
      BY <3>1 DEF NoneHeld
    <3>4. next \in Nat
      BY DEF BusType
    <3>5. \A u \in Subs : Stream(u) \in Seq(Nat) /\ Stream(u)' = Stream(u)
      BY <3>1 DEF Stream, ChanType
    <3>6. \A u \in Subs : Below(Stream(u), next + 1) /\ Below(Stream(u), next + 2)
      BY <3>4, <3>5, BelowMono DEF Streams
    <3>7. \A q \in Publishers : pc[q] # "reserve"
      BY <1>4 DEF Stamp, Stamping
    <3> HIDE DEF OrderInv
    <3>8. \A u \in Subs : Ordered(Stream(u)) /\ \A q \in Publishers :
            Holds(q, u) /\ ~Sent(q, u) => Below(Stream(u), evt[q].seq)
      BY DEF OrderInv, Streams
    <3>9. \A u \in Subs, q \in Publishers :
            Holds(q, u)' /\ ~Sent(q, u)' => Below(Stream(u)', evt'[q].seq)
      <4> TAKE u \in Subs, q \in Publishers
      <4>1. CASE q = p
        BY <4>1, <3>1, <3>3 DEF Holds
      <4>2. CASE q # p
        BY <4>2, <3>1, <3>2, <3>5, <3>8 DEF Holds, Sent
      <4> QED BY <4>1, <4>2
    <3>10. next' + 1 = next + 2
      BY <3>1, <3>4
    <3>11. \A u \in Subs : Below(Stream(u)', next') /\ Below(Stream(u)', next' + 1)
      BY <3>1, <3>5, <3>6, <3>10
    <3> QED BY <3>5, <3>8, <3>9, <3>11 DEF Streams
  <2> QED BY <2>1, <2>2, <2>3, <2>4, <2>5
<1>5. ASSUME NEW p \in Publishers, ReserveTickets(p) PROVE OrderInv'
  <2>1. Stamping'
    BY <1>5
    DEF ReserveTickets, Go, Stamping, PubType, GateType, BusType, SubType,
        NoTicket, NoSub, Reserve, Gates, Targets
  <2>2. NoneHeld'
    BY <1>5
    DEF ReserveTickets, Go, NoneHeld, Holds, PubType, GateType, BusType,
        SubType, NoTicket, NoSub, Reserve, Gates, Targets
  <2>3. Skips'
    BY <1>5
    DEF ReserveTickets, Go, Skips, PubType, GateType, BusType, SubType,
        NoTicket, NoSub, Reserve, Gates, Targets
  <2>4. TicketOrder'
    <3>1. /\ pc[p] = "reserve" /\ evt[p].seq = next
          /\ \A q \in Publishers : pc'[q] # "reserve"
      BY <1>5 DEF ReserveTickets, Go, Stamping, PubType
    <3>2. \A u \in Subs :
            /\ gate'[u].serving = gate[u].serving
            /\ gate'[u].skipped = gate[u].skipped
            /\ ticket'[p][u] # NoTicket => ticket'[p][u] = gate[u].next
      BY <1>5 DEF ReserveTickets, Reserve, GateType, Gates, PubType
    <3>3. \A q \in Publishers : q # p => ticket'[q] = ticket[q]
      BY <1>5 DEF ReserveTickets, PubType
    <3>4. UNCHANGED <<evt, next>>
      BY <1>5 DEF ReserveTickets
    <3>5. \A u \in Subs : gate[u].next \in Nat /\ gate[u].serving \in Nat
      BY DEF GateType, Gates
    <3>6. \A q \in Publishers : evt[q].seq \in Nat
      BY DEF PubType
    <3>7. next \in Nat
      BY DEF BusType
    <3> SUFFICES ASSUME NEW a \in Publishers, NEW u \in Subs, Holds(a, u)'
                 PROVE  /\ gate'[u].serving <= ticket'[a][u]
                        /\ ticket'[a][u] \notin gate'[u].skipped
                        /\ evt[a].seq <= next
                        /\ \A q \in Publishers :
                             Holds(q, u)' /\ ticket'[a][u] < ticket'[q][u]
                               => evt[a].seq < evt[q].seq
      BY <3>1, <3>4 DEF TicketOrder
    <3>8. CASE a = p
      <4>1. ticket'[a][u] = gate[u].next
        BY <3>2, <3>8 DEF Holds
      <4>2. ASSUME NEW q \in Publishers, Holds(q, u)', ticket'[a][u] <
                       ticket'[q][u]
            PROVE  FALSE
        <5>1. CASE q = p
          BY <4>1, <4>2, <5>1, <3>5, <3>8
        <5>2. CASE q # p
          <6>1. ticket'[q][u] = ticket[q][u] /\ Holds(q, u)
            BY <4>2, <5>2, <3>3 DEF Holds
          <6>2. ticket[q][u] < gate[u].next /\ ticket[q][u] \in Nat
            BY <6>1 DEF Tickets, Holds, PubType
          <6> QED BY <4>1, <4>2, <6>1, <6>2, <3>5
        <5> QED BY <5>1, <5>2
      <4>3. gate[u].serving <= gate[u].next /\ gate[u].next \notin gate[u].skipped
        BY <3>5 DEF Skips
      <4>4. evt[a].seq <= next
        BY <3>1, <3>7, <3>8
      <4> QED BY <3>2, <4>1, <4>2, <4>3, <4>4
    <3>9. CASE a # p
      <4>1. Holds(a, u) /\ ticket'[a][u] = ticket[a][u]
        BY <3>3, <3>9 DEF Holds
      <4> QED BY <3>1, <3>2, <3>3, <4>1 DEF Holds, TicketOrder
    <3> QED BY <3>8, <3>9
  <2>5. Streams'
    BY <1>5
    DEF ReserveTickets, Go, Streams, Stream, Holds, Sent, PubType, GateType,
        BusType, SubType, NoTicket, NoSub, Stamping, NoneHeld, Reserve, Gates,
        Targets
  <2> QED BY <2>1, <2>2, <2>3, <2>4, <2>5
<1>6. ASSUME NEW p \in Publishers, Complete(p) PROVE OrderInv'
  <2>1. Stamping'
    BY <1>6
    DEF Complete, Return, Go, Held, Stamping, PubType, GateType, BusType,
        SubType, NoTicket, NoSub
  <2>2. NoneHeld'
    BY <1>6
    DEF Complete, Return, Go, Held, NoneHeld, Holds, PubType, GateType, BusType,
        SubType, NoTicket, NoSub
  <2>3. Skips'
    BY <1>6 DEF Complete, Return, Go, Held, Skips
  <2>4. TicketOrder'
    BY <1>6, SMTT(20)
    DEF Complete, Return, Go, Held, TicketOrder, Holds, PubType, GateType,
        BusType, SubType, NoTicket, NoSub, Tickets, Skips, NoneHeld
  <2>5. Streams'
    BY <1>6
    DEF Complete, Return, Go, Held, Streams, Stream, Holds, Sent, PubType,
        GateType, BusType, SubType, NoTicket, NoSub, Stamping, NoneHeld
  <2> QED BY <2>1, <2>2, <2>3, <2>4, <2>5
<1>7. ASSUME NEW p \in Publishers, ReturnErr(p) PROVE OrderInv'
  <2>1. Stamping'
    BY <1>7
    DEF ReturnErr, Return, Go, Held, Stamping, PubType, GateType, BusType,
        SubType, NoTicket, NoSub
  <2>2. NoneHeld'
    BY <1>7
    DEF ReturnErr, Return, Go, Held, NoneHeld, Holds, PubType, GateType,
        BusType, SubType, NoTicket, NoSub
  <2>3. Skips'
    BY <1>7 DEF ReturnErr, Return, Go, Held, Skips
  <2>4. TicketOrder'
    BY <1>7, ZenonT(30)
    DEF ReturnErr, Return, Go, Held, TicketOrder, Holds, PubType, GateType,
        BusType, SubType, NoTicket, NoSub, Tickets, Skips, NoneHeld
  <2>5. Streams'
    BY <1>7, ZenonT(30)
    DEF ReturnErr, Return, Go, Held, Streams, Stream, Holds, Sent, PubType,
        GateType, BusType, SubType, NoTicket, NoSub, Stamping, NoneHeld
  <2> QED BY <2>1, <2>2, <2>3, <2>4, <2>5
<1>8. ASSUME NEW p \in Publishers, NEW s \in Subs, Enter(p, s) PROVE OrderInv'
  <2>1. Stamping'
    BY <1>8
    DEF Enter, Go, IsTarget, Held, Stamping, PubType, GateType, BusType,
        SubType, NoTicket, NoSub, EnterGate, Gates
  <2>2. NoneHeld'
    BY <1>8 DEF Enter, Go, NoneHeld, Holds, PubType
  <2>3. Skips'
    BY <1>8, SMTT(20)
    DEF Enter, Go, IsTarget, Held, Skips, PubType, GateType, BusType, SubType,
        NoTicket, NoSub, EnterGate, Gates
  <2>4. TicketOrder'
    <3>1. \A u \in Subs : /\ gate'[u].serving = gate[u].serving
                           /\ gate'[u].skipped = gate[u].skipped
      BY <1>8 DEF Enter, EnterGate, GateType, Gates
    <3>2. UNCHANGED <<ticket, evt, next>> /\ \A q \in Publishers : pc'[q] =
                     "reserve" => pc[q] = "reserve"
      BY <1>8 DEF Enter, Go, UnsubGo, PubType
    <3> QED BY <3>1, <3>2 DEF TicketOrder, Holds
  <2>5. Streams'
    <3>1. UNCHANGED <<ticket, evt, next, got, ch>>
      BY <1>8 DEF Enter
    <3>2. \A q \in Publishers : pc'[q] = "reserve" => pc[q] = "reserve"
      BY <1>8 DEF Enter, Go, PubType
    <3>3. \A q \in Publishers, u \in Subs : ~Sent(q, u)' => ~Sent(q, u)
      BY <1>8 DEF Enter, Go, Sent, PubType
    <3> QED BY <3>1, <3>2, <3>3 DEF Streams, Stream, Holds
  <2> QED BY <2>1, <2>2, <2>3, <2>4, <2>5
<1>9. ASSUME NEW p \in Publishers, NEW s \in Subs, EnterShut(p, s)
     PROVE OrderInv'
  <2>1. Stamping'
    BY <1>9
    DEF EnterShut, Go, Drop, Retire, IsTarget, Held, Stamping, PubType,
        GateType, BusType, SubType, NoTicket, NoSub
  <2>2. NoneHeld'
    BY <1>9, SMTT(20)
    DEF EnterShut, Go, Drop, Retire, IsTarget, Held, NoneHeld, Holds, PubType,
        GateType, BusType, SubType, NoTicket, NoSub
  <2>3. Skips'
    BY <1>9 DEF EnterShut, Go, Drop, Retire, IsTarget, Held, Skips
  <2>4. TicketOrder'
    BY <1>9, SMTT(20)
    DEF EnterShut, Go, Drop, Retire, IsTarget, Held, TicketOrder, Holds,
        PubType, GateType, BusType, SubType, NoTicket, NoSub, Tickets, Skips,
        NoneHeld
  <2>5. Streams'
    BY <1>9, SMTT(20)
    DEF EnterShut, Go, Drop, Retire, IsTarget, Held, Streams, Stream, Holds,
        Sent, PubType, GateType, BusType, SubType, NoTicket, NoSub, Stamping,
        NoneHeld
  <2> QED BY <2>1, <2>2, <2>3, <2>4, <2>5
<1>10. ASSUME NEW p \in Publishers, NEW s \in Subs, TryMiss(p, s)
     PROVE OrderInv'
  <2>1. Stamping'
    BY <1>10
    DEF TryMiss, Go, IsTarget, Held, Stamping, PubType, GateType, BusType,
        SubType, NoTicket, NoSub
  <2>2. NoneHeld'
    BY <1>10
    DEF TryMiss, Go, IsTarget, Held, NoneHeld, Holds, PubType, GateType,
        BusType, SubType, NoTicket, NoSub
  <2>3. Skips'
    BY <1>10 DEF TryMiss, Go, IsTarget, Held, Skips
  <2>4. TicketOrder'
    BY <1>10
    DEF TryMiss, Go, IsTarget, Held, TicketOrder, Holds, PubType, GateType,
        BusType, SubType, NoTicket, NoSub, Tickets, Skips, NoneHeld
  <2>5. Streams'
    BY <1>10
    DEF TryMiss, Go, IsTarget, Held, Streams, Stream, Holds, Sent, PubType,
        GateType, BusType, SubType, NoTicket, NoSub, Stamping, NoneHeld
  <2> QED BY <2>1, <2>2, <2>3, <2>4, <2>5
<1>11. ASSUME NEW p \in Publishers, NEW s \in Subs, TryRetire(p, s)
     PROVE OrderInv'
  <2>0. PICK g \in Gates :
          /\ gate' = [gate EXCEPT ![s] = g] /\ g.next = gate[s].next
          /\ \A t \in Nat : /\ t >= gate[s].serving /\ t \notin gate[s].skipped
                            /\ t # ticket[p][s]
                            => t >= g.serving /\ t \notin g.skipped
          /\ g.serving <= g.next /\ \A t \in g.skipped : t < g.next
    <3>1. PICK g \in Abandon(gate[s], ticket[p][s]) : gate' = [gate EXCEPT ![s] = g]
      BY <1>11 DEF TryRetire
    <3> QED BY <3>1, RetireTurn, <1>11, ZenonT(30) DEF TryRetire, IsTarget, Held, Holds
  <2>1. Stamping'
    BY <1>11, <2>0
    DEF TryRetire, Go, Drop, Retire, IsTarget, Held, Stamping, PubType,
        GateType, BusType, SubType, NoTicket, NoSub
  <2>2. NoneHeld'
    BY <1>11, <2>0
    DEF TryRetire, Go, Drop, Retire, IsTarget, Held, NoneHeld, Holds, PubType,
        GateType, BusType, SubType, NoTicket, NoSub
  <2>3. Skips'
    BY <1>11, <2>0
    DEF TryRetire, Go, Drop, Retire, IsTarget, Held, Skips, PubType, GateType,
        BusType, SubType, NoTicket, NoSub
  <2>4. TicketOrder'
    BY <1>11, <2>0, SMTT(20)
    DEF TryRetire, Go, Drop, Retire, IsTarget, Held, TicketOrder, Holds,
        PubType, GateType, BusType, SubType, NoTicket, NoSub, Tickets, Skips,
        NoneHeld
  <2>5. Streams'
    BY <1>11, <2>0
    DEF TryRetire, Go, Drop, Retire, IsTarget, Held, Streams, Stream, Holds,
        Sent, PubType, GateType, BusType, SubType, NoTicket, NoSub, Stamping,
        NoneHeld
  <2> QED BY <2>1, <2>2, <2>3, <2>4, <2>5
<1>12. ASSUME NEW p \in Publishers, NEW s \in Subs, SendOK(p, s) PROVE OrderInv'
  <2>1. Stamping'
    BY <1>12
    DEF SendOK, Go, Stamping, PubType, GateType, BusType, SubType, NoTicket,
        NoSub
  <2>2. NoneHeld'
    BY <1>12
    DEF SendOK, Go, NoneHeld, Holds, PubType, GateType, BusType, SubType,
        NoTicket, NoSub
  <2>3. Skips'
    BY <1>12 DEF SendOK, Go, Skips
  <2>4. TicketOrder'
    BY <1>12
    DEF SendOK, Go, TicketOrder, Holds, PubType, GateType, BusType, SubType,
        NoTicket, NoSub, Tickets, Skips, NoneHeld
  <2>5. Streams'
    <3>1. /\ pc[p] = "select" /\ at[p] = s /\ ~chClosed[s]
          /\ ch' = [ch EXCEPT ![s] = Append(@, evt[p].seq)]
          /\ pc' = [pc EXCEPT ![p] = "leave"]
          /\ UNCHANGED <<got, next, ticket, at, evt>>
      BY <1>12 DEF SendOK, Go, InsideOK, Closing
    <3>2. /\ Holds(p, s) /\ ~Sent(p, s) /\ gate[s].serving = ticket[p][s]
          /\ s \in Subs
      BY <3>1 DEF InsideOK, Holds, Sent
    <3>3. /\ next \in Nat /\ Stream(s) \in Seq(Nat)
          /\ \A q \in Publishers : evt[q].seq \in Nat
      <4>1. next \in Nat
        BY DEF BusType
      <4>2. \A q \in Publishers : evt[q].seq \in Nat
        BY DEF PubType
      <4>3. Stream(s) \in Seq(Nat)
        <5>1. got[s] \in Seq(Nat) /\ ch[s] \in Seq(Nat)
          BY DEF ChanType
        <5> QED BY <5>1, ConcatProperties DEF Stream
      <4> QED BY <4>1, <4>2, <4>3
    <3>4. Stream(s)' = Append(Stream(s), evt[p].seq)
      <4>1. ch'[s] = Append(ch[s], evt[p].seq) /\ got'[s] = got[s]
        BY <3>1 DEF ChanType
      <4>2. ch[s] \in Seq(Nat) /\ got[s] \in Seq(Nat) /\ evt[p].seq \in Nat
        BY <3>3 DEF ChanType
      <4>3. got[s] \o Append(ch[s], evt[p].seq) = Append(got[s] \o ch[s], evt[p].seq)
        BY <4>2, SendStream
      <4> QED BY <4>1, <4>3 DEF Stream
    <3>5. \A u \in Subs \ {s} : Stream(u)' = Stream(u)
      BY <3>1 DEF Stream, ChanType
    <3>6. Ordered(Stream(s)) /\ Below(Stream(s), evt[p].seq)
      BY <3>2 DEF Streams
    <3>7. /\ Ordered(Stream(s)')
          /\ \A m \in Nat : evt[p].seq < m => Below(Stream(s)', m)
      BY <3>3, <3>4, <3>6, AppendOrdered
    <3>8. /\ evt[p].seq < next + 1
          /\ \A q \in Publishers : pc[q] = "reserve" => evt[p].seq < next
      BY <3>2, <3>3 DEF TicketOrder
    <3>9. \A q \in Publishers : q # p /\ Holds(q, s) => evt[p].seq < evt[q].seq
      <4> SUFFICES ASSUME NEW q \in Publishers, q # p, Holds(q, s)
                   PROVE  evt[p].seq < evt[q].seq
        OBVIOUS
      <4>1. ticket[q][s] # ticket[p][s] /\ gate[s].serving <= ticket[q][s]
        BY <3>2 DEF Tickets, TicketOrder, Holds
      <4>2. ticket[p][s] < ticket[q][s]
        <5>1. ticket[q][s] \in Nat /\ ticket[p][s] \in Nat
          BY <3>2 DEF PubType, Holds
        <5> QED BY <4>1, <3>2, <5>1
      <4> QED BY <4>2, <3>2 DEF TicketOrder
    <3>10. \A q \in Publishers : q # p => pc'[q] = pc[q]
      BY <3>1 DEF PubType
    <3>11. pc'[p] = "leave"
      BY <3>1 DEF PubType
    <3> SUFFICES ASSUME NEW u \in Subs
                 PROVE  /\ Ordered(Stream(u)')
                        /\ Below(Stream(u)', next + 1)
                        /\ \A q \in Publishers :
                             /\ pc'[q] = "reserve" => Below(Stream(u)', next)
                             /\ Holds(q, u)' /\ ~Sent(q, u)' => Below(Stream(u)', evt[q].seq)
      BY <3>1 DEF Streams
    <3>12. CASE u = s
      <4>1. ASSUME NEW q \in Publishers, Holds(q, u)', ~Sent(q, u)'
            PROVE  Below(Stream(u)', evt[q].seq)
        <5>1. q # p
          BY <4>1, <3>1, <3>11, <3>12 DEF Sent
        <5>2. Holds(q, s)
          BY <4>1, <3>1, <3>12 DEF Holds
        <5> QED BY <5>1, <5>2, <3>3, <3>7, <3>9, <3>12
      <4>2. ASSUME NEW q \in Publishers, pc'[q] = "reserve"
           PROVE Below(Stream(u)', next)
        <5>1. pc[q] = "reserve"
          BY <4>2, <3>10, <3>11
        <5> QED BY <5>1, <3>3, <3>7, <3>8, <3>12
      <4> QED BY <4>1, <4>2, <3>3, <3>7, <3>8, <3>12
    <3>13. CASE u # s
      <4>1. Stream(u)' = Stream(u)
        BY <3>5, <3>13
      <4>2. ASSUME NEW q \in Publishers, Holds(q, u)', ~Sent(q, u)'
            PROVE  Holds(q, u) /\ ~Sent(q, u)
        BY <4>2, <3>1, <3>10, <3>13 DEF Holds, Sent
      <4>3. ASSUME NEW q \in Publishers, pc'[q] = "reserve"
           PROVE pc[q] = "reserve"
        BY <4>3, <3>10, <3>11
      <4> QED BY <4>1, <4>2, <4>3 DEF Streams
    <3> QED BY <3>12, <3>13
  <2> QED BY <2>1, <2>2, <2>3, <2>4, <2>5
<1>13. ASSUME NEW p \in Publishers, NEW s \in Subs, SendDropped(p, s)
     PROVE OrderInv'
  <2>1. Stamping'
    BY <1>13
    DEF SendDropped, Go, Drop, Stamping, PubType, GateType, BusType, SubType,
        NoTicket, NoSub
  <2>2. NoneHeld'
    BY <1>13
    DEF SendDropped, Go, Drop, NoneHeld, Holds, PubType, GateType, BusType,
        SubType, NoTicket, NoSub
  <2>3. Skips'
    BY <1>13 DEF SendDropped, Go, Drop, Skips
  <2>4. TicketOrder'
    BY <1>13
    DEF SendDropped, Go, Drop, TicketOrder, Holds, PubType, GateType, BusType,
        SubType, NoTicket, NoSub, Tickets, Skips, NoneHeld
  <2>5. Streams'
    BY <1>13
    DEF SendDropped, Go, Drop, Streams, Stream, Holds, Sent, PubType, GateType,
        BusType, SubType, NoTicket, NoSub, Stamping, NoneHeld
  <2> QED BY <2>1, <2>2, <2>3, <2>4, <2>5
<1>14. ASSUME NEW p \in Publishers, NEW s \in Subs, SendFailed(p, s)
     PROVE OrderInv'
  <2>1. Stamping'
    BY <1>14
    DEF SendFailed, Go, Stamping, PubType, GateType, BusType, SubType, NoTicket,
        NoSub
  <2>2. NoneHeld'
    BY <1>14
    DEF SendFailed, Go, NoneHeld, Holds, PubType, GateType, BusType, SubType,
        NoTicket, NoSub
  <2>3. Skips'
    BY <1>14 DEF SendFailed, Go, Skips
  <2>4. TicketOrder'
    BY <1>14
    DEF SendFailed, Go, TicketOrder, Holds, PubType, GateType, BusType, SubType,
        NoTicket, NoSub, Tickets, Skips, NoneHeld
  <2>5. Streams'
    BY <1>14
    DEF SendFailed, Go, Streams, Stream, Holds, Sent, PubType, GateType,
        BusType, SubType, NoTicket, NoSub, Stamping, NoneHeld
  <2> QED BY <2>1, <2>2, <2>3, <2>4, <2>5
<1>15. ASSUME NEW p \in Publishers, NEW s \in Subs, Leave(p, s) PROVE OrderInv'
  <2>0. PICK g \in Gates :
          /\ gate' = [gate EXCEPT ![s] = g] /\ g.next = gate[s].next
          /\ \A t \in Nat : /\ t >= gate[s].serving /\ t \notin gate[s].skipped
                            /\ t # ticket[p][s]
                            => t >= g.serving /\ t \notin g.skipped
          /\ g.serving <= g.next /\ \A t \in g.skipped : t < g.next
    <3>1. PICK g \in LeaveGate(gate[s]) : gate' = [gate EXCEPT ![s] = g]
      BY <1>15 DEF Leave
    <3> QED BY <3>1, RetireTurn, <1>15 DEF Leave, IsTarget, Held, Holds,
        InsideOK, PubType
  <2>1. Stamping'
    BY <1>15, <2>0
    DEF Leave, Go, Retire, Stamping, PubType, GateType, BusType, SubType,
        NoTicket, NoSub
  <2>2. NoneHeld'
    BY <1>15, <2>0
    DEF Leave, Go, Retire, NoneHeld, Holds, PubType, GateType, BusType, SubType,
        NoTicket, NoSub
  <2>3. Skips'
    BY <1>15, <2>0
    DEF Leave, Go, Retire, Skips, PubType, GateType, BusType, SubType, NoTicket,
        NoSub
  <2>4. TicketOrder'
    BY <1>15, <2>0
    DEF Leave, Go, Retire, TicketOrder, Holds, PubType, GateType, BusType,
        SubType, NoTicket, NoSub, Tickets, Skips, NoneHeld
  <2>5. Streams'
    BY <1>15, <2>0
    DEF Leave, Go, Retire, Streams, Stream, Holds, Sent, PubType, GateType,
        BusType, SubType, NoTicket, NoSub, Stamping, NoneHeld
  <2> QED BY <2>1, <2>2, <2>3, <2>4, <2>5
<1>16. ASSUME NEW p \in Publishers, NEW s \in Subs, GiveUp(p, s) PROVE OrderInv'
  <2>0. PICK g \in Gates :
          /\ gate' = [gate EXCEPT ![s] = g] /\ g.next = gate[s].next
          /\ \A t \in Nat : /\ t >= gate[s].serving /\ t \notin gate[s].skipped
                            /\ t # ticket[p][s]
                            => t >= g.serving /\ t \notin g.skipped
          /\ g.serving <= g.next /\ \A t \in g.skipped : t < g.next
    <3>1. PICK g \in Abandon(gate[s], ticket[p][s]) : gate' = [gate EXCEPT ![s] = g]
      BY <1>16 DEF GiveUp
    <3> QED BY <3>1, RetireTurn, <1>16, ZenonT(30) DEF GiveUp, IsTarget, Held, Holds
  <2>1. Stamping'
    BY <1>16 DEF GiveUp, Retire, IsTarget, Held, Stamping
  <2>2. NoneHeld'
    BY <1>16, <2>0
    DEF GiveUp, Retire, IsTarget, Held, NoneHeld, Holds, PubType, GateType,
        BusType, SubType, NoTicket, NoSub
  <2>3. Skips'
    BY <1>16, <2>0
    DEF GiveUp, Retire, IsTarget, Held, Skips, PubType, GateType, BusType,
        SubType, NoTicket, NoSub
  <2>4. TicketOrder'
    BY <1>16, <2>0
    DEF GiveUp, Retire, IsTarget, Held, TicketOrder, Holds, PubType, GateType,
        BusType, SubType, NoTicket, NoSub, Tickets, Skips, NoneHeld
  <2>5. Streams'
    BY <1>16, <2>0
    DEF GiveUp, Retire, IsTarget, Held, Streams, Stream, Holds, Sent, PubType,
        GateType, BusType, SubType, NoTicket, NoSub, Stamping, NoneHeld
  <2> QED BY <2>1, <2>2, <2>3, <2>4, <2>5
<1>17. ASSUME NEW pats \in PatternSets, Subscribe(pats) PROVE OrderInv'
  BY <1>17
  DEF Subscribe, Stamping, NoneHeld, Skips, TicketOrder, Streams, Stream, Holds,
      Sent
<1>18. ASSUME NEW s \in Subs, UnsubRemove(s) PROVE OrderInv'
  BY <1>18
  DEF UnsubRemove, Stamping, NoneHeld, Skips, TicketOrder, Streams, Stream,
      Holds, Sent
<1>19. ASSUME NEW s \in Subs, UnsubDone(s) PROVE OrderInv'
  BY <1>19
  DEF UnsubDone, Stamping, NoneHeld, Skips, TicketOrder, Streams, Stream, Holds,
      Sent
<1>20. ASSUME NEW s \in Subs, UnsubShut(s) PROVE OrderInv'
  <2>1. Stamping'
    BY <1>20 DEF UnsubShut, UnsubGo, Stamping
  <2>2. NoneHeld'
    BY <1>20 DEF UnsubShut, UnsubGo, NoneHeld, Holds
  <2>3. Skips'
    BY <1>20
    DEF UnsubShut, UnsubGo, Skips, PubType, GateType, BusType, SubType,
        NoTicket, NoSub, ShutGate, Gates
  <2>4. TicketOrder'
    <3>1. \A u \in Subs : /\ gate'[u].serving = gate[u].serving
                           /\ gate'[u].skipped = gate[u].skipped
      BY <1>20 DEF UnsubShut, ShutGate, GateType, Gates
    <3>2. UNCHANGED <<ticket, evt, next>> /\ \A q \in Publishers : pc'[q] =
                     "reserve" => pc[q] = "reserve"
      BY <1>20 DEF UnsubShut, Go, UnsubGo, PubType
    <3> QED BY <3>1, <3>2 DEF TicketOrder, Holds
  <2>5. Streams'
    BY <1>20 DEF UnsubShut, UnsubGo, Streams, Stream, Holds, Sent
  <2> QED BY <2>1, <2>2, <2>3, <2>4, <2>5
<1>21. ASSUME NEW s \in Subs, UnsubClose(s) PROVE OrderInv'
  BY <1>21
  DEF UnsubClose, Stamping, NoneHeld, Skips, TicketOrder, Streams, Stream,
      Holds, Sent
<1>22. ASSUME NEW s \in Subs, Receive(s) PROVE OrderInv'
  <2>1. Stamping'
    BY <1>22 DEF Receive, Stamping
  <2>2. NoneHeld'
    BY <1>22 DEF Receive, NoneHeld, Holds
  <2>3. Skips'
    BY <1>22 DEF Receive, Skips
  <2>4. TicketOrder'
    BY <1>22 DEF Receive, TicketOrder, Holds
  <2>5. Streams'
    <3>1. \A u \in Subs : Stream(u)' = Stream(u)
      <4> TAKE u \in Subs
      <4>1. CASE u = s
        <5>1. /\ got'[u] = Append(got[u], Head(ch[u])) /\ ch'[u] = Tail(ch[u])
              /\ ch[u] # <<>> /\ got[u] \in Seq(Nat) /\ ch[u] \in Seq(Nat)
          BY <1>22, <4>1 DEF Receive, ChanType
        <5> QED BY <5>1, ReceiveStream DEF Stream
      <4>2. CASE u # s
        BY <1>22, <4>2 DEF Receive, ChanType, Stream
      <4> QED BY <4>1, <4>2
    <3>2. UNCHANGED <<next, pc, ticket, at, evt>>
      BY <1>22 DEF Receive
    <3> QED BY <3>1, <3>2 DEF Streams, Holds, Sent
  <2> QED BY <2>1, <2>2, <2>3, <2>4, <2>5
<1>23. ASSUME NEW s \in Subs, CloseShut(s) PROVE OrderInv'
  <2>1. Stamping'
    BY <1>23 DEF CloseShut, Stamping
  <2>2. NoneHeld'
    BY <1>23 DEF CloseShut, NoneHeld, Holds
  <2>3. Skips'
    BY <1>23
    DEF CloseShut, Skips, PubType, GateType, BusType, SubType, NoTicket, NoSub,
        ShutGate, Gates
  <2>4. TicketOrder'
    <3>1. \A u \in Subs : /\ gate'[u].serving = gate[u].serving
                           /\ gate'[u].skipped = gate[u].skipped
      BY <1>23 DEF CloseShut, ShutGate, GateType, Gates
    <3>2. UNCHANGED <<ticket, evt, next>> /\ \A q \in Publishers : pc'[q] =
                     "reserve" => pc[q] = "reserve"
      BY <1>23 DEF CloseShut, Go, UnsubGo, PubType
    <3> QED BY <3>1, <3>2 DEF TicketOrder, Holds
  <2>5. Streams'
    BY <1>23 DEF CloseShut, Streams, Stream, Holds, Sent
  <2> QED BY <2>1, <2>2, <2>3, <2>4, <2>5
<1>24. ASSUME NEW s \in Subs, CloseQuiesce(s) PROVE OrderInv'
  BY <1>24
  DEF CloseQuiesce, Stamping, NoneHeld, Skips, TicketOrder, Streams, Stream,
      Holds, Sent
<1>25. ASSUME CloseSwap PROVE OrderInv'
  BY <1>25
  DEF CloseSwap, Stamping, NoneHeld, Skips, TicketOrder, Streams, Stream, Holds,
      Sent
<1>26. ASSUME CloseSignal PROVE OrderInv'
  BY <1>26
  DEF CloseSignal, Stamping, NoneHeld, Skips, TicketOrder, Streams, Stream,
      Holds, Sent
<1>27. ASSUME CloseTake PROVE OrderInv'
  BY <1>27
  DEF CloseTake, Stamping, NoneHeld, Skips, TicketOrder, Streams, Stream, Holds,
      Sent
<1>28. ASSUME CloseLog PROVE OrderInv'
  BY <1>28
  DEF CloseLog, Stamping, NoneHeld, Skips, TicketOrder, Streams, Stream, Holds,
      Sent
<1>29. CASE UNCHANGED vars
  BY <1>29
  DEF Stamping, NoneHeld, Skips, TicketOrder, Streams, Stream, Holds, Sent
<1> QED
  BY <1>1, <1>2, <1>3, <1>4, <1>5, <1>6, <1>7, <1>8, <1>9, <1>10, <1>11, <1>12,
      <1>13, <1>14, <1>15, <1>16, <1>17, <1>18, <1>19, <1>20, <1>21, <1>22,
      <1>23, <1>24, <1>25, <1>26, <1>27, <1>28, <1>29
  DEF Next, Environment, PublishStep, UnsubStep, CloseStep

\* Per-subscriber FIFO: every subscriber receives envelopes in Seq order.
THEOREM FIFO == Spec => []SeqOrder
<1>1. Init => OrderInv
  BY InitOrder
<1>2. OrderInv /\ [Next]_vars => OrderInv'
  BY NextOrder
<1>3. OrderInv => SeqOrder
  BY DEF OrderInv, Streams, SeqOrder, Ordered
<1> QED BY <1>1, <1>2, <1>3, PTL DEF Spec

-----------------------------------------------------------------------------
(***************************************************************************)
(* Durability before visibility: what a subscriber can see is in the log,  *)
(* and the log is not written after Close has closed it.                   *)
(*                                                                         *)
(* Carried:  an envelope past the append is in the log.                    *)
(* LogShut:  the log is closed by the last step of Close, and by then the  *)
(*           bus is closed (Closing), so stamp turns everybody away.       *)
(***************************************************************************)

Carried ==
  \A p \in Publishers : pc[p] \notin {"idle", "stamp"} => evt[p].seq \in log

LogShut == logClosed => closer.pc = "done"

LogInv == IInv /\ Carried /\ LogShut /\ DurableBeforeVisible

\* A stream that does not change stays durable, since the log only grows.
LEMMA SameStreams ==
  ASSUME DurableBeforeVisible, log \subseteq log',
         \A s \in Subs : Stream(s)' = Stream(s)
  PROVE  DurableBeforeVisible'
BY DEF DurableBeforeVisible

LEMMA InitLog == Init => LogInv
<1> SUFFICES ASSUME Init PROVE LogInv
  OBVIOUS
<1>1. IInv
  BY InitIInv
<1>2. \A s \in Subs : Len(Stream(s)) = 0
  BY DEF Init, Stream
<1>3. Carried /\ LogShut
  BY DEF Init, Carried, LogShut
<1> QED BY <1>1, <1>2, <1>3 DEF LogInv, DurableBeforeVisible

\* The steps of a publisher that has left the log behind and sends nothing.
Quietly(p) ==
  \/ ReserveTickets(p) \/ Complete(p) \/ ReturnErr(p) \/ StampClosed(p)
  \/ \E s \in Subs :
       \/ Enter(p, s) \/ EnterShut(p, s) \/ TryMiss(p, s) \/ TryRetire(p, s)
       \/ SendDropped(p, s) \/ SendFailed(p, s) \/ Leave(p, s) \/ GiveUp(p, s)

\* The steps that concern neither a publisher nor what is in a channel.
Elsewhere ==
  \/ \E pats \in PatternSets : Subscribe(pats)
  \/ \E s \in Subs : UnsubRemove(s) \/ UnsubStep(s)
  \/ CloseSwap \/ CloseStep

LEMMA NextLog == LogInv /\ [Next]_vars => LogInv'
<1> SUFFICES ASSUME LogInv, [Next]_vars PROVE LogInv'
  OBVIOUS
<1>0. IInv'
  BY NextIInv DEF LogInv
<1> USE BusAssumption, <1>0 DEF LogInv, IInv, TypeOK, vars, busVars, worldVars,
    subVars, chanVars, pubVars, countVars, endVars
<1>1. ASSUME NEW p \in Publishers, NEW t \in Topics, Call(p, t) PROVE LogInv'
  <2>1. Carried'
    BY <1>1 DEF Call, Go, Carried, PubType
  <2>2. LogShut' /\ DurableBeforeVisible'
    BY <1>1, SameStreams DEF Call, LogShut, Stream
  <2> QED BY <2>1, <2>2
<1>2. ASSUME NEW p \in Publishers, CancelCtx(p) PROVE LogInv'
  BY <1>2, SameStreams DEF CancelCtx, Carried, LogShut, Stream
<1>3. ASSUME NEW p \in Publishers, Stamp(p) PROVE LogInv'
  <2>1. log \subseteq log' /\ UNCHANGED <<ch, got, logClosed, closer>>
    BY <1>3 DEF Stamp, Appended, AppendFailed
  <2>2. Carried'
    BY <1>3
    DEF Stamp, Appended, Go, AppendFailed, Return, Carried, PubType, BusType
  <2>3. LogShut' /\ DurableBeforeVisible'
    BY <2>1, SameStreams DEF LogShut, Stream
  <2> QED BY <2>2, <2>3
<1>4. ASSUME NEW p \in Publishers, Quietly(p) PROVE LogInv'
  <2>1. UNCHANGED <<log, logClosed, closer, ch, got>>
    BY <1>4
    DEF Quietly, ReserveTickets, Complete, ReturnErr, StampClosed, Enter,
        EnterShut, TryMiss, TryRetire, SendDropped, SendFailed, Leave, GiveUp
  <2>2. /\ \A q \in Publishers : q # p => evt'[q] = evt[q] /\ pc'[q] = pc[q]
        /\ \/ pc'[p] = "idle"
           \/ evt'[p] = evt[p] /\ pc[p] \notin {"idle", "stamp"}
    BY <1>4
    DEF Quietly, ReserveTickets, Complete, ReturnErr, StampClosed, Enter,
        EnterShut, TryMiss, TryRetire, SendDropped, SendFailed, Leave, GiveUp,
        Go, Return, PubType
  <2>3. Carried'
    BY <2>1, <2>2 DEF Carried
  <2>4. LogShut' /\ DurableBeforeVisible'
    BY <2>1, SameStreams DEF LogShut, Stream
  <2> QED BY <2>3, <2>4
<1>5. ASSUME NEW p \in Publishers, NEW s \in Subs, SendOK(p, s) PROVE LogInv'
  <2>1. /\ UNCHANGED <<log, logClosed, closer, got, evt>>
        /\ pc[p] = "select" /\ pc'[p] = "leave"
        /\ \A q \in Publishers : q # p => pc'[q] = pc[q]
    BY <1>5 DEF SendOK, Go, PubType
  <2>2. Carried' /\ LogShut'
    BY <2>1 DEF Carried, LogShut
  <2>3. evt[p].seq \in log /\ evt[p].seq \in Nat
    BY <2>1 DEF Carried, PubType
  <2>4. CASE ch' = ch
    BY <2>1, <2>2, <2>4, SameStreams DEF Stream
  <2>5. CASE ch' = [ch EXCEPT ![s] = Append(@, evt[p].seq)]
    <3>1. \A u \in Subs : ch[u] \in Seq(Nat) /\ got[u] \in Seq(Nat)
      BY DEF ChanType
    <3>2. \A u \in Subs : u # s => Stream(u)' = Stream(u)
      BY <2>1, <2>5 DEF Stream, ChanType
    <3>3. Stream(s)' = Append(Stream(s), evt[p].seq)
      <4>1. ch'[s] = Append(ch[s], evt[p].seq) /\ got'[s] = got[s]
        BY <2>1, <2>5 DEF ChanType
      <4>2. got[s] \o Append(ch[s], evt[p].seq) = Append(got[s] \o ch[s], evt[p].seq)
        BY <2>3, <3>1, SendStream
      <4> QED BY <4>1, <4>2, Zenon DEF Stream
    <3>4. Stream(s) \in Seq(Nat)
      BY <3>1 DEF Stream
    <3>5. \A i \in 1 .. Len(Stream(s)') : Stream(s)'[i] \in log
      BY <2>3, <3>3, <3>4 DEF DurableBeforeVisible
    <3> QED BY <2>1, <2>2, <3>2, <3>5 DEF DurableBeforeVisible
  <2> QED BY <1>5, <2>4, <2>5 DEF SendOK
<1>6. ASSUME NEW s \in Subs, Receive(s) PROVE LogInv'
  <2>1. Carried' /\ LogShut'
    BY <1>6 DEF Receive, Carried, LogShut
  <2>2. \A u \in Subs : Stream(u)' = Stream(u)
    <3> TAKE u \in Subs
    <3>1. ch[u] \in Seq(Nat) /\ got[u] \in Seq(Nat)
      BY DEF ChanType
    <3>2. CASE u = s
      BY <1>6, <3>1, <3>2, ReceiveStream DEF Receive, Stream, ChanType
    <3>3. CASE u # s
      BY <1>6, <3>3 DEF Receive, Stream, ChanType
    <3> QED BY <3>2, <3>3
  <2>3. DurableBeforeVisible'
    BY <1>6, <2>2, SameStreams DEF Receive
  <2> QED BY <2>1, <2>3
<1>7. ASSUME Elsewhere PROVE LogInv'
  <2>1. UNCHANGED <<log, ch, got, pc, evt>>
    BY <1>7
    DEF Elsewhere, Subscribe, UnsubRemove, UnsubStep, UnsubDone, UnsubShut,
        UnsubClose, CloseSwap, CloseStep, CloseSignal, CloseTake, CloseShut,
        CloseQuiesce, CloseLog
  <2>2. LogShut'
    <3>1. CASE CloseLog
      BY <3>1 DEF CloseLog, LogShut, EndType
    <3>2. CASE ~CloseLog
      BY <1>7, <3>2
      DEF Elsewhere, Subscribe, UnsubRemove, UnsubGo, UnsubStep, UnsubDone,
          UnsubShut, UnsubClose, CloseSwap, CloseStep, CloseSignal, CloseTake,
          CloseShut, CloseQuiesce, LogShut, Closing, EndType
    <3> QED BY <3>1, <3>2
  <2> QED BY <2>1, <2>2, SameStreams DEF Carried, Stream
<1>8. CASE UNCHANGED vars
  BY <1>8, SameStreams DEF Carried, LogShut, Stream
<1> QED
  BY <1>1, <1>2, <1>3, <1>4, <1>5, <1>6, <1>7, <1>8
  DEF Next, Environment, PublishStep, Quietly, Elsewhere

\* Durability before visibility: a subscriber is shown nothing that a replay of
\* the log would not show (stamp appends before anything is reserved).
THEOREM Durable == Spec => []DurableBeforeVisible
<1>1. LogInv => DurableBeforeVisible
  BY DEF LogInv
<1> QED BY <1>1, InitLog, NextLog, PTL DEF Spec

\* The log is not written once Close has closed it (the second look at
\* Bus.closed, under fanoutMu).
THEOREM ClosedLogStays == Spec => NoAppendAfterClose
<1>1. LogInv /\ [Next]_vars => [logClosed => log' = log]_vars
  <2> SUFFICES ASSUME LogInv, Next, logClosed PROVE log' = log
    BY DEF vars
  <2>1. closed
    BY DEF LogInv, LogShut, IInv, Closing
  <2>2. \A p \in Publishers : ~Stamp(p)
    BY <2>1 DEF Stamp, StillOpen
  <2> USE DEF vars, busVars, worldVars, subVars, chanVars, pubVars, countVars, endVars
  <2>3. ASSUME NEW p \in Publishers, PublishStep(p) PROVE log' = log
    BY <2>2, <2>3
    DEF PublishStep, ReserveTickets, Complete, ReturnErr, StampClosed, Enter,
        EnterShut, TryMiss, TryRetire, SendOK, SendDropped, SendFailed, Leave,
        GiveUp
  <2>4. ASSUME NEW s \in Subs, UnsubStep(s) \/ Receive(s) PROVE log' = log
    BY <2>4 DEF UnsubStep, UnsubDone, UnsubShut, UnsubClose, Receive
  <2>5. CASE CloseStep
    BY <2>5
    DEF CloseStep, CloseSignal, CloseTake, CloseShut, CloseQuiesce, CloseLog
  <2>6. CASE Environment
    BY <2>6
    DEF Environment, CancelCtx, Call, Subscribe, UnsubRemove, CloseSwap
  <2> QED BY <2>3, <2>4, <2>5, <2>6 DEF Next
<1> QED BY <1>1, InitLog, NextLog, PTL DEF Spec, NoAppendAfterClose

-----------------------------------------------------------------------------
\* No ticket is stranded: the turn of an open gate always belongs to a publisher
\* that still has that ticket, so nobody waits for a turn that never comes.

\* The gate's waiting tickets, those in H apart, have been abandoned.
Covered(g, H) ==
  /\ g.serving \notin g.skipped
  /\ \A t \in g.serving .. (g.next - 1) : t \in g.skipped \/ t \in H

HeldAt(s) == {ticket[p][s] : p \in Publishers}

TicketInv == OrderInv /\ NoStrandedTicket

LEMMA CoveredOpenGates ==
  NoStrandedTicket <=>
    \A s \in Subs : ~gate[s].closed => Covered(gate[s], HeldAt(s))
BY DEF NoStrandedTicket, Covered, HeldAt

LEMMA MoreHeld ==
  ASSUME NEW g, NEW H, NEW G, Covered(g, H), H \subseteq G
  PROVE  Covered(g, G)
BY DEF Covered

\* advanceLocked stops at the first ticket that was not abandoned.
LEMMA AdvanceCovered ==
  ASSUME NEW g \in Gates, NEW H, Covered(g, H), NEW h \in Advance(g)
  PROVE  Covered(h, H \ {g.serving})
<1>1. PICK t \in NextTurns(g) :
        h = [g EXCEPT !.serving = t, !.skipped = @ \ (g.serving .. t)]
  BY DEF Advance
<1>2. t \in Nat /\ t > g.serving /\ t \notin g.skipped
  BY DEF NextTurns, Gates
<1>3. h.serving = t /\ h.next = g.next /\ h.skipped = g.skipped \ (g.serving .. t)
  BY <1>1 DEF Gates
<1> QED BY <1>2, <1>3 DEF Covered, Gates

\* abandon: the ticket given up is either passed over at once or marked.
LEMMA AbandonCovered ==
  ASSUME NEW g \in Gates, NEW H, Covered(g, H), NEW t \in Nat,
         NEW h \in Abandon(g, t)
  PROVE  Covered(h, H \ {t})
<1>1. CASE g.serving = t
  BY <1>1, AdvanceCovered DEF Abandon
<1>2. CASE g.serving # t
  BY <1>2 DEF Abandon, Covered, Gates
<1> QED BY <1>1, <1>2

LEMMA LeaveCovered ==
  ASSUME NEW g \in Gates, NEW H, Covered(g, H), NEW h \in LeaveGate(g)
  PROVE  Covered(h, H \ {g.serving})
<1> DEFINE k == [g EXCEPT !.sending = FALSE]
<1>1. k \in Gates /\ k.serving = g.serving /\ Covered(k, H)
  BY DEF Gates, Covered
<1>2. h \in Advance(k)
  BY DEF LeaveGate
<1> QED BY <1>1, <1>2, AdvanceCovered

\* Whatever retires one ticket of one publisher leaves the others where they
\* are.
LEMMA RetireHeld ==
  ASSUME TypeOK, NEW p \in Publishers, NEW s \in Subs, Retire(p, s)
  PROVE  /\ HeldAt(s) \ {ticket[p][s]} \subseteq HeldAt(s)'
         /\ \A u \in Subs : u # s => HeldAt(u)' = HeldAt(u)
<1>1. \A q \in Publishers, u \in Subs :
        q # p \/ u # s => ticket'[q][u] = ticket[q][u]
  BY DEF Retire, TypeOK, PubType
<1> QED BY <1>1 DEF HeldAt

\* A step that retires a ticket at s and leaves that gate covered without it.
LEMMA RetireStep ==
  ASSUME TicketInv, NEW p \in Publishers, NEW s \in Subs, Retire(p, s),
         \A u \in Subs : u # s => gate'[u] = gate[u],
         ~gate[s].closed =>
           Covered(gate'[s], HeldAt(s) \ {ticket[p][s]}),
         gate'[s].closed = gate[s].closed
  PROVE  NoStrandedTicket'
<1>1. TypeOK
  BY DEF TicketInv, OrderInv, IInv
<1>2. \A u \in Subs : ~gate[u].closed => Covered(gate[u], HeldAt(u))
  BY CoveredOpenGates DEF TicketInv
<1>3. ASSUME NEW u \in Subs, ~gate'[u].closed
      PROVE  Covered(gate'[u], HeldAt(u)')
  <2>1. CASE u = s
    BY <1>1, <1>3, <2>1, RetireHeld, MoreHeld
  <2>2. CASE u # s
    BY <1>1, <1>2, <1>3, <2>2, RetireHeld
  <2> QED BY <2>1, <2>2
<1>4. \A u \in Subs : ~gate'[u].closed => Covered(gate'[u], HeldAt(u)')
  BY <1>3
<1> QED BY <1>4 DEF NoStrandedTicket, Covered, HeldAt

\* A step that touches no ticket and, at the gates it leaves open, no counter.
LEMMA IdleStep ==
  ASSUME TicketInv, ticket' = ticket,
         \A u \in Subs : ~gate'[u].closed =>
           /\ ~gate[u].closed
           /\ gate'[u].serving = gate[u].serving
           /\ gate'[u].next = gate[u].next
           /\ gate'[u].skipped = gate[u].skipped
  PROVE  NoStrandedTicket'
BY DEF TicketInv, NoStrandedTicket

\* The steps of a publisher that neither hand out nor use up a ticket.
Waiting(p) ==
  \/ StampClosed(p) \/ Stamp(p) \/ Complete(p) \/ ReturnErr(p)
  \/ \E s \in Subs : \/ Enter(p, s) \/ TryMiss(p, s)
                     \/ SendOK(p, s) \/ SendDropped(p, s) \/ SendFailed(p, s)

LEMMA NextTicket == TicketInv /\ [Next]_vars => TicketInv'
<1> SUFFICES ASSUME TicketInv, [Next]_vars PROVE TicketInv'
  OBVIOUS
<1>0. OrderInv'
  BY NextOrder DEF TicketInv
<1>a. TypeOK /\ \A s \in Subs : gate[s] \in Gates
  BY DEF TicketInv, OrderInv, IInv, TypeOK, GateType
<1>b. \A s \in Subs : ~gate[s].closed => Covered(gate[s], HeldAt(s))
  BY CoveredOpenGates DEF TicketInv
<1> USE <1>0, <1>a
<1>1. ASSUME NEW p \in Publishers, ReserveTickets(p) PROVE NoStrandedTicket'
  <2>1. /\ \A s \in Subs : ticket[p][s] = NoTicket
        /\ \A s \in Subs : /\ gate[s].serving <= gate[s].next
                           /\ gate[s].next \notin gate[s].skipped
    BY <1>1
    DEF ReserveTickets, TicketInv, OrderInv, NoneHeld, Holds, Skips, Gates
  <2>2. \A q \in Publishers, s \in Subs : q # p => ticket'[q][s] = ticket[q][s]
    BY <1>1 DEF ReserveTickets, TypeOK, PubType
  <2>3. ASSUME NEW s \in Subs, ~gate'[s].closed PROVE Covered(gate'[s], HeldAt(s)')
    <3>1. CASE s \notin Targets(p)
      <4>1. gate'[s] = gate[s]
        BY <1>1, <3>1 DEF ReserveTickets
      <4>2. Covered(gate[s], HeldAt(s))
        BY <1>b, <2>3, <4>1
      <4>3. \A t \in Nat : t \in HeldAt(s) => t \in HeldAt(s)'
        BY <2>1, <2>2 DEF HeldAt, NoTicket
      <4> QED BY <4>1, <4>2, <4>3 DEF Covered, Gates
    <3>2. CASE s \in Targets(p)
      <4>1. gate'[s] = Reserve(gate[s]) /\ ticket'[p][s] = gate[s].next
        BY <1>1, <3>2 DEF ReserveTickets, TypeOK, PubType
      <4>2. /\ gate'[s].serving = gate[s].serving
            /\ gate'[s].next = gate[s].next + 1
            /\ gate'[s].skipped = gate[s].skipped
            /\ ~gate[s].closed
        BY <2>3, <4>1 DEF Reserve, Gates
      <4>3. Covered(gate[s], HeldAt(s))
        BY <1>b, <4>2
      <4>4. \A t \in Nat : t \in HeldAt(s) => t \in HeldAt(s)'
        BY <2>1, <2>2 DEF HeldAt, NoTicket
      <4>5. gate[s].next \in HeldAt(s)'
        BY <4>1 DEF HeldAt
      <4> QED BY <2>1, <4>2, <4>3, <4>4, <4>5 DEF Covered, Gates
    <3> QED BY <3>1, <3>2
  <2> QED BY <2>3 DEF NoStrandedTicket, Covered, HeldAt
<1>2. ASSUME NEW p \in Publishers, NEW s \in Subs, TryRetire(p, s) \/ GiveUp(p, s)
      PROVE  NoStrandedTicket'
  <2>1. PICK g \in Abandon(gate[s], ticket[p][s]) :
          gate' = [gate EXCEPT ![s] = g]
    BY <1>2 DEF TryRetire, GiveUp
  <2>2. Retire(p, s) /\ ticket[p][s] \in Nat
    BY <1>2 DEF TryRetire, GiveUp, IsTarget, Held, TypeOK, PubType
  <2>3. gate'[s] = g /\ g.closed = gate[s].closed
    BY <2>1, <2>2, AbandonLemma DEF TypeOK, GateType
  <2>4. \A u \in Subs : u # s => gate'[u] = gate[u]
    BY <2>1 DEF TypeOK, GateType
  <2>5. ~gate[s].closed => Covered(gate'[s], HeldAt(s) \ {ticket[p][s]})
    BY <1>b, <2>1, <2>2, <2>3, AbandonCovered
  <2> QED BY <2>2, <2>3, <2>4, <2>5, RetireStep
<1>3. ASSUME NEW p \in Publishers, NEW s \in Subs, Leave(p, s)
      PROVE  NoStrandedTicket'
  <2>1. PICK g \in LeaveGate(gate[s]) : gate' = [gate EXCEPT ![s] = g]
    BY <1>3 DEF Leave
  <2>2. Retire(p, s) /\ ticket[p][s] = gate[s].serving
    BY <1>3 DEF Leave, TicketInv, OrderInv, IInv, InsideOK
  <2>3. gate'[s] = g /\ g.closed = gate[s].closed
    BY <2>1, LeaveLemma DEF TypeOK, GateType
  <2>4. \A u \in Subs : u # s => gate'[u] = gate[u]
    BY <2>1 DEF TypeOK, GateType
  <2>5. ~gate[s].closed => Covered(gate'[s], HeldAt(s) \ {ticket[p][s]})
    BY <1>b, <2>1, <2>2, <2>3, LeaveCovered
  <2> QED BY <2>2, <2>3, <2>4, <2>5, RetireStep
<1>4. ASSUME NEW p \in Publishers, NEW s \in Subs, EnterShut(p, s)
      PROVE  NoStrandedTicket'
  <2>1. Retire(p, s) /\ gate[s].closed /\ gate' = gate
    BY <1>4 DEF EnterShut
  <2> QED BY <2>1, RetireStep
<1>5. ASSUME NEW p \in Publishers, Waiting(p) PROVE NoStrandedTicket'
  <2>1. ticket' = ticket
    BY <1>5
    DEF Waiting, StampClosed, Stamp, Complete, ReturnErr, Enter, TryMiss, SendOK,
        SendDropped, SendFailed
  <2>2. gate' = gate \/ \E s \in Subs : gate' = [gate EXCEPT ![s] = EnterGate(@)]
    BY <1>5
    DEF Waiting, StampClosed, Stamp, Complete, ReturnErr, Enter, TryMiss, SendOK,
        SendDropped, SendFailed, worldVars
  <2> QED BY <2>1, <2>2, IdleStep DEF TypeOK, GateType, Gates, EnterGate
<1>6. ASSUME NEW s \in Subs, UnsubStep(s) \/ CloseShut(s) PROVE NoStrandedTicket'
  <2>1. ticket' = ticket
    BY <1>6 DEF UnsubStep, UnsubDone, UnsubShut, UnsubClose, CloseShut, pubVars
  <2>2. gate' = gate \/ gate' = [gate EXCEPT ![s] = ShutGate(@)]
    BY <1>6 DEF UnsubStep, UnsubDone, UnsubShut, UnsubClose, CloseShut
  <2> QED BY <2>1, <2>2, IdleStep DEF TypeOK, GateType, Gates, ShutGate
<1>7. ASSUME NEW s \in Subs, Receive(s) \/ CloseQuiesce(s) PROVE NoStrandedTicket'
  <2>1. ticket' = ticket /\ gate' = gate
    BY <1>7 DEF Receive, CloseQuiesce, pubVars
  <2> QED BY <2>1, IdleStep
<1>8. ASSUME Environment \/ CloseSignal \/ CloseTake \/ CloseLog
      PROVE  NoStrandedTicket'
  <2>1. ticket' = ticket /\ gate' = gate
    BY <1>8
    DEF Environment, CancelCtx, Call, Subscribe, UnsubRemove, CloseSwap,
        CloseSignal, CloseTake, CloseLog, pubVars
  <2> QED BY <2>1, IdleStep
<1>9. ASSUME UNCHANGED vars PROVE NoStrandedTicket'
  BY <1>9, IdleStep DEF vars, pubVars
<1>10. NoStrandedTicket'
  BY <1>1, <1>2, <1>3, <1>4, <1>5, <1>6, <1>7, <1>8, <1>9
  DEF Next, PublishStep, CloseStep, Waiting
<1> QED BY <1>10 DEF TicketInv

\* While a gate is open every ticket from the one being served on is abandoned
\* or still in the hands of a publisher (reserve, leave and abandon together).
THEOREM NoTicketStranded == Spec => []NoStrandedTicket
<1>1. Init => TicketInv
  BY InitOrder DEF Init, TicketInv, NoStrandedTicket, NewGate
<1> QED BY <1>1, NextTicket, PTL DEF Spec, TicketInv

-----------------------------------------------------------------------------
\* No delivery vanishes: handing out a ticket adds a delivery to what is owed,
\* and a delivery leaves what is owed only for the stream or for a counter.

CountInv ==
  /\ OrderInv
  /\ IsFiniteSet(TicketsOut) /\ IsFiniteSet(Made) /\ IsFiniteSet(Owed)
  /\ NothingSilent

LEMMA InNumbered ==
  ASSUME NEW n, NEW d
  PROVE  d \in Numbered(n) <=> \E s \in Subs : \E i \in 1 .. n[s] : d = <<s, i>>
BY DEF Numbered

\* One more number for each subscription of a finite set.
LEMMA NumberedMore ==
  ASSUME NEW n \in [Subs -> Nat], NEW m \in [Subs -> Nat], NEW T \in SUBSET Subs,
         IsFiniteSet(T), IsFiniteSet(Numbered(n)),
         \A s \in Subs : m[s] = IF s \in T THEN n[s] + 1 ELSE n[s]
  PROVE  /\ IsFiniteSet(Numbered(m))
         /\ Cardinality(Numbered(m)) = Cardinality(Numbered(n)) + Cardinality(T)
<1> DEFINE f == [s \in T |-> <<s, n[s] + 1>>]
           R == {<<s, n[s] + 1>> : s \in T}
<1>1. f \in Bijection(T, R)
  BY DEF Bijection, Injection, Surjection, IsInjective
<1>2. IsFiniteSet(R) /\ Cardinality(R) = Cardinality(T)
  BY <1>1, FS_Bijection DEF ExistsBijection
<1>3. Numbered(m) = Numbered(n) \cup R
  <2>1. ASSUME NEW s \in Subs, NEW i \in 1 .. m[s]
        PROVE  <<s, i>> \in Numbered(n) \cup R
    <3>1. CASE i \in 1 .. n[s]
      BY <3>1, InNumbered
    <3>2. CASE i \notin 1 .. n[s]
      <4>1. s \in T /\ i = n[s] + 1
        BY <3>2
      <4> QED BY <4>1
    <3> QED BY <3>1, <3>2
  <2>2. ASSUME NEW s \in Subs, NEW i \in 1 .. n[s] PROVE <<s, i>> \in Numbered(m)
    <3>1. i \in 1 .. m[s]
      OBVIOUS
    <3> QED BY <3>1, InNumbered
  <2>3. ASSUME NEW s \in T PROVE <<s, n[s] + 1>> \in Numbered(m)
    <3>1. s \in Subs /\ n[s] + 1 \in 1 .. m[s]
      OBVIOUS
    <3> QED BY <3>1, InNumbered
  <2>4. \A d \in Numbered(m) : d \in Numbered(n) \cup R
    <3> HIDE DEF R
    <3> QED BY <2>1, InNumbered
  <2>5. \A d \in Numbered(n) \cup R : d \in Numbered(m)
    BY <2>2, <2>3, InNumbered
  <2> QED BY <2>4, <2>5
<1>4. Numbered(n) \cap R = {}
  <2> SUFFICES ASSUME NEW s \in T, <<s, n[s] + 1>> \in Numbered(n) PROVE FALSE
    OBVIOUS
  <2>1. PICK u \in Subs : \E i \in 1 .. n[u] : <<s, n[s] + 1>> = <<u, i>>
    BY InNumbered
  <2>2. u = s /\ n[s] + 1 \in 1 .. n[s]
    BY <2>1
  <2> QED BY <2>2
<1> HIDE DEF f, R
<1>5. /\ IsFiniteSet(Numbered(n) \cup R)
      /\ Cardinality(Numbered(n) \cup R) =
           Cardinality(Numbered(n)) + Cardinality(R) - Cardinality({})
  BY <1>2, <1>4, FS_Union
<1>6. Cardinality(Numbered(n)) \in Nat /\ Cardinality(R) \in Nat
  BY <1>2, FS_CardinalityType
<1>7. Cardinality({}) = 0
  BY FS_EmptySet
<1> QED BY <1>2, <1>3, <1>5, <1>6, <1>7

\* One more number for one subscription.
LEMMA NumberedOne ==
  ASSUME NEW n \in [Subs -> Nat], NEW m \in [Subs -> Nat], NEW s \in Subs,
         IsFiniteSet(Numbered(n)), m[s] = n[s] + 1,
         \A u \in Subs : u # s => m[u] = n[u]
  PROVE  /\ IsFiniteSet(Numbered(m))
         /\ Cardinality(Numbered(m)) = Cardinality(Numbered(n)) + 1
<1>1. IsFiniteSet({s}) /\ Cardinality({s}) = 1 /\ {s} \in SUBSET Subs
  BY FS_Singleton
<1>2. \A u \in Subs : m[u] = IF u \in {s} THEN n[u] + 1 ELSE n[u]
  OBVIOUS
<1>3. /\ IsFiniteSet(Numbered(m))
      /\ Cardinality(Numbered(m)) = Cardinality(Numbered(n)) + Cardinality({s})
  BY <1>1, <1>2, NumberedMore
<1> QED BY <1>1, <1>3

LEMMA SameTickets ==
  ASSUME \A s \in Subs : gate'[s].next = gate[s].next
  PROVE  TicketsOut' = TicketsOut
<1>1. [s \in Subs |-> gate[s].next]' = [s \in Subs |-> gate[s].next]
  OBVIOUS
<1> QED BY <1>1 DEF TicketsOut, Numbered

LEMMA SameMade ==
  ASSUME \A s \in Subs : Stream(s)' = Stream(s)
  PROVE  Made' = Made
<1>1. [s \in Subs |-> Len(Stream(s))]' = [s \in Subs |-> Len(Stream(s))]
  OBVIOUS
<1> QED BY <1>1 DEF Made, Numbered

LEMMA SameOwed ==
  ASSUME \A q \in Publishers, u \in Subs : Owes(q, u)' <=> Owes(q, u)
  PROVE  Owed' = Owed
BY DEF Owed

\* A delivery p owed to s is owed no more.
LEMMA LessOwed ==
  ASSUME NEW p \in Publishers, NEW s \in Subs, Owes(p, s), IsFiniteSet(Owed),
         \A q \in Publishers, u \in Subs :
           Owes(q, u)' <=> Owes(q, u) /\ ~(q = p /\ u = s)
  PROVE  /\ IsFiniteSet(Owed') /\ Cardinality(Owed') \in Nat
         /\ Cardinality(Owed) = Cardinality(Owed') + 1
<1>1. <<p, s>> \in Owed
  BY DEF Owed
<1>2. Owed' = Owed \ {<<p, s>>}
  <2>1. \A d \in Publishers \X Subs : d = <<p, s>> <=> d[1] = p /\ d[2] = s
    OBVIOUS
  <2>2. \A d \in Publishers \X Subs :
          Owes(d[1], d[2])' <=> Owes(d[1], d[2]) /\ ~(d[1] = p /\ d[2] = s)
    OBVIOUS
  <2> QED BY <2>1, <2>2 DEF Owed
<1>3. /\ IsFiniteSet(Owed \ {<<p, s>>})
      /\ Cardinality(Owed \ {<<p, s>>}) = Cardinality(Owed) - 1
  BY <1>1, FS_RemoveElement
<1>4. Cardinality(Owed) \in Nat /\ Cardinality(Owed \ {<<p, s>>}) \in Nat
  BY <1>3, FS_CardinalityType
<1> QED BY <1>2, <1>3, <1>4

\* The steps that neither hand out a ticket nor settle a delivery.
Settled(p) ==
  \/ StampClosed(p) \/ Stamp(p) \/ Complete(p) \/ ReturnErr(p) \/ CancelCtx(p)
  \/ \E t \in Topics : Call(p, t)
  \/ \E s \in Subs : Enter(p, s) \/ TryMiss(p, s) \/ Leave(p, s)

\* The steps that settle one delivery without making it.
Counted(p, s) ==
  \/ EnterShut(p, s) \/ TryRetire(p, s) \/ GiveUp(p, s)
  \/ SendDropped(p, s) \/ SendFailed(p, s)

\* The steps of nobody's fan-out.
Apart ==
  \/ CloseSwap \/ CloseSignal \/ CloseTake \/ CloseLog
  \/ \E pats \in PatternSets : Subscribe(pats)
  \/ \E s \in Subs : \/ UnsubRemove(s) \/ UnsubStep(s) \/ Receive(s)
                     \/ CloseShut(s) \/ CloseQuiesce(s)

LEMMA CountTypes ==
  ASSUME CountInv
  PROVE  /\ TypeOK
         /\ Cardinality(TicketsOut) \in Nat /\ Cardinality(Made) \in Nat
         /\ Cardinality(Owed) \in Nat
         /\ stats \in [published: Nat, dropped: Nat] /\ lost \in Nat
         /\ \A s \in Subs : gate[s].next \in Nat /\ Stream(s) \in Seq(Nat)
<1>1. TypeOK
  BY DEF CountInv, OrderInv, IInv
<1>2. \A s \in Subs : gate[s].next \in Nat
  BY <1>1 DEF TypeOK, GateType, Gates
<1>3. \A s \in Subs : Stream(s) \in Seq(Nat)
  BY <1>1 DEF TypeOK, ChanType, Stream
<1>4. stats \in [published: Nat, dropped: Nat] /\ lost \in Nat
  BY <1>1 DEF TypeOK, CountType
<1>5. /\ Cardinality(TicketsOut) \in Nat /\ Cardinality(Made) \in Nat
      /\ Cardinality(Owed) \in Nat
  BY FS_CardinalityType DEF CountInv
<1> QED BY <1>1, <1>2, <1>3, <1>4, <1>5

\* A step that changes none of the terms of the sum.
LEMMA SameSum ==
  ASSUME CountInv, OrderInv',
         \A s \in Subs : gate'[s].next = gate[s].next,
         \A s \in Subs : Stream(s)' = Stream(s),
         \A q \in Publishers, u \in Subs : Owes(q, u)' <=> Owes(q, u),
         stats'.dropped = stats.dropped, lost' = lost
  PROVE  CountInv'
<1>1. TicketsOut' = TicketsOut
  BY SameTickets
<1>2. Made' = Made
  BY SameMade
<1>3. Owed' = Owed
  BY SameOwed
<1> QED BY <1>1, <1>2, <1>3 DEF CountInv, NothingSilent

\* A step that moves one delivery from what is owed to a counter.
LEMMA CountedSum ==
  ASSUME CountInv, OrderInv', NEW p \in Publishers, NEW s \in Subs, Owes(p, s),
         \A u \in Subs : gate'[u].next = gate[u].next,
         \A u \in Subs : Stream(u)' = Stream(u),
         \A q \in Publishers, u \in Subs :
           Owes(q, u)' <=> Owes(q, u) /\ ~(q = p /\ u = s),
         stats'.dropped \in Nat, lost' \in Nat,
         stats'.dropped + lost' = stats.dropped + lost + 1
  PROVE  CountInv'
<1>1. TicketsOut' = TicketsOut
  BY SameTickets
<1>2. Made' = Made
  BY SameMade
<1>3. IsFiniteSet(Owed)
  BY DEF CountInv
<1>4. /\ IsFiniteSet(Owed') /\ Cardinality(Owed') \in Nat
      /\ Cardinality(Owed) = Cardinality(Owed') + 1
  BY <1>3, LessOwed
<1>5. NothingSilent'
  <2>1. Cardinality(TicketsOut)
          = Cardinality(Made) + Cardinality(Owed) + stats.dropped + lost
    BY DEF CountInv, NothingSilent
  <2>2. /\ Cardinality(Made) \in Nat /\ Cardinality(Owed) \in Nat
        /\ stats.dropped \in Nat /\ lost \in Nat
    BY CountTypes
  <2>3. Cardinality(TicketsOut)
          = Cardinality(Made) + Cardinality(Owed') + stats'.dropped + lost'
    BY <1>4, <2>1, <2>2
  <2> QED BY <1>1, <1>2, <2>3 DEF NothingSilent
<1> QED BY <1>1, <1>2, <1>4, <1>5 DEF CountInv

\* A step that moves one delivery from what is owed to the stream of s.
LEMMA MadeSum ==
  ASSUME CountInv, OrderInv', NEW p \in Publishers, NEW s \in Subs, Owes(p, s),
         \A u \in Subs : gate'[u].next = gate[u].next,
         Len(Stream(s)') = Len(Stream(s)) + 1,
         \A u \in Subs : u # s => Stream(u)' = Stream(u),
         \A q \in Publishers, u \in Subs :
           Owes(q, u)' <=> Owes(q, u) /\ ~(q = p /\ u = s),
         stats' = stats, lost' = lost
  PROVE  CountInv'
<1> DEFINE n == [u \in Subs |-> Len(Stream(u))]
           m == [u \in Subs |-> Len(Stream(u)')]
<1>1. TicketsOut' = TicketsOut
  BY SameTickets
<1>2. IsFiniteSet(Made') /\ Cardinality(Made') = Cardinality(Made) + 1
  <2>1. \A u \in Subs : Stream(u) \in Seq(Nat) /\ Len(Stream(u)) \in Nat
    BY CountTypes
  <2>2. n \in [Subs -> Nat]
    BY <2>1
  <2>3. m[s] = n[s] + 1 /\ \A u \in Subs : u # s => m[u] = n[u]
    OBVIOUS
  <2>4. m \in [Subs -> Nat]
    BY <2>1, <2>3
  <2>5. Made = Numbered(n) /\ Made' = Numbered(m) /\ IsFiniteSet(Numbered(n))
    BY DEF Made, Numbered, CountInv
  <2> HIDE DEF n, m
  <2> QED BY <2>2, <2>3, <2>4, <2>5, NumberedOne
<1>3. IsFiniteSet(Owed)
  BY DEF CountInv
<1>4. /\ IsFiniteSet(Owed') /\ Cardinality(Owed') \in Nat
      /\ Cardinality(Owed) = Cardinality(Owed') + 1
  BY <1>3, LessOwed
<1>5. NothingSilent'
  <2>1. Cardinality(TicketsOut)
          = Cardinality(Made) + Cardinality(Owed) + stats.dropped + lost
    BY DEF CountInv, NothingSilent
  <2>2. /\ Cardinality(Made) \in Nat /\ Cardinality(Owed) \in Nat
        /\ stats.dropped \in Nat /\ lost \in Nat
    BY CountTypes
  <2>3. Cardinality(TicketsOut)
          = Cardinality(Made') + Cardinality(Owed') + stats.dropped + lost
    BY <1>2, <1>4, <2>1, <2>2
  <2> QED BY <1>1, <2>3 DEF NothingSilent
<1> QED BY <1>1, <1>2, <1>4, <1>5 DEF CountInv

\* The reservation: as many tickets as deliveries owed.
LEMMA ReserveSum ==
  ASSUME CountInv, OrderInv', NEW p \in Publishers, NEW T \in SUBSET Subs,
         \A u \in Subs : gate'[u].next = IF u \in T THEN gate[u].next + 1
                                                    ELSE gate[u].next,
         \A u \in Subs : Stream(u)' = Stream(u),
         \A q \in Publishers, u \in Subs :
           Owes(q, u)' <=> Owes(q, u) \/ (q = p /\ u \in T),
         \A u \in Subs : ~Owes(p, u),
         stats' = stats, lost' = lost
  PROVE  CountInv'
<1> DEFINE n == [u \in Subs |-> gate[u].next]
           m == [u \in Subs |-> gate'[u].next]
           D == {<<p, u>> : u \in T}
<1>1. IsFiniteSet(T) /\ Cardinality(T) \in Nat
  <2>1. IsFiniteSet(Subs)
    BY BusAssumption, FS_Interval DEF Subs
  <2> QED BY <2>1, FS_Subset, FS_CardinalityType
<1>2. /\ IsFiniteSet(TicketsOut')
      /\ Cardinality(TicketsOut') = Cardinality(TicketsOut) + Cardinality(T)
  <2>1. \A u \in Subs : gate[u].next \in Nat
    BY CountTypes
  <2>2. n \in [Subs -> Nat]
    BY <2>1
  <2>3. \A u \in Subs : m[u] = IF u \in T THEN n[u] + 1 ELSE n[u]
    OBVIOUS
  <2>4. m \in [Subs -> Nat]
    BY <2>1
  <2>5. /\ TicketsOut = Numbered(n) /\ TicketsOut' = Numbered(m)
        /\ IsFiniteSet(Numbered(n))
    BY DEF TicketsOut, Numbered, CountInv
  <2> HIDE DEF n, m
  <2> QED BY <1>1, <2>2, <2>3, <2>4, <2>5, NumberedMore
<1>3. Made' = Made
  BY SameMade
<1>4. IsFiniteSet(D) /\ Cardinality(D) = Cardinality(T)
  <2>1. [u \in T |-> <<p, u>>] \in Bijection(T, D)
    BY DEF Bijection, Injection, Surjection, IsInjective
  <2> QED BY <1>1, <2>1, FS_Bijection DEF ExistsBijection
<1>5. Owed' = Owed \cup D
  <2>1. ASSUME NEW d \in Publishers \X Subs
        PROVE  d \in D <=> d[1] = p /\ d[2] \in T
    <3>1. d = <<d[1], d[2]>>
      OBVIOUS
    <3> QED BY <3>1
  <2>2. \A d \in Publishers \X Subs :
          Owes(d[1], d[2])' <=> Owes(d[1], d[2]) \/ (d[1] = p /\ d[2] \in T)
    OBVIOUS
  <2>3. D \subseteq Publishers \X Subs
    OBVIOUS
  <2> HIDE DEF D
  <2> QED BY <2>1, <2>2, <2>3 DEF Owed
<1>6. Owed \cap D = {}
  BY DEF Owed
<1> HIDE DEF D
<1>7. /\ IsFiniteSet(Owed \cup D)
      /\ Cardinality(Owed \cup D) = Cardinality(Owed) + Cardinality(T)
  <2>1. IsFiniteSet(Owed)
    BY DEF CountInv
  <2>2. Cardinality(Owed) \in Nat
    BY <2>1, FS_CardinalityType
  <2>3. /\ IsFiniteSet(Owed \cup D)
        /\ Cardinality(Owed \cup D)
             = Cardinality(Owed) + Cardinality(D) - Cardinality({})
    BY <1>4, <1>6, <2>1, FS_Union
  <2>4. Cardinality({}) = 0
    BY FS_EmptySet
  <2> QED BY <1>1, <1>4, <2>2, <2>3, <2>4
<1>8. NothingSilent'
  <2>1. Cardinality(TicketsOut)
          = Cardinality(Made) + Cardinality(Owed) + stats.dropped + lost
    BY DEF CountInv, NothingSilent
  <2>2. /\ Cardinality(Made) \in Nat /\ Cardinality(Owed) \in Nat
        /\ stats.dropped \in Nat /\ lost \in Nat
    BY CountTypes
  <2>3. Cardinality(TicketsOut')
          = Cardinality(Made) + Cardinality(Owed') + stats.dropped + lost
    BY <1>1, <1>2, <1>5, <1>7, <2>1, <2>2
  <2> QED BY <1>3, <2>3 DEF NothingSilent
<1> QED BY <1>2, <1>3, <1>5, <1>7, <1>8 DEF CountInv

LEMMA SettledStep ==
  ASSUME CountInv, OrderInv', NEW p \in Publishers, Settled(p)
  PROVE  CountInv'
<1>1. TypeOK /\ InsideOK
  BY DEF CountInv, OrderInv, IInv
<1>2. UNCHANGED <<ch, got>> /\ stats'.dropped = stats.dropped /\ lost' = lost
  <2> USE DEF worldVars, busVars, subVars, chanVars, countVars
  <2>1. CASE Complete(p)
    BY <1>1, <2>1 DEF Complete, TypeOK, CountType
  <2>2. CASE ~Complete(p)
    BY <2>2
    DEF Settled, StampClosed, Stamp, ReturnErr, CancelCtx, Call, Enter, TryMiss, Leave
  <2> QED BY <2>1, <2>2
<1>3. \A s \in Subs : Stream(s)' = Stream(s)
  BY <1>2 DEF Stream
<1>4. \A s \in Subs : gate'[s].next = gate[s].next
  <2>1. CASE \E s \in Subs : Leave(p, s)
    <3>1. PICK s \in Subs : Leave(p, s)
      BY <2>1
    <3>2. PICK g \in LeaveGate(gate[s]) : gate' = [gate EXCEPT ![s] = g]
      BY <3>1 DEF Leave
    <3>3. g.next = gate[s].next
      BY <1>1, <3>2, LeaveLemma DEF TypeOK, GateType
    <3> QED BY <1>1, <3>2, <3>3 DEF TypeOK, GateType
  <2>2. CASE \E s \in Subs : Enter(p, s)
    BY <1>1, <2>2 DEF Enter, EnterGate, TypeOK, GateType, Gates
  <2>3. CASE gate' = gate
    BY <2>3
  <2> QED
    BY <2>1, <2>2, <2>3
    DEF Settled, StampClosed, Stamp, Complete, ReturnErr, CancelCtx, Call, TryMiss
<1>5. \A q \in Publishers, u \in Subs : Owes(q, u)' <=> Owes(q, u)
  <2>1. ASSUME NEW s \in Subs, Leave(p, s), NEW q \in Publishers, NEW u \in Subs
        PROVE  Owes(q, u)' <=> Owes(q, u)
    BY <1>1, <2>1 DEF Leave, Retire, Go, Owes, TypeOK, PubType, NoSub, Subs
  <2>2. ASSUME NEW s \in Subs, Enter(p, s), NEW q \in Publishers, NEW u \in Subs
        PROVE  Owes(q, u)' <=> Owes(q, u)
    BY <1>1, <2>2 DEF Enter, Go, Owes, TypeOK, PubType
  <2>3. CASE ~ \E s \in Subs : Leave(p, s) \/ Enter(p, s)
    <3>1. UNCHANGED <<ticket, at>>
      BY <2>3
      DEF Settled, StampClosed, Stamp, Complete, ReturnErr, CancelCtx, Call, TryMiss
    <3>2. \A q \in Publishers : pc'[q] = "leave" <=> pc[q] = "leave"
      BY <1>1, <2>3
      DEF Settled, StampClosed, Stamp, Appended, AppendFailed, Complete, ReturnErr,
          Return, CancelCtx, Call, TryMiss, Go, TypeOK, PubType
    <3> QED BY <3>1, <3>2 DEF Owes
  <2> QED BY <2>1, <2>2, <2>3
<1> QED BY <1>2, <1>3, <1>4, <1>5, SameSum

LEMMA CountedStep ==
  ASSUME CountInv, OrderInv', NEW p \in Publishers, NEW s \in Subs, Counted(p, s)
  PROVE  CountInv'
<1>1. TypeOK /\ InsideOK
  BY DEF CountInv, OrderInv, IInv
<1>2. UNCHANGED <<ch, got>>
  BY DEF Counted, EnterShut, TryRetire, GiveUp, SendDropped, SendFailed, worldVars,
         chanVars
<1>3. \A u \in Subs : Stream(u)' = Stream(u)
  BY <1>2 DEF Stream
<1>4. \A u \in Subs : gate'[u].next = gate[u].next
  <2>1. CASE TryRetire(p, s) \/ GiveUp(p, s)
    <3>1. PICK g \in Abandon(gate[s], ticket[p][s]) : gate' = [gate EXCEPT ![s] = g]
      BY <2>1 DEF TryRetire, GiveUp
    <3>2. ticket[p][s] \in Nat
      BY <1>1, <2>1 DEF TryRetire, GiveUp, IsTarget, Held, TypeOK, PubType
    <3>3. g.next = gate[s].next
      BY <1>1, <3>1, <3>2, AbandonLemma DEF TypeOK, GateType
    <3> QED BY <1>1, <3>1, <3>3 DEF TypeOK, GateType
  <2>2. CASE gate' = gate
    BY <2>2
  <2> QED
    BY <2>1, <2>2 DEF Counted, EnterShut, SendDropped, SendFailed
<1>5. /\ Owes(p, s)
      /\ \A q \in Publishers, u \in Subs :
           Owes(q, u)' <=> Owes(q, u) /\ ~(q = p /\ u = s)
  <2>1. CASE EnterShut(p, s) \/ TryRetire(p, s) \/ GiveUp(p, s)
    <3>1. /\ Retire(p, s) /\ at' = at /\ ticket[p][s] # NoTicket
          /\ pc[p] # "leave" /\ pc'[p] # "leave"
          /\ \A q \in Publishers : q # p => pc'[q] = pc[q]
      BY <1>1, <2>1
      DEF EnterShut, TryRetire, GiveUp, IsTarget, Held, Go, TypeOK, PubType
    <3>2. \A q \in Publishers, u \in Subs :
            ticket'[q][u] = IF q = p /\ u = s THEN NoTicket ELSE ticket[q][u]
      BY <1>1, <3>1 DEF Retire, TypeOK, PubType
    <3> QED BY <3>1, <3>2 DEF Owes
  <2>2. CASE SendDropped(p, s) \/ SendFailed(p, s)
    <3>1. /\ UNCHANGED <<ticket, at>> /\ pc[p] = "select" /\ at[p] = s
          /\ pc' = [pc EXCEPT ![p] = "leave"]
      BY <2>2 DEF SendDropped, SendFailed, Go
    <3>2. ticket[p][s] # NoTicket
      BY <1>1, <3>1 DEF InsideOK, TypeOK, PubType, GateType, Gates, NoTicket
    <3> QED BY <1>1, <3>1, <3>2 DEF Owes, TypeOK, PubType
  <2> QED BY <2>1, <2>2 DEF Counted
<1>6. /\ stats'.dropped \in Nat /\ lost' \in Nat
      /\ stats'.dropped + lost' = stats.dropped + lost + 1
  <2>1. stats.dropped \in Nat /\ lost \in Nat
    BY <1>1 DEF TypeOK, CountType
  <2>2. \/ stats' = stats /\ lost' = lost + 1
        \/ stats' = [stats EXCEPT !.dropped = @ + 1] /\ lost' = lost
    BY DEF Counted, EnterShut, TryRetire, GiveUp, SendDropped, SendFailed, Drop
  <2>3. \/ stats'.dropped = stats.dropped /\ lost' = lost + 1
        \/ stats'.dropped = stats.dropped + 1 /\ lost' = lost
    BY <1>1, <2>2 DEF TypeOK, CountType
  <2> QED BY <2>1, <2>3
<1> QED BY <1>3, <1>4, <1>5, <1>6, CountedSum

LEMMA SentStep ==
  ASSUME CountInv, OrderInv', NEW p \in Publishers, NEW s \in Subs, SendOK(p, s)
  PROVE  CountInv'
<1>1. TypeOK /\ InsideOK /\ Closing
  BY DEF CountInv, OrderInv, IInv
<1>2. /\ UNCHANGED <<ticket, at, gate, got, stats, lost>>
      /\ pc[p] = "select" /\ at[p] = s
      /\ pc' = [pc EXCEPT ![p] = "leave"]
  BY DEF SendOK, Go, countVars
<1>3. ticket[p][s] # NoTicket /\ ~chClosed[s]
  BY <1>1, <1>2 DEF InsideOK, Closing
<1>4. ch' = [ch EXCEPT ![s] = Append(@, evt[p].seq)]
  BY <1>3 DEF SendOK
<1>5. evt[p].seq \in Nat /\ ch \in [Subs -> Seq(Nat)] /\ got \in [Subs -> Seq(Nat)]
  BY <1>1 DEF TypeOK, PubType, ChanType
<1>6. Len(Stream(s)') = Len(Stream(s)) + 1
  BY <1>2, <1>4, <1>5 DEF Stream
<1>7. \A u \in Subs : u # s => Stream(u)' = Stream(u)
  BY <1>2, <1>4, <1>5 DEF Stream
<1>8. /\ Owes(p, s)
      /\ \A q \in Publishers, u \in Subs :
           Owes(q, u)' <=> Owes(q, u) /\ ~(q = p /\ u = s)
  BY <1>1, <1>2, <1>3 DEF Owes, TypeOK, PubType
<1> QED BY <1>2, <1>6, <1>7, <1>8, MadeSum

LEMMA ReserveStep ==
  ASSUME CountInv, OrderInv', NEW p \in Publishers, ReserveTickets(p)
  PROVE  CountInv'
<1>1. TypeOK /\ NoneHeld
  BY DEF CountInv, OrderInv, IInv
<1>2. Targets(p) \in SUBSET Subs
  <2>1. nsubs \in 0 .. MaxSubs /\ subs \subseteq 1 .. nsubs
    BY <1>1 DEF TypeOK, SubType
  <2>2. \A s \in subs : s \in Subs
    BY <2>1, BusAssumption DEF Subs
  <2> QED BY <2>2 DEF Targets
<1>3. UNCHANGED <<ch, got, at, stats, lost>> /\ pc[p] = "reserve"
      /\ pc' = [pc EXCEPT ![p] = "fan"]
  BY DEF ReserveTickets, chanVars, countVars, Go
<1>4. \A u \in Subs : Stream(u)' = Stream(u)
  BY <1>3 DEF Stream
<1>5. \A u \in Subs : gate'[u].next = IF u \in Targets(p) THEN gate[u].next + 1
                                                          ELSE gate[u].next
  BY <1>1 DEF ReserveTickets, Reserve, TypeOK, GateType, Gates
<1>6. \A u \in Subs : ~Owes(p, u)
  BY <1>1, <1>3 DEF NoneHeld, Holds, Owes
<1>7. \A q \in Publishers, u \in Subs :
        Owes(q, u)' <=> Owes(q, u) \/ (q = p /\ u \in Targets(p))
  <2>1. ASSUME NEW u \in Subs PROVE Owes(p, u)' <=> u \in Targets(p)
    <3>1. gate[u].next \in Nat
      BY <1>1 DEF TypeOK, GateType, Gates
    <3>2. ticket'[p][u] = IF u \in Targets(p) THEN gate[u].next ELSE NoTicket
      BY <1>1 DEF ReserveTickets, TypeOK, PubType
    <3>3. pc'[p] # "leave"
      BY <1>1, <1>3 DEF TypeOK, PubType
    <3> QED BY <3>1, <3>2, <3>3 DEF Owes, NoTicket
  <2>2. ASSUME NEW q \in Publishers, q # p, NEW u \in Subs
        PROVE  Owes(q, u)' <=> Owes(q, u)
    BY <1>1, <1>3, <2>2 DEF ReserveTickets, Owes, TypeOK, PubType
  <2> QED BY <1>6, <2>1, <2>2
<1> QED BY <1>2, <1>3, <1>4, <1>5, <1>6, <1>7, ReserveSum

LEMMA ApartStep ==
  ASSUME CountInv, OrderInv', Apart
  PROVE  CountInv'
<1>1. TypeOK
  BY DEF CountInv, OrderInv, IInv
<1>2. UNCHANGED <<pc, ticket, at, stats, lost>>
  BY DEF Apart, UnsubStep, CloseSwap, CloseSignal, CloseTake, CloseLog, Subscribe,
         UnsubRemove, UnsubDone, UnsubShut, UnsubClose, Receive, CloseShut,
         CloseQuiesce, pubVars, countVars
<1>3. \A q \in Publishers, u \in Subs : Owes(q, u)' <=> Owes(q, u)
  BY <1>2 DEF Owes
<1>4. \A u \in Subs : gate'[u].next = gate[u].next
  <2>1. gate' = gate \/ \E s \in Subs : gate' = [gate EXCEPT ![s] = ShutGate(@)]
    BY DEF Apart, UnsubStep, CloseSwap, CloseSignal, CloseTake, CloseLog, Subscribe,
           UnsubRemove, UnsubDone, UnsubShut, UnsubClose, Receive, CloseShut,
           CloseQuiesce
  <2> QED BY <1>1, <2>1 DEF ShutGate, TypeOK, GateType, Gates
<1>5. \A u \in Subs : Stream(u)' = Stream(u)
  <2>1. CASE \E s \in Subs : Receive(s)
    <3>1. PICK s \in Subs : Receive(s)
      BY <2>1
    <3>2. got \in [Subs -> Seq(Nat)] /\ ch \in [Subs -> Seq(Nat)]
      BY <1>1 DEF TypeOK, ChanType
    <3>3. /\ ch[s] # <<>>
          /\ got' = [got EXCEPT ![s] = Append(@, Head(ch[s]))]
          /\ ch' = [ch EXCEPT ![s] = Tail(@)]
      BY <3>1 DEF Receive
    <3>4. Append(got[s], Head(ch[s])) \o Tail(ch[s]) = got[s] \o ch[s]
      BY <3>2, <3>3, ReceiveStream
    <3>5. \A u \in Subs : u # s => got'[u] = got[u] /\ ch'[u] = ch[u]
      BY <3>2, <3>3
    <3>6. got'[s] = Append(got[s], Head(ch[s])) /\ ch'[s] = Tail(ch[s])
      BY <3>2, <3>3
    <3> QED BY <3>4, <3>5, <3>6 DEF Stream
  <2>2. CASE UNCHANGED <<ch, got>>
    BY <2>2 DEF Stream
  <2> QED
    BY <2>1, <2>2
    DEF Apart, UnsubStep, CloseSwap, CloseSignal, CloseTake, CloseLog, Subscribe,
        UnsubRemove, UnsubDone, UnsubShut, UnsubClose, CloseShut, CloseQuiesce,
        chanVars
<1> QED BY <1>2, <1>3, <1>4, <1>5, SameSum

LEMMA InitCount == Init => CountInv
<1> SUFFICES ASSUME Init PROVE CountInv
  OBVIOUS
<1>1. OrderInv
  BY InitOrder
<1>2. TicketsOut = {}
  BY DEF Init, TicketsOut, Numbered, NewGate
<1>3. Made = {}
  <2>1. \A s \in Subs : Len(Stream(s)) = 0
    BY DEF Init, Stream
  <2> QED BY <2>1 DEF Made, Numbered
<1>4. Owed = {}
  BY DEF Init, Owed, Owes
<1>5. stats.dropped = 0 /\ lost = 0
  BY DEF Init
<1> QED BY <1>1, <1>2, <1>3, <1>4, <1>5, FS_EmptySet DEF CountInv, NothingSilent

LEMMA NextCount == CountInv /\ [Next]_vars => CountInv'
<1> SUFFICES ASSUME CountInv, [Next]_vars PROVE CountInv'
  OBVIOUS
<1>1. OrderInv'
  BY NextOrder DEF CountInv
<1>2. CASE UNCHANGED vars
  <2>1. UNCHANGED <<gate, ch, got, pc, ticket, at, stats, lost>>
    BY <1>2 DEF vars, chanVars, pubVars, countVars
  <2>2. \A s \in Subs : Stream(s)' = Stream(s)
    BY <2>1 DEF Stream
  <2>3. \A q \in Publishers, u \in Subs : Owes(q, u)' <=> Owes(q, u)
    BY <2>1 DEF Owes
  <2> QED BY <1>1, <2>1, <2>2, <2>3, SameSum
<1>3. ASSUME NEW p \in Publishers, Settled(p) PROVE CountInv'
  BY <1>1, <1>3, SettledStep
<1>4. ASSUME NEW p \in Publishers, NEW s \in Subs, Counted(p, s) PROVE CountInv'
  BY <1>1, <1>4, CountedStep
<1>5. ASSUME NEW p \in Publishers, NEW s \in Subs, SendOK(p, s) PROVE CountInv'
  BY <1>1, <1>5, SentStep
<1>6. ASSUME NEW p \in Publishers, ReserveTickets(p) PROVE CountInv'
  BY <1>1, <1>6, ReserveStep
<1>7. ASSUME Apart PROVE CountInv'
  BY <1>1, <1>7, ApartStep
<1> QED
  BY <1>2, <1>3, <1>4, <1>5, <1>6, <1>7
  DEF Next, Environment, PublishStep, CloseStep, Settled, Counted, Apart

\* No delivery vanishes: every ticket handed out ends in the subscriber's stream,
\* in Stats().Dropped or in an error its publisher is given, or is still owed
\* (Publish, TryPublish, subGate.enter and abandon together).
THEOREM NoDeliveryVanishes == Spec => []NothingSilent
<1>1. CountInv => NothingSilent
  BY DEF CountInv
<1> QED BY <1>1, InitCount, NextCount, PTL DEF Spec
=============================================================================
