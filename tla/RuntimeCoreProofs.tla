------------------------- MODULE RuntimeCoreProofs -------------------------
(***************************************************************************)
(* Proofs about RuntimeCore, for every value of its constants.             *)
(*                                                                         *)
(* Four inductive invariants, each the next section's ground:              *)
(*   Typed        the types, with the cap of the retries;                  *)
(*   OwnedInv     a cancel that arrived after the loop has an owner;       *)
(*   ApprovedInv  the approval flag belongs to the call at the head;       *)
(*   EndInv       one ending in the map, on disk and announced.            *)
(* The theorems about approvals and endings are of a user who does not     *)
(* pause, and the latter of one Core and a user who waits for the task to  *)
(* be registered: without these hypotheses the program does otherwise      *)
(* (run staleyes; README, divergences).                                    *)
(***************************************************************************)
EXTENDS RuntimeCore, SequenceTheorems, TLAPS

\* What the edges of the table say about the signals of a user and of errors.
LEMMA EdgeFacts ==
  ASSUME NEW e \in Edges
  PROVE  /\ e.to \in States
         /\ e.to = "WAIT_USER" => e.from = "EXECUTE" /\ e.sig = "needs_approval"
         /\ e.sig = "user_approve" => e.from = "WAIT_USER" /\ e.to = "EXECUTE"
         /\ e.sig = "user_reject" => e.from = "WAIT_USER" /\ e.to = "CANCELLED"
         /\ e.sig = "user_resume" => e.from = "PAUSED" /\ e.to = "LOAD_CONTEXT"
         /\ e.sig = "user_cancel" => e.to = "CANCELLED"
         /\ e.sig = "hard_error" => e.to = "ERROR"
         /\ e.sig = "verify_pass_done" => e.to = "DONE"
         /\ e.to = "PAUSED" <=> e.sig = "user_pause"
BY DEF Edges, Edge, States

\* An edge that is looked up is in the table, for the state or for "*".
LEMMA LookupIsEdge ==
  ASSUME NEW s, NEW sig, NEW t \in Lookup(s, sig)
  PROVE  \E e \in Edges : e.from \in {s, "*"} /\ e.sig = sig /\ e.to = t
BY DEF Lookup, Row

\* The same of a lookup from a state of the machine.
LEMMA LookupFacts ==
  ASSUME NEW s \in States, NEW sig, NEW t \in Lookup(s, sig)
  PROVE  /\ t \in States
         /\ t = "WAIT_USER" => s = "EXECUTE" /\ sig = "needs_approval"
         /\ sig = "user_approve" => s = "WAIT_USER" /\ t = "EXECUTE"
         /\ sig = "user_reject" => s = "WAIT_USER" /\ t = "CANCELLED"
         /\ sig = "user_resume" => s = "PAUSED" /\ t = "LOAD_CONTEXT"
         /\ sig = "user_cancel" => t = "CANCELLED"
         /\ sig = "hard_error" => t = "ERROR"
         /\ sig = "verify_pass_done" => t = "DONE"
         /\ t = "PAUSED" <=> sig = "user_pause"
<1>1. PICK e \in Edges : e.from \in {s, "*"} /\ e.sig = sig /\ e.to = t
  BY LookupIsEdge
<1>2. s # "*"
  BY DEF States
<1> QED BY <1>1, <1>2, EdgeFacts

-----------------------------------------------------------------------------
(* Types of what the actions share. *)

Pcs == {"submit", "attach", "register", "top", "arm", "settle", "returned", "failed"}
CallRecs == [op : {"cancel", "complete", "fail"},
             at : {"check", "mark", "save", "tell"}, bg : BOOLEAN]
Cmds == [kind : Kinds, id : Nat]

\* fire: the state a signal leads to, and the loop goes on; or no edge, and it
\* leaves.
LEMMA FiresFacts ==
  ASSUME fsm \in States, NEW sig, NEW next \in Pcs, Fires(sig, next)
  PROVE  /\ fsm' \in States /\ pc' \in {next, "settle"}
         /\ \/ fsm' = fsm /\ pc' = "settle"
            \/ fsm' \in Lookup(fsm, sig) /\ pc' = next
<1>1. CASE fsm' \in Lookup(fsm, sig) /\ pc' = next
  BY <1>1, LookupFacts
<1>2. CASE fsm' = fsm /\ pc' = "settle"
  BY <1>2
<1> QED BY <1>1, <1>2 DEF Fires

\* landOn: as fire, and the loop does not ask.
LEMMA LandsFacts ==
  ASSUME fsm \in States, NEW sig, Lands(sig)
  PROVE  fsm' \in States /\ (fsm' = fsm \/ fsm' \in Lookup(fsm, sig))
BY LookupFacts DEF Lands

\* Entering the Manager, leaving it and moving inside keep the calls calls.
LEMMA CallFacts ==
  ASSUME NEW p \in Procs, call \in [Procs -> {NoCall} \union CallRecs]
  PROVE  /\ \A op \in {"cancel", "complete", "fail"}, bg \in BOOLEAN :
               Enters(p, op, bg) => call' \in [Procs -> {NoCall} \union CallRecs]
         /\ Leaves(p) => call' \in [Procs -> {NoCall} \union CallRecs]
         /\ \A at \in {"mark", "save", "tell"} :
               call[p] # NoCall /\ GoesTo(p, at) =>
                 call' \in [Procs -> {NoCall} \union CallRecs]
<1>1. ASSUME NEW op \in {"cancel", "complete", "fail"}, NEW bg \in BOOLEAN,
             Enters(p, op, bg)
      PROVE  call' \in [Procs -> {NoCall} \union CallRecs]
  BY <1>1 DEF Enters, CallRecs
<1>2. Leaves(p) => call' \in [Procs -> {NoCall} \union CallRecs]
  BY DEF Leaves
<1>3. ASSUME NEW at \in {"mark", "save", "tell"}, call[p] # NoCall, GoesTo(p, at)
      PROVE  call' \in [Procs -> {NoCall} \union CallRecs]
  <2>1. [call[p] EXCEPT !.at = at] \in CallRecs
    BY <1>3 DEF CallRecs
  <2> QED BY <1>3, <2>1 DEF GoesTo
<1> QED BY <1>1, <1>2, <1>3

\* A turn of the planner is a sequence of calls not planned before.
LEMMA TurnFacts ==
  ASSUME NEW turn \in Turns, planned \subseteq Calls
  PROVE  /\ turn \in Seq(Calls) /\ Range(turn) \subseteq Calls
         /\ turn \in Seq(Range(turn))
<1>1. PICK n \in 0 .. MaxTurn : turn \in [1..n -> Calls \ planned]
  BY DEF Turns, Injection
<1>2. n \in Nat
  BY <1>1, RuntimeAssumption
<1> QED BY <1>1, <1>2 DEF Range

-----------------------------------------------------------------------------
(* Type correctness. *)

\* The retry cap is passed once, on the way out.
RetriesCapped == retries <= MaxVerifyRetries \/ pc \in {"settle", "returned"}

\* A loop between the cascade and the driving check still holds the command.
CascadeHolds == \A l \in routing : mail[l] # <<>> /\ Idle(l)

Typed == TypeOK /\ RetriesCapped /\ CascadeHolds

\* The initial states have their types.
LEMMA InitTyped == Init => Typed
<1> SUFFICES ASSUME Init PROVE Typed
  OBVIOUS
<1> USE RuntimeAssumption DEF Init
<1>1. call \in [Procs -> {NoCall} \union CallRecs]
  OBVIOUS
<1>2. mail \in [Loops -> Seq(Cmds)] /\ events \in Seq(Cmds) /\ Len(events) <= QueueCap
  OBVIOUS
<1>3. pending \in Seq(planned \union {Correction}) /\ prompts \in Seq(planned)
      /\ approvalID \in 0..Len(prompts) /\ told \in Seq(Terminal)
  OBVIOUS
<1>4. retries \in 0..(MaxVerifyRetries + 1) /\ posted \in 0..MaxUser
  OBVIOUS
<1>5. TypeOK
  BY <1>1, <1>2, <1>3, <1>4 DEF TypeOK, CallRecs, Cmds, States, Statuses
<1>6. RetriesCapped /\ CascadeHolds
  BY DEF RetriesCapped, CascadeHolds
<1> QED BY <1>5, <1>6 DEF Typed

\* The steps inside the Manager.
LEMMA SessionTyped ==
  ASSUME Typed, NEW p \in Procs, SessionStep(p) PROVE Typed'
<1> USE DEF Typed, RetriesCapped, CascadeHolds
<1>1. call \in [Procs -> {NoCall} \union CallRecs]
  BY DEF TypeOK, CallRecs
<1>2. call[p] # NoCall
  BY DEF SessionStep, CancelCheck, Mark, Save, Tell, NoCall
<1>3. call[p].op \in DOMAIN Outcome /\ Outcome[call[p].op] \in Terminal
  BY <1>1, <1>2 DEF CallRecs, Outcome, Terminal
<1>4. call' \in [Procs -> {NoCall} \union CallRecs]
  BY <1>1, <1>2, CallFacts DEF SessionStep, CancelCheck, Mark, Save, Tell
<1>5. UNCHANGED <<taskVars, subVars, handle, events, loopVars, histVars>>
  BY DEF SessionStep, CancelCheck, Mark, Save, Tell, sharedVars, taskVars,
     subVars, loopVars, histVars
<1>6. mem' \in Statuses /\ disk' \in Statuses /\ ctx' \in {"live", "dead"}
  BY <1>3 DEF SessionStep, CancelCheck, Mark, Save, Tell, sharedVars, TypeOK,
     Statuses, CancelSignal
<1>7. told' \in Seq(Terminal)
  <2>1. told \in Seq(Terminal)
    BY DEF TypeOK
  <2>2. told' = told \/ told' = Append(told, Outcome[call[p].op])
    BY DEF SessionStep, CancelCheck, Mark, Save, Tell
  <2> QED BY <1>3, <2>1, <2>2
<1>8. \A l \in routing : Idle(l)'
  <2>1. \A l \in routing : l \in Procs /\ l # p
    BY <1>2 DEF Idle, TypeOK, Procs
  <2>2. \A l \in Procs \ {p} : call'[l] = call[l]
    BY <1>1 DEF SessionStep, CancelCheck, Mark, Save, Tell, Leaves, GoesTo
  <2> QED BY <2>1, <2>2 DEF Idle
<1> QED
  BY <1>4, <1>5, <1>6, <1>7, <1>8
  DEF TypeOK, CallRecs, taskVars, subVars, loopVars, histVars

\* The commands in the channel and in the mail are commands.
LEMMA CmdFacts ==
  ASSUME NEW q \in Seq(Cmds), q # <<>>
  PROVE  /\ Head(q) \in Cmds /\ Tail(q) \in Seq(Cmds) /\ Len(Tail(q)) = Len(q) - 1
         /\ Len(q) \in Nat \ {0}
BY HeadTailProperties, EmptySeq

\* The send of an event loop never fills the command channel beyond its cap.
LEMMA SendFacts ==
  ASSUME TypeOK, NEW l, NEW c \in Cmds, SendUserCmd(l, c)
  PROVE  events' \in Seq(Cmds) /\ Len(events') <= QueueCap
<1>1. events \in Seq(Cmds) /\ Len(events) <= QueueCap /\ Len(events) \in Nat
  BY DEF TypeOK, Cmds
<1>2. CASE events' = events
  BY <1>1, <1>2
<1>3. CASE events' = Append(events, c) /\ Len(events) < QueueCap
  <2>1. Len(events') = Len(events) + 1 /\ events' \in Seq(Cmds)
    BY <1>1, <1>3
  <2> QED BY <1>1, <1>3, <2>1, RuntimeAssumption
<1> QED BY <1>2, <1>3 DEF SendUserCmd

\* The steps of the event loops.
LEMMA LoopTyped ==
  ASSUME Typed, NEW l \in Loops, Loop(l) PROVE Typed'
<1> USE DEF Typed
<1>1. mail \in [Loops -> Seq(Cmds)] /\ call \in [Procs -> {NoCall} \union CallRecs]
      /\ l \in Procs /\ routing \subseteq Loops
  BY DEF TypeOK, Cmds, CallRecs, Procs
<1>2. mail[l] # <<>>
  BY DEF Loop, Route, Cascade, Handoff, CascadeHolds
<1>3. Head(mail[l]) \in Cmds /\ Tail(mail[l]) \in Seq(Cmds)
  BY <1>1, <1>2, CmdFacts
<1>4. UNCHANGED <<taskVars, subVars, handle, mem, disk, told, histVars>>
  BY DEF Loop, Route, Cascade, Handoff, recVars
<1>5. events' \in Seq(Cmds) /\ Len(events') <= QueueCap
  <2>1. CASE events' = events
    BY <2>1 DEF TypeOK, Cmds
  <2>2. CASE SendUserCmd(l, Head(mail[l]))
    BY <1>3, <2>2, SendFacts
  <2> QED BY <2>1, <2>2 DEF Loop, Route, Cascade, Handoff
<1>6. mail' \in [Loops -> Seq(Cmds)]
      /\ \A k \in Loops \ {l} : mail'[k] = mail[k]
  BY <1>1, <1>3 DEF Loop, Route, Cascade, Handoff
<1>7. call' \in [Procs -> {NoCall} \union CallRecs]
      /\ \A k \in Loops \ {l} : call'[k] = call[k]
  <2>1. CASE call' = call
    BY <1>1, <2>1
  <2>2. CASE Enters(l, "cancel", TRUE)
    <3>1. call' \in [Procs -> {NoCall} \union CallRecs]
      BY <1>1, <2>2, CallFacts
    <3> QED BY <1>1, <2>2, <3>1 DEF Enters, Procs
  <2> QED BY <2>1, <2>2 DEF Loop, Route, Cascade, Handoff, recVars
<1>8. routing' \subseteq Loops /\ ctx' \in {"live", "dead"}
  BY <1>1 DEF Loop, Route, Cascade, Handoff, CancelSignal, TypeOK
<1>9. CascadeHolds'
  <2>1. CASE Route(l)
    BY <2>1, <1>1, <1>6, <1>7 DEF Route, CascadeHolds, Idle, recVars
  <2>2. CASE Cascade(l)
    BY <2>2, <1>1 DEF Cascade, CascadeHolds, Idle, recVars
  <2>3. CASE Handoff(l)
    BY <2>3, <1>1, <1>6, <1>7 DEF Handoff, CascadeHolds, Idle
  <2> QED BY <2>1, <2>2, <2>3 DEF Loop
<1>10. TypeOK'
  BY <1>4, <1>5, <1>6, <1>7, <1>8
  DEF TypeOK, CallRecs, Cmds, taskVars, subVars, histVars
<1> QED BY <1>4, <1>9, <1>10 DEF RetriesCapped, taskVars, subVars

\* What a user may post is a command.
LEMMA CommandType ==
  ASSUME TypeOK, NEW c \in Commands PROVE c \in Cmds
<1>1. Len(prompts) \in Nat
  BY LenProperties DEF TypeOK
<1>2. CASE c \in [kind : Kinds \intersect {"pause", "resume", "cancel"}, id : {0}]
  BY <1>2 DEF Cmds
<1>3. CASE c \in [kind : Kinds \intersect {"approve", "reject"}, id : 0..Len(prompts)]
  BY <1>1, <1>3 DEF Cmds
<1> QED BY <1>2, <1>3 DEF Commands

\* The user, and the caller of Submit.
LEMMA WorldTyped ==
  ASSUME Typed, Post \/ Quit PROVE Typed'
<1> USE DEF Typed
<1>1. CASE Quit
  BY <1>1 DEF Quit, TypeOK, RetriesCapped, CascadeHolds, Idle, taskVars, subVars,
     loopVars, recVars, histVars
<1>2. CASE Post
  <2>1. PICK c \in Commands :
          /\ mail' = [l \in Loops |-> Append(mail[l], c)]
          /\ yes' = IF c.kind = "approve" THEN yes \union {c.id} ELSE yes
    BY <1>2 DEF Post
  <2>2. UNCHANGED <<taskVars, subVars, sharedVars, routing, recVars, planned, ran>>
    BY <1>2 DEF Post
  <2>3. mail \in [Loops -> Seq(Cmds)] /\ yes \subseteq Nat
    BY DEF TypeOK, Cmds
  <2>4. c \in Cmds
    BY CommandType
  <2>5. \A l \in Loops : Append(mail[l], c) \in Seq(Cmds) /\ Append(mail[l], c) # <<>>
    BY <2>3, <2>4
  <2>6. mail' \in [Loops -> Seq(Cmds)] /\ \A l \in Loops : mail'[l] # <<>>
    BY <2>1, <2>5
  <2>7. yes' \subseteq Nat
    BY <2>1, <2>3, <2>4 DEF Cmds
  <2>8. posted' \in 0..MaxUser
    BY <1>2, RuntimeAssumption DEF Post, TypeOK
  <2>9. TypeOK'
    BY <2>2, <2>6, <2>7, <2>8 DEF TypeOK, Cmds, taskVars, subVars, sharedVars, recVars
  <2>10. CascadeHolds' /\ RetriesCapped'
    BY <2>2, <2>6 DEF CascadeHolds, RetriesCapped, Idle, TypeOK, recVars, taskVars, subVars
  <2> QED BY <2>9, <2>10
<1> QED BY <1>1, <1>2

-----------------------------------------------------------------------------
(* The drive goroutine.  What each of its steps may touch, first. *)

\* What a command does to the loop: it moves the state, takes the approval
\* down, or asks the Manager for a cancel; the plan stays.
LEMMA UserCmdFacts ==
  ASSUME TypeOK, NEW c \in Cmds, ApplyUserCmd(c)
  PROVE  /\ UNCHANGED <<pending, prompts, retries>>
         /\ fsm' \in States /\ approved' \in BOOLEAN /\ approvalID' \in {0, approvalID}
         /\ call' = call \/ Enters(Driver, "cancel", TRUE)
<1>1. CASE UNCHANGED <<taskVars, call>>
  BY <1>1 DEF TypeOK, taskVars
<1>2. CASE ~Dropped(c) /\ ~UNCHANGED <<taskVars, call>>
  <2>1. c.kind \in {"approve", "reject", "pause", "resume", "cancel"}
    BY RuntimeAssumption DEF Cmds
  <2>2. fsm \in States /\ fsm' \in Lookup(fsm, SigOf[c.kind])
    BY <1>2 DEF ApplyUserCmd, TypeOK
  <2>3. fsm' \in States
    BY <2>2, LookupFacts
  <2>4. approved' \in BOOLEAN
    BY <1>2 DEF ApplyUserCmd, TypeOK
  <2> QED BY <1>2, <2>3, <2>4 DEF ApplyUserCmd
<1> QED BY <1>1, <1>2 DEF ApplyUserCmd

\* A step of the loop lands in a state, and calls the Manager for itself only.
LEMMA DriveMoves ==
  ASSUME TypeOK, Drive
  PROVE  /\ fsm' \in States /\ pc' \in Pcs
         /\ \/ call' = call
            \/ \E op \in {"cancel", "complete", "fail"}, bg \in BOOLEAN : Enters(Driver, op, bg)
<1> DEFINE Calling == \/ call' = call
                      \/ \E op \in {"cancel", "complete", "fail"}, bg \in BOOLEAN : Enters(Driver, op, bg)
<1> DEFINE Moved == fsm' \in States /\ pc' \in Pcs /\ Calling
<1> SUFFICES Moved
  OBVIOUS
<1> HIDE DEF Moved, Calling
<1>0. fsm \in States /\ pc \in Pcs
  BY DEF TypeOK, Pcs
<1>a. ASSUME NEW sig, NEW next \in Pcs, Fires(sig, next) PROVE fsm' \in States /\ pc' \in Pcs
  BY <1>a, <1>0, FiresFacts DEF Pcs
<1>b. ASSUME ToError PROVE Moved
  BY <1>b, <1>0, LandsFacts DEF ToError, Moved, Calling, Pcs
<1>c. ASSUME GivesUp PROVE Moved
  BY <1>c, <1>0, LandsFacts DEF GivesUp, Moved, Calling, Pcs
<1>d. ASSUME CancelOrError PROVE Moved
  BY <1>b, <1>d, <1>0 DEF CancelOrError, Moved, Calling, Pcs
<1>e. ASSUME call' = call, NEW sig, Fires(sig, "top") PROVE Moved
  BY <1>a, <1>e DEF Moved, Calling, Pcs
<1>1. CASE StartTask \/ Attach \/ Register \/ Stop
  BY <1>0, <1>1 DEF StartTask, Attach, Register, Stop, taskVars, recVars, Moved, Calling, Pcs
<1>2. CASE Settle
  BY <1>0, <1>2 DEF Settle, taskVars, Moved, Calling, Pcs
<1>3. CASE Advances
  BY <1>3, <1>e DEF Advances
<1>4. CASE LoadContext
  BY <1>4, <1>b, <1>e DEF LoadContext
<1>5. CASE Plan
  <2>1. CASE Fires("planner_answer", "settle") /\ Enters(Driver, "complete", FALSE)
    BY <2>1, <1>a DEF Moved, Calling, Pcs
  <2> QED BY <1>5, <1>c, <1>d, <1>e, <2>1 DEF Plan
<1>6. CASE Execute
  <2>1. ASSUME Dispatch PROVE Moved
    BY <2>1, <1>d, <1>e DEF Dispatch
  <2>2. ASSUME AskApproval PROVE Moved
    BY <2>2, <1>e DEF AskApproval
  <2> QED BY <1>6, <1>c, <1>e, <2>1, <2>2 DEF Execute
<1>7. CASE Verify
  <2>1. CASE Fires("verify_pass_done", "top") /\ Enters(Driver, "complete", FALSE)
    BY <2>1, <1>a DEF Moved, Calling, Pcs
  <2> QED BY <1>7, <1>b, <1>c, <1>e, <2>1 DEF Verify, Reflect, Passed
<1>8. CASE Patch
  BY <1>8, <1>b, <1>c, <1>e DEF Patch
<1>9. ASSUME events # <<>>, ApplyUserCmd(Head(events))
      PROVE  fsm' \in States /\ Calling
  <2>1. Head(events) \in Cmds
    BY <1>9, CmdFacts DEF TypeOK, Cmds
  <2> QED BY <1>9, <2>1, UserCmdFacts DEF Calling
<1>10. CASE Top
  BY <1>0, <1>9, <1>10 DEF Top, Moved, Calling, Pcs, taskVars
<1>11. CASE Wait
  <2>1. CASE Lands("user_cancel") /\ Enters(Driver, "cancel", TRUE) /\ pc' = "settle"
    BY <2>1, <1>0, LandsFacts DEF Moved, Calling, Pcs
  <2> QED BY <1>9, <1>11, <2>1 DEF Wait, Moved, Pcs
<1> QED
  BY <1>1, <1>2, <1>3, <1>4, <1>5, <1>6, <1>7, <1>8, <1>10, <1>11 DEF Drive

\* The queue, the prompts and what was run stay within what was planned.
LEMMA DriveQueues ==
  ASSUME TypeOK, Drive
  PROVE  /\ pending' \in Seq(planned' \union {Correction})
         /\ prompts' \in Seq(planned') /\ approvalID' \in 0..Len(prompts')
         /\ approved' \in BOOLEAN
         /\ planned' \subseteq Calls /\ ran' \subseteq planned' \union {Correction}
<1> DEFINE Queued == /\ pending' \in Seq(planned' \union {Correction})
                     /\ prompts' \in Seq(planned') /\ approvalID' \in 0..Len(prompts')
                     /\ approved' \in BOOLEAN
                     /\ planned' \subseteq Calls /\ ran' \subseteq planned' \union {Correction}
<1> SUFFICES Queued
  OBVIOUS
<1>0. /\ pending \in Seq(planned \union {Correction}) /\ prompts \in Seq(planned)
      /\ approvalID \in 0..Len(prompts) /\ approved \in BOOLEAN
      /\ planned \subseteq Calls /\ ran \subseteq planned \union {Correction}
      /\ Len(prompts) \in Nat
  <2>1. prompts \in Seq(planned)
    BY DEF TypeOK
  <2> QED BY <2>1, LenProperties DEF TypeOK
<1>h. pending # <<>> => /\ Head(pending) \in planned \union {Correction}
                        /\ Tail(pending) \in Seq(planned \union {Correction})
  BY <1>0, HeadTailProperties
<1>u. ASSUME UNCHANGED <<QueueVars, planned, ran>> PROVE Queued
  BY <1>0, <1>u DEF QueueVars
<1>t. ASSUME UNCHANGED <<taskVars, planned, ran>> PROVE Queued
  BY <1>0, <1>t DEF taskVars
<1>1. CASE StartTask \/ Attach \/ Register \/ Settle \/ Stop
  BY <1>1, <1>t DEF StartTask, Attach, Register, Settle, Stop, histVars
<1>2. CASE Advances \/ LoadContext
  BY <1>2, <1>u DEF Advances, LoadContext
<1>3. CASE Plan
  <2>1. CASE UNCHANGED <<pending, planned>>
    BY <1>0, <1>3, <2>1 DEF Plan
  <2>2. ASSUME NEW turn \in Turns, pending' = turn, planned' = planned \union Range(turn)
        PROVE  Queued
    <3>1. turn \in Seq(Range(turn)) /\ Range(turn) \subseteq Calls
      BY <1>0, TurnFacts
    <3>2. pending' \in Seq(planned' \union {Correction})
      BY <2>2, <3>1, SeqMonotonic
    <3>3. prompts \in Seq(planned')
      BY <1>0, <2>2, SeqMonotonic
    <3> QED BY <1>0, <1>3, <2>2, <3>1, <3>2, <3>3 DEF Plan
  <2> QED BY <1>3, <2>1, <2>2 DEF Plan
<1>4. CASE Execute
  <2>1. planned' = planned
    BY <1>4 DEF Execute
  <2>2. CASE UNCHANGED <<pending, approved, prompts, approvalID, ran>>
    BY <1>0, <2>1, <2>2
  <2>3. CASE pending # <<>> /\ NeedsApproval(Head(pending)) /\ AskApproval
    <3>1. Head(pending) \in planned
      BY <1>h, <2>3, RuntimeAssumption DEF NeedsApproval
    <3>2. /\ prompts' = Append(prompts, Head(pending)) /\ approvalID' = Len(prompts) + 1
          /\ UNCHANGED <<pending, approved, ran>>
      BY <2>3 DEF AskApproval
    <3>3. prompts' \in Seq(planned) /\ Len(prompts') = Len(prompts) + 1
      BY <1>0, <3>1, <3>2
    <3> QED BY <1>0, <2>1, <3>2, <3>3
  <2>4. CASE pending # <<>> /\ Dispatch
    <3>1. pending' \in Seq(planned \union {Correction})
      BY <1>0, <1>h, <2>4 DEF Dispatch
    <3> QED BY <1>0, <1>h, <2>1, <2>4, <3>1 DEF Dispatch
  <2> QED BY <1>4, <2>2, <2>3, <2>4 DEF Execute
<1>5. CASE Verify
  <2>1. UNCHANGED <<approved, prompts, approvalID, planned, ran>>
    BY <1>5 DEF Verify
  <2>2. pending' = pending \/ pending' = <<Correction>>
    BY <1>5 DEF Verify, Reflect, Passed
  <2>3. <<Correction>> \in Seq(planned \union {Correction})
    OBVIOUS
  <2> QED BY <1>0, <2>1, <2>2, <2>3
<1>6. CASE Patch
  <2>1. UNCHANGED <<approved, prompts, approvalID, planned>>
    BY <1>6 DEF Patch
  <2>2. pending' = pending \/ pending' = <<>>
    BY <1>6 DEF Patch
  <2>3. ran' = ran \/ ran' = ran \union {Correction}
    BY <1>6 DEF Patch
  <2>4. <<>> \in Seq(planned \union {Correction})
    OBVIOUS
  <2> QED BY <1>0, <2>1, <2>2, <2>3, <2>4
<1>c. ASSUME events # <<>>, ApplyUserCmd(Head(events)), UNCHANGED <<planned, ran>>
      PROVE  Queued
  <2>1. Head(events) \in Cmds
    BY <1>c, CmdFacts DEF TypeOK, Cmds
  <2>2. /\ UNCHANGED <<pending, prompts>> /\ approved' \in BOOLEAN
        /\ approvalID' \in {0, approvalID}
    BY <1>c, <2>1, UserCmdFacts
  <2>3. approvalID' \in 0..Len(prompts)
    BY <1>0, <2>2
  <2> QED BY <1>0, <1>c, <2>2, <2>3
<1>7. CASE Top
  BY <1>7, <1>c, <1>t DEF Top, histVars
<1>8. CASE Wait
  <2>1. CASE UNCHANGED <<QueueVars, planned, ran>>
    BY <1>u, <2>1
  <2> QED BY <1>8, <1>c, <2>1 DEF Wait, histVars
<1> QED
  BY <1>1, <1>2, <1>3, <1>4, <1>5, <1>6, <1>7, <1>8 DEF Drive

\* What a step of the loop leaves alone, and its other fields.
LEMMA DriveRest ==
  ASSUME TypeOK, Drive
  PROVE  /\ UNCHANGED <<mail, routing, told, yes, posted, ctx>>
         /\ cancelled' \in BOOLEAN /\ handle' \in {"none", "attached", "driving", "returned"}
         /\ mem' \in Statuses /\ disk' \in Statuses
         /\ events' \in Seq(Cmds) /\ Len(events') <= QueueCap
<1> USE DEF Drive, taskVars, sharedVars, loopVars, recVars, histVars, subVars
<1>1. UNCHANGED <<mail, routing, told, yes, posted, ctx>>
  BY DEF StartTask, Attach, Register, Top, Advances, LoadContext, Plan, Execute, Verify,
     Patch, Wait, Stop, Settle, ArmFrame
<1>2. cancelled' \in BOOLEAN /\ handle' \in {"none", "attached", "driving", "returned"}
  BY DEF StartTask, Attach, Register, Top, Advances, LoadContext, Plan, Execute, Verify,
     Patch, Wait, Stop, Settle, ArmFrame, TypeOK
<1>3. mem' \in Statuses /\ disk' \in Statuses
  BY DEF StartTask, Attach, Register, Top, Advances, LoadContext, Plan, Execute, Verify,
     Patch, Wait, Stop, Settle, ArmFrame, TypeOK, Statuses
<1>4. events' = events \/ (events # <<>> /\ events' = Tail(events))
  BY DEF StartTask, Attach, Register, Top, Advances, LoadContext, Plan, Execute, Verify,
     Patch, Wait, Stop, Settle, ArmFrame
<1>5. events \in Seq(Cmds) /\ Len(events) <= QueueCap
  BY DEF TypeOK, Cmds
<1>6. QueueCap \in Nat
  BY RuntimeAssumption
<1> QED BY <1>1, <1>2, <1>3, <1>4, <1>5, <1>6, CmdFacts

\* retries moves in PATCH only, which refuses to try once more than the cap.
LEMMA DriveRetries ==
  ASSUME TypeOK, RetriesCapped, Drive
  PROVE  retries' \in 0..(MaxVerifyRetries + 1) /\ RetriesCapped'
<1> USE DEF RetriesCapped
<1>0. retries \in 0..(MaxVerifyRetries + 1) /\ MaxVerifyRetries \in Nat
  BY RuntimeAssumption DEF TypeOK
<1>1. CASE Patch
  <2>1. retries' = retries + 1 /\ pc = "arm"
    BY <1>1 DEF Patch, In
  <2>2. retries <= MaxVerifyRetries
    BY <2>1
  <2>3. retries' > MaxVerifyRetries => pc' = "settle"
    <3>1. retries' <= MaxVerifyRetries \/ GivesUp
      BY <1>1 DEF Patch
    <3>2. GivesUp => pc' = "settle"
      BY DEF GivesUp
    <3>3. retries' \in Int
      BY <1>0, <2>1
    <3> QED BY <1>0, <3>1, <3>2, <3>3
  <2> QED BY <1>0, <2>1, <2>2, <2>3
<1>2. CASE UNCHANGED retries /\ pc \notin {"settle", "returned"}
  BY <1>0, <1>2
<1>3. CASE Settle
  BY <1>0, <1>3 DEF Settle, taskVars
<1>c. ASSUME events # <<>>, ApplyUserCmd(Head(events)) PROVE UNCHANGED retries
  BY <1>c DEF ApplyUserCmd, taskVars
<1>4. CASE ~Patch /\ ~Settle
  <2>1. UNCHANGED retries
    BY <1>4, <1>c DEF Drive, StartTask, Attach, Register, Top, Advances, LoadContext, Plan,
       Execute, Verify, Wait, Stop, taskVars, QueueVars
  <2>2. pc \notin {"settle", "returned"}
    BY <1>4 DEF Drive, StartTask, Attach, Register, Top, Advances, LoadContext, Plan,
       Execute, Verify, Wait, Stop, In
  <2> QED BY <1>2, <2>1, <2>2
<1> QED BY <1>1, <1>3, <1>4

\* The steps of the drive goroutine keep the types.
LEMMA DriveTyped ==
  ASSUME Typed, Drive PROVE Typed'
<1> USE DEF Typed
<1>1. call' \in [Procs -> {NoCall} \union CallRecs]
      /\ \A l \in Loops : call'[l] = call[l]
  <2>1. call \in [Procs -> {NoCall} \union CallRecs]
    BY DEF TypeOK, CallRecs
  <2>2. CASE call' = call
    BY <2>1, <2>2
  <2>3. ASSUME NEW op \in {"cancel", "complete", "fail"}, NEW bg \in BOOLEAN,
               Enters(Driver, op, bg)
        PROVE  call' \in [Procs -> {NoCall} \union CallRecs]
               /\ \A l \in Loops : call'[l] = call[l]
    <3>1. call' \in [Procs -> {NoCall} \union CallRecs]
      BY <2>1, <2>3, CallFacts DEF Procs
    <3>2. \A l \in Loops : l # Driver /\ l \in Procs
      BY RuntimeAssumption DEF Procs
    <3> QED BY <2>1, <2>3, <3>1, <3>2 DEF Enters
  <2> QED BY <2>2, <2>3, DriveMoves
<1>2. UNCHANGED <<mail, routing, told, yes, posted, ctx>>
  BY DriveRest
<1>3. CascadeHolds'
  BY <1>1, <1>2 DEF CascadeHolds, Idle, TypeOK
<1>4. TypeOK'
  BY <1>1, <1>2, DriveMoves, DriveQueues, DriveRest, DriveRetries
  DEF TypeOK, Pcs, CallRecs, Cmds
<1> QED BY <1>3, <1>4, DriveRetries

\* Every step keeps the types.
LEMMA NextTyped == Typed /\ [Next]_vars => Typed'
<1> SUFFICES ASSUME Typed, [Next]_vars PROVE Typed'
  OBVIOUS
<1>1. CASE UNCHANGED vars
  BY <1>1 DEF vars, taskVars, subVars, sharedVars, loopVars, recVars, histVars, Typed,
     TypeOK, RetriesCapped, CascadeHolds, Idle
<1> QED
  BY <1>1, DriveTyped, SessionTyped, LoopTyped, WorldTyped DEF Next

\* The types, the cap of the retries and the held commands of a cascade.
LEMMA AlwaysTyped == Spec => []Typed
BY InitTyped, NextTyped, PTL DEF Spec

(* Type correctness (RuntimeCore, TypeOK): whatever the user posts and      *)
(* whichever calls fail, the command channel stays within its buffer, the  *)
(* retries within one of maxVerifyRetries and the pending approval names a *)
(* prompt that was shown.                                                  *)
THEOREM TypeCorrect == Spec => []TypeOK
<1>1. Typed => TypeOK
  BY DEF Typed
<1> QED BY <1>1, AlwaysTyped, PTL

-----------------------------------------------------------------------------
(* What a user's command does to the task, and which steps are the loop's.  *)

\* A command that is applied, case by case.
LEMMA CommandEffect ==
  ASSUME TypeOK, NEW c \in Cmds, ApplyUserCmd(c)
  PROVE  \/ UNCHANGED <<taskVars, call>>
         \/ /\ UNCHANGED <<pending, prompts, retries>> /\ approvalID' = 0
            /\ \/ /\ c.kind = "approve" /\ c.id = approvalID /\ approvalID # 0
                  /\ fsm = "WAIT_USER" /\ fsm' = "EXECUTE" /\ approved' /\ call' = call
               \/ /\ c.kind \in {"reject", "cancel"} /\ fsm' = "CANCELLED"
                  /\ approved' = approved /\ Enters(Driver, "cancel", TRUE)
               \/ /\ c.kind = "pause" /\ fsm' = "PAUSED"
                  /\ approved' = approved /\ call' = call
               \/ /\ c.kind = "resume" /\ fsm = "PAUSED" /\ fsm' = "LOAD_CONTEXT"
                  /\ approved' = approved /\ call' = call
<1>1. CASE ~Dropped(c) /\ ~UNCHANGED <<taskVars, call>>
  <2>1. c.kind \in {"approve", "reject", "pause", "resume", "cancel"}
    BY RuntimeAssumption DEF Cmds
  <2>2. /\ fsm \in States /\ fsm' \in Lookup(fsm, SigOf[c.kind])
        /\ approvalID' = 0 /\ approved' = (approved \/ c.kind = "approve")
        /\ IF c.kind \in {"reject", "cancel"} THEN Enters(Driver, "cancel", TRUE) ELSE call' = call
        /\ UNCHANGED <<pending, prompts, retries>> /\ approved \in BOOLEAN
    BY <1>1 DEF ApplyUserCmd, TypeOK
  <2>3. CASE c.kind = "approve"
    <3>1. fsm = "WAIT_USER" /\ fsm' = "EXECUTE"
      BY <2>2, <2>3, LookupFacts DEF SigOf
    <3>2. c.id = approvalID /\ approvalID # 0
      BY <1>1, <2>3 DEF Dropped, AnswersOutstandingPrompt
    <3> QED BY <2>2, <2>3, <3>1, <3>2
  <2>4. CASE c.kind \in {"reject", "cancel"}
    <3>1. fsm' = "CANCELLED"
      BY <2>2, <2>4, LookupFacts DEF SigOf
    <3> QED BY <2>2, <2>4, <3>1
  <2>5. CASE c.kind = "pause"
    <3>1. fsm' = "PAUSED"
      BY <2>2, <2>5, LookupFacts DEF SigOf
    <3> QED BY <2>2, <2>5, <3>1
  <2>6. CASE c.kind = "resume"
    <3>1. fsm = "PAUSED" /\ fsm' = "LOAD_CONTEXT"
      BY <2>2, <2>6, LookupFacts DEF SigOf
    <3> QED BY <2>2, <2>6, <3>1
  <2> QED BY <2>1, <2>3, <2>4, <2>5, <2>6
<1> QED BY <1>1 DEF ApplyUserCmd

\* The steps inside drive, as opposed to Submit's before and after it.
Arms == \/ Top \/ Advances \/ LoadContext \/ Plan \/ Execute \/ Verify \/ Patch
        \/ Wait \/ Stop

\* The arms of drive run inside the loop, with no call of its own under way.
LEMMA ArmFacts ==
  ASSUME TypeOK, Arms
  PROVE  /\ pc \in {"top", "arm"} /\ pc' \in {"top", "arm", "settle"} /\ Idle(Driver)
         /\ UNCHANGED <<cancelled, handle, ctx, mail, routing, mem, disk, told, yes, posted>>
<1> USE DEF Arms, taskVars, sharedVars, loopVars, recVars, histVars, subVars
<1>1. /\ pc \in {"top", "arm"} /\ Idle(Driver)
      /\ UNCHANGED <<cancelled, handle, ctx, mail, routing, mem, disk, told, yes, posted>>
  BY DEF Top, Advances, LoadContext, Plan, Execute, Verify, Patch, Wait, Stop, ArmFrame, In
<1>2. ASSUME NEW sig, NEW next, Fires(sig, next) PROVE pc' \in {next, "settle"}
  BY <1>2 DEF Fires
<1>3. ToError \/ GivesUp \/ CancelOrError => pc' = "settle"
  BY DEF ToError, GivesUp, CancelOrError
<1>4. pc' \in {"top", "arm", "settle"}
  <2>1. CASE Top \/ Stop \/ Wait
    BY <2>1 DEF Top, Stop, Wait
  <2>2. CASE Advances \/ LoadContext \/ Plan
    BY <1>2, <1>3, <2>2 DEF Advances, LoadContext, Plan
  <2>3. CASE Execute
    BY <1>2, <1>3, <2>3 DEF Execute, AskApproval, Dispatch
  <2>4. CASE Verify \/ Patch
    BY <1>2, <1>3, <2>4 DEF Verify, Reflect, Passed, Patch
  <2> QED BY <2>1, <2>2, <2>3, <2>4
<1> QED BY <1>1, <1>4

-----------------------------------------------------------------------------
(* A parked task has a prompt up.                                          *)

\* Only AskApproval parks the task.
LEMMA ParkFacts ==
  ASSUME TypeOK, Drive, fsm' = "WAIT_USER"
  PROVE  \/ fsm = "WAIT_USER" /\ UNCHANGED <<pending, prompts, approvalID>>
         \/ pending # <<>> /\ AskApproval
<1> DEFINE Kept == fsm = "WAIT_USER" /\ UNCHANGED <<pending, prompts, approvalID>>
<1> SUFFICES ASSUME ~(pending # <<>> /\ AskApproval) PROVE Kept
  OBVIOUS
<1>0. fsm \in States
  BY DEF TypeOK
<1>1. ASSUME NEW sig, sig # "needs_approval", NEW next, Fires(sig, next)
      PROVE  fsm = "WAIT_USER"
  BY <1>0, <1>1, LookupFacts DEF Fires
<1>2. ASSUME NEW sig, sig # "needs_approval", Lands(sig) PROVE fsm = "WAIT_USER"
  BY <1>0, <1>2, LandsFacts, LookupFacts
<1>3. ToError \/ GivesUp \/ CancelOrError => fsm = "WAIT_USER"
  BY <1>2 DEF ToError, GivesUp, CancelOrError
<1>4. CASE StartTask \/ Attach \/ Register \/ Settle \/ Stop
  BY <1>4 DEF StartTask, Attach, Register, Settle, Stop, taskVars
<1>5. CASE Advances \/ LoadContext \/ Plan \/ Verify \/ Patch
  <2>1. fsm # "WAIT_USER"
    BY <1>5 DEF Advances, LoadContext, Plan, Verify, Patch, In
  <2>2. fsm = "WAIT_USER"
    <3>1. CASE Advances \/ LoadContext \/ Plan
      BY <1>1, <1>3, <3>1 DEF Advances, LoadContext, Plan
    <3>2. CASE Verify \/ Patch
      BY <1>1, <1>3, <3>2 DEF Verify, Reflect, Passed, Patch
    <3> QED BY <1>5, <3>1, <3>2
  <2> QED BY <2>1, <2>2
<1>6. CASE Execute
  <2>1. fsm # "WAIT_USER"
    BY <1>6 DEF Execute, In
  <2>2. fsm = "WAIT_USER"
    BY <1>1, <1>3, <1>6 DEF Execute, Dispatch
  <2> QED BY <2>1, <2>2
<1>7. ASSUME events # <<>>, ApplyUserCmd(Head(events)) PROVE Kept
  <2>1. Head(events) \in Cmds
    BY <1>7, CmdFacts DEF TypeOK, Cmds
  <2> QED BY <1>7, <2>1, CommandEffect DEF taskVars
<1>8. CASE Top
  BY <1>7, <1>8 DEF Top, taskVars
<1>9. CASE Wait
  <2>1. CASE Lands("user_cancel") /\ UNCHANGED <<QueueVars, events>>
    BY <1>2, <2>1 DEF QueueVars
  <2> QED BY <1>7, <1>9, <2>1 DEF Wait
<1> QED BY <1>4, <1>5, <1>6, <1>8, <1>9 DEF Drive

\* Outside the loop nobody touches the FSM and its queue.
LEMMA OnlyDrive ==
  ASSUME [Next]_vars, ~Drive PROVE UNCHANGED <<taskVars, subVars, planned, ran>>
BY DEF Next, SessionStep, CancelCheck, Mark, Save, Tell, Loop, Route, Cascade, Handoff,
   Post, Quit, vars, histVars

\* A step that ends in WAIT_USER came from it, or has just asked.
LEMMA NextPrompt ==
  ASSUME TypeOK, PromptStands, [Next]_vars PROVE PromptStands'
<1> SUFFICES ASSUME fsm' = "WAIT_USER"
             PROVE  approvalID' # 0 /\ pending' # <<>> /\ prompts'[approvalID'] = Head(pending')
  BY DEF PromptStands
<1>1. CASE fsm = "WAIT_USER" /\ UNCHANGED <<pending, prompts, approvalID>>
  BY <1>1 DEF PromptStands
<1>2. CASE ~Drive
  BY <1>1, <1>2, OnlyDrive DEF taskVars
<1>3. CASE pending # <<>> /\ AskApproval
  <2>1. prompts \in Seq(planned) /\ Len(prompts) \in Nat
    BY LenProperties DEF TypeOK
  <2>2. /\ prompts' = Append(prompts, Head(pending)) /\ approvalID' = Len(prompts) + 1
        /\ pending' = pending
    BY <1>3 DEF AskApproval
  <2> QED BY <1>3, <2>1, <2>2, AppendProperties
<1> QED BY <1>1, <1>2, <1>3, ParkFacts

(* PromptStands: a task that waits for its user (WAIT_USER) has asked about *)
(* the very call at the head of its queue, so an answer has something to   *)
(* answer and approves that call (core.go, dispatch and wait).             *)
THEOREM PromptAlwaysStands == Spec => []PromptStands
<1>1. Init => PromptStands
  BY DEF Init, PromptStands
<1> QED BY <1>1, NextPrompt, TypeCorrect, PTL DEF Spec

-----------------------------------------------------------------------------
(* A cancel that reached the context has an owner.                         *)

\* The handle follows Submit.
Placed ==
    /\ handle = "none" <=> pc \in {"submit", "attach", "failed"}
    /\ handle = "attached" <=> pc = "register"
    /\ handle = "driving" <=> pc \in {"top", "arm", "settle"}
    /\ handle = "returned" <=> pc = "returned"

\* Before StartTask there is no record, and nobody acts on it.
Fresh ==
    /\ pc = "submit" => mem = "none" /\ disk = "none"
    /\ mem = "none" => /\ pc = "submit"
                       /\ \A p \in Procs : Idle(p)
                       /\ \A l \in Loops : mail[l] = <<>>

\* At the start nothing is registered.
LEMMA InitPlaced == Init => Placed /\ Fresh
BY DEF Init, Placed, Fresh, Idle

\* Every step moves the handle with Submit.
LEMMA NextPlaced ==
  ASSUME Typed, Placed, [Next]_vars PROVE Placed'
<1> USE DEF Typed
<1>1. CASE StartTask \/ Attach \/ Register \/ Settle
  BY <1>1 DEF StartTask, Attach, Register, Settle, sharedVars, Placed
<1>2. CASE Arms
  BY <1>2, ArmFacts DEF Placed
<1>3. CASE ~Drive
  <2>1. UNCHANGED <<handle, pc>>
    BY <1>3 DEF Next, SessionStep, CancelCheck, Mark, Save, Tell, Loop, Route, Cascade,
       Handoff, Post, Quit, vars, subVars, sharedVars
  <2> QED BY <2>1 DEF Placed
<1> QED BY <1>1, <1>2, <1>3 DEF Drive, Arms

\* p enters a method of the Manager, from outside; nobody else moves in it.
Entering(p) ==
    /\ Idle(p) /\ ~Idle(p)'
    /\ call'[p] \in CallRecs /\ call'[p].at \in {"check", "mark"}
    /\ call'[p].at = "check" <=> call'[p].op = "cancel"
    /\ \A q \in Procs \ {p} : call'[q] = call[q]
    /\ UNCHANGED <<mem, disk, told, ctx>>

\* A step moves the Manager call of one goroutine at the most.
LEMMA CallMoves ==
  ASSUME Typed, [Next]_vars
  PROVE  \/ call' = call
         \/ \E p \in Procs :
               /\ SessionStep(p) /\ ~Idle(p)
               /\ \A q \in Procs \ {p} : call'[q] = call[q]
         \/ Entering(Driver) /\ Drive /\ UNCHANGED routing
         \/ \E l \in Loops : Entering(l) /\ Handoff(l)
<1> USE DEF Typed
<1>0. call \in [Procs -> {NoCall} \union CallRecs]
  BY DEF TypeOK, CallRecs
<1>e. ASSUME NEW p \in Procs, NEW op \in {"cancel", "complete", "fail"}, NEW bg \in BOOLEAN,
             Enters(p, op, bg), Idle(p), UNCHANGED <<mem, disk, told, ctx>>
      PROVE  Entering(p)
  BY <1>0, <1>e DEF Entering, Enters, Idle, NoCall, CallRecs
<1>1. CASE Drive
  <2>1. ASSUME call' # call PROVE Entering(Driver)
    <3>1. PICK op \in {"cancel", "complete", "fail"}, bg \in BOOLEAN : Enters(Driver, op, bg)
      BY <1>1, <2>1, DriveMoves
    <3>2. Arms \/ Settle
      BY <1>1, <2>1 DEF Drive, Arms, StartTask, Attach, Register, recVars
    <3>3. Idle(Driver) /\ UNCHANGED <<mem, disk>>
      BY <3>2, ArmFacts DEF Settle
    <3>4. UNCHANGED <<told, ctx>>
      BY <1>1, DriveRest
    <3>5. Driver \in Procs
      BY DEF Procs
    <3> QED BY <1>e, <3>1, <3>3, <3>4, <3>5
  <2> QED BY <1>1, <2>1, DriveRest
<1>2. ASSUME NEW p \in Procs, SessionStep(p)
      PROVE  ~Idle(p) /\ \A q \in Procs \ {p} : call'[q] = call[q]
  BY <1>0, <1>2 DEF SessionStep, CancelCheck, Mark, Save, Tell, Leaves, GoesTo, Idle, NoCall
<1>3. ASSUME NEW l \in Loops, Loop(l), call' # call PROVE Entering(l) /\ Handoff(l)
  <2>1. Handoff(l)
    BY <1>3 DEF Loop, Route, Cascade, recVars
  <2>2. Enters(l, "cancel", TRUE) /\ UNCHANGED <<mem, disk, told, ctx>>
    BY <1>3, <2>1 DEF Handoff
  <2>3. Idle(l) /\ l \in Procs
    BY <2>1 DEF Handoff, CascadeHolds, Procs
  <2> QED BY <1>e, <2>1, <2>2, <2>3
<1>4. CASE \E l \in Loops : Loop(l)
  BY <1>4, <1>3
<1>5. CASE Post \/ Quit \/ UNCHANGED vars
  BY <1>5 DEF Post, Quit, vars, recVars
<1> QED BY <1>1, <1>2, <1>4, <1>5 DEF Next

\* Until StartTask there is nobody to act on the task.
LEMMA NextFresh ==
  ASSUME Typed, Fresh, [Next]_vars PROVE Fresh'
<1> USE DEF Typed
<1>0. mem' = "none" => mem = "none"
  <2>1. ASSUME NEW p \in Procs, SessionStep(p) PROVE mem' \in {mem} \union Terminal
    <3>1. call[p] \in CallRecs
      BY <2>1 DEF SessionStep, CancelCheck, Mark, Save, Tell, NoCall, TypeOK, CallRecs
    <3> QED BY <2>1, <3>1 DEF SessionStep, CancelCheck, Mark, Save, Tell, CallRecs,
            Outcome, Terminal
  <2>2. CASE Drive
    <3>1. CASE Arms \/ Attach \/ Register \/ Settle
      BY <3>1, ArmFacts DEF Attach, Register, Settle, recVars
    <3>2. CASE StartTask
      BY <3>2 DEF StartTask
    <3> QED BY <2>2, <3>1, <3>2 DEF Drive, Arms
  <2>3. CASE ~Drive /\ ~\E p \in Procs : SessionStep(p)
    BY <2>3 DEF Next, Loop, Route, Cascade, Handoff, Post, Quit, vars, recVars
  <2> QED BY <2>1, <2>2, <2>3 DEF Terminal
<1>1. pc' = "submit" => UNCHANGED <<pc, mem, disk>>
  <2> SUFFICES ASSUME pc' = "submit" PROVE UNCHANGED <<pc, mem, disk>>
    OBVIOUS
  <2>1. CASE Drive
    BY <2>1, ArmFacts DEF Drive, Arms, StartTask, Attach, Register, Settle
  <2>2. CASE ~Drive
    <3>1. pc = "submit"
      BY <2>2, OnlyDrive DEF subVars
    <3>2. mem = "none" /\ \A p \in Procs : Idle(p)
      BY <3>1 DEF Fresh
    <3>3. \A p \in Procs : ~SessionStep(p)
      BY <3>2 DEF SessionStep, CancelCheck, Mark, Save, Tell, Idle, NoCall
    <3> QED BY <2>2, <3>1, <3>3, OnlyDrive DEF Next, Loop, Route, Cascade, Handoff, Post, Quit,
            vars, recVars, subVars
  <2> QED BY <2>1, <2>2
<1>2. ASSUME mem' = "none"
      PROVE  /\ pc' = "submit"
             /\ \A p \in Procs : Idle(p)'
             /\ \A l \in Loops : mail'[l] = <<>>
  <2>1. /\ mem = "none" /\ pc = "submit" /\ (\A p \in Procs : Idle(p))
        /\ \A l \in Loops : mail[l] = <<>>
    BY <1>0, <1>2 DEF Fresh
  <2>2. ~Drive
    <3>1. ~Arms /\ ~Attach /\ ~Register /\ ~Settle
      BY <2>1, ArmFacts DEF Attach, Register, Settle
    <3>2. ~StartTask
      BY <1>2 DEF StartTask
    <3> QED BY <3>1, <3>2 DEF Drive, Arms
  <2>3. ~Post /\ ~\E l \in Loops : Loop(l)
    BY <2>1 DEF Post, MayAct, Loop, Route, Cascade, Handoff, CascadeHolds
  <2>4. \A p \in Procs : ~SessionStep(p)
    BY <2>1 DEF SessionStep, CancelCheck, Mark, Save, Tell, Idle, NoCall
  <2>5. UNCHANGED <<pc, call, mail>>
    BY <2>2, <2>3, <2>4 DEF Next, Quit, vars, subVars, recVars, loopVars
  <2> QED BY <2>1, <2>5 DEF Idle
<1> QED BY <1>1, <1>2 DEF Fresh

\* An announcement comes after the write, an ending in the map is on disk or
\* being written, and a cancel that came too late for the loop is held by
\* somebody: an event loop, or the sweep of settleCancel.
ToldAfterSave == \A p \in Procs : call[p].at = "tell" => disk \in Terminal
SavedOrSaving == mem \in Terminal /\ disk \notin Terminal =>
                   \E p \in Procs : call[p].at = "save"
Holding(p) == p \in routing \/ ~Idle(p)
Owned == handle = "returned" /\ ctx = "dead" /\ disk \notin Terminal =>
           \E p \in Procs : Holding(p)

OwnedInv == Typed /\ Placed /\ Fresh /\ ToldAfterSave /\ SavedOrSaving /\ Owned

\* At the start no cancel is under way.
LEMMA InitOwned == Init => OwnedInv
<1> SUFFICES ASSUME Init PROVE OwnedInv
  OBVIOUS
<1>1. ToldAfterSave /\ SavedOrSaving /\ Owned
  BY DEF Init, ToldAfterSave, SavedOrSaving, Owned, NoCall, Terminal
<1> QED BY <1>1, InitTyped, InitPlaced DEF OwnedInv

\* A step inside the Manager: who leaves without writing found an ending in
\* the map, so another goroutine has written it or is about to.
LEMMA SessionOwned ==
  ASSUME OwnedInv, ~DiskFails, NEW p \in Procs, SessionStep(p)
  PROVE  ToldAfterSave' /\ SavedOrSaving' /\ Owned'
<1> USE DEF OwnedInv
<1>1. call[p] \in CallRecs /\ Outcome[call[p].op] \in Terminal
  <2>1. call[p] \in CallRecs
    BY DEF SessionStep, CancelCheck, Mark, Save, Tell, NoCall, Typed, TypeOK, CallRecs
  <2> QED BY <2>1 DEF CallRecs, Outcome, Terminal
<1>2. \A q \in Procs \ {p} : call'[q] = call[q]
  BY DEF SessionStep, CancelCheck, Mark, Save, Tell, Leaves, GoesTo, Typed, TypeOK
<1>3. call[p].at = "save" => disk' \in Terminal /\ call'[p].at = "tell"
  BY <1>1 DEF SessionStep, CancelCheck, Mark, Save, Tell, GoesTo, Typed, TypeOK, CallRecs
<1>4. call[p].at # "save" => disk' = disk
  BY DEF SessionStep, CancelCheck, Mark, Save, Tell
<1>5. disk \in Terminal => disk' \in Terminal
  BY <1>3, <1>4
<1>6. mem' # mem => call'[p].at = "save"
  BY <1>1 DEF SessionStep, CancelCheck, Mark, Save, Tell, GoesTo, Typed, TypeOK, CallRecs
<1>7. call'[p].at = "tell" => disk' \in Terminal
  <2>1. call'[p].at = "tell" => call[p].at = "save"
    BY <1>1 DEF SessionStep, CancelCheck, Mark, Save, Tell, GoesTo, Leaves, NoCall, Typed,
       TypeOK, CallRecs
  <2> QED BY <1>3, <2>1
<1>8. ToldAfterSave'
  BY <1>2, <1>5, <1>7 DEF ToldAfterSave
<1>9. SavedOrSaving'
  <2> SUFFICES ASSUME mem' \in Terminal, disk' \notin Terminal
               PROVE  \E q \in Procs : call'[q].at = "save"
    BY DEF SavedOrSaving
  <2>1. CASE mem' = mem
    <3>1. PICK q \in Procs : call[q].at = "save"
      BY <1>5, <2>1 DEF SavedOrSaving
    <3>2. q # p
      BY <1>3, <3>1
    <3> QED BY <1>2, <3>1, <3>2
  <2>2. CASE mem' # mem
    BY <1>6, <2>2
  <2> QED BY <2>1, <2>2
<1>10. Owned'
  <2>1. UNCHANGED <<handle, routing>>
    BY DEF SessionStep, CancelCheck, Mark, Save, Tell, sharedVars, loopVars
  <2> SUFFICES ASSUME disk' \notin Terminal PROVE \E q \in Procs : Holding(q)'
    BY DEF Owned
  <2>2. CASE \E q \in Procs \ {p} : ~Idle(q)
    BY <1>2, <2>2 DEF Idle, Holding
  <2>3. CASE ~Idle(p)'
    BY <2>3 DEF Holding
  <2>4. CASE Idle(p)' /\ \A q \in Procs \ {p} : Idle(q)
    <3>1. call[p].at \in {"check", "mark"} /\ mem \in Terminal
      <4>1. \A at \in {"mark", "save", "tell"} : GoesTo(p, at) => ~Idle(p)'
        BY <1>1 DEF GoesTo, Idle, NoCall, Typed, TypeOK, CallRecs
      <4>2. ~Save(p) /\ ~Tell(p)
        BY <1>5, <2>4, <4>1 DEF Save, Tell, ToldAfterSave
      <4> QED BY <2>4, <4>1, <4>2 DEF SessionStep, CancelCheck, Mark, Cancellable, MayMark
    <3>2. PICK q \in Procs : call[q].at = "save"
      BY <1>5, <3>1 DEF SavedOrSaving
    <3> QED BY <2>4, <3>1, <3>2 DEF Idle, NoCall
  <2> QED BY <2>2, <2>3, <2>4
<1> QED BY <1>8, <1>9, <1>10

\* Entering a method loses no owner either, and the loop that hands its cancel
\* to nobody enters it.
LEMMA EnteringOwned ==
  ASSUME OwnedInv, NEW p \in Procs, Entering(p)
  PROVE  ToldAfterSave' /\ SavedOrSaving' /\ Owned'
<1> USE DEF OwnedInv
<1>1. /\ \A q \in Procs \ {p} : call'[q] = call[q]
      /\ Idle(p) /\ ~Idle(p)' /\ call'[p].at \in {"check", "mark"} /\ UNCHANGED <<mem, disk>>
  BY DEF Entering
<1>2. ToldAfterSave'
  BY <1>1 DEF ToldAfterSave
<1>3. SavedOrSaving'
  BY <1>1 DEF SavedOrSaving, Idle, NoCall
<1>4. Owned'
  BY <1>1 DEF Owned, Holding
<1> QED BY <1>2, <1>3, <1>4

\* Every step keeps the owner of a late cancel.
LEMMA NextOwned ==
  ASSUME OwnedInv, ~DiskFails, [Next]_vars PROVE OwnedInv'
<1> USE DEF OwnedInv
<1>1. ToldAfterSave' /\ SavedOrSaving' /\ Owned'
  <2>1. CASE \E p \in Procs : SessionStep(p)
    BY <2>1, SessionOwned
  <2>2. CASE \E p \in Procs : Entering(p)
    BY <2>2, EnteringOwned
  <2>3. CASE call' = call /\ ~\E p \in Procs : SessionStep(p)
    <3>1. \/ disk' = disk /\ mem' = mem
          \/ pc = "submit" /\ mem' = "PENDING"
      <4>1. CASE Drive
        BY <4>1, ArmFacts DEF Typed, Drive, Arms, StartTask, Attach, Register, Settle, recVars
      <4>2. CASE ~Drive
        BY <2>3, <4>2 DEF Next, Loop, Route, Cascade, Handoff, Post, Quit, vars, recVars
      <4> QED BY <4>1, <4>2
    <3>2. ToldAfterSave'
      <4>1. CASE disk' = disk
        BY <2>3, <4>1 DEF ToldAfterSave
      <4>2. CASE pc = "submit"
        BY <2>3, <4>2 DEF ToldAfterSave, Fresh, Idle, NoCall
      <4> QED BY <3>1, <4>1, <4>2
    <3>3. SavedOrSaving'
      BY <2>3, <3>1 DEF SavedOrSaving, Terminal
    <3>4. Owned'
      <4> SUFFICES ASSUME handle' = "returned", ctx' = "dead", disk' \notin Terminal
                   PROVE  \E p \in Procs : Holding(p)'
        BY DEF Owned
      <4>1. CASE Drive
        <5>1. CASE Settle
          <6>1. ctx = "dead"
            BY <4>1, DriveRest DEF Typed
          <6>2. Enters(Driver, "cancel", TRUE)
            BY <5>1, <6>1 DEF Settle
          <6>3. Driver \in Procs /\ call'[Driver] # NoCall
            BY <6>2 DEF Enters, Procs, NoCall, Typed, TypeOK
          <6> QED BY <6>3 DEF Holding, Idle
        <5>2. CASE ~Settle
          BY <4>1, <5>2, ArmFacts DEF Drive, Arms, StartTask, Attach, Register, sharedVars,
             Placed, Typed
        <5> QED BY <5>1, <5>2
      <4>2. CASE Quit
        BY <4>2 DEF Quit
      <4>3. ASSUME NEW l \in Loops, Loop(l) PROVE \E p \in Procs : Holding(p)'
        <5>1. handle = "returned" /\ UNCHANGED disk /\ l \in Procs
          BY <4>3 DEF Loop, Route, Cascade, Handoff, recVars, Procs
        <5>2. CASE Cascade(l)
          BY <5>1, <5>2 DEF Cascade, Holding
        <5>3. CASE Route(l)
          <6>1. UNCHANGED <<ctx, routing, call, disk>>
            BY <5>3 DEF Route, recVars
          <6> QED BY <5>1, <6>1 DEF Owned, Holding, Idle
        <5>4. CASE Handoff(l)
          <6>1. ~DrivenHere(l)
            BY <5>1 DEF DrivenHere
          <6>2. Enters(l, "cancel", TRUE)
            BY <5>4, <6>1 DEF Handoff
          <6>3. call'[l] # NoCall
            BY <5>1, <6>2 DEF Enters, NoCall, Typed, TypeOK
          <6> QED BY <5>1, <6>3 DEF Holding, Idle
        <5> QED BY <4>3, <5>2, <5>3, <5>4 DEF Loop
      <4>4. CASE Post \/ UNCHANGED vars
        <5>1. UNCHANGED <<handle, ctx, routing, call, disk>>
          BY <4>4 DEF Post, vars, sharedVars, recVars, loopVars
        <5> QED BY <5>1 DEF Owned, Holding, Idle
      <4> QED BY <2>3, <4>1, <4>2, <4>3, <4>4 DEF Next
    <3> QED BY <3>2, <3>3, <3>4
  <2>4. Driver \in Procs /\ Loops \subseteq Procs
    BY DEF Procs
  <2> QED BY <2>1, <2>2, <2>3, <2>4, CallMoves
<1> QED BY <1>1, NextTyped, NextPlaced, NextFresh

(* CancelIsOwned: when drive has returned from a task whose context was    *)
(* cancelled, the cancel is on disk or some goroutine is still bound to    *)
(* write it: an event loop, or the sweep settleCancel has begun (core.go). *)
(* A write that fails loses the ending, so the disk of this theorem does   *)
(* not fail; RuntimeCore models the failure, and the run core_live, which  *)
(* checks the property, is of the same disk.                               *)
THEOREM CancelAlwaysOwned ==
  ASSUME ~DiskFails PROVE Spec => []CancelIsOwned
<1>1. OwnedInv /\ [Next]_vars => OwnedInv'
  BY NextOwned
<1>2. OwnedInv => CancelIsOwned
  BY DEF OwnedInv, Owned, Placed, Holding, CancelIsOwned, Returned, Procs, Typed, TypeOK
<1> QED BY <1>1, <1>2, InitOwned, PTL DEF Spec

-----------------------------------------------------------------------------
(* Approval.  A pause may separate an approval from the call it was given   *)
(* for (run staleyes), so the user of these theorems does not pause.  *)

\* Without a pause command the task is never paused.
LEMMA PausedByCommand ==
  ASSUME TypeOK, Drive, "pause" \notin Kinds, fsm # "PAUSED" PROVE fsm' # "PAUSED"
<1>0. fsm \in States
  BY DEF TypeOK
<1>1. ASSUME NEW sig, sig # "user_pause", NEW next, Fires(sig, next) PROVE fsm' # "PAUSED"
  BY <1>0, <1>1, LookupFacts DEF Fires
<1>2. ASSUME NEW sig, sig # "user_pause", Lands(sig) PROVE fsm' # "PAUSED"
  BY <1>0, <1>2, LandsFacts, LookupFacts
<1>3. ToError \/ GivesUp \/ CancelOrError => fsm' # "PAUSED"
  BY <1>2 DEF ToError, GivesUp, CancelOrError
<1>4. CASE StartTask \/ Attach \/ Register \/ Settle \/ Stop
  BY <1>4 DEF StartTask, Attach, Register, Settle, Stop, taskVars
<1>5. CASE Advances \/ LoadContext \/ Plan
  BY <1>1, <1>3, <1>5 DEF Advances, LoadContext, Plan
<1>6. CASE Execute
  BY <1>1, <1>3, <1>6 DEF Execute, AskApproval, Dispatch
<1>7. CASE Verify \/ Patch
  BY <1>1, <1>3, <1>7 DEF Verify, Reflect, Passed, Patch
<1>8. ASSUME events # <<>>, ApplyUserCmd(Head(events)) PROVE fsm' # "PAUSED"
  <2>1. Head(events) \in Cmds
    BY <1>8, CmdFacts DEF TypeOK, Cmds
  <2>2. Head(events).kind # "pause"
    BY <2>1 DEF Cmds
  <2> QED BY <1>8, <2>1, <2>2, CommandEffect DEF taskVars
<1>9. CASE Top
  BY <1>8, <1>9 DEF Top, taskVars
<1>10. CASE Wait
  BY <1>2, <1>8, <1>10 DEF Wait
<1> QED BY <1>4, <1>5, <1>6, <1>7, <1>9, <1>10 DEF Drive

\* The approvals in a queue of commands were posted by the user.
Posted(q, Y) == \A i \in 1..Len(q) : q[i].kind = "approve" => q[i].id \in Y

\* A queue of posted commands stays one when it is read, and when one more is
\* posted.
LEMMA PostedFacts ==
  ASSUME NEW q \in Seq(Cmds), NEW Y, Posted(q, Y)
  PROVE  /\ q # <<>> => Posted(Tail(q), Y) /\ (Head(q).kind = "approve" => Head(q).id \in Y)
         /\ \A c \in Cmds : (c.kind = "approve" => c.id \in Y) => Posted(Append(q, c), Y)
<1>1. ASSUME q # <<>>
      PROVE  Posted(Tail(q), Y) /\ (Head(q).kind = "approve" => Head(q).id \in Y)
  <2>1. /\ Len(Tail(q)) = Len(q) - 1 /\ Len(q) \in Nat \ {0}
        /\ \A i \in 1..Len(Tail(q)) : Tail(q)[i] = q[i + 1]
    BY <1>1, HeadTailProperties, EmptySeq
  <2>2. \A i \in 1..Len(Tail(q)) : i + 1 \in 1..Len(q)
    BY <2>1
  <2>3. Posted(Tail(q), Y)
    BY <2>1, <2>2 DEF Posted
  <2>4. Head(q) = q[1] /\ 1 \in 1..Len(q)
    BY <1>1, <2>1
  <2> QED BY <2>3, <2>4 DEF Posted
<1>2. ASSUME NEW c \in Cmds, c.kind = "approve" => c.id \in Y
      PROVE  Posted(Append(q, c), Y)
  <2>1. /\ Len(q) \in Nat /\ Len(Append(q, c)) = Len(q) + 1
        /\ \A i \in 1..Len(q) : Append(q, c)[i] = q[i]
        /\ Append(q, c)[Len(q) + 1] = c
    BY AppendProperties, LenProperties
  <2> QED BY <1>2, <2>1 DEF Posted
<1> QED BY <1>1, <1>2

YesIsPosted == Posted(events, yes) /\ \A l \in Loops : Posted(mail[l], yes)

\* Every approval in a queue was posted, and what was posted stays so.
LEMMA NextPosted ==
  ASSUME Typed, YesIsPosted, [Next]_vars PROVE YesIsPosted' /\ yes \subseteq yes'
<1>0. /\ events \in Seq(Cmds) /\ mail \in [Loops -> Seq(Cmds)]
      /\ \A l \in routing : mail[l] # <<>>
  BY DEF Typed, TypeOK, Cmds, CascadeHolds
<1>1. CASE UNCHANGED <<mail, yes>> /\ events' \in {events, Tail(events)} /\ (events' # events => events # <<>>)
  BY <1>0, <1>1, PostedFacts DEF YesIsPosted
<1>2. CASE Drive
  <2>1. UNCHANGED <<mail, yes>>
    BY <1>2, DriveRest DEF Typed
  <2>2. events' = events \/ (events # <<>> /\ events' = Tail(events))
    BY <1>2 DEF Drive, StartTask, Attach, Register, Top, Advances, LoadContext, Plan, Execute,
       Verify, Patch, Wait, Stop, Settle, ArmFrame, sharedVars
  <2> QED BY <1>1, <2>1, <2>2
<1>3. ASSUME NEW l \in Loops, Loop(l) PROVE YesIsPosted' /\ yes' = yes
  <2>1. mail[l] # <<>> /\ yes' = yes
    BY <1>0, <1>3 DEF Loop, Route, Cascade, Handoff, histVars
  <2>2. Head(mail[l]) \in Cmds /\ mail[l] \in Seq(Cmds)
    BY <1>0, <2>1, CmdFacts
  <2>3. /\ Posted(Tail(mail[l]), yes)
        /\ Head(mail[l]).kind = "approve" => Head(mail[l]).id \in yes
        /\ Posted(Append(events, Head(mail[l])), yes)
    BY <1>0, <2>1, <2>2, PostedFacts DEF YesIsPosted
  <2>4. mail' \in {mail, [mail EXCEPT ![l] = Tail(@)]}
        /\ events' \in {events, Append(events, Head(mail[l]))}
    BY <1>3 DEF Loop, Route, Cascade, Handoff, SendUserCmd
  <2> QED BY <1>0, <2>1, <2>3, <2>4 DEF YesIsPosted
<1>4. CASE Post
  <2>1. PICK c \in Commands :
          /\ mail' = [l \in Loops |-> Append(mail[l], c)]
          /\ yes' = IF c.kind = "approve" THEN yes \union {c.id} ELSE yes
    BY <1>4 DEF Post
  <2>2. c \in Cmds
    BY CommandType DEF Typed
  <2>3. yes \subseteq yes' /\ (c.kind = "approve" => c.id \in yes')
    BY <2>1
  <2>4. Posted(events, yes') /\ \A l \in Loops : Posted(mail[l], yes')
    BY <2>3 DEF YesIsPosted, Posted
  <2>5. \A l \in Loops : mail'[l] = Append(mail[l], c) /\ Posted(Append(mail[l], c), yes')
    BY <1>0, <2>1, <2>2, <2>3, <2>4, PostedFacts
  <2>6. events' = events
    BY <1>4 DEF Post, sharedVars
  <2> QED BY <2>3, <2>4, <2>5, <2>6 DEF YesIsPosted
<1>5. CASE Quit \/ UNCHANGED vars \/ \E p \in Procs : SessionStep(p)
  BY <1>1, <1>5 DEF Quit, SessionStep, CancelCheck, Mark, Save, Tell, vars, sharedVars,
     loopVars, histVars
<1> QED BY <1>2, <1>3, <1>4, <1>5 DEF Next

\* The user approved a prompt that asked about c.
Answered(c) == \E i \in yes : i \in 1..Len(prompts) /\ prompts[i] = c

\* h.approved is up only between the approval and the dispatch of the call it
\* was given for, or on the way out.
FlagIsFresh ==
    /\ approved => fsm \in {"EXECUTE", "CANCELLED"}
    /\ approved /\ fsm = "EXECUTE" => pending # <<>> /\ Answered(Head(pending))

ApprovedInv ==
    /\ fsm # "PAUSED"
    /\ PromptStands
    /\ YesIsPosted
    /\ FlagIsFresh
    /\ \A c \in ran \intersect Gated : Answered(c)

\* An answer stays an answer: prompts are only added, and so are approvals.
LEMMA AnsweredStays ==
  ASSUME Typed, YesIsPosted, [Next]_vars, NEW c, Answered(c) PROVE Answered(c)'
<1>1. PICK i \in yes : i \in 1..Len(prompts) /\ prompts[i] = c
  BY DEF Answered
<1>2. yes \subseteq yes'
  BY NextPosted
<1>3. prompts \in Seq(planned) /\ Len(prompts) \in Nat
  BY LenProperties DEF Typed, TypeOK
<1>4. CASE prompts' = prompts
  BY <1>1, <1>2, <1>4 DEF Answered
<1>5. CASE pending # <<>> /\ AskApproval
  <2>1. prompts' = Append(prompts, Head(pending))
    BY <1>5 DEF AskApproval
  <2>2. Len(prompts') = Len(prompts) + 1 /\ prompts'[i] = prompts[i]
    BY <1>1, <1>3, <2>1
  <2>3. i \in 1..Len(prompts')
    BY <1>1, <1>3, <2>2
  <2> QED BY <1>1, <1>2, <2>2, <2>3 DEF Answered
<1>6. CASE Drive /\ prompts' # prompts
  <2>1. ASSUME events # <<>>, ApplyUserCmd(Head(events)) PROVE prompts' = prompts
    BY <2>1 DEF ApplyUserCmd, taskVars
  <2>2. pending # <<>> /\ AskApproval
    BY <1>6, <2>1 DEF Drive, StartTask, Attach, Register, Top, Advances, LoadContext, Plan,
       Execute, Dispatch, Verify, Patch, Wait, Stop, Settle, taskVars, QueueVars
  <2> QED BY <1>5, <2>2
<1>7. CASE ~Drive
  BY <1>4, <1>7, OnlyDrive DEF taskVars
<1> QED BY <1>4, <1>6, <1>7

\* One command: an approval raises the flag for the call that was asked about.
LEMMA CommandApproved ==
  ASSUME Typed, ApprovedInv, "pause" \notin Kinds, events # <<>>,
         ApplyUserCmd(Head(events)), UNCHANGED <<yes, ran>>
  PROVE  FlagIsFresh' /\ \A c \in ran' \intersect Gated : Answered(c)'
<1> DEFINE c == Head(events)
<1>1. c \in Cmds /\ c.kind # "pause" /\ c.kind \in Kinds
  BY CmdFacts DEF Typed, TypeOK, Cmds
<1>2. c.kind = "approve" => c.id \in yes
  <2>1. events \in Seq(Cmds)
    BY DEF Typed, TypeOK, Cmds
  <2> QED BY <2>1, PostedFacts DEF ApprovedInv, YesIsPosted
<1> HIDE DEF c
<1>3. prompts \in Seq(planned) /\ approvalID \in 0..Len(prompts) /\ Len(prompts) \in Nat
  BY LenProperties DEF Typed, TypeOK
<1>4. UNCHANGED <<prompts, pending>>
  BY DEF ApplyUserCmd, taskVars
<1>5. CASE UNCHANGED <<taskVars, call>>
  BY <1>5 DEF ApprovedInv, FlagIsFresh, Answered, taskVars
<1>6. CASE /\ c.kind = "approve" /\ c.id = approvalID /\ approvalID # 0
           /\ fsm = "WAIT_USER" /\ fsm' = "EXECUTE" /\ approved'
  <2>1. pending # <<>> /\ prompts[approvalID] = Head(pending)
    BY <1>6 DEF ApprovedInv, PromptStands
  <2>2. approvalID \in 1..Len(prompts) /\ approvalID \in yes
    BY <1>2, <1>3, <1>6
  <2> QED BY <1>4, <1>6, <2>1, <2>2 DEF ApprovedInv, FlagIsFresh, Answered
<1>7. CASE fsm' = "CANCELLED"
  BY <1>4, <1>7 DEF ApprovedInv, FlagIsFresh, Answered
<1> QED
  BY <1>1, <1>5, <1>6, <1>7, CommandEffect DEF ApprovedInv, Typed, c

\* Every step keeps the approval flag for the call it was given for.
LEMMA NextApproved ==
  ASSUME Typed, ApprovedInv, "pause" \notin Kinds, [Next]_vars
  PROVE  FlagIsFresh' /\ \A c \in ran' \intersect Gated : Answered(c)'
<1>0. \A c : Answered(c) => Answered(c)'
  BY AnsweredStays DEF ApprovedInv
<1>s. fsm \in States /\ approved \in BOOLEAN
  BY DEF Typed, TypeOK
<1>r. ASSUME ran' \subseteq ran \union {Correction}
      PROVE  \A c \in ran' \intersect Gated : Answered(c)'
  BY <1>0, <1>r, RuntimeAssumption DEF ApprovedInv
<1>1. CASE UNCHANGED <<taskVars, ran>>
  BY <1>0, <1>1, <1>r DEF ApprovedInv, FlagIsFresh, taskVars
<1>2. CASE StartTask \/ Attach \/ Register \/ Settle \/ Stop
  BY <1>1, <1>2 DEF StartTask, Attach, Register, Settle, Stop, taskVars, histVars
<1>3. CASE Advances \/ LoadContext \/ Plan \/ Verify \/ Patch
  <2>1. fsm \notin {"EXECUTE", "CANCELLED"} /\ approved' = approved
    BY <1>3 DEF Advances, LoadContext, Plan, Verify, Patch, In, QueueVars
  <2>2. ~approved
    BY <2>1 DEF ApprovedInv, FlagIsFresh
  <2>3. ran' \subseteq ran \union {Correction}
    BY <1>3 DEF Advances, LoadContext, Plan, Verify, Patch
  <2> QED BY <1>r, <2>1, <2>2, <2>3 DEF FlagIsFresh
<1>4. CASE Execute
  <2>1. fsm = "EXECUTE"
    BY <1>4 DEF Execute, In
  <2>2. CASE pending = <<>> /\ UNCHANGED <<approved, ran>>
    <3>1. ~approved
      BY <2>1, <2>2 DEF ApprovedInv, FlagIsFresh
    <3> QED BY <1>r, <2>2, <3>1 DEF FlagIsFresh
  <2>3. CASE GivesUp /\ UNCHANGED <<pending, approved, ran>>
    <3>1. fsm' \in {fsm, "CANCELLED"}
      BY <1>s, <2>3, LandsFacts, LookupFacts DEF GivesUp
    <3> QED BY <1>0, <1>r, <2>1, <2>3, <3>1 DEF ApprovedInv, FlagIsFresh
  <2>4. CASE NeedsApproval(Head(pending)) /\ AskApproval
    BY <1>r, <2>4 DEF NeedsApproval, AskApproval, FlagIsFresh
  <2>5. CASE ~NeedsApproval(Head(pending)) /\ Dispatch
    <3>1. approved' = FALSE /\ ran' = ran \union {Head(pending)}
      BY <2>5 DEF Dispatch
    <3>2. Head(pending) \in Gated => Answered(Head(pending))
      BY <2>1, <2>5 DEF NeedsApproval, ApprovedInv, FlagIsFresh
    <3> QED BY <1>0, <3>1, <3>2 DEF ApprovedInv, FlagIsFresh
  <2> QED BY <1>4, <2>2, <2>3, <2>4, <2>5 DEF Execute
<1>5. CASE Top
  BY <1>1, <1>5, CommandApproved DEF Top, histVars
<1>6. CASE Wait
  <2>1. CASE Lands("user_cancel") /\ UNCHANGED <<QueueVars, yes, ran>>
    <3>1. fsm' \in {fsm, "CANCELLED"}
      BY <1>s, <2>1, LandsFacts, LookupFacts
    <3> QED BY <1>0, <1>r, <2>1, <3>1 DEF ApprovedInv, FlagIsFresh, QueueVars
  <2> QED BY <1>6, <2>1, CommandApproved DEF Wait, histVars
<1>7. CASE ~Drive
  BY <1>1, <1>7, OnlyDrive
<1> QED BY <1>2, <1>3, <1>4, <1>5, <1>6, <1>7 DEF Drive

(* ApprovedByHuman: a call that is gated runs only after a human has       *)
(* approved the prompt that named it (core.go, dispatch), for every user   *)
(* who does not pause.  With a pause it is false of the code: that is the  *)
(* run staleyes.                                                           *)
THEOREM ApprovedAlwaysByHuman ==
  ASSUME "pause" \notin Kinds PROVE Spec => []ApprovedByHuman
<1>1. Init => ApprovedInv
  BY DEF Init, ApprovedInv, PromptStands, YesIsPosted, Posted, FlagIsFresh
<1>2. Typed /\ ApprovedInv /\ [Next]_vars => ApprovedInv'
  <2> SUFFICES ASSUME Typed, ApprovedInv, [Next]_vars PROVE ApprovedInv'
    OBVIOUS
  <2>1. fsm' # "PAUSED"
    <3>1. CASE Drive
      BY <3>1, PausedByCommand DEF Typed, ApprovedInv
    <3>2. CASE ~Drive
      BY <3>2, OnlyDrive DEF ApprovedInv, taskVars
    <3> QED BY <3>1, <3>2
  <2> QED BY <2>1, NextPrompt, NextPosted, NextApproved DEF Typed, ApprovedInv
<1>3. Typed /\ ApprovedInv => ApprovedByHuman
  <2> SUFFICES ASSUME Typed, ApprovedInv, NEW c \in ran \intersect Gated
               PROVE  \E i \in yes \ {0} : prompts[i] = c
    BY DEF ApprovedByHuman
  <2>1. PICK i \in yes : i \in 1..Len(prompts) /\ prompts[i] = c
    BY DEF ApprovedInv, Answered
  <2>2. i # 0
    <3>1. Len(prompts) \in Nat
      BY LenProperties DEF Typed, TypeOK
    <3> QED BY <2>1, <3>1
  <2> QED BY <2>1, <2>2
<1> QED BY <1>1, <1>2, <1>3, AlwaysTyped, PTL DEF Spec

-----------------------------------------------------------------------------
(* The ending: one Core on the Manager, a user who waits for the task to be *)
(* registered and does not pause.  Elsewhere two routes may end a task      *)
(* differently (README, divergences).                                       *)

\* Nobody but the drive goroutine is in the Manager while the loop runs, and
\* after it there are only cancels.
Quiet ==
    /\ pc \in {"submit", "attach", "register", "failed"} =>
          mem \notin Terminal /\ told = <<>> /\ mail[Owner] = <<>> /\ Idle(Driver)
    /\ handle # "returned" => Idle(Owner)
    /\ handle = "returned" => \A p \in Procs : call[p].op \in {"none", "cancel"}

\* The loop that still runs for an ended task is on its way out.
Leaving == pc \in {"top", "arm"} /\ (mem \in Terminal \/ ~Idle(Driver)) =>
             fsm \in {"DONE", "CANCELLED"}

\* Who has marked the task works on the ending in the map, and who is about to
\* mark it will not replace another.
InStep(p) ==
    /\ call[p].at \in {"save", "tell"} => mem = Outcome[call[p].op]
    /\ call[p].at = "tell" => disk = mem
    /\ call[p].at = "mark" /\ call[p].op = "complete" => mem \notin Terminal
    /\ call[p].at = "mark" /\ call[p].op = "cancel" => mem \notin {"DONE", "FAILED"}
    /\ call[p].at = "check" => call[p].op = "cancel"

EndInv ==
    /\ Typed /\ Placed /\ fsm # "PAUSED"
    /\ Quiet /\ Leaving /\ \A p \in Procs : InStep(p)
    /\ EndingsAgree /\ (told # <<>> => mem \in Terminal)

\* At the start there is no ending to agree on.
LEMMA InitEnding == ASSUME Init PROVE EndInv
<1>1. Quiet /\ Leaving /\ \A p \in Procs : InStep(p)
  BY DEF Init, Quiet, Leaving, InStep, Idle, NoCall, Terminal, Procs, Loops
<1>2. EndingsAgree /\ told = <<>>
  BY DEF Init, EndingsAgree
<1> QED BY <1>1, <1>2, InitTyped, InitPlaced DEF EndInv, Init

\* What the arms do to an ended task, and to the record of one: a completion
\* and a dispatch come from a state no ended task is in.
LEMMA ArmEnding ==
  ASSUME Typed, fsm # "PAUSED", "pause" \notin Kinds, Arms
  PROVE  /\ fsm \in {"DONE", "CANCELLED"} /\ pc' \in {"top", "arm"} => fsm' \in {"DONE", "CANCELLED"}
         /\ call' # call /\ pc' \in {"top", "arm"} => fsm' \in {"DONE", "CANCELLED"}
         /\ call'[Driver].op = "complete" \/ ran' # ran => fsm \notin {"DONE", "CANCELLED"}
<1> USE DEF Typed
<1>0. /\ fsm \in States /\ Idle(Driver) /\ Driver \in Procs
      /\ call \in [Procs -> {NoCall} \union CallRecs]
  BY ArmFacts DEF TypeOK, CallRecs, Procs
<1>1. CASE Advances \/ LoadContext \/ Plan \/ Execute \/ Verify \/ Patch
  <2>1. fsm \notin {"DONE", "CANCELLED"}
    BY <1>1 DEF Advances, LoadContext, Plan, Execute, Verify, Patch, In
  <2>2. ToError \/ GivesUp \/ CancelOrError => pc' = "settle"
    BY DEF ToError, GivesUp, CancelOrError
  <2>3. call' # call /\ pc' \in {"top", "arm"} => Verify /\ Fires("verify_pass_done", "top")
    <3>1. Fires("planner_answer", "settle") => pc' = "settle"
      BY DEF Fires
    <3>2. CASE Advances \/ LoadContext \/ Plan
      BY <2>2, <3>1, <3>2 DEF Advances, LoadContext, Plan
    <3>3. CASE Execute \/ Patch
      BY <2>2, <3>3 DEF Execute, AskApproval, Dispatch, Patch
    <3>4. CASE Verify
      BY <2>2, <3>4 DEF Verify, Reflect, Passed
    <3> QED BY <1>1, <3>2, <3>3, <3>4
  <2>4. Fires("verify_pass_done", "top") /\ pc' \in {"top", "arm"} => fsm' = "DONE"
    BY <1>0, LookupFacts DEF Fires
  <2> QED BY <2>1, <2>3, <2>4
<1>2. ASSUME events # <<>>, ApplyUserCmd(Head(events)), UNCHANGED ran
      PROVE  /\ fsm \in {"DONE", "CANCELLED"} => fsm' \in {"DONE", "CANCELLED"}
             /\ call' # call => fsm' \in {"DONE", "CANCELLED"}
             /\ call'[Driver].op # "complete"
  <2>1. Head(events) \in Cmds /\ Head(events).kind # "pause"
    BY <1>2, CmdFacts DEF TypeOK, Cmds
  <2>2. call'[Driver].op \in {"none", "cancel"}
    <3>1. Enters(Driver, "cancel", TRUE) => call'[Driver].op = "cancel"
      BY <1>0 DEF Enters
    <3>2. call' = call => call'[Driver].op = "none"
      BY <1>0 DEF Idle, NoCall
    <3> QED BY <1>2, <2>1, <3>1, <3>2, UserCmdFacts
  <2> QED BY <1>2, <2>1, <2>2, CommandEffect DEF taskVars
<1>3. call' = call \/ Enters(Driver, "cancel", TRUE) => call'[Driver].op # "complete"
  BY <1>0 DEF Enters, Idle, NoCall
<1>4. CASE Top
  BY <1>2, <1>3, <1>4 DEF Top, taskVars, histVars
<1>5. CASE Wait
  BY <1>2, <1>3, <1>5 DEF Wait, In, histVars
<1>6. CASE Stop
  BY <1>3, <1>6 DEF Stop
<1> QED BY <1>1, <1>4, <1>5, <1>6 DEF Arms

\* The writer of an ending finds either no ending in the map or its own.
LEMMA MarkEnding ==
  ASSUME EndInv, NEW p \in Procs, SessionStep(p)
  PROVE  /\ call[p] \in CallRecs /\ ~Idle(p)
         /\ \A q \in Procs \ {p} : call'[q] = call[q]
         /\ mem \in Terminal => mem' = mem
         /\ mem' # mem => Mark(p) /\ mem' = Outcome[call[p].op] /\ mem' \in Terminal
<1> USE DEF EndInv
<1>1. call[p] \in CallRecs /\ ~Idle(p)
  BY DEF SessionStep, CancelCheck, Mark, Save, Tell, NoCall, Idle, Typed, TypeOK, CallRecs
<1>2. \A q \in Procs \ {p} : call'[q] = call[q]
  BY DEF SessionStep, CancelCheck, Mark, Save, Tell, Leaves, GoesTo, Typed, TypeOK
<1>3. mem' # mem => Mark(p) /\ mem' = Outcome[call[p].op] /\ MayMark(call[p].op)
  BY DEF SessionStep, CancelCheck, Mark, Save, Tell
<1>4. Outcome[call[p].op] \in Terminal
  BY <1>1 DEF CallRecs, Outcome, Terminal
<1>5. mem' # mem => mem \notin Terminal
  <2> SUFFICES ASSUME mem' # mem, mem \in Terminal PROVE FALSE
    OBVIOUS
  <2>1. call[p].at = "mark" /\ call[p].op # "fail"
    BY <1>3 DEF Mark, MayMark
  <2>2. call[p].op = "cancel" /\ mem = "CANCELLED"
    BY <1>1, <2>1 DEF CallRecs, InStep, Terminal
  <2> QED BY <1>3, <2>2 DEF Outcome
<1> QED BY <1>1, <1>2, <1>3, <1>4, <1>5

\* The steps inside the Manager: a mark meets the ending it may not replace,
\* and what is saved and told is what the map says.
LEMMA SessionEnding ==
  ASSUME EndInv, Peers = {}, NEW p \in Procs, SessionStep(p)
  PROVE  /\ Quiet' /\ Leaving' /\ (\A q \in Procs : InStep(q)')
         /\ EndingsAgree' /\ (told' # <<>> => mem' \in Terminal)
<1> USE DEF EndInv
<1>1. /\ call[p] \in CallRecs /\ ~Idle(p)
      /\ \A q \in Procs \ {p} : call'[q] = call[q]
      /\ mem \in Terminal => mem' = mem
      /\ mem' # mem => Mark(p) /\ mem' = Outcome[call[p].op] /\ mem' \in Terminal
  BY MarkEnding
<1>2. UNCHANGED <<fsm, pc, handle, mail>>
  BY DEF SessionStep, CancelCheck, Mark, Save, Tell, taskVars, subVars, sharedVars, loopVars
<1>3. Procs = {Owner, Driver} /\ Owner # Driver
  BY RuntimeAssumption DEF Procs, Loops
<1>4. pc \notin {"submit", "attach", "register", "failed"}
  <2>1. CASE pc \in {"submit", "attach", "register", "failed"}
    <3>1. Idle(Driver) /\ Idle(Owner)
      BY <2>1 DEF Quiet, Placed
    <3> QED BY <1>1, <1>3, <3>1
  <2> QED BY <2>1
<1>5. call'[p].op \in {"none", call[p].op}
  BY <1>1 DEF SessionStep, CancelCheck, Mark, Save, Tell, Leaves, GoesTo, NoCall, CallRecs,
     Typed, TypeOK
<1>6. Quiet'
  <2>1. handle' # "returned" => Idle(Owner)'
    BY <1>1, <1>2, <1>3 DEF Quiet, Idle
  <2>2. handle' = "returned" => \A q \in Procs : call'[q].op \in {"none", "cancel"}
    BY <1>1, <1>2, <1>5 DEF Quiet
  <2> QED BY <1>2, <1>4, <2>1, <2>2 DEF Quiet
<1>7. Leaving'
  <2> SUFFICES ASSUME pc' \in {"top", "arm"} PROVE fsm' \in {"DONE", "CANCELLED"} \/
                 (mem' \notin Terminal /\ Idle(Driver)')
    BY DEF Leaving
  <2>1. p = Driver
    BY <1>1, <1>2, <1>3 DEF Placed, Quiet
  <2> QED BY <1>1, <1>2, <2>1 DEF Leaving
<1>8. \A q \in Procs \ {p} : ~Idle(q) => call[p].op = "cancel" /\ call[q].op = "cancel"
  <2> SUFFICES ASSUME NEW q \in Procs \ {p}, ~Idle(q)
               PROVE  call[p].op = "cancel" /\ call[q].op = "cancel"
    OBVIOUS
  <2>1. handle = "returned"
    BY <1>1, <1>3 DEF Quiet
  <2>2. call[q] \in CallRecs
    BY DEF Typed, TypeOK, CallRecs, Idle
  <2> QED BY <1>1, <2>1, <2>2 DEF Quiet, CallRecs
<1>9. /\ disk' = disk \/ (Save(p) /\ disk' = Outcome[call[p].op] /\ mem' = mem)
      /\ call'[p].at = "tell" => Save(p) /\ disk' = Outcome[call[p].op]
  BY <1>1 DEF SessionStep, CancelCheck, Mark, Save, Tell, Leaves, GoesTo, NoCall, CallRecs,
     Typed, TypeOK
<1>10. disk' # disk => disk' = mem /\ mem' = mem
  BY <1>9 DEF Save, InStep
<1>11. \A q \in Procs \ {p} : InStep(q)'
  <2> SUFFICES ASSUME NEW q \in Procs \ {p} PROVE InStep(q)'
    OBVIOUS
  <2>1. CASE Idle(q)
    BY <1>1, <2>1 DEF InStep, Idle, NoCall
  <2>2. CASE ~Idle(q) /\ mem' = mem
    BY <1>1, <1>10, <2>2 DEF InStep
  <2>3. CASE ~Idle(q) /\ mem' # mem
    <3>1. mem' = "CANCELLED" /\ call[q].op = "cancel" /\ mem \notin Terminal
      BY <1>1, <1>8, <2>3 DEF Outcome
    <3>2. call[q].at \notin {"save", "tell"}
      BY <3>1 DEF InStep, Outcome, Terminal
    <3>3. call'[q] = call[q]
      BY <1>1
    <3> QED BY <3>1, <3>2, <3>3 DEF InStep
  <2> QED BY <2>1, <2>2, <2>3
<1>12. InStep(p)'
  <2>1. CASE CancelCheck(p)
    <3>1. UNCHANGED <<mem, disk>>
      BY <2>1 DEF CancelCheck
    <3>2. CASE Leaves(p)
      BY <1>1, <3>2 DEF Leaves, NoCall, InStep, Typed, TypeOK
    <3>3. CASE Cancellable /\ GoesTo(p, "mark")
      <4>1. call'[p].at = "mark" /\ mem \notin Terminal
        BY <1>1, <3>3 DEF GoesTo, Cancellable, Typed, TypeOK, CallRecs
      <4> QED BY <3>1, <4>1 DEF InStep, Terminal
    <3> QED BY <2>1, <3>2, <3>3 DEF CancelCheck
  <2>2. CASE Mark(p)
    <3>1. CASE Leaves(p)
      BY <1>1, <3>1 DEF Leaves, NoCall, InStep, Typed, TypeOK
    <3>2. CASE mem' = Outcome[call[p].op] /\ GoesTo(p, "save")
      <4>1. call'[p].at = "save" /\ call'[p].op = call[p].op
        BY <1>1, <3>2 DEF GoesTo, Typed, TypeOK, CallRecs
      <4> QED BY <3>2, <4>1 DEF InStep
    <3> QED BY <2>2, <3>1, <3>2 DEF Mark
  <2>3. CASE Save(p)
    <3>1. mem' = mem /\ mem = Outcome[call[p].op]
      BY <2>3 DEF Save, InStep
    <3>2. CASE Leaves(p)
      BY <1>1, <3>2 DEF Leaves, NoCall, InStep, Typed, TypeOK
    <3>3. CASE disk' = Outcome[call[p].op] /\ GoesTo(p, "tell")
      <4>1. call'[p].at = "tell" /\ call'[p].op = call[p].op
        BY <1>1, <3>3 DEF GoesTo, Typed, TypeOK, CallRecs
      <4> QED BY <3>1, <3>3, <4>1 DEF InStep
    <3> QED BY <2>3, <3>2, <3>3 DEF Save
  <2>4. CASE Tell(p)
    BY <1>1, <2>4 DEF Tell, Leaves, NoCall, InStep, Typed, TypeOK
  <2> QED BY <2>1, <2>2, <2>3, <2>4 DEF SessionStep
<1>13. EndingsAgree' /\ (told' # <<>> => mem' \in Terminal)
  <2>1. CASE told' = told
    <3>1. told # <<>> => mem' = mem
      BY <1>1
    <3>2. told \in Seq(Terminal)
      BY DEF Typed, TypeOK
    <3>3. \A i \in DOMAIN told : told # <<>>
      BY <3>2
    <3> QED BY <1>10, <2>1, <3>1, <3>3 DEF EndingsAgree
  <2>2. CASE told' # told
    <3>1. /\ told' = Append(told, Outcome[call[p].op]) /\ UNCHANGED <<mem, disk>>
          /\ call[p].at = "tell"
      BY <2>2 DEF SessionStep, CancelCheck, Mark, Save, Tell
    <3>2. Outcome[call[p].op] = mem /\ disk = mem /\ mem \in Terminal
      <4>1. Outcome[call[p].op] = mem /\ disk = mem
        BY <3>1 DEF InStep
      <4> QED BY <1>1, <4>1 DEF CallRecs, Outcome, Terminal
    <3>3. told \in Seq(Terminal) /\ Len(told) \in Nat
      BY LenProperties DEF Typed, TypeOK
    <3>4. \A i \in DOMAIN told' : told'[i] = mem
      <4>1. \A i \in 1..Len(told) : told[i] = mem
        BY <3>3 DEF EndingsAgree
      <4> QED BY <3>1, <3>2, <3>3, <4>1
    <3> QED BY <3>1, <3>2, <3>4 DEF EndingsAgree
  <2> QED BY <2>1, <2>2
<1> QED BY <1>6, <1>7, <1>11, <1>12, <1>13

\* The other steps leave the record alone, but for StartTask which opens it.
LEMMA OtherEnding ==
  ASSUME EndInv, Peers = {}, ~EarlyUser, "pause" \notin Kinds, [Next]_vars,
         ~\E p \in Procs : SessionStep(p)
  PROVE  /\ Quiet' /\ Leaving' /\ (\A q \in Procs : InStep(q)')
         /\ EndingsAgree' /\ (told' # <<>> => mem' \in Terminal)
         /\ mem \in Terminal => mem' = mem
<1> USE DEF EndInv
<1>1. Procs = {Owner, Driver} /\ Owner # Driver /\ Loops = {Owner}
  BY RuntimeAssumption DEF Procs, Loops
<1>2. CASE StartTask
  <2>1. /\ pc = "submit" /\ mem' = "PENDING" /\ pc' \in {"attach", "failed"}
        /\ UNCHANGED <<handle, call, told, mail>>
    BY <1>2 DEF StartTask, sharedVars, loopVars
  <2>2. Idle(Owner) /\ Idle(Driver) /\ told = <<>> /\ mail[Owner] = <<>> /\ handle = "none"
        /\ mem \notin Terminal
    BY <2>1 DEF Quiet, Placed
  <2>3. \A q \in Procs : call'[q] = NoCall
    BY <1>1, <2>1, <2>2 DEF Idle
  <2> QED BY <2>1, <2>2, <2>3
      DEF Quiet, Leaving, InStep, Idle, NoCall, Terminal, EndingsAgree
<1>3. CASE mem' = mem /\ disk' = disk /\ told' = told /\ ~StartTask
  <2>1. EndingsAgree' /\ (told' # <<>> => mem' \in Terminal)
    BY <1>3 DEF EndingsAgree
  <2>2. CASE Attach \/ Register
    <3>1. pc \in {"attach", "register"} /\ pc' \in {"register", "top"} /\ UNCHANGED <<call, mail>>
          /\ handle' # "returned" /\ handle # "returned"
      BY <2>2 DEF Attach, Register, recVars, loopVars, Placed
    <3> QED BY <1>3, <2>1, <3>1 DEF Quiet, Leaving, InStep, Idle
  <2>3. CASE Settle
    <3>1. /\ Idle(Driver) /\ handle = "driving" /\ handle' = "returned" /\ pc' = "returned"
          /\ Idle(Owner)
      BY <2>3 DEF Settle, Placed, Quiet
    <3>2. call' = call \/ Enters(Driver, "cancel", TRUE)
      BY <2>3 DEF Settle
    <3>3. /\ call'[Owner] = NoCall /\ call'[Driver].op \in {"none", "cancel"}
          /\ call'[Driver].at \in {"none", "check"}
          /\ call'[Driver].at = "check" => call'[Driver].op = "cancel"
      <4>1. CASE call' = call
        BY <3>1, <4>1 DEF Idle, NoCall
      <4>2. CASE Enters(Driver, "cancel", TRUE)
        <5>1. /\ call'[Driver] = [op |-> "cancel", at |-> "check", bg |-> TRUE]
              /\ call'[Owner] = call[Owner]
          BY <1>1, <4>2 DEF Enters, Typed, TypeOK
        <5> QED BY <3>1, <5>1 DEF Idle
      <4> QED BY <3>2, <4>1, <4>2
    <3>4. \A q \in Procs : call'[q].op \in {"none", "cancel"} /\ InStep(q)'
      BY <1>1, <3>3 DEF InStep, NoCall
    <3> QED BY <1>3, <2>1, <3>1, <3>4 DEF Quiet, Leaving
  <2>4. CASE Arms
    <3>1. /\ pc \in {"top", "arm"} /\ pc' \in {"top", "arm", "settle"} /\ Idle(Driver)
          /\ UNCHANGED <<handle, mail>>
      BY <2>4, ArmFacts DEF Typed
    <3>2. /\ handle # "returned" /\ Idle(Owner)
          /\ pc' \notin {"submit", "attach", "register", "failed"}
      BY <3>1 DEF Placed, Quiet
    <3>3. call'[Owner] = call[Owner]
      <4>1. call' = call \/ \E op \in {"cancel", "complete", "fail"}, bg \in BOOLEAN : Enters(Driver, op, bg)
        BY <2>4, DriveMoves DEF Drive, Arms, Typed
      <4> QED BY <1>1, <4>1 DEF Enters, Typed, TypeOK
    <3>4. Quiet'
      BY <3>1, <3>2, <3>3 DEF Quiet, Idle
    <3>5. Leaving'
      <4> SUFFICES ASSUME pc' \in {"top", "arm"}, mem' \in Terminal \/ ~Idle(Driver)'
                   PROVE  fsm' \in {"DONE", "CANCELLED"}
        BY DEF Leaving
      <4>1. CASE mem' \in Terminal
        BY <1>3, <2>4, <3>1, <4>1, ArmEnding DEF Leaving
      <4>2. CASE ~Idle(Driver)'
        <5>1. call' # call
          BY <3>1, <4>2 DEF Idle
        <5> QED BY <2>4, <5>1, ArmEnding
      <4> QED BY <4>1, <4>2
    <3>6. InStep(Owner)'
      BY <1>3, <3>2, <3>3 DEF InStep, Idle, NoCall
    <3>7. InStep(Driver)'
      <4>1. CASE call'[Driver] = call[Driver]
        BY <1>3, <3>1, <4>1 DEF InStep, Idle, NoCall
      <4>2. CASE Entering(Driver)
        <5>1. /\ call'[Driver].at \in {"check", "mark"}
              /\ call'[Driver].at = "check" <=> call'[Driver].op = "cancel"
          BY <4>2 DEF Entering
        <5>2. call'[Driver].op = "complete" => mem \notin Terminal
          BY <2>4, <3>1, ArmEnding DEF Leaving
        <5> QED BY <1>3, <5>1, <5>2 DEF InStep
      <4>3. call'[Driver] = call[Driver] \/ Entering(Driver)
        <5>1. ASSUME NEW l \in Loops, Entering(l) PROVE call'[Driver] = call[Driver]
          BY <1>1, <5>1 DEF Entering
        <5> QED BY <5>1, CallMoves
      <4> QED BY <4>1, <4>2, <4>3
    <3> QED BY <1>1, <1>3, <2>1, <3>4, <3>5, <3>6, <3>7
  <2>5. CASE Loop(Owner)
    <3>1. mail[Owner] # <<>> /\ UNCHANGED <<fsm, pc, handle>>
      BY <2>5 DEF Loop, Route, Cascade, Handoff, Typed, CascadeHolds, taskVars, subVars, recVars
    <3>2. pc \notin {"submit", "attach", "register", "failed"}
      BY <3>1 DEF Quiet
    <3>3. CASE call' = call
      BY <1>3, <2>1, <3>1, <3>2, <3>3 DEF Quiet, Leaving, InStep, Idle
    <3>4. CASE call' # call
      <4>1. ~DrivenHere(Owner) /\ Enters(Owner, "cancel", TRUE)
        BY <2>5, <3>4 DEF Loop, Route, Cascade, Handoff, recVars
      <4>2. handle = "returned"
        BY <3>2, <4>1 DEF DrivenHere, Placed, Typed, TypeOK
      <4>3. call'[Owner] = [op |-> "cancel", at |-> "check", bg |-> TRUE]
            /\ call'[Driver] = call[Driver]
        BY <1>1, <4>1 DEF Enters, Typed, TypeOK
      <4>4. InStep(Owner)' /\ InStep(Driver)'
        BY <1>1, <1>3, <4>3 DEF InStep
      <4>5. Quiet'
        BY <1>1, <3>1, <3>2, <4>2, <4>3 DEF Quiet
      <4>6. Leaving'
        BY <1>3, <3>1, <4>3 DEF Leaving, Idle
      <4> QED BY <1>1, <1>3, <2>1, <4>4, <4>5, <4>6
    <3> QED BY <3>3, <3>4
  <2>6. CASE Post
    <3>1. /\ handle \in {"driving", "returned"}
          /\ UNCHANGED <<fsm, pc, handle, call>>
      BY <2>6 DEF Post, MayAct, taskVars, subVars, sharedVars, recVars
    <3>2. pc \notin {"submit", "attach", "register", "failed"}
      BY <3>1 DEF Placed
    <3> QED BY <1>3, <2>1, <3>1, <3>2 DEF Quiet, Leaving, InStep, Idle
  <2>7. CASE Quit \/ UNCHANGED vars
    <3>1. UNCHANGED <<fsm, pc, handle, call, mail>>
      BY <2>7 DEF Quit, vars, taskVars, subVars, sharedVars, recVars, loopVars
    <3> QED BY <1>3, <2>1, <3>1 DEF Quiet, Leaving, InStep, Idle
  <2> QED BY <1>1, <1>3, <2>2, <2>3, <2>4, <2>5, <2>6, <2>7 DEF Next, Drive, Arms
<1>4. StartTask \/ (mem' = mem /\ disk' = disk /\ told' = told)
  <2>1. CASE Drive
    <3>1. told' = told
      BY <2>1, DriveRest DEF Typed
    <3> QED BY <2>1, <3>1, ArmFacts DEF Drive, Arms, Attach, Register, Settle, recVars, Typed
  <2>2. CASE ~Drive
    BY <2>2 DEF Next, Loop, Route, Cascade, Handoff, Post, Quit, vars, recVars
  <2> QED BY <2>1, <2>2
<1> QED BY <1>2, <1>3, <1>4

\* Every step keeps the invariant, and an ending once in the map.
LEMMA NextEnding ==
  ASSUME EndInv, Peers = {}, ~EarlyUser, "pause" \notin Kinds, [Next]_vars
  PROVE  EndInv' /\ (mem \in Terminal => mem' = mem)
<1> USE DEF EndInv
<1>1. fsm' # "PAUSED"
  <2>1. CASE Drive
    BY <2>1, PausedByCommand DEF Typed
  <2>2. CASE ~Drive
    BY <2>2, OnlyDrive DEF taskVars
  <2> QED BY <2>1, <2>2
<1> QED BY <1>1, NextTyped, NextPlaced, MarkEnding, SessionEnding, OtherEnding

\* The invariant of the ending holds throughout.
LEMMA AlwaysEnding ==
  ASSUME Peers = {}, ~EarlyUser, "pause" \notin Kinds PROVE Spec => []EndInv
<1>1. EndInv /\ [Next]_vars => EndInv'
  BY NextEnding
<1> QED BY <1>1, InitEnding, PTL DEF Spec

(* EndingsAgree: what was announced of a task's ending, what the map says  *)
(* and what the disk says once it was announced are one ending             *)
(* (session/manager.go, CompleteTask, FailTask, CancelTask).               *)
THEOREM EndingsAlwaysAgree ==
  ASSUME Peers = {}, ~EarlyUser, "pause" \notin Kinds PROVE Spec => []EndingsAgree
<1>1. EndInv => EndingsAgree
  BY DEF EndInv
<1> QED BY <1>1, AlwaysEnding, PTL

(* TerminalIsFinal: a task that is DONE, FAILED or CANCELLED never takes   *)
(* another status (session/manager.go).                                    *)
THEOREM TerminalAlwaysFinal ==
  ASSUME Peers = {}, ~EarlyUser, "pause" \notin Kinds PROVE Spec => TerminalIsFinal
<1>1. EndInv /\ [Next]_vars => [(mem \in Terminal) => (mem' = mem)]_mem
  BY NextEnding
<1> QED BY <1>1, AlwaysEnding, PTL DEF Spec, TerminalIsFinal

(* EndedStaysStill: no tool runs for a task that has ended (core.go, the   *)
(* driving check of the cascade and the top of drive).                     *)
THEOREM EndedAlwaysStill ==
  ASSUME Peers = {}, ~EarlyUser, "pause" \notin Kinds PROVE Spec => EndedStaysStill
<1>1. EndInv /\ [Next]_vars => [ran' # ran => mem \notin Terminal]_ran
  <2> SUFFICES ASSUME EndInv, [Next]_vars, ran' # ran PROVE mem \notin Terminal
    OBVIOUS
  <2>1. Drive /\ ~StartTask /\ ~Attach /\ ~Register /\ ~Settle
    BY OnlyDrive DEF StartTask, Attach, Register, Settle, histVars
  <2>2. Arms
    BY <2>1 DEF Drive, Arms
  <2>3. fsm \notin {"DONE", "CANCELLED"} /\ pc \in {"top", "arm"}
    BY <2>2, ArmEnding, ArmFacts DEF EndInv, Typed
  <2> QED BY <2>3 DEF EndInv, Leaving
<1> QED BY <1>1, AlwaysEnding, PTL DEF Spec, EndedStaysStill

=============================================================================
