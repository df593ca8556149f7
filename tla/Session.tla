------------------------------- MODULE Session -------------------------------
(***************************************************************************)
(* One session of a daemon: the monitor thread that alone reads the screen *)
(* (daemon/session.py, _run and below), the RPC threads that answer its    *)
(* decisions, questions and idle turns (Session.respond and send_turn,     *)
(* SessionManager.respond and send_turn), and the executor.                *)
(*                                                                         *)
(* A step is what a thread does between two acquisitions of Session._lock. *)
(* A PTY write and the ring operations beside it happen without the lock   *)
(* and are a step of their own.                                            *)
(*                                                                         *)
(* The executor is free: any frame may follow any frame, and any hook may  *)
(* come at any time, so the screen and the queue of hooks are no           *)
(* variables.  The frame is chosen where the monitor uses it and the hook  *)
(* where the monitor takes it.  Stop, an exit and a crash are one: after   *)
(* any iteration the loop may end.                                         *)
(***************************************************************************)
EXTENDS Belief, Naturals, FiniteSets

CONSTANTS Callers,            \* RPC threads; each serves one call
          Monitor,
          Bodyless,           \* menus without a body to tell them apart by
          MaxDec, MaxAsked,   \* bounds: decisions published, questions asked,
          MaxHooks            \* and hooks taken

\* A decision is told apart by the engine's key, or by the menu that blocks
\* the start.  An unset key is an idle decision, which has no id and cannot be
\* answered.
Keys == {"blocked"} \X Frames \cup EngineKeys
Decision == [id : 0..MaxDec, kind : {"blocked", "modal", "text", "idle"}, key : {None} \cup Keys]
Idle == [id |-> 0, kind |-> "idle", key |-> None]

\* An unresolved event of a decision in the ring; what the threads leave to
\* each other; a decision that is built and not yet installed.
Event  == [id : 1..MaxDec, kind : {"blocked", "modal", "text"}]
Answer == [by : Callers, id : 1..MaxDec, about : Modals]
Submit == [by : Callers, id : 1..MaxDec, st : {"queued", "written"}, echo : BOOLEAN]
InTurn == [by : Callers \cup {Monitor}, for : Callers, pc : {"acquire", "check", "write", "settle"}]
Draft  == [id : 1..MaxDec, kind : {"modal", "text"}, key : EngineKeys, again : BOOLEAN]

ASSUME SessionAssumption ==
  /\ MaxDec \in Nat /\ MaxAsked \in Nat /\ MaxHooks \in Nat
  /\ Monitor \notin Callers /\ None \notin Callers /\ Bodyless \subseteq Modals
  /\ None \notin Keys \cup Decision \cup Answer \cup Submit \cup InTurn \cup Nat

VARIABLES
  hooked,     \* hooks taken so far
  delivery,   \* _task_delivery
  dedup,      \* _blocked_dedup
  decision,   \* _decision
  made,       \* decisions published so far: the ids are 1..made
  open,       \* the decisions with an unresolved event in the ring
  state,      \* _state
  eng,        \* the belief engine
  answer,     \* _pending_answer
  submit,     \* _pending_submit
  question, asked,  \* id in _async_question; questions asked so far
  reply,      \* _async_reply_pending: whose answer it is
  lost,       \* history: replies that may be gone, see QueuedIsKept
  turn,       \* the thread in _pending_acquire, and whose text it has
  closing,    \* _closing
  mon,        \* program counter and locals of the monitor
  call,       \* program counter, argument and reply of each RPC thread
  typed       \* history: what was written for each call

asyncVars == <<question, asked, reply, lost>>
slotVars  == <<answer, submit, asyncVars, turn>>
belief    == <<state, eng>>
pauseVars == <<decision, made, open>>
vars == <<slotVars, belief, pauseVars, hooked, delivery, dedup, closing, mon, call, typed>>

QuestionId(n) == MaxDec + n

\* The outcomes that say that nothing was typed, and that nothing will be.
Refusals == {"stale", "no_pending", "missing", "invalid", "not_delivered", "taken_back",
             "at_capacity", "admission_unavailable"}

MonitorPc == {"ready", "type", "tick", "confirm", "end", "hooks", "apply", "install", "submit",
              "write", "reply", "turn", "requeue", "close", "abort", "abort_submit", "publish", "ended"}
CallPc == {"new", "resolve", "peek", "bind", "blocked", "text", "modal", "wait", "write", "settle",
           "turn", "deliver", "requeue", "requeued", "done"}

\* The locals of the monitor and of a call, and what was written for it: the
\* whole reached the executor, or the PTY was at its end.
MonitorRow == [pc : MonitorPc, frame : Frames \cup {None}, acts : Seq(Act),
               then : {"hooks", "submit", None}, draft : Draft \cup {None},
               held : Answer \cup Submit \cup Callers \cup {None}]
CallRow == [pc : CallPc, id : 0..MaxDec + MaxAsked,
            out : {None, "resumed", "refused", "queued", "unsure"}]
Keystrokes == [id : 0..MaxDec, whole : BOOLEAN]

TypeOK ==
  /\ hooked \in 0..MaxHooks
  /\ delivery \in {"pending", "delivered", "failed"}
  /\ dedup \in Modals \cup {None}
  /\ made \in 0..MaxDec
  /\ decision \in Decision \cup {None} /\ (decision # None => decision.id <= made)
  /\ open \subseteq Event /\ \A d \in open : d.id <= made
  /\ state \in {"busy", "awaiting", "idle", "terminal"}
  /\ eng \in Engine /\ (eng.gate = None <=> eng.kind = None)
  /\ answer \in Answer \cup {None} /\ (answer # None => answer.id <= made)
  /\ submit \in Submit \cup {None} /\ (submit # None => submit.id <= made)
  /\ asked \in 0..MaxAsked /\ question \in {None} \cup {QuestionId(n) : n \in 1..asked}
  /\ reply \in Callers \cup {None} /\ lost \subseteq Callers
  /\ turn \in InTurn \cup {None}
  /\ closing \in BOOLEAN
  /\ mon \in MonitorRow
  /\ call \in [Callers -> CallRow]
  /\ typed \in [Callers -> Seq(Keystrokes)]

Resting == [pc |-> "ready", frame |-> None, acts |-> <<>>, then |-> None, draft |-> None, held |-> None]

Init ==
  /\ hooked = 0 /\ delivery = "pending" /\ dedup = None
  /\ decision = None /\ made = 0 /\ open = {}
  /\ state = "busy" /\ eng = EngineStart
  /\ answer = None /\ submit = None
  /\ question = None /\ asked = 0 /\ reply = None /\ lost = {} /\ turn = None
  /\ closing = FALSE
  /\ mon = Resting
  /\ call = [c \in Callers |-> [pc |-> "new", id |-> 0, out |-> None]]
  /\ typed = [c \in Callers |-> <<>>]

-----------------------------------------------------------------------------
(* Steps of a thread                                                       *)

At(pc) == mon.pc = pc
Goto(pc) == mon' = [mon EXCEPT !.pc = pc]

\* The iteration ends and the locals go; the loop goes on at pc or is left.
Again(pc) == mon' \in {[Resting EXCEPT !.pc = p] : p \in {pc, "close"}}

Pc(c, pc) == call[c].pc = pc
Moves(c, pc) == call' = [call EXCEPT ![c].pc = pc]

\* What a reply tells its caller.
Told(out) == IF out \in Refusals THEN "refused"
             ELSE IF out \in {"resumed", "queued"} THEN out ELSE "unsure"
Answered(c, out) == [call EXCEPT ![c] = [pc |-> "done", id |-> 0, out |-> Told(out)]]
Returns(c, out) == call' = Answered(c, out)

\* The monitor hands an outcome to the caller, if it still waits.
Wakes(c, out) == call' = IF Pc(c, "wait") THEN Answered(c, out) ELSE call

Resolve(id) == open' = {d \in open : d.id # id}
Current(id) == decision # None /\ decision.id = id

\* A write has found the PTY at its end, or closed.
Eof == \E c \in Callers : \E i \in DOMAIN typed[c] : ~typed[c][i].whole

\* PtySession.write: the keys of a call reach the executor.  Or it is gone,
\* and for good: nothing or a part of them is written, and the writer is told
\* nothing of it.
Types(c, id) ==
  \E whole \in BOOLEAN :
    /\ Eof => ~whole
    /\ typed' = [typed EXCEPT ![c] = Append(@, [id |-> id, whole |-> whole])]

\* A submit was made: the engine is told, and the session works again.
Submitted == eng' = OnSubmit(eng) /\ state' = "busy"

-----------------------------------------------------------------------------
(* The monitor before the task is delivered                                *)

\* The menu on the screen is the one that the answer is for.
SamePrompt(a, f) ==
  /\ Current(a.id) /\ decision.kind = "blocked" /\ delivery = "pending"
  /\ f \in Modals \ Bodyless /\ f = a.about

\* The monitor renders a frame.  _drain_pending_answer: the pending answer is
\* claimed, and with it the decision if the keys are going to be written.
DrainAnswer(f) ==
  /\ At("ready") /\ f # "echo"
  /\ answer' = None
  /\ IF answer # None /\ SamePrompt(answer, f)
     THEN /\ decision' = None
          /\ mon' = [mon EXCEPT !.pc = "type", !.frame = f, !.held = answer]
          /\ UNCHANGED <<open, call>>
     ELSE /\ IF answer = None THEN UNCHANGED <<open, call>>
             ELSE Resolve(answer.id) /\ Wakes(answer.by, "stale")
          /\ mon' = [mon EXCEPT !.pc = "tick", !.frame = f]
          /\ UNCHANGED decision
  /\ UNCHANGED <<submit, asyncVars, turn, belief, hooked, delivery, dedup, made, closing, typed>>

TypeAnswer ==
  /\ At("type")
  /\ Types(mon.held.by, mon.held.id)
  /\ Resolve(mon.held.id)
  /\ Submitted
  /\ Wakes(mon.held.by, "resumed")
  /\ mon' = [mon EXCEPT !.pc = "tick", !.held = None]
  /\ UNCHANGED <<slotVars, hooked, delivery, dedup, decision, made, closing>>

TypeAnswerFails ==
  /\ At("type")
  /\ Resolve(mon.held.id)
  /\ Wakes(mon.held.by, "write_timeout")
  /\ mon' = [mon EXCEPT !.pc = "tick", !.held = None]
  /\ UNCHANGED <<slotVars, belief, hooked, delivery, dedup, decision, made, closing, typed>>

\* The drain raises, as it reads the screen or before the first key is written.
\* The monitor ends with the answer in its hands, out of reach of
\* _abort_pending_answer.
DrainRaises ==
  /\ \/ At("ready") /\ answer # None /\ answer' = None
          /\ mon' = [Resting EXCEPT !.pc = "close", !.held = answer]
     \/ At("type") /\ UNCHANGED answer
          /\ mon' = [Resting EXCEPT !.pc = "close", !.held = mon.held]
  /\ UNCHANGED <<submit, asyncVars, turn, belief, pauseVars, hooked, delivery, dedup, closing,
                 call, typed>>

\* A blocked decision is published, superseding the one before.
EmitBlocked ==
  /\ made < MaxDec
  /\ dedup' = mon.frame
  /\ made' = made + 1
  /\ decision' = [id |-> made', kind |-> "blocked", key |-> <<"blocked", mon.frame>>]
  /\ open' = {d \in open : ~Current(d.id)} \cup {[id |-> made', kind |-> "blocked"]}

\* _delivery_tick on this frame.  The task is typed into the box.
DeliveryTick ==
  /\ At("tick")
  /\ \/ /\ mon.frame \in {"busy", dedup}
        /\ Goto("end")
        /\ UNCHANGED <<delivery, dedup, pauseVars>>
     \/ /\ mon.frame = "gone"
        /\ delivery' = "failed"
        /\ Goto("end")
        /\ UNCHANGED <<dedup, pauseVars>>
     \/ /\ mon.frame \in Modals \ {dedup}
        /\ EmitBlocked
        /\ Goto("end")
        /\ UNCHANGED delivery
     \/ /\ mon.frame = "box"
        /\ Goto("confirm")
        /\ UNCHANGED <<delivery, dedup, pauseVars>>
  /\ UNCHANGED <<slotVars, belief, hooked, closing, call, typed>>

\* Mutant: a blocked decision that is still pending is left.
OrphansKept == {}

\* What delivery leaves without a menu to answer.
Orphans == (IF decision # None /\ decision.kind = "blocked" THEN {decision.id} ELSE {})
             \cup (IF answer # None THEN {answer.id} ELSE {})

\* _deliver_task saw its text echoed.  What it resolves in the ring after its
\* critical section is taken with it: no thread here reads the ring.
Confirm ==
  /\ At("confirm")
  /\ delivery' = "delivered"
  /\ eng' = ExpectHooks(OnSubmit(eng))
  /\ decision' = IF decision # None /\ decision.id \in Orphans THEN None ELSE decision
  /\ answer' = None
  /\ open' = {d \in open : d.id \notin Orphans}
  /\ call' = IF answer = None THEN call ELSE Answered(answer.by, "stale")
  /\ Goto("end")
  /\ UNCHANGED <<submit, asyncVars, turn, hooked, dedup, made, state, closing, typed>>

\* The write or the echo took too long, or the session was stopped.
FailDelivery ==
  /\ At("confirm")
  /\ delivery' = "failed"
  /\ Goto("end")
  /\ UNCHANGED <<slotVars, belief, pauseVars, hooked, dedup, closing, call, typed>>

\* The end of an iteration: the nag for a blocked decision, which opens a new
\* event of the same decision, and the startup deadline.
EndPre ==
  /\ At("end")
  /\ \/ UNCHANGED <<delivery, open>>
     \/ /\ decision # None /\ decision.kind = "blocked"
        /\ open' = open \cup {[id |-> decision.id, kind |-> "blocked"]}
        /\ UNCHANGED delivery
     \/ /\ delivery = "pending" /\ dedup = None
        /\ delivery' = "failed"
        /\ UNCHANGED open
  /\ Again(CASE delivery' = "pending" -> "ready" [] delivery' = "delivered" -> "hooks" [] OTHER -> "close")
  /\ UNCHANGED <<slotVars, belief, hooked, dedup, decision, made, closing, call, typed>>

-----------------------------------------------------------------------------
(* The monitor afterwards: one iteration of _loop_once                     *)

\* _sync_control_state: the session shows the engine's state, and an idle
\* decision goes when the session is no longer idle.
Sync(e) ==
  /\ eng' = e
  /\ state' = IF e.state = "terminal" THEN state ELSE e.state
  /\ decision' = IF state' # "idle" /\ decision = Idle THEN None ELSE decision

\* The actions of the engine are applied one by one, then the monitor goes on.
Apply(m, acts, then) ==
  mon' = [m EXCEPT !.pc = IF acts = <<>> THEN then ELSE "apply", !.acts = acts,
                   !.then = IF acts = <<>> THEN None ELSE then]

\* _drain_hooks.
DrainHook(h) ==
  /\ At("hooks") /\ hooked < MaxHooks
  /\ hooked' = hooked + 1
  /\ LET r == OnHook(eng, h) IN Sync(r.eng) /\ Apply(mon, r.acts, "hooks")
  /\ UNCHANGED <<slotVars, delivery, dedup, made, open, closing, call, typed>>

\* The monitor renders a frame, and the engine ticks.
See(f) ==
  /\ At("hooks")
  /\ \E r \in Tick(eng, f) : Sync(r.eng) /\ Apply([mon EXCEPT !.frame = f], r.acts, "submit")
  /\ UNCHANGED <<slotVars, hooked, delivery, dedup, made, open, closing, call, typed>>

\* A decision of the engine that nobody claimed since is withdrawn.
ApplyWithdraw ==
  LET a == Head(mon.acts)
  IN  /\ At("apply") /\ a.do = "withdraw"
      /\ IF decision # None /\ decision.key = a.key
         THEN decision' = None /\ state' = "busy" /\ Resolve(decision.id)
         ELSE UNCHANGED <<decision, state, open>>
      /\ Apply(mon, Tail(mon.acts), mon.then)
      /\ UNCHANGED <<slotVars, eng, made, hooked, delivery, dedup, closing, call, typed>>

\* The idle decision takes the place of whatever is there.
EmitIdle ==
  /\ At("apply") /\ Head(mon.acts).do = "idle"
  /\ decision' = Idle
  /\ Apply(mon, Tail(mon.acts), mon.then)
  /\ UNCHANGED <<slotVars, belief, made, open, hooked, delivery, dedup, closing, call, typed>>

\* _publish up to the ring: the same pause keeps its id.
Build ==
  LET a == Head(mon.acts)
      again == decision # None /\ decision.key = a.key
  IN  /\ At("apply") /\ a.do = "ask"
      /\ again \/ made < MaxDec
      /\ mon' = [mon EXCEPT !.pc = "install",
                   !.draft = [id |-> IF again THEN decision.id ELSE made + 1,
                              kind |-> a.kind, key |-> a.key, again |-> again]]
      /\ UNCHANGED <<slotVars, belief, pauseVars, hooked, delivery, dedup, closing, call, typed>>

\* Mutant: an event of a pause that is over counts as open.
InstalledAlways(d) == [decision |-> decision, open |-> open \cup {[id |-> d.id, kind |-> d.kind]}]

\* _install, for a pause that was published before: it may be over by now.
Reinstalled(d) ==
  [decision |-> decision,
   open |-> IF Current(d.id) THEN open \cup {[id |-> d.id, kind |-> d.kind]} ELSE open]

\* _install, for a new pause: the decision that is pending is superseded.
Installed(d) ==
  [decision |-> [id |-> d.id, kind |-> d.kind, key |-> d.key],
   open |-> {o \in open : ~Current(o.id)} \cup {[id |-> d.id, kind |-> d.kind]}]

Install ==
  LET d == mon.draft
      r == IF d.again THEN Reinstalled(d) ELSE Installed(d)
  IN  /\ At("install")
      /\ decision' = r.decision /\ open' = r.open
      /\ made' = IF d.again THEN made ELSE d.id
      /\ Apply([mon EXCEPT !.draft = None], Tail(mon.acts), mon.then)
      /\ UNCHANGED <<slotVars, belief, hooked, delivery, dedup, closing, call, typed>>

\* _drain_pending_submit, a queued text: claimed if the box is still up.
DrainQueued ==
  /\ At("submit") /\ submit # None /\ submit.st = "queued"
  /\ IF Current(submit.id) /\ mon.frame \in {"box", "echo"}
     THEN /\ decision' = None
          /\ mon' = [mon EXCEPT !.pc = "write", !.held = submit]
          /\ UNCHANGED <<submit, open, call>>
     ELSE /\ submit' = None
          /\ Resolve(submit.id) /\ Wakes(submit.by, "stale")
          /\ Goto("reply")
          /\ UNCHANGED decision
  /\ UNCHANGED <<answer, asyncVars, turn, belief, made, hooked, delivery, dedup, closing, typed>>

WriteSubmit ==
  /\ At("write")
  /\ Types(mon.held.by, mon.held.id)
  /\ Resolve(mon.held.id)
  /\ Submitted
  /\ submit' = IF submit = None THEN None ELSE [submit EXCEPT !.st = "written"]
  /\ mon' = [mon EXCEPT !.pc = "reply", !.held = None]
  /\ UNCHANGED <<answer, asyncVars, turn, decision, made, hooked, delivery, dedup, closing, call>>

\* A timeout is reported.  An exception ends the monitor, which leaves the text
\* in its slot.
WriteSubmitFails ==
  /\ At("write")
  /\ \/ /\ submit' = None
        /\ Resolve(mon.held.id)
        /\ call' = IF submit = None THEN call ELSE Answered(mon.held.by, "write_timeout")
        /\ mon' = [mon EXCEPT !.pc = "reply", !.held = None]
     \/ /\ mon' = [Resting EXCEPT !.pc = "close"]
        /\ UNCHANGED <<submit, open, call>>
  /\ UNCHANGED <<answer, asyncVars, turn, belief, decision, made, hooked, delivery, dedup,
                 closing, typed>>

\* A written text: it left the box, or the turn moved on; or there is no such
\* evidence, and the deadline may have passed.
ConfirmSubmit ==
  LET left == mon.frame # "echo" /\ submit.echo
      moved == mon.frame \in Modals \cup {"busy", "gone"}
  IN  /\ At("submit") /\ submit # None /\ submit.st = "written"
      /\ \/ /\ left \/ moved
            /\ submit' = None /\ Wakes(submit.by, "resumed")
         \/ /\ ~left /\ mon.frame \notin Modals \cup {"gone"}
            /\ submit' = None /\ Wakes(submit.by, "respond_failed")
         \/ /\ ~left /\ mon.frame \notin Modals \cup {"gone"}
            /\ submit' = [submit EXCEPT !.echo = @ \/ mon.frame = "echo"]
            /\ UNCHANGED call
      /\ Goto("reply")
      /\ UNCHANGED <<answer, asyncVars, turn, belief, pauseVars, hooked, delivery, dedup,
                     closing, typed>>

NoSubmit ==
  /\ At("submit") /\ submit = None
  /\ Goto("reply")
  /\ UNCHANGED <<slotVars, belief, pauseVars, hooked, delivery, dedup, closing, call, typed>>

\* The end of an iteration.
LoopEnd == Again(IF mon.frame = "gone" THEN "close" ELSE "hooks")

\* drain_async_reply: the queued reply is claimed when the session is idle.
DrainReply ==
  /\ At("reply")
  /\ IF reply # None /\ state = "idle" /\ ~closing
     THEN reply' = None /\ mon' = [mon EXCEPT !.pc = "turn", !.held = reply]
     ELSE LoopEnd /\ UNCHANGED reply
  /\ UNCHANGED <<answer, submit, question, asked, lost, turn, belief, pauseVars, hooked,
                 delivery, dedup, closing, call, typed>>

-----------------------------------------------------------------------------
(* The end of the monitor: _finish                                         *)

\* Mutant: the gate is raised at the very end.
ClosesLate == FALSE

\* The gate is raised before the waiting answers are aborted.
Closes == TRUE

Close ==
  /\ At("close")
  /\ closing' = Closes
  /\ Goto("abort")
  /\ UNCHANGED <<slotVars, belief, pauseVars, hooked, delivery, dedup, call, typed>>

AbortAnswer ==
  /\ At("abort")
  /\ answer' = None
  /\ IF answer = None THEN UNCHANGED <<open, call>>
     ELSE Resolve(answer.id) /\ Wakes(answer.by, "terminal")
  /\ Goto("abort_submit")
  /\ UNCHANGED <<submit, asyncVars, turn, belief, decision, made, hooked, delivery, dedup,
                 closing, typed>>

AbortSubmit ==
  /\ At("abort_submit")
  /\ submit' = None
  /\ IF submit = None THEN UNCHANGED <<open, call>>
     ELSE Resolve(submit.id) /\ Wakes(submit.by, "terminal")
  /\ Goto("publish")
  /\ UNCHANGED <<answer, asyncVars, turn, belief, decision, made, hooked, delivery, dedup,
                 closing, typed>>

FinishPublish ==
  /\ At("publish")
  /\ state' = "terminal" /\ closing' = TRUE
  /\ Goto("ended")
  /\ UNCHANGED <<slotVars, eng, pauseVars, hooked, delivery, dedup, call, typed>>

-----------------------------------------------------------------------------
(* An RPC thread: SessionManager.respond                                   *)

callerOnly == <<made, hooked, delivery, dedup, closing, mon>>

\* The caller names a decision or a question it was told of, or nothing.
Respond(c, id) ==
  /\ Pc(c, "new")
  /\ id \in 0..made \cup {QuestionId(n) : n \in 1..asked}
  /\ call' = [call EXCEPT ![c].pc = IF id = question THEN "resolve" ELSE "peek", ![c].id = id]
  /\ UNCHANGED <<callerOnly, slotVars, belief, decision, open, typed>>

\* resolve_async_question: the question is over whatever becomes of the reply.
ResolveQuestion(c) ==
  /\ Pc(c, "resolve")
  /\ IF question # call[c].id
     THEN Returns(c, "not_delivered") /\ UNCHANGED <<question, reply>>
     ELSE /\ question' = None
          /\ \/ closing /\ Returns(c, "not_delivered") /\ UNCHANGED reply
             \/ ~closing /\ state = "idle" /\ Moves(c, "deliver") /\ UNCHANGED reply
             \/ ~closing /\ state # "idle" /\ Returns(c, "queued") /\ reply' = c
  /\ UNCHANGED <<callerOnly, answer, submit, asked, lost, turn, belief, decision, open, typed>>

\* An idle session takes the answer as its next turn.
Peek(c) ==
  /\ Pc(c, "peek")
  /\ Moves(c, IF state = "idle" THEN "turn" ELSE "bind")
  /\ UNCHANGED <<callerOnly, slotVars, belief, decision, open, typed>>

\* Session.respond: the answer is bound to the pending decision, which it must
\* name, and goes the way of its kind.
Bind(c) ==
  /\ Pc(c, "bind")
  /\ IF closing THEN Returns(c, "terminal")
     ELSE IF decision \in {None, Idle} THEN Returns(c, "no_pending")
     ELSE IF call[c].id = 0 THEN Returns(c, "missing")
     ELSE IF call[c].id # decision.id THEN Returns(c, "stale")
     ELSE Returns(c, "invalid") \/ Moves(c, decision.kind)
  /\ UNCHANGED <<callerOnly, slotVars, belief, decision, open, typed>>

\* One answer waits for the monitor at a time.
AnswerFree == answer = None

\* _respond_blocked: the answer is left to the monitor.
Enqueue(c) ==
  LET id == call[c].id
  IN  /\ Pc(c, "blocked")
      /\ \/ closing /\ Returns(c, "terminal") /\ UNCHANGED <<answer, open>>
         \/ ~closing /\ ~(Current(id) /\ AnswerFree) /\ Returns(c, "no_pending") /\ UNCHANGED <<answer, open>>
         \/ ~closing /\ Current(id) /\ AnswerFree /\ delivery # "pending"
              /\ Resolve(id) /\ Returns(c, "stale") /\ UNCHANGED answer
         \/ ~closing /\ Current(id) /\ AnswerFree /\ delivery = "pending"
              /\ answer' = [by |-> c, id |-> id, about |-> decision.key[2]]
              /\ Moves(c, "wait") /\ UNCHANGED open
      /\ UNCHANGED <<callerOnly, submit, asyncVars, turn, belief, decision, typed>>

\* _respond_free_text: likewise.
Queue(c) ==
  /\ Pc(c, "text")
  /\ IF ~closing /\ Current(call[c].id) /\ submit = None
     THEN /\ submit' = [by |-> c, id |-> call[c].id, st |-> "queued", echo |-> FALSE]
          /\ Moves(c, "wait")
     ELSE Returns(c, IF closing THEN "terminal" ELSE "no_pending") /\ UNCHANGED submit
  /\ UNCHANGED <<callerOnly, answer, asyncVars, turn, belief, decision, open, typed>>

\* Mutant: the answer counts as taken back although the monitor has it.
UnclaimedAny(c) == submit # None => submit.by # c

\* The answer of the caller is still where it left it.
Unclaimed(c) == answer # None /\ answer.by = c

\* The caller has waited long enough and takes its answer back, unless the
\* monitor has claimed it: then the outcome is awaited.
Reclaim(c) ==
  /\ Pc(c, "wait")
  /\ \/ /\ Unclaimed(c)
        /\ answer' = None /\ Returns(c, "taken_back") /\ UNCHANGED submit
     \/ /\ submit # None /\ submit.by = c
        /\ submit' = None /\ Returns(c, "respond_failed") /\ UNCHANGED answer
  /\ Resolve(call[c].id)
  /\ UNCHANGED <<callerOnly, asyncVars, turn, belief, decision, typed>>

\* What a monitor that raised had in its hands, and whose it was.
Dropped == IF mon.pc \in {"close", "abort", "abort_submit", "publish", "ended"} THEN mon.held ELSE None
Forsaken(c) == Dropped # None /\ Dropped.by = c

\* The caller has waited a second time and finds no outcome.  (A monitor that
\* lives has given one: its write is bounded by the answer's own deadline.)
GiveUp(c) ==
  /\ Pc(c, "wait") /\ Forsaken(c)
  /\ Returns(c, "stale")
  /\ UNCHANGED <<callerOnly, slotVars, belief, decision, open, typed>>

\* Mutant: the decision is not looked at again.
ClaimableAny(id) == TRUE

Claimable(id) == Current(id)

\* A menu after delivery is answered by the RPC thread itself: it claims the
\* decision, writes, and tells the engine.
Claim(c) ==
  /\ Pc(c, "modal")
  /\ IF Claimable(call[c].id) THEN decision' = None /\ Moves(c, "write")
     ELSE Returns(c, "no_pending") /\ UNCHANGED decision
  /\ UNCHANGED <<callerOnly, slotVars, belief, open, typed>>

Write(c) ==
  /\ Pc(c, "write")
  /\ Resolve(call[c].id)
  /\ \/ Types(c, call[c].id) /\ Moves(c, "settle")
     \/ Returns(c, "write_timeout") /\ UNCHANGED typed
  /\ UNCHANGED <<slotVars, belief, decision, made, hooked, delivery, dedup, closing, mon>>

Settle(c) ==
  /\ Pc(c, "settle")
  /\ Submitted
  /\ Returns(c, "resumed")
  /\ UNCHANGED <<callerOnly, slotVars, decision, open, typed>>

-----------------------------------------------------------------------------
(* A new turn of an idle session: SessionManager.send_turn, by an RPC      *)
(* thread or by the monitor that has a queued reply.                       *)

Wants(t, c) == IF t = Monitor THEN At("turn") /\ mon.held = c ELSE t = c /\ call[c].pc \in {"turn", "deliver"}

\* What a reply that was not typed is queued again for.  The monitor does not
\* count admission_unavailable among them (drain_async_reply).
Retried == {"at_capacity", "no_pending"}

\* send_turn returns to the thread.
Over(t, c, out) ==
  IF t = Monitor
  THEN /\ IF out \in Retried THEN Goto("requeue") ELSE LoopEnd
       /\ lost' = IF out \in {"write_timeout", "terminal", "admission_unavailable"}
                  THEN lost \cup {c} ELSE lost
       /\ UNCHANGED call
  ELSE /\ call' = IF Pc(c, "deliver") /\ out \in Retried \cup {"admission_unavailable"}
                  THEN [call EXCEPT ![c].pc = "requeue"] ELSE Answered(c, out)
       /\ UNCHANGED <<mon, lost>>

turnOnly == <<answer, submit, question, asked, reply, made, open, hooked, delivery, dedup, closing>>

\* Refused when another thread is at it, when the session is not idle, or when
\* the epoch is being retired.
BeginTurn(t, c) ==
  /\ Wants(t, c) /\ (turn # None => turn.by # t)
  /\ \/ turn # None /\ Over(t, c, "at_capacity") /\ UNCHANGED turn
     \/ turn = None /\ Over(t, c, "no_pending") /\ UNCHANGED turn
     \/ turn = None /\ state = "idle"
          /\ turn' = [by |-> t, for |-> c, pc |-> "acquire"] /\ UNCHANGED <<mon, call, lost>>
  /\ UNCHANGED <<turnOnly, belief, decision, typed>>

\* The router grants the active lease or refuses; the session is looked at
\* again by the manager, then by Session.send_turn.
AcquireTurn ==
  /\ turn # None /\ turn.pc = "acquire"
  /\ \/ state = "idle" /\ turn' = [turn EXCEPT !.pc = "check"] /\ UNCHANGED <<mon, call, lost>>
     \/ /\ turn' = None
        /\ \E out \in {"at_capacity", "admission_unavailable", "no_pending"} : Over(turn.by, turn.for, out)
  /\ UNCHANGED <<turnOnly, belief, decision, typed>>

CheckTurn ==
  /\ turn # None /\ turn.pc = "check"
  /\ IF ~closing /\ state = "idle"
     THEN turn' = [turn EXCEPT !.pc = "write"] /\ UNCHANGED <<mon, call, lost>>
     ELSE turn' = None /\ Over(turn.by, turn.for, IF closing THEN "terminal" ELSE "no_pending")
  /\ UNCHANGED <<turnOnly, belief, decision, typed>>

WriteTurn ==
  /\ turn # None /\ turn.pc = "write"
  /\ \/ /\ Types(turn.for, 0)
        /\ turn' = [turn EXCEPT !.pc = "settle"]
        /\ UNCHANGED <<mon, call, lost>>
     \/ /\ turn' = None
        /\ Over(turn.by, turn.for, "write_timeout")
        /\ UNCHANGED typed
  /\ UNCHANGED <<turnOnly, belief, decision>>

SettleTurn ==
  /\ turn # None /\ turn.pc = "settle"
  /\ Submitted
  /\ decision' = None
  /\ turn' = None
  /\ Over(turn.by, turn.for, "resumed")
  /\ UNCHANGED <<turnOnly, typed>>

\* requeue_async_reply: a newer reply is not overwritten.
Requeue(t, c) ==
  /\ IF t = Monitor THEN At("requeue") /\ mon.held = c ELSE t = c /\ Pc(c, "requeue")
  /\ reply' = IF reply = None /\ ~closing THEN c ELSE reply
  /\ lost' = IF reply = None THEN lost ELSE lost \cup {c}
  /\ IF t = Monitor THEN LoopEnd /\ UNCHANGED call
     ELSE Moves(c, "requeued") /\ UNCHANGED mon
  /\ UNCHANGED <<answer, submit, question, asked, turn, belief, pauseVars, hooked, delivery,
                 dedup, closing, typed>>

-----------------------------------------------------------------------------
(* The executor                                                            *)

\* Mutant: a question is taken while an earlier reply is still queued.
MayAskSoon == question = None

MayAsk == question = None /\ reply = None

\* record_async_question; the executor asks one at a time.  A reply that is
\* out of its slot, being delivered, does not keep a question from being asked.
Ask ==
  /\ mon.frame # "gone" /\ ~closing /\ asked < MaxAsked /\ MayAsk
  /\ asked' = asked + 1 /\ question' = QuestionId(asked')
  /\ lost' = lost \cup {c \in Callers : mon.held = c \/ call[c].pc \in {"deliver", "requeue"}}
  /\ UNCHANGED <<answer, submit, reply, turn, belief, pauseVars, hooked, delivery, dedup,
                 closing, mon, call, typed>>

-----------------------------------------------------------------------------

MonitorNext ==
  \/ (\E f \in Frames : DrainAnswer(f) \/ See(f)) \/ (\E h \in Hooks : DrainHook(h))
  \/ TypeAnswer \/ TypeAnswerFails \/ DrainRaises \/ DeliveryTick \/ Confirm
  \/ FailDelivery \/ EndPre
  \/ ApplyWithdraw \/ EmitIdle \/ Build \/ Install
  \/ DrainQueued \/ WriteSubmit \/ WriteSubmitFails \/ ConfirmSubmit \/ NoSubmit \/ DrainReply
  \/ Close \/ AbortAnswer \/ AbortSubmit \/ FinishPublish

CallerNext(c) ==
  \/ \E id \in 0..MaxDec + MaxAsked : Respond(c, id)
  \/ ResolveQuestion(c) \/ Peek(c) \/ Bind(c) \/ Enqueue(c) \/ Queue(c) \/ Reclaim(c)
  \/ GiveUp(c) \/ Claim(c) \/ Write(c) \/ Settle(c)

TurnNext ==
  \/ \E t \in Callers \cup {Monitor}, c \in Callers : BeginTurn(t, c) \/ Requeue(t, c)
  \/ AcquireTurn \/ CheckTurn \/ WriteTurn \/ SettleTurn

Next == MonitorNext \/ (\E c \in Callers : CallerNext(c)) \/ TurnNext \/ Ask

Spec == Init /\ [][Next]_vars

-----------------------------------------------------------------------------
(* Properties                                                              *)

Done(c, out) == Pc(c, "done") /\ call[c].out = out

\* No answer is written twice, whether or not it arrived, and no decision gets
\* two answers, whoever claims, takes back, aborts or retries
\* (claim-before-write).
AnsweredOnce ==
  /\ \A c \in Callers : Len(typed[c]) <= 1
  /\ \A c, d \in Callers : c # d /\ typed[c] # <<>> /\ typed[d] # <<>>
       => typed[c][1].id = 0 \/ typed[c][1].id # typed[d][1].id

\* What a reply says of the answer (Session.respond and the outcomes that the
\* monitor hands to it).  A refusal: nothing of it was written or will be.
\* "resumed": it was written and the write returned.  Whether it arrived is not
\* said: PtySession.write returns as well when the PTY is at its end (whole is
\* FALSE then), and the reply is the same.
HonestReply ==
  \A c \in Callers :
    /\ Done(c, "resumed") => typed[c] # <<>>
    /\ Done(c, "refused") => typed[c] = <<>>

\* When the monitor is gone nothing is left to it, and nothing comes later: it
\* has aborted every answer that was waiting for it (_finish, E1 and I3).  One
\* caller may still wait, although I3 promises to release it on every exit:
\* the one whose answer the monitor had taken out of its slot when it raised.
NoStranded ==
  At("ended") =>
    /\ answer = None /\ submit = None
    /\ \A c \in Callers : Pc(c, "wait") => Forsaken(c)

\* A blocked decision exists only before the task is delivered: afterwards
\* none is pending, and none is left unresolved in the ring (_deliver_task).
BlockedOnlyBefore ==
  delivery = "delivered" =>
    /\ decision # None => decision.kind # "blocked"
    /\ \A d \in open : d.kind # "blocked"

\* A reply that was queued for the next idle, at first or again, is in its
\* slot, on its way, or typed, while the session lives
\* (resolve_async_question, drain_async_reply, requeue_async_reply).  Two
\* cases are taken out, by way of lost: the monitor's turn ended in one of the
\* outcomes that drain_async_reply does not queue again, or a question was
\* asked while the reply was being delivered, whose own reply may then take
\* the slot.
QueuedIsKept ==
  \A c \in Callers :
    Done(c, "queued") \/ Pc(c, "requeued")
      => closing \/ c \in lost \/ reply = c \/ typed[c] # <<>> \/ mon.held = c

\* A decision that is answered, withdrawn or superseded stays so: no late
\* event makes it pending again (_install).
NeverResurrected ==
  [][\A id \in 1..made : ~Current(id) /\ (\A d \in open : d.id # id)
       => \A d \in open' : d.id # id]_vars
=============================================================================
