---------------------------- MODULE SessionProofs ----------------------------
(***************************************************************************)
(* Proofs about Session, for any numbers of RPC threads, menus, decisions, *)
(* questions and hooks: nothing is written twice, replies say what was     *)
(* written, a monitor that is gone leaves nobody waiting but the caller    *)
(* whose answer it raised with, and a decision that is over stays over.    *)
(*                                                                         *)
(* An answer is somewhere: in a slot, in the hands of the monitor, in a    *)
(* turn, or typed.  The inductive invariant SInv says where the answer of  *)
(* a call can be, given the program counter of its thread, and whose claim *)
(* a decision is.                                                          *)
(***************************************************************************)
EXTENDS Session, TLAPS

-----------------------------------------------------------------------------
(* The invariant                                                           *)

\* The locals of the monitor at each of its steps, and what it has seen.
MonOK ==
  /\ mon.pc = "type" => mon.held \in Answer /\ mon.held.id <= made
  /\ mon.pc = "write" => mon.held \in Submit /\ mon.held.id <= made /\ mon.held.st = "queued"
                           /\ decision = None
  /\ mon.pc \in {"turn", "requeue"} => mon.held \in Callers
  /\ mon.pc \in {"apply", "install"} => mon.acts # <<>> /\ mon.then \in {"hooks", "submit"}
  /\ mon.pc = "install" => mon.draft \in Draft
                             /\ (IF mon.draft.again THEN mon.draft.id <= made ELSE mon.draft.id = made + 1)

\* The gate is up exactly while the monitor ends, and behind it the slots of
\* the waiting answers are emptied one after the other.
GateOK ==
  /\ closing = (mon.pc \in {"abort", "abort_submit", "publish", "ended"})
  /\ mon.pc \in {"abort_submit", "publish", "ended"} => answer = None
  /\ mon.pc \in {"publish", "ended"} => submit = None

\* The kind of a decision goes with its key and its id.
KindOK ==
  decision # None =>
    /\ decision.kind = "idle" => decision = Idle
    /\ decision.kind = "blocked" => decision.id >= 1 /\ decision.key \in {"blocked"} \X Modals
    /\ decision.kind \in {"modal", "text"} => decision.id >= 1 /\ decision.key \in EngineKeys

\* Before delivery there are no turns, and only blocked decisions, whose
\* events are those of the decision that is pending or being answered.
DeliveryOK ==
  /\ mon.pc \in {"ready", "type", "tick", "confirm"} => delivery = "pending"
  /\ mon.pc \in {"hooks", "apply", "install", "submit", "write", "reply", "turn", "requeue"}
       => delivery = "delivered"
  /\ delivery # "delivered" => turn = None /\ state # "idle"
  /\ delivery = "pending" =>
       /\ decision # None => decision.kind = "blocked"
       /\ mon.pc \in {"ready", "tick", "confirm", "end"} => \A d \in open : Current(d.id)
       /\ mon.pc = "type" => \A d \in open : d.id = mon.held.id
  /\ BlockedOnlyBefore

\* Where the answer of a call can be.
Left(c)    == answer # None /\ answer.by = c
Queued(c)  == submit # None /\ submit.by = c
Typing(c)  == mon.pc = "type" /\ mon.held.by = c
Writing(c) == mon.pc = "write" /\ mon.held.by = c
Carried(c) == mon.pc \in {"turn", "requeue"} /\ mon.held = c
Turning(c) == turn # None /\ turn.for = c

\* Its caller was told that it is queued.
Promised(c) == Done(c, "queued") \/ Pc(c, "requeued")

Untyped(c) == typed[c] = <<>>

\* An answer that was left to the monitor: its caller waits, and it is in
\* one place, or was dropped.
LeftOK(c) ==
  /\ Left(c) => Pc(c, "wait") /\ Untyped(c) /\ ~Queued(c) /\ ~Typing(c)
  /\ Queued(c) => Pc(c, "wait") /\ ~Typing(c) /\ (Untyped(c) <=> submit.st = "queued")
  /\ Typing(c) => Pc(c, "wait") /\ Untyped(c)
  /\ Writing(c) => Untyped(c) /\ (IF submit = None THEN Done(c, "unsure") ELSE submit = mon.held)
  /\ Forsaken(c) => Pc(c, "done") \/ (Pc(c, "wait") /\ Untyped(c) /\ ~Left(c) /\ ~Queued(c))
  /\ Pc(c, "wait") => Left(c) \/ Queued(c) \/ Typing(c) \/ Forsaken(c)

\* A reply, and a turn.
TurnOK(c) ==
  /\ reply = c => Promised(c) /\ Untyped(c) /\ ~Carried(c)
  /\ Carried(c) => Promised(c) /\ (Untyped(c) \/ (Turning(c) /\ turn.by = Monitor /\ turn.pc = "settle"))
  /\ Turning(c) => /\ \/ turn.by = Monitor /\ Carried(c) /\ mon.pc = "turn"
                      \/ turn.by = c /\ call[c].pc \in {"turn", "deliver"}
                   /\ Untyped(c) <=> turn.pc # "settle"

\* What the program counter of a call says of what was typed for it.
TypedOK(c) ==
  /\ call[c].pc \in {"new", "resolve", "peek", "bind", "blocked", "text", "modal", "write", "requeue"}
       => Untyped(c)
  /\ call[c].pc \in {"turn", "deliver"} => Untyped(c) \/ Turning(c)
  /\ Pc(c, "settle") => ~Untyped(c)
  /\ Done(c, "resumed") => ~Untyped(c)
  /\ Done(c, "refused") => Untyped(c)
  /\ ~Untyped(c) => Len(typed[c]) = 1

\* A call that is bound to a decision knows its kind.
BoundOK(c) ==
  /\ call[c].pc \in {"blocked", "modal", "text", "write"} => call[c].id \in 1..made
  /\ call[c].pc \in {"blocked", "modal", "text"} => (Current(call[c].id) => decision.kind = call[c].pc)

\* The call has claimed the decision: it is about to be typed for it, or was.
Claims(c, id) ==
  \/ Typing(c) /\ mon.held.id = id
  \/ Writing(c) /\ mon.held.id = id
  \/ Pc(c, "write") /\ call[c].id = id
  \/ ~Untyped(c) /\ typed[c][1].id = id

\* A decision that is claimed is one that was made, is not pending, and is
\* claimed by one call.
ClaimsOK ==
  \A c \in Callers : \A id \in 1..MaxDec : Claims(c, id) =>
    /\ id <= made /\ ~Current(id)
    /\ \A d \in Callers : Claims(d, id) => d = c

\* A reply that is queued has not been forgotten, and when a question is
\* asked while one is out of its slot it counts as lost.
ReplyOK(c) ==
  /\ Promised(c) => closing \/ c \in lost \/ reply = c \/ ~Untyped(c) \/ Carried(c)
  /\ question # None /\ (reply = c \/ Carried(c) \/ call[c].pc \in {"deliver", "requeue"}) => c \in lost

CallersOK ==
  \A c \in Callers : LeftOK(c) /\ TurnOK(c) /\ TypedOK(c) /\ BoundOK(c) /\ ReplyOK(c)

SInv == TypeOK /\ MonOK /\ GateOK /\ KindOK /\ DeliveryOK /\ CallersOK /\ ClaimsOK


-----------------------------------------------------------------------------
(* The belief engine                                                       *)

EngOK(e) == e \in Engine /\ (e.gate = None <=> e.kind = None)

Keyed(r) == EngOK(r.eng) /\ r.acts \in Seq(Act)

\* The actions of the engine are well formed.
LEMMA ActsTyped ==
  /\ \A k \in EngineKeys : Withdrawing(k) \in Act
  /\ \A k \in EngineKeys, kind \in {"modal", "text"} : Asking(k, kind) \in Act
  /\ Idling \in Act
  /\ \A p \in Frames : ScreenKey(p) \in EngineKeys
  /\ \A g \in Modals : GateKey(g) \in EngineKeys
  /\ <<>> \in Seq(Act) /\ \A a \in Act : <<a>> \in Seq(Act)
<1>1. \A k \in EngineKeys : Withdrawing(k) \in Act
  BY DEF Withdrawing, Act
<1>2. \A k \in EngineKeys, kind \in {"modal", "text"} : Asking(k, kind) \in Act
  BY DEF Asking, Act
<1>3. Idling \in Act
  BY DEF Act
<1>4. \A p \in Frames : ScreenKey(p) \in EngineKeys
  BY DEF ScreenKey, EngineKeys
<1>5. \A g \in Modals : GateKey(g) \in EngineKeys
  BY DEF GateKey, EngineKeys, Frames
<1>6. <<>> \in Seq(Act) /\ \A a \in Act : <<a>> \in Seq(Act)
  OBVIOUS
<1> QED
  BY <1>1, <1>2, <1>3, <1>4, <1>5, <1>6

\* A submit leaves the engine well formed (on_submit).
LEMMA OnSubmitTyped ==
  ASSUME NEW e, EngOK(e) PROVE EngOK(OnSubmit(e)) /\ EngOK(ExpectHooks(OnSubmit(e)))
<1>1. EngOK(OnSubmit(e))
  BY DEF EngOK, Engine, OnSubmit
<1>2. ASSUME NEW x, EngOK(x) PROVE EngOK(ExpectHooks(x))
  BY <1>2 DEF EngOK, Engine, ExpectHooks
<1> QED
  BY <1>1, <1>2

\* So does a hook, and what it asks for is well formed (on_hook).
LEMMA OnHookTyped ==
  ASSUME NEW e, EngOK(e), NEW h \in Hooks PROVE Keyed(OnHook(e, h))
<1> DEFINE x == TakeOver(e)
<1>1. EngOK(x)
  BY DEF EngOK, Engine, TakeOver
<1>2. TakenBack(e) \in Seq(Act)
  BY ActsTyped DEF EngOK, Engine, TakenBack
<1> HIDE DEF x
<1>3. /\ h.what = "opens" \/ h.what = "closes" \/ h.what = "clears" \/ h.what = "asks"
           \/ h.what = "permits" \/ h.what = "pre"
      /\ h.what \in {"asks", "permits", "pre"} => h.gate \in Modals
  BY DEF Hooks
<1>4. GatePending(x) \in Seq(Act) /\ Append(GatePending(x), Idling) \in Seq(Act)
  <2>1. GatePending(x) \in Seq(Act)
    BY <1>1, ActsTyped DEF EngOK, Engine, GatePending
  <2> QED
    BY <2>1, ActsTyped
<1>5. \A t \in {"open", "closed"}, s \in {"busy", "idle"} : EngOK(Turn(x, t, s)) /\ EngOK([Turn(x, t, s) EXCEPT !.tomb = {}])
  BY <1>1, ZenonT(60) DEF EngOK, Engine, Turn
<1>6. ASSUME h.what \in {"asks", "permits"} PROVE Keyed(OnGate(x, h))
  <2> DEFINE kind == Preferred(x.kind, h.what)
             asks == [x EXCEPT !.turn = "open", !.state = "awaiting", !.gate = h.gate, !.kind = kind]
             passed == [x EXCEPT !.turn = "open", !.state = "busy"]
             ask == <<Asking(GateKey(h.gate), "modal")>>
  <2>1. h.gate \in Modals /\ h.gate # None
    BY <1>3, <1>6, BeliefAssumption
  <2>2. kind \in {"permission", "modal"} /\ kind # None
    BY <1>1, BeliefAssumption DEF Preferred, EngOK, Engine
  <2>3. EngOK(asks)
    BY <1>1, <2>1, <2>2 DEF EngOK, Engine
  <2>4. EngOK(passed)
    BY <1>1 DEF EngOK, Engine
  <2>5. ask \in Seq(Act) /\ <<>> \in Seq(Act)
    BY <2>1, ActsTyped
  <2>6. OnGate(x, h) = IF x.gate = h.gate THEN [eng |-> asks, acts |-> IF kind = x.kind THEN <<>> ELSE ask]
                       ELSE IF h.gate \in x.tomb THEN [eng |-> passed, acts |-> <<>>]
                       ELSE [eng |-> asks, acts |-> ask]
    BY DEF OnGate
  <2> HIDE DEF kind, asks, passed, ask
  <2> QED
    BY <2>3, <2>4, <2>5, <2>6 DEF Keyed
<1>7. Keyed(OnHookActive(x, h))
  <2> DEFINE same == [eng |-> x, acts |-> <<>>]
  <2>1. Keyed(same)
    BY <1>1 DEF Keyed
  <2> HIDE DEF same
  <2>2. CASE h.what = "opens"
    <3>1. OnHookActive(x, h) = [eng |-> [Turn(x, "open", "busy") EXCEPT !.tomb = {}], acts |-> <<>>]
      BY <2>2 DEF OnHookActive
    <3> DEFINE y == [Turn(x, "open", "busy") EXCEPT !.tomb = {}]
    <3>2. EngOK(y)
      BY <1>5
    <3> HIDE DEF y
    <3> QED
      BY <3>1, <3>2, ActsTyped DEF Keyed, y
  <2>3. CASE h.what = "closes"
    BY <2>3, <1>4, <1>5, <2>1 DEF OnHookActive, Keyed, same
  <2>4. CASE h.what = "clears"
    BY <2>4, <1>4, <1>5, <2>1 DEF OnHookActive, Keyed, same
  <2>5. CASE h.what \in {"asks", "permits"}
    BY <2>5, <1>6, <2>1 DEF OnHookActive, same
  <2>6. CASE h.what = "pre"
    <3> DEFINE y == [x EXCEPT !.tomb = @ \ {h.gate}, !.state = "busy"]
    <3>1. EngOK(y)
      BY <1>1 DEF EngOK, Engine
    <3>2. OnHookActive(x, h) = IF x.turn = "open" THEN [eng |-> y, acts |-> <<>>] ELSE same
      BY <2>6 DEF OnHookActive, same
    <3> HIDE DEF y
    <3> QED
      BY <3>1, <3>2, <2>1 DEF Keyed
  <2> QED
    BY <1>3, <2>2, <2>3, <2>4, <2>5, <2>6
<1> DEFINE r == OnHookActive(x, h)
<1>8. OnHook(e, h) = [r EXCEPT !.acts = TakenBack(e) \o @]
  BY DEF OnHook, x
<1>9. \E g, a : r = [eng |-> g, acts |-> a]
  BY DEF OnHookActive, OnGate
<1> HIDE DEF r
<1> QED
  BY <1>2, <1>7, <1>8, <1>9 DEF Keyed, r

\* And so does every result of a tick.
LEMMA TickTyped ==
  ASSUME NEW e0, EngOK(e0), NEW f \in Frames, NEW r \in Tick(e0, f) PROVE Keyed(r)
<1>1. \A e \in Graced(e0) : EngOK(e)
  BY DEF Graced, EngOK, Engine
<1>2. CASE f = "gone"
  <2> DEFINE y == [e0 EXCEPT !.state = "terminal"]
  <2>1. EngOK(y)
    BY DEF EngOK, Engine
  <2>2. r = [eng |-> y, acts |-> <<>>]
    BY <1>2 DEF Tick
  <2> HIDE DEF y
  <2> QED
    BY <2>1, <2>2 DEF Keyed
<1>3. CASE f # "gone"
  <2>1. PICK e \in Graced(e0) : r \in IF e.mode = "active" THEN TickHookActive(e, f)
                                       ELSE IF f = "busy" THEN OnBusy(e) ELSE OnPrompt(e, f)
    BY <1>3 DEF Tick
  <2>2. EngOK(e)
    BY <1>1
  <2>3. ASSUME r \in TickHookActive(e, f) PROVE Keyed(r)
    <3> DEFINE y == [e EXCEPT !.turn = "closed", !.state = "idle"]
    <3>1. EngOK(y)
      BY <2>2 DEF EngOK, Engine
    <3>2. r = [eng |-> e, acts |-> <<>>] \/ r = [eng |-> y, acts |-> <<Idling>>]
      BY <2>3 DEF TickHookActive
    <3>3. <<>> \in Seq(Act) /\ <<Idling>> \in Seq(Act)
      BY ActsTyped
    <3> HIDE DEF y
    <3>4. r.eng \in {e, y} /\ r.acts \in {<<>>, <<Idling>>}
      BY <3>2
    <3> QED
      BY <3>1, <3>3, <3>4, <2>2 DEF Keyed
  <2>4. TakenBack(e) \in Seq(Act)
    BY <2>2, ActsTyped DEF EngOK, Engine, TakenBack
  <2>5. ASSUME r \in OnBusy(e) PROVE Keyed(r)
    <3> DEFINE y == [e EXCEPT !.pub = None, !.state = "busy"]
    <3>1. EngOK(y)
      BY <2>2 DEF EngOK, Engine
    <3>2. r = [eng |-> y, acts |-> TakenBack(e)]
      BY <2>5 DEF OnBusy
    <3> HIDE DEF y
    <3> QED
      BY <3>1, <3>2, <2>4 DEF Keyed
  <2>6. ASSUME r \in OnPrompt(e, f) PROVE Keyed(r)
    <3> DEFINE gone == e.pub \notin {None, f}
               held == ~gone /\ e.pub # None
               left == IF gone THEN <<Withdrawing(ScreenKey(e.pub))>> ELSE <<>>
               y(a) == [e EXCEPT !.pub = IF a # <<>> THEN f ELSE IF held THEN @ ELSE None,
                                 !.state = IF a # <<>> \/ held THEN "awaiting" ELSE "busy"]
    <3>1. PICK a : /\ r = [eng |-> y(a), acts |-> left \o a]
                   /\ a \in {<<>>, <<Asking(ScreenKey(f), "text")>>, <<Asking(ScreenKey(f), "modal")>>}
      <4> DEFINE says == {<<>>} \cup IF f = "box" /\ e.mode # "grace" THEN {<<Asking(ScreenKey(f), "text")>>} ELSE {}
                 new  == IF held THEN {<<>>} ELSE IF f \in Modals THEN {<<Asking(ScreenKey(f), "modal")>>} ELSE says
      <4>1. PICK a \in new : r = [eng |-> y(a), acts |-> left \o a]
        BY <2>6 DEF OnPrompt
      <4>2. a \in {<<>>, <<Asking(ScreenKey(f), "text")>>, <<Asking(ScreenKey(f), "modal")>>}
        BY DEF new, says
      <4> QED
        BY <4>1, <4>2
    <3>2. left \in Seq(Act)
      BY <2>2, ActsTyped DEF EngOK, Engine
    <3>3. a \in Seq(Act)
      <4>1. ScreenKey(f) \in EngineKeys
        BY ActsTyped
      <4>2. Asking(ScreenKey(f), "text") \in Act /\ Asking(ScreenKey(f), "modal") \in Act
        BY <4>1, ActsTyped
      <4>3. /\ <<>> \in Seq(Act) /\ <<Asking(ScreenKey(f), "text")>> \in Seq(Act)
            /\ <<Asking(ScreenKey(f), "modal")>> \in Seq(Act)
        BY <4>2, ActsTyped
      <4> QED
        BY <3>1, <4>3
    <3>4. EngOK(y(a))
      BY <2>2 DEF EngOK, Engine
    <3>5. r.eng = y(a) /\ r.acts = left \o a
      BY <3>1
    <3> HIDE DEF left, y
    <3> QED
      BY <3>2, <3>3, <3>4, <3>5 DEF Keyed
  <2> QED
    BY <2>1, <2>3, <2>5, <2>6
<1> QED
  BY <1>2, <1>3


-----------------------------------------------------------------------------
(* Frames                                                                  *)

\* A call moves on: nothing else of it changes, and no other call.
LEMMA CallMoves ==
  ASSUME TypeOK, NEW c \in Callers, NEW pc \in CallPc, Moves(c, pc)
  PROVE /\ call' \in [Callers -> CallRow]
        /\ call'[c].pc = pc /\ call'[c].id = call[c].id /\ call'[c].out = call[c].out
        /\ \A d \in Callers \ {c} : call'[d] = call[d]
BY DEF TypeOK, Moves, CallRow

\* What a reply tells its caller is one of four things.
LEMMA ToldTyped ==
  /\ \A out : Told(out) \in {"resumed", "refused", "queued", "unsure"}
  /\ \A out \in Refusals : Told(out) = "refused"
  /\ Told("resumed") = "resumed" /\ Told("queued") = "queued"
  /\ \A out \in {"terminal", "write_timeout", "respond_failed"} : Told(out) = "unsure"
BY DEF Told, Refusals

\* A call that is answered is done, and no other call changes.
LEMMA CallAnswered ==
  ASSUME TypeOK, NEW c \in Callers, NEW out, NEW x, x = Answered(c, out)
  PROVE /\ x \in [Callers -> CallRow]
        /\ x[c].pc = "done" /\ x[c].out = Told(out)
        /\ \A d \in Callers \ {c} : x[d] = call[d]
<1> DEFINE w == [pc |-> "done", id |-> 0, out |-> Told(out)]
<1>1. w \in CallRow /\ w.pc = "done" /\ w.out = Told(out)
  BY ToldTyped, SessionAssumption DEF CallRow, CallPc
<1>2. x = [call EXCEPT ![c] = w]
  BY DEF Answered
<1>3. call \in [Callers -> CallRow]
  BY DEF TypeOK
<1> HIDE DEF w
<1> QED
  BY <1>1, <1>2, <1>3

\* The monitor hands an outcome to a caller that waits, or nobody notices.
LEMMA CallWakes ==
  ASSUME TypeOK, NEW c \in Callers, NEW out, Wakes(c, out)
  PROVE /\ call' \in [Callers -> CallRow]
        /\ IF Pc(c, "wait") THEN call'[c].pc = "done" /\ call'[c].out = Told(out) ELSE call'[c] = call[c]
        /\ \A d \in Callers \ {c} : call'[d] = call[d]
<1>1. CASE Pc(c, "wait")
  <2>1. call' = Answered(c, out)
    BY <1>1 DEF Wakes
  <2> QED
    BY <1>1, <2>1, CallAnswered
<1>2. CASE ~Pc(c, "wait")
  BY <1>2 DEF Wakes, TypeOK
<1> QED
  BY <1>1, <1>2

Handing == {"type", "write", "turn", "requeue"}
slots   == <<call, typed, answer, submit, reply, turn, question, lost>>

\* The monitor does not touch the slots and has nothing in its hands.
LEMMA QuietFrame ==
  ASSUME CallersOK, UNCHANGED <<slots, Dropped>>, mon.pc \notin Handing, mon'.pc \notin Handing,
         closing => closing'
  PROVE \A c \in Callers : LeftOK(c)' /\ TurnOK(c)' /\ TypedOK(c)' /\ ReplyOK(c)'
<1> SUFFICES ASSUME NEW c \in Callers PROVE LeftOK(c)' /\ TurnOK(c)' /\ TypedOK(c)' /\ ReplyOK(c)'
  OBVIOUS
<1>1. LeftOK(c) /\ TurnOK(c) /\ TypedOK(c) /\ ReplyOK(c)
  BY DEF CallersOK
<1> USE DEF slots, Handing
<1>2. /\ Left(c)' = Left(c) /\ Queued(c)' = Queued(c) /\ Turning(c)' = Turning(c)
      /\ Promised(c)' = Promised(c) /\ Untyped(c)' = Untyped(c)
      /\ ~Typing(c) /\ ~Writing(c) /\ ~Carried(c) /\ ~Typing(c)' /\ ~Writing(c)' /\ ~Carried(c)'
  BY DEF Left, Queued, Turning, Promised, Done, Pc, Untyped, Typing, Writing, Carried
<1>3. LeftOK(c)'
  BY <1>1, <1>2 DEF LeftOK, Pc, Forsaken
<1>4. TurnOK(c)'
  BY <1>1, <1>2 DEF TurnOK
<1>5. TypedOK(c)'
  BY <1>1, <1>2 DEF TypedOK, Pc, Done
<1>6. ReplyOK(c)'
  BY <1>1, <1>2 DEF ReplyOK
<1> QED
  BY <1>3, <1>4, <1>5, <1>6

\* The pending decision stays, goes, or gives way to an idle or a new one.
Renewed == /\ made <= made' /\ made' \in 0..MaxDec
           /\ decision' # None => decision' = decision \/ decision'.id = 0 \/ decision'.id = made + 1

\* Then what the calls are bound to and have claimed stays so.
LEMMA RenewedFrame ==
  ASSUME TypeOK, CallersOK, ClaimsOK, Renewed, UNCHANGED <<call, typed>>,
         mon' = mon \/ mon'.pc \notin {"type", "write"}
  PROVE (\A c \in Callers : BoundOK(c)') /\ ClaimsOK'
<1>0. made \in 0..MaxDec /\ MaxDec \in Nat
  BY SessionAssumption DEF TypeOK
<1>1. \A id \in 1..made : Current(id)' => Current(id) /\ decision' = decision
  BY <1>0 DEF Renewed, Current
<1>2. ASSUME NEW c \in Callers PROVE BoundOK(c)'
  <2>1. BoundOK(c)
    BY DEF CallersOK
  <2>2. call[c].pc \in {"blocked", "modal", "text", "write"} => call[c].id \in 1..made'
    BY <2>1, <1>0 DEF BoundOK, Renewed
  <2> QED
    BY <1>1, <2>1, <2>2 DEF BoundOK
<1>3. ASSUME NEW c \in Callers, NEW id \in 1..MaxDec, Claims(c, id)' PROVE Claims(c, id)
  BY <1>3 DEF Claims, Typing, Writing, Pc, Untyped
<1>4. ClaimsOK'
  <2> SUFFICES ASSUME NEW c \in Callers, NEW id \in 1..MaxDec, Claims(c, id)'
               PROVE /\ id <= made' /\ ~Current(id)'
                     /\ \A d \in Callers : Claims(d, id)' => d = c
    BY DEF ClaimsOK
  <2>1. Claims(c, id) /\ id \in 1..made /\ ~Current(id)
    BY <1>3, <1>0 DEF ClaimsOK
  <2>2. \A d \in Callers : Claims(d, id)' => d = c
    BY <1>3, <2>1 DEF ClaimsOK
  <2> QED
    BY <1>0, <1>1, <2>1, <2>2 DEF Renewed
<1> QED
  BY <1>2, <1>4


-----------------------------------------------------------------------------
(* The monitor, with nothing in its hands                                  *)

\* Both frames together.
LEMMA QuietStep ==
  ASSUME SInv, UNCHANGED <<slots, Dropped>>, mon.pc \notin Handing, mon'.pc \notin Handing, closing => closing',
         Renewed
  PROVE CallersOK' /\ ClaimsOK'
<1>1. \A c \in Callers : LeftOK(c)' /\ TurnOK(c)' /\ TypedOK(c)' /\ ReplyOK(c)'
  BY QuietFrame DEF SInv
<1>2. (\A c \in Callers : BoundOK(c)') /\ ClaimsOK'
  BY RenewedFrame DEF SInv, slots, Handing
<1> QED
  BY <1>1, <1>2 DEF CallersOK

\* _delivery_tick.
LEMMA DeliveryTickStep == ASSUME SInv, DeliveryTick PROVE SInv'
<1> USE DEF SInv
<1>0. MaxDec \in Nat /\ made \in 0..MaxDec
  BY SessionAssumption DEF TypeOK
<1>1. /\ UNCHANGED <<slots, state, eng, hooked, closing, asked>>
      /\ mon.pc = "tick" /\ mon' = [mon EXCEPT !.pc = mon'.pc] /\ mon'.pc \in {"end", "confirm"}
      /\ delivery = "pending" /\ UNCHANGED Dropped
  BY DEF Dropped, DeliveryTick, slots, slotVars, asyncVars, belief, At, Goto, MonOK, DeliveryOK, TypeOK, MonitorRow
<1>2. mon' \in MonitorRow /\ mon'.frame = mon.frame
  BY <1>1 DEF TypeOK, MonitorRow, MonitorPc
<1>3. CASE mon.frame \in Modals \ {dedup} /\ EmitBlocked /\ UNCHANGED delivery /\ mon'.pc = "end"
  <2>1. decision' = [id |-> made + 1, kind |-> "blocked", key |-> <<"blocked", mon.frame>>] /\ made' = made + 1
        /\ made + 1 <= MaxDec /\ dedup' = mon.frame
    BY <1>3, <1>0 DEF EmitBlocked
  <2> DEFINE x == [id |-> made + 1, kind |-> "blocked"]
  <2>2. open' = {d \in open : ~Current(d.id)} \cup {x} /\ x \in Event /\ x.id = made + 1
    BY <1>3, <1>0, <2>1 DEF EmitBlocked, Event
  <2> HIDE DEF x
  <2>3. decision' \in Decision /\ decision' # None /\ decision'.id = made + 1 /\ decision'.kind = "blocked"
        /\ decision'.key \in {"blocked"} \X Modals
    <3>1. <<"blocked", mon.frame>> \in {"blocked"} \X Modals /\ <<"blocked", mon.frame>> \in Keys
      BY <1>3 DEF Keys, Frames
    <3> QED
      BY <3>1, <2>1, <1>0, SessionAssumption DEF Decision
  <2>4. TypeOK'
    <3>1. open' \subseteq Event /\ \A d \in open' : d.id <= made'
      <4>1. \A d \in open : d.id \in 1..MaxDec /\ d.id <= made
        BY DEF TypeOK, Event
      <4> QED
        BY <1>0, <2>1, <2>2, <4>1 DEF TypeOK
    <3>2. (answer # None => answer.id \in Nat) /\ (submit # None => submit.id \in Nat)
      BY DEF TypeOK, Answer, Submit
    <3> QED
      BY <1>0, <1>1, <1>2, <1>3, <2>1, <2>3, <3>1, <3>2 DEF TypeOK, slots
  <2>5. CallersOK' /\ ClaimsOK'
    BY QuietStep, <1>0, <1>1, <2>1, <2>3 DEF Handing, Renewed
  <2>6. MonOK' /\ GateOK'
    BY <1>1, <1>2, <1>3 DEF MonOK, GateOK, slots
  <2>7. KindOK'
    BY <2>3, <1>0 DEF KindOK
  <2>8. \A d \in open' : Current(d.id)'
    BY <1>1, <2>1, <2>2, <2>3 DEF DeliveryOK, Current
  <2>9. DeliveryOK'
    BY <1>1, <1>3, <2>3, <2>8 DEF DeliveryOK, BlockedOnlyBefore, slots
  <2> QED
    BY <2>4, <2>5, <2>6, <2>7, <2>9
<1>4. CASE UNCHANGED <<dedup, pauseVars>> /\ delivery' \in {delivery, "failed"} /\ (mon'.pc = "confirm" => delivery' = delivery)
  <2> USE DEF pauseVars
  <2>1. TypeOK'
    BY <1>1, <1>2, <1>4 DEF TypeOK, slots
  <2>2. CallersOK' /\ ClaimsOK'
    BY QuietStep, <1>0, <1>1, <1>4 DEF Handing, Renewed
  <2>3. MonOK' /\ GateOK' /\ KindOK'
    BY <1>1, <1>2, <1>4 DEF MonOK, GateOK, slots, KindOK
  <2>4. DeliveryOK'
    BY <1>1, <1>4 DEF DeliveryOK, BlockedOnlyBefore, slots, Current
  <2> QED
    BY <2>1, <2>2, <2>3, <2>4
<1> QED
  BY <1>1, <1>3, <1>4 DEF DeliveryTick, Goto, TypeOK, MonitorRow, pauseVars


\* What the provers need to know of the numbers.
LEMMA Numbers ==
  ASSUME TypeOK
  PROVE /\ MaxDec \in Nat /\ MaxAsked \in Nat /\ MaxHooks \in Nat /\ made \in 0..MaxDec
        /\ (answer # None => answer.id \in 1..MaxDec /\ answer.id <= made)
        /\ (submit # None => submit.id \in 1..MaxDec /\ submit.id <= made)
        /\ (decision # None => decision.id \in 0..MaxDec /\ decision.id <= made)
        /\ \A d \in open : d.id \in 1..MaxDec /\ d.id <= made
BY SessionAssumption DEF TypeOK, Answer, Submit, Decision, Event

Loop == {"hooks", "apply", "install", "submit", "reply"}

\* An iteration of _loop_once that leaves the slots alone.
LEMMA LoopStep ==
  ASSUME SInv, UNCHANGED <<slots, delivery, dedup, closing, asked>>,
         mon.pc \in Loop, mon'.pc \in Loop \/ (mon'.pc = "close" /\ mon'.held = None), mon' \in MonitorRow, MonOK',
         hooked' \in 0..MaxHooks, EngOK(eng'), state' \in {"busy", "awaiting", "idle", "terminal"},
         Renewed, decision' \in Decision \cup {None}, KindOK',
         decision' # None => decision'.kind # "blocked" /\ decision'.id <= made',
         open' \subseteq Event, \A d \in open' : d.id <= made' /\ d.kind # "blocked"
  PROVE SInv'
<1> USE DEF SInv
<1>0. /\ mon.pc \in {"hooks", "apply", "install", "submit", "reply"}
      /\ mon'.pc \in {"hooks", "apply", "install", "submit", "reply", "close"} /\ UNCHANGED Dropped
      /\ delivery = "delivered"
  BY DEF Loop, DeliveryOK, Dropped
<1>1. TypeOK'
  BY Numbers DEF TypeOK, slots, EngOK, Renewed
<1>2. CallersOK' /\ ClaimsOK'
  BY QuietStep, <1>0 DEF Handing
<1>3. GateOK'
  BY <1>0 DEF GateOK, slots
<1>4. DeliveryOK'
  BY <1>0 DEF DeliveryOK, BlockedOnlyBefore
<1> QED
  BY <1>1, <1>2, <1>3, <1>4

\* After delivery no blocked decision is pending or open.
LEMMA Delivered ==
  ASSUME SInv, mon.pc \in Loop
  PROVE /\ delivery = "delivered" /\ closing = FALSE
        /\ decision # None => decision.kind # "blocked" /\ decision.id <= made
        /\ open \subseteq Event /\ \A d \in open : d.id <= made /\ d.kind # "blocked"
        /\ decision \in Decision \cup {None} /\ KindOK
        /\ mon \in MonitorRow /\ MonOK
        /\ hooked \in 0..MaxHooks /\ EngOK(eng) /\ state \in {"busy", "awaiting", "idle", "terminal"}
<1>1. delivery = "delivered" /\ closing = FALSE /\ BlockedOnlyBefore
  BY DEF SInv, DeliveryOK, Loop, GateOK, TypeOK
<1> QED
  BY <1>1 DEF SInv, TypeOK, BlockedOnlyBefore, EngOK

\* The actions of the engine that are left to apply.
LEMMA ApplyTyped ==
  ASSUME NEW m \in MonitorRow, NEW acts \in Seq(Act), NEW then \in {"hooks", "submit"}, Apply(m, acts, then)
  PROVE mon' \in MonitorRow /\ mon'.pc \in {"hooks", "submit", "apply"} /\ MonOK'
<1> DEFINE p == IF acts = <<>> THEN then ELSE "apply"
           t == IF acts = <<>> THEN None ELSE then
<1>1. p \in {"hooks", "submit", "apply"} /\ p \in MonitorPc /\ t \in {"hooks", "submit", None}
      /\ (p = "apply" => acts # <<>> /\ t \in {"hooks", "submit"})
  BY DEF MonitorPc
<1>2. mon' = [m EXCEPT !.pc = p, !.acts = acts, !.then = t]
  BY DEF Apply
<1> HIDE DEF p, t
<1>3. mon' \in MonitorRow /\ mon'.pc = p /\ mon'.acts = acts /\ mon'.then = t
  BY <1>1, <1>2 DEF MonitorRow
<1> QED
  BY <1>1, <1>3 DEF MonOK

\* _sync_control_state: the decision stays, or an idle one goes.
LEMMA SyncTyped ==
  ASSUME SInv, NEW e, EngOK(e), Sync(e), made' = made
  PROVE /\ EngOK(eng') /\ state' \in {"busy", "awaiting", "idle", "terminal"}
        /\ Renewed /\ decision' \in {decision, None} /\ KindOK'
<1>1. EngOK(eng') /\ state' \in {"busy", "awaiting", "idle", "terminal"} /\ decision' \in {decision, None}
  BY DEF Sync, EngOK, Engine, SInv, TypeOK
<1>2. KindOK' /\ Renewed
  BY <1>1, Numbers DEF SInv, KindOK, Renewed
<1> QED
  BY <1>1, <1>2

\* _drain_hooks.
LEMMA DrainHookStep == ASSUME SInv, NEW h \in Hooks, DrainHook(h) PROVE SInv'
<1> DEFINE r == OnHook(eng, h)
<1>1. /\ mon.pc = "hooks" /\ hooked' = hooked + 1 /\ hooked < MaxHooks /\ Sync(r.eng) /\ Apply(mon, r.acts, "hooks")
      /\ UNCHANGED <<slots, delivery, dedup, closing, asked, made, open>>
  BY DEF DrainHook, At, slots, slotVars, asyncVars
<1>2. mon.pc \in Loop
  BY <1>1 DEF Loop
<1>3. Keyed(r)
  BY <1>2, Delivered, OnHookTyped
<1> HIDE DEF r
<1>4. mon' \in MonitorRow /\ mon'.pc \in Loop /\ MonOK'
  BY <1>1, <1>2, <1>3, Delivered, ApplyTyped DEF Keyed, Loop
<1>5. /\ EngOK(eng') /\ state' \in {"busy", "awaiting", "idle", "terminal"}
      /\ Renewed /\ decision' \in {decision, None} /\ KindOK'
  BY <1>1, <1>3, SyncTyped DEF Keyed
<1>6. hooked' \in 0..MaxHooks
  BY <1>1, Numbers DEF SInv, TypeOK
<1> QED
  BY <1>1, <1>2, <1>4, <1>5, <1>6, Delivered, LoopStep

\* A frame is rendered and the engine ticks.
LEMMA SeeStep == ASSUME SInv, NEW f \in Frames, See(f) PROVE SInv'
<1> DEFINE m == [mon EXCEPT !.frame = f]
<1>1. PICK r \in Tick(eng, f) : Sync(r.eng) /\ Apply(m, r.acts, "submit")
  BY DEF See
<1>2. /\ mon.pc = "hooks" /\ mon.pc \in Loop
      /\ UNCHANGED <<slots, delivery, dedup, closing, asked, made, open, hooked>>
  BY DEF See, At, slots, slotVars, asyncVars, Loop
<1>3. Keyed(r)
  BY <1>2, Delivered, TickTyped
<1>4. m \in MonitorRow
  BY <1>2, Delivered DEF MonitorRow
<1> HIDE DEF m
<1>5. mon' \in MonitorRow /\ mon'.pc \in Loop /\ MonOK'
  BY <1>1, <1>3, <1>4, ApplyTyped DEF Keyed, Loop
<1>6. /\ EngOK(eng') /\ state' \in {"busy", "awaiting", "idle", "terminal"}
      /\ Renewed /\ decision' \in {decision, None} /\ KindOK'
  BY <1>1, <1>2, <1>3, SyncTyped DEF Keyed
<1> QED
  BY <1>2, <1>5, <1>6, Delivered, LoopStep

\* At the next action of the engine: it is well formed, and so are the rest.
LEMMA NextAct ==
  ASSUME SInv, mon.pc \in {"apply", "install"}
  PROVE /\ Head(mon.acts) \in Act /\ Tail(mon.acts) \in Seq(Act) /\ mon.then \in {"hooks", "submit"}
        /\ mon.pc \in Loop /\ mon \in MonitorRow
<1>1. mon \in MonitorRow /\ mon.acts \in Seq(Act)
  BY DEF SInv, TypeOK, MonitorRow
<1>2. mon.acts # <<>> /\ mon.then \in {"hooks", "submit"}
  BY DEF SInv, MonOK
<1> QED
  BY <1>1, <1>2 DEF Loop


\* A withdrawal: the decision of that key goes, if it is the pending one.
LEMMA ApplyWithdrawStep == ASSUME SInv, ApplyWithdraw PROVE SInv'
<1> DEFINE a == Head(mon.acts)
<1>1. /\ mon.pc = "apply" /\ Apply(mon, Tail(mon.acts), mon.then)
      /\ UNCHANGED <<slots, eng, delivery, dedup, closing, asked, made, hooked>>
      /\ (decision' = None /\ state' = "busy" /\ open' = {d \in open : d.id # decision.id})
            \/ UNCHANGED <<decision, state, open>>
  BY DEF ApplyWithdraw, At, slots, slotVars, asyncVars, Resolve
<1>2. /\ Tail(mon.acts) \in Seq(Act) /\ mon.then \in {"hooks", "submit"} /\ mon.pc \in Loop /\ mon \in MonitorRow
  BY <1>1, NextAct
<1>3. mon' \in MonitorRow /\ mon'.pc \in Loop /\ MonOK'
  BY <1>1, <1>2, ApplyTyped DEF Loop
<1>4. Renewed /\ KindOK'
  BY <1>1, <1>2, Numbers, Delivered DEF Renewed, KindOK, SInv
<1> QED
  BY <1>1, <1>2, <1>3, <1>4, Delivered, LoopStep

\* The idle decision.
LEMMA EmitIdleStep == ASSUME SInv, EmitIdle PROVE SInv'
<1>1. /\ mon.pc = "apply" /\ Apply(mon, Tail(mon.acts), mon.then) /\ decision' = Idle
      /\ UNCHANGED <<slots, eng, state, delivery, dedup, closing, asked, made, open, hooked>>
  BY DEF EmitIdle, At, slots, slotVars, asyncVars, belief
<1>2. /\ Tail(mon.acts) \in Seq(Act) /\ mon.then \in {"hooks", "submit"} /\ mon.pc \in Loop /\ mon \in MonitorRow
  BY <1>1, NextAct
<1>3. mon' \in MonitorRow /\ mon'.pc \in Loop /\ MonOK'
  BY <1>1, <1>2, ApplyTyped DEF Loop
<1>4. MaxDec \in Nat /\ made \in 0..MaxDec
  BY Numbers DEF SInv
<1>5. decision' \in Decision /\ decision'.kind = "idle" /\ decision'.id = 0
  BY <1>1, <1>4 DEF Idle, Decision
<1>6. Renewed /\ KindOK' /\ decision'.id <= made' /\ decision'.kind # "blocked"
  BY <1>1, <1>4, <1>5 DEF Renewed, KindOK
<1> QED
  BY <1>1, <1>2, <1>3, <1>5, <1>6, Delivered, LoopStep

\* _publish up to the ring.
LEMMA BuildStep == ASSUME SInv, Build PROVE SInv'
<1> DEFINE a == Head(mon.acts)
           again == decision # None /\ decision.key = a.key
           x == [id |-> IF again THEN decision.id ELSE made + 1, kind |-> a.kind, key |-> a.key, again |-> again]
<1>1. /\ mon.pc = "apply" /\ a.do = "ask" /\ (again \/ made < MaxDec)
      /\ mon' = [mon EXCEPT !.pc = "install", !.draft = x]
      /\ UNCHANGED <<slots, eng, state, delivery, dedup, closing, asked, decision, made, open, hooked>>
  BY DEF Build, At, slots, slotVars, asyncVars, belief, pauseVars
<1>2. a \in Act /\ mon.pc \in Loop /\ mon \in MonitorRow
  BY <1>1, NextAct
<1>3. a.kind \in {"modal", "text"} /\ a.key \in EngineKeys
  BY <1>1, <1>2 DEF Act, Idling
<1>4. MaxDec \in Nat /\ made \in 0..MaxDec
  BY Numbers DEF SInv
<1>5. ASSUME again PROVE decision.id \in 1..MaxDec /\ decision.id <= made
  <2>1. decision \in Decision /\ a.key # None /\ decision.id <= made
    BY <1>3, <1>5, SessionAssumption DEF SInv, TypeOK, Keys
  <2>2. decision.kind # "idle"
    BY <1>5, <2>1 DEF SInv, KindOK, Idle
  <2>3. decision.id >= 1
    BY <1>5, <2>1, <2>2 DEF SInv, KindOK, Decision
  <2> QED
    BY <2>1, <2>3, <1>4 DEF Decision
<1>6. x \in Draft /\ (IF x.again THEN x.id <= made ELSE x.id = made + 1)
  <2>1. CASE again
    BY <2>1, <1>3, <1>4, <1>5 DEF Draft
  <2>2. CASE ~again
    <3>1. x = [id |-> made + 1, kind |-> a.kind, key |-> a.key, again |-> FALSE]
      BY <2>2
    <3>2. made + 1 \in 1..MaxDec
      BY <1>1, <1>4, <2>2
    <3> HIDE DEF x, a, again
    <3> QED
      BY <3>1, <3>2, <1>3 DEF Draft
  <2> QED
    BY <2>1, <2>2
<1> HIDE DEF x
<1>7. mon' \in MonitorRow /\ mon'.pc = "install" /\ mon'.draft = x /\ mon'.acts = mon.acts /\ mon'.then = mon.then
  BY <1>1, <1>2, <1>6 DEF MonitorRow, MonitorPc
<1>8. MonOK'
  BY <1>1, <1>2, <1>6, <1>7, Delivered DEF MonOK
<1>9. Renewed /\ KindOK'
  BY <1>1, <1>2, <1>4, Delivered DEF Renewed, KindOK
<1> QED
  BY <1>1, <1>2, <1>7, <1>8, <1>9, Delivered, LoopStep DEF Loop

\* _install: a new pause is numbered above all others; of an earlier one only
\* what is still pending is opened again.
LEMMA InstallStep == ASSUME SInv, Install PROVE SInv'
<1> DEFINE d == mon.draft
           ev == [id |-> d.id, kind |-> d.kind]
<1>1. /\ mon.pc = "install" /\ Apply([mon EXCEPT !.draft = None], Tail(mon.acts), mon.then)
      /\ UNCHANGED <<slots, eng, state, delivery, dedup, closing, asked, hooked>>
      /\ IF d.again
         THEN UNCHANGED <<decision, made>> /\ open' = IF Current(d.id) THEN open \cup {ev} ELSE open
         ELSE /\ decision' = [id |-> d.id, kind |-> d.kind, key |-> d.key] /\ made' = d.id
              /\ open' = {o \in open : ~Current(o.id)} \cup {ev}
  BY DEF Install, Installed, Reinstalled, At, slots, slotVars, asyncVars, belief
<1>2. /\ Tail(mon.acts) \in Seq(Act) /\ mon.then \in {"hooks", "submit"} /\ mon.pc \in Loop /\ mon \in MonitorRow
  BY <1>1, NextAct
<1>3. d \in Draft /\ (IF d.again THEN d.id <= made ELSE d.id = made + 1)
  BY <1>1 DEF SInv, MonOK
<1>4. MaxDec \in Nat /\ made \in 0..MaxDec /\ \A o \in open : o.id \in 1..MaxDec /\ o.id <= made
  BY Numbers DEF SInv
<1>5. ev \in Event /\ ev.id = d.id /\ ev.kind # "blocked" /\ d.id \in 1..MaxDec /\ d.kind \in {"modal", "text"}
      /\ d.key \in EngineKeys
  BY <1>3 DEF Draft, Event
<1>6. mon' \in MonitorRow /\ mon'.pc \in Loop /\ MonOK'
  <2>1. [mon EXCEPT !.draft = None] \in MonitorRow
    BY <1>2 DEF MonitorRow
  <2> QED
    BY <1>1, <1>2, <2>1, ApplyTyped DEF Loop
<1> HIDE DEF d, ev
<1>7. CASE d.again
  <2>1. Renewed /\ KindOK'
    BY <1>1, <1>2, <1>4, <1>7, Delivered DEF Renewed, KindOK
  <2>2. open' \subseteq Event /\ \A o \in open' : o.id <= made' /\ o.kind # "blocked"
    BY <1>1, <1>2, <1>3, <1>5, <1>7, Delivered
  <2> QED
    BY <1>1, <1>2, <1>6, <1>7, <2>1, <2>2, Delivered, LoopStep
<1>8. CASE ~d.again
  <2>1. decision' = [id |-> d.id, kind |-> d.kind, key |-> d.key] /\ made' = d.id /\ d.id = made + 1
    BY <1>1, <1>3, <1>8
  <2>2. decision' \in Decision /\ decision'.id = d.id /\ decision'.kind = d.kind /\ decision'.key = d.key
    BY <1>5, <2>1 DEF Decision, Keys
  <2>3. Renewed /\ KindOK'
    BY <1>4, <1>5, <2>1, <2>2 DEF Renewed, KindOK
  <2>4. open' = {o \in open : ~Current(o.id)} \cup {ev}
    BY <1>1, <1>8
  <2>5. open' \subseteq Event /\ \A o \in open' : o.id <= made' /\ o.kind # "blocked"
    <3>1. open \subseteq Event /\ \A o \in open : o.kind # "blocked"
      BY <1>2, Delivered
    <3>2. \A o \in open' : o \in open \/ o = ev
      BY <2>4
    <3>3. \A o \in open : o.id <= made + 1
      BY <1>4
    <3>4. ev.id <= made + 1
      BY <1>4, <1>5, <2>1
    <3> QED
      BY <1>5, <2>1, <3>1, <3>2, <3>3, <3>4
  <2>6. decision'.kind # "blocked" /\ decision'.id <= made'
    BY <1>5, <2>1, <2>2
  <2> QED
    BY <1>1, <1>2, <1>6, <2>2, <2>3, <2>5, <2>6, Delivered, LoopStep
<1> QED
  BY <1>7, <1>8

\* Nothing is queued.
LEMMA NoSubmitStep == ASSUME SInv, NoSubmit PROVE SInv'
<1>1. /\ mon.pc = "submit" /\ mon.pc \in Loop /\ mon' = [mon EXCEPT !.pc = "reply"]
      /\ UNCHANGED <<slots, eng, state, delivery, dedup, closing, asked, decision, made, open, hooked>>
  BY DEF NoSubmit, At, Goto, slots, slotVars, asyncVars, belief, pauseVars, Loop
<1>2. mon' \in MonitorRow /\ mon'.pc = "reply"
  BY <1>1, Delivered DEF MonitorRow, MonitorPc
<1>3. MonOK' /\ Renewed /\ KindOK'
  BY <1>1, <1>2, Numbers, Delivered DEF MonOK, Renewed, KindOK, SInv
<1> QED
  BY <1>1, <1>2, <1>3, Delivered, LoopStep DEF Loop


\* The locals of the monitor between two iterations.
LEMMA RestTyped ==
  ASSUME NEW p \in MonitorPc
  PROVE [Resting EXCEPT !.pc = p] \in MonitorRow /\ [Resting EXCEPT !.pc = p].pc = p
<1>1. <<>> \in Seq(Act)
  BY ActsTyped
<1>2. [Resting EXCEPT !.pc = p] = [pc |-> p, frame |-> None, acts |-> <<>>, then |-> None, draft |-> None, held |-> None]
  BY DEF Resting
<1> QED
  BY <1>1, <1>2 DEF MonitorRow

\* _fail_delivery.
LEMMA FailDeliveryStep == ASSUME SInv, FailDelivery PROVE SInv'
<1> USE DEF SInv
<1>1. /\ mon.pc = "confirm" /\ mon' = [mon EXCEPT !.pc = "end"] /\ delivery' = "failed"
      /\ UNCHANGED <<slots, eng, state, dedup, closing, asked, decision, made, open, hooked>>
      /\ delivery = "pending"
  BY DEF FailDelivery, At, Goto, slots, slotVars, asyncVars, belief, pauseVars, DeliveryOK
<1>2. mon' \in MonitorRow /\ mon'.pc = "end" /\ UNCHANGED Dropped
  BY <1>1 DEF TypeOK, MonitorRow, MonitorPc, Dropped
<1>3. TypeOK'
  BY <1>1, <1>2 DEF TypeOK, slots
<1>4. CallersOK' /\ ClaimsOK'
  BY QuietStep, Numbers, <1>1, <1>2 DEF Handing, Renewed
<1>5. MonOK' /\ GateOK' /\ KindOK' /\ DeliveryOK'
  BY <1>1, <1>2 DEF MonOK, GateOK, KindOK, DeliveryOK, BlockedOnlyBefore, slots
<1> QED
  BY <1>3, <1>4, <1>5

\* The end of an iteration before delivery, with the nag and the deadline.
LEMMA EndPreStep == ASSUME SInv, EndPre PROVE SInv'
<1> USE DEF SInv
<1>1. /\ mon.pc = "end"
      /\ UNCHANGED <<slots, eng, state, dedup, closing, asked, decision, made, hooked>>
      /\ \/ UNCHANGED <<delivery, open>>
         \/ /\ decision # None /\ decision.kind = "blocked" /\ UNCHANGED delivery
            /\ open' = open \cup {[id |-> decision.id, kind |-> "blocked"]}
         \/ delivery = "pending" /\ delivery' = "failed" /\ UNCHANGED open
  BY DEF EndPre, At, slots, slotVars, asyncVars, belief
<1>2. delivery' \in {"pending", "delivered", "failed"} /\ (delivery' = "delivered" <=> delivery = "delivered")
      /\ (delivery' = "pending" => delivery = "pending")
  BY <1>1 DEF TypeOK
<1>3. PICK p \in {"ready", "hooks", "close"} :
        mon' = [Resting EXCEPT !.pc = p] /\ (p = "ready" => delivery' = "pending") /\ (p = "hooks" => delivery' = "delivered")
  BY <1>2 DEF EndPre, Again
<1>4. mon' \in MonitorRow /\ mon'.pc = p /\ UNCHANGED Dropped
  BY <1>1, <1>3, RestTyped DEF MonitorPc, Dropped, Resting
<1>5. /\ open' \subseteq Event /\ (\A d \in open' : d.id <= made)
      /\ \A d \in open' : d \in open \/ (decision # None /\ decision.kind = "blocked" /\ d.id = decision.id)
  <2>1. CASE UNCHANGED open
    BY <2>1 DEF TypeOK
  <2>2. CASE decision # None /\ decision.kind = "blocked" /\ open' = open \cup {[id |-> decision.id, kind |-> "blocked"]}
    <3> DEFINE ev == [id |-> decision.id, kind |-> "blocked"]
    <3>1. decision.id \in 1..MaxDec /\ decision.id <= made
      BY <2>2, Numbers DEF KindOK
    <3>2. ev \in Event /\ ev.id = decision.id
      BY <3>1 DEF Event
    <3> HIDE DEF ev
    <3>3. open' = open \cup {ev}
      BY <2>2 DEF ev
    <3> QED
      BY <2>2, <3>1, <3>2, <3>3 DEF TypeOK
  <2> QED
    BY <1>1, <2>1, <2>2
<1>6. TypeOK'
  BY <1>1, <1>2, <1>4, <1>5 DEF TypeOK, slots
<1>7. CallersOK' /\ ClaimsOK'
  BY QuietStep, Numbers, <1>1, <1>3, <1>4 DEF Handing, Renewed
<1>8. MonOK' /\ GateOK' /\ KindOK'
  BY <1>1, <1>3, <1>4 DEF MonOK, GateOK, KindOK, slots
<1>9. DeliveryOK'
  <2>1. ASSUME delivery' = "pending" PROVE \A d \in open' : Current(d.id)'
    BY <2>1, <1>1, <1>2, <1>5 DEF DeliveryOK, Current
  <2>2. BlockedOnlyBefore'
    BY <1>1, <1>2 DEF DeliveryOK, BlockedOnlyBefore
  <2> QED
    BY <1>1, <1>2, <1>3, <1>4, <2>1, <2>2 DEF DeliveryOK, slots
<1> QED
  BY <1>6, <1>7, <1>8, <1>9

\* _finish raises the gate.
LEMMA CloseStep == ASSUME SInv, Close PROVE SInv'
<1> USE DEF SInv
<1>1. /\ mon.pc = "close" /\ mon' = [mon EXCEPT !.pc = "abort"] /\ closing' = TRUE
      /\ UNCHANGED <<slots, eng, state, dedup, delivery, asked, decision, made, open, hooked>>
  BY DEF Close, Closes, At, Goto, slots, slotVars, asyncVars, belief, pauseVars
<1>2. mon' \in MonitorRow /\ mon'.pc = "abort" /\ UNCHANGED Dropped
  BY <1>1 DEF TypeOK, MonitorRow, MonitorPc, Dropped
<1>3. TypeOK'
  BY <1>1, <1>2 DEF TypeOK, slots
<1>4. CallersOK' /\ ClaimsOK'
  BY QuietStep, Numbers, <1>1, <1>2 DEF Handing, Renewed
<1>5. MonOK' /\ GateOK' /\ KindOK' /\ DeliveryOK'
  BY <1>1, <1>2 DEF MonOK, GateOK, KindOK, DeliveryOK, BlockedOnlyBefore, slots
<1> QED
  BY <1>3, <1>4, <1>5

\* It ends.
LEMMA FinishPublishStep == ASSUME SInv, FinishPublish PROVE SInv'
<1> USE DEF SInv
<1>1. /\ mon.pc = "publish" /\ mon' = [mon EXCEPT !.pc = "ended"] /\ closing' = TRUE /\ state' = "terminal"
      /\ UNCHANGED <<slots, eng, dedup, delivery, asked, decision, made, open, hooked>>
  BY DEF FinishPublish, At, Goto, slots, slotVars, asyncVars, pauseVars
<1>2. mon' \in MonitorRow /\ mon'.pc = "ended" /\ UNCHANGED Dropped
  BY <1>1 DEF TypeOK, MonitorRow, MonitorPc, Dropped
<1>3. TypeOK'
  BY <1>1, <1>2 DEF TypeOK, slots
<1>4. CallersOK' /\ ClaimsOK'
  BY QuietStep, Numbers, <1>1, <1>2 DEF Handing, Renewed
<1>5. MonOK' /\ GateOK' /\ KindOK' /\ DeliveryOK'
  BY <1>1, <1>2 DEF MonOK, GateOK, KindOK, DeliveryOK, BlockedOnlyBefore, slots
<1> QED
  BY <1>3, <1>4, <1>5


-----------------------------------------------------------------------------
(* Steps that move one answer                                              *)

\* Nothing happens to the call d and its answer.
Unmoved(d) ==
  /\ call'[d] = call[d] /\ typed'[d] = typed[d]
  /\ (Left(d)' <=> Left(d)) /\ (Queued(d)' <=> Queued(d)) /\ (Typing(d)' <=> Typing(d))
  /\ (Writing(d)' <=> Writing(d)) /\ (Carried(d)' <=> Carried(d)) /\ (Turning(d)' <=> Turning(d))
  /\ (reply' = d <=> reply = d) /\ (Forsaken(d)' <=> Forsaken(d))
  /\ Queued(d) \/ Writing(d) => submit' = submit
  /\ Writing(d) => mon'.held = mon.held
  /\ Turning(d) => turn' = turn /\ (turn.by = Monitor /\ mon.pc = "turn" => mon'.pc = "turn")

Story(d) == LeftOK(d) /\ TurnOK(d) /\ TypedOK(d) /\ ReplyOK(d)

\* Then what the invariant says of it stays.
LEMMA UnmovedFrame ==
  ASSUME NEW d \in Callers, Story(d), Unmoved(d), lost \subseteq lost', closing => closing',
         question' # None => question # None
  PROVE Story(d)'
<1>1. (Promised(d)' <=> Promised(d)) /\ (Untyped(d)' <=> Untyped(d)) /\ (\A p : Pc(d, p)' <=> Pc(d, p))
      /\ (\A o : Done(d, o)' <=> Done(d, o))
  BY DEF Unmoved, Promised, Untyped, Pc, Done
<1>2. LeftOK(d)'
  BY <1>1 DEF Story, LeftOK, Unmoved
<1>3. TurnOK(d)'
  BY <1>1 DEF Story, TurnOK, Unmoved
<1>4. TypedOK(d)'
  BY <1>1 DEF Story, TypedOK, Unmoved
<1>5. ReplyOK(d)'
  BY <1>1 DEF Story, ReplyOK, Unmoved
<1> QED
  BY <1>2, <1>3, <1>4, <1>5 DEF Story

\* The same of what it is bound to.
LEMMA BoundFrame ==
  ASSUME TypeOK, NEW d \in Callers, BoundOK(d), Renewed, call'[d] = call[d]
  PROVE BoundOK(d)'
<1>0. made \in 0..MaxDec /\ MaxDec \in Nat
  BY SessionAssumption DEF TypeOK
<1>1. \A id \in 1..made : Current(id)' => Current(id) /\ decision' = decision
  BY <1>0 DEF Renewed, Current
<1>2. call[d].pc \in {"blocked", "modal", "text", "write"} => call[d].id \in 1..made'
  BY <1>0 DEF BoundOK, Renewed
<1> QED
  BY <1>1, <1>2 DEF BoundOK

\* A call that is done, or waits, is bound to nothing.
LEMMA UnboundOK ==
  ASSUME NEW d \in Callers, call'[d].pc \notin {"blocked", "modal", "text", "write"}
  PROVE BoundOK(d)'
BY DEF BoundOK

\* No claim is new.
LEMMA ClaimsFrame ==
  ASSUME TypeOK, ClaimsOK, Renewed,
         \A d \in Callers : \A id \in 1..MaxDec : Claims(d, id)' => Claims(d, id)
  PROVE ClaimsOK'
<1>0. made \in 0..MaxDec /\ MaxDec \in Nat
  BY SessionAssumption DEF TypeOK
<1>1. \A id \in 1..made : Current(id)' => Current(id)
  BY <1>0 DEF Renewed, Current
<1> SUFFICES ASSUME NEW c \in Callers, NEW id \in 1..MaxDec, Claims(c, id)'
             PROVE /\ id <= made' /\ ~Current(id)'
                   /\ \A d \in Callers : Claims(d, id)' => d = c
  BY DEF ClaimsOK
<1>2. Claims(c, id) /\ id \in 1..made /\ ~Current(id)
  BY <1>0 DEF ClaimsOK
<1>3. \A d \in Callers : Claims(d, id)' => d = c
  BY <1>2 DEF ClaimsOK
<1> QED
  BY <1>0, <1>1, <1>2, <1>3 DEF Renewed

\* One call claims the pending decision, which goes.
LEMMA ClaimsNew ==
  ASSUME TypeOK, ClaimsOK, NEW c \in Callers, NEW i \in 1..MaxDec, Current(i), decision' = None, made' = made,
         \A d \in Callers : \A id \in 1..MaxDec : Claims(d, id)' => Claims(d, id) \/ (d = c /\ id = i)
  PROVE ClaimsOK'
<1>0. i <= made
  BY DEF TypeOK, Current
<1>1. \A d \in Callers : ~Claims(d, i)
  BY DEF ClaimsOK
<1> SUFFICES ASSUME NEW e \in Callers, NEW id \in 1..MaxDec, Claims(e, id)'
             PROVE /\ id <= made' /\ ~Current(id)'
                   /\ \A d \in Callers : Claims(d, id)' => d = e
  BY DEF ClaimsOK
<1>2. ~Current(id)'
  BY DEF Current
<1>3. CASE id = i
  BY <1>0, <1>1, <1>2, <1>3
<1>4. CASE id # i
  BY <1>2, <1>4 DEF ClaimsOK
<1> QED
  BY <1>3, <1>4

\* One text was written.
Once(texts) == texts # <<>> /\ Len(texts) = 1

\* A call that waits is answered and its answer is in no slot any more.
LEMMA WaiterAnswered ==
  ASSUME SInv, NEW c \in Callers, NEW out, Pc(c, "wait"), call' = Answered(c, out),
         UNCHANGED <<reply, turn, lost, question>>, closing => closing',
         ~Left(c)', ~Queued(c)', ~Typing(c)', Writing(c)' => submit' = None /\ Told(out) = "unsure" /\ Untyped(c)',
         Carried(c)' => Carried(c),
         Told(out) = "refused" => Untyped(c)', Told(out) = "resumed" => ~Untyped(c)', Told(out) # "queued",
         typed'[c] = typed[c] \/ Once(typed'[c]),
         \A d \in Callers \ {c} : Unmoved(d), Renewed
  PROVE CallersOK'
<1>1. /\ call'[c].pc = "done" /\ call'[c].out = Told(out)
      /\ \A d \in Callers \ {c} : call'[d] = call[d]
  BY CallAnswered DEF SInv
<1>2. Story(c) /\ ~Promised(c)
  BY DEF SInv, CallersOK, Story, Promised, Pc, Done
<1>3. reply # c /\ ~Carried(c) /\ ~Turning(c)
  BY <1>2, SessionAssumption DEF Story, TurnOK, Pc
<1>4. ~Promised(c)' /\ ~Turning(c)'
  BY <1>1, <1>3 DEF Promised, Pc, Done, Turning
<1>5. LeftOK(c)'
  BY <1>1, <1>4 DEF LeftOK, Pc, Done
<1>6. TurnOK(c)'
  BY <1>3, <1>4 DEF TurnOK
<1>7. TypedOK(c)'
  BY <1>1, <1>2, <1>4 DEF Story, TypedOK, Pc, Done, Untyped, Once
<1>8. ReplyOK(c)'
  BY <1>1, <1>3, <1>4 DEF ReplyOK
<1>9. BoundOK(c)'
  BY <1>1, UnboundOK
<1>10. ASSUME NEW d \in Callers \ {c} PROVE Story(d)' /\ BoundOK(d)'
  <2>1. Story(d) /\ BoundOK(d)
    BY DEF SInv, CallersOK, Story
  <2>2. Story(d)'
    BY <2>1, UnmovedFrame
  <2>3. BoundOK(d)'
    BY <2>1, <1>1, BoundFrame DEF SInv
  <2> QED
    BY <2>2, <2>3
<1> QED
  BY <1>5, <1>6, <1>7, <1>8, <1>9, <1>10 DEF CallersOK, Story


\* All calls but one are unmoved.
LEMMA OneMoves ==
  ASSUME SInv, NEW c \in Callers, Story(c)', BoundOK(c)', \A d \in Callers \ {c} : Unmoved(d), Renewed,
         lost \subseteq lost', closing => closing', question' # None => question # None
  PROVE CallersOK'
<1>1. ASSUME NEW d \in Callers \ {c} PROVE Story(d)' /\ BoundOK(d)'
  <2>1. Story(d) /\ BoundOK(d) /\ call'[d] = call[d]
    BY DEF SInv, CallersOK, Story, Unmoved
  <2>2. Story(d)'
    BY <2>1, UnmovedFrame
  <2>3. BoundOK(d)'
    BY <2>1, BoundFrame DEF SInv
  <2> QED
    BY <2>2, <2>3
<1> QED
  BY <1>1 DEF CallersOK, Story

\* A shrinking ring stays well formed.
LEMMA RingShrinks ==
  ASSUME TypeOK, open' \subseteq open, made' = made
  PROVE open' \subseteq Event /\ \A d \in open' : d.id <= made'
BY DEF TypeOK

\* What the monitor does with an answer that was left to it is not for the
\* answers of the other calls.
LEMMA OthersUnmoved ==
  ASSUME NEW c \in Callers, \A d \in Callers \ {c} : call'[d] = call[d] /\ typed'[d] = typed[d],
         UNCHANGED <<submit, reply, turn, Dropped>>,
         answer = None \/ answer.by = c, answer' = None \/ answer'.by = c,
         mon.pc = "type" => mon.held.by = c, mon'.pc = "type" => mon'.held.by = c,
         mon.pc \notin {"write", "turn", "requeue"}, mon'.pc \notin {"write", "turn", "requeue"}
  PROVE \A d \in Callers \ {c} : Unmoved(d)
BY DEF Unmoved, Left, Queued, Typing, Writing, Carried, Turning, Forsaken, Dropped

\* _drain_pending_answer.
LEMMA DrainAnswerStep == ASSUME SInv, NEW f \in Frames, DrainAnswer(f) PROVE SInv'
<1> USE DEF SInv
<1>0. MaxDec \in Nat /\ made \in 0..MaxDec /\ (answer # None => answer.id \in 1..MaxDec /\ answer.id <= made)
  BY Numbers
<1>1. /\ mon.pc = "ready" /\ delivery = "pending" /\ answer' = None /\ closing = FALSE
      /\ UNCHANGED <<submit, reply, turn, question, lost, asked, state, eng, hooked, delivery, dedup, made, closing, typed>>
  BY DEF DrainAnswer, At, asyncVars, belief, DeliveryOK, GateOK, TypeOK
<1>2. CASE answer # None /\ SamePrompt(answer, f)
  <2> PICK c \in Callers : c = answer.by
    BY <1>2 DEF TypeOK, Answer
  <2>1. decision' = None /\ mon' = [mon EXCEPT !.pc = "type", !.frame = f, !.held = answer] /\ UNCHANGED <<open, call>>
    BY <1>2 DEF DrainAnswer
  <2>2. answer \in Answer /\ f = answer.about /\ Current(answer.id)
    BY <1>2 DEF TypeOK, Answer, SamePrompt
  <2>3. mon' \in MonitorRow /\ mon'.pc = "type" /\ mon'.held = answer /\ UNCHANGED Dropped
    BY <1>1, <2>1, <2>2 DEF TypeOK, MonitorRow, MonitorPc, Dropped
  <2>4. TypeOK'
    BY <1>1, <2>1, <2>3 DEF TypeOK
  <2>5. MonOK' /\ GateOK' /\ KindOK'
    BY <1>0, <1>1, <1>2, <2>1, <2>2, <2>3 DEF MonOK, GateOK, KindOK
  <2>6. DeliveryOK'
    BY <1>1, <2>1, <2>2, <2>3 DEF DeliveryOK, Current, BlockedOnlyBefore
  <2>7. Renewed
    BY <1>0, <1>1, <2>1 DEF Renewed
  <2>8. \A d \in Callers \ {c} : Unmoved(d)
    BY <1>1, <2>1, <2>2, <2>3, OthersUnmoved
  <2>9. Story(c) /\ Left(c)
    BY <1>2, <2>2 DEF CallersOK, Story, Left
  <2>10. /\ Pc(c, "wait") /\ Untyped(c) /\ ~Queued(c) /\ ~Turning(c) /\ ~Promised(c) /\ reply # c
    BY <2>9 DEF Story, LeftOK, TurnOK, Pc, Promised, Done
  <2>11. Story(c)'
    <3>1. /\ Pc(c, "wait")' /\ Untyped(c)' /\ ~Queued(c)' /\ ~Turning(c)' /\ ~Promised(c)' /\ reply' # c
          /\ ~Left(c)' /\ Typing(c)' /\ ~Writing(c)' /\ ~Carried(c)' /\ ~Forsaken(c)'
      BY <1>1, <2>1, <2>3, <2>10
         DEF Pc, Untyped, Queued, Turning, Promised, Done, Left, Typing, Writing, Carried, Forsaken, Dropped
    <3>2. LeftOK(c)' /\ TurnOK(c)'
      BY <3>1 DEF LeftOK, TurnOK
    <3>3. TypedOK(c)' /\ ReplyOK(c)'
      BY <3>1 DEF TypedOK, ReplyOK, Pc, Done
    <3> QED
      BY <3>2, <3>3 DEF Story
  <2>12. CallersOK'
    <3>1. ASSUME NEW d \in Callers PROVE Story(d)' /\ BoundOK(d)'
      <4>1. Story(d) /\ BoundOK(d)
        BY DEF CallersOK, Story
      <4>2. BoundOK(d)'
        BY <4>1, <2>1, <2>7, BoundFrame
      <4>3. Story(d)'
        BY <1>1, <2>8, <2>11, <4>1, UnmovedFrame
      <4> QED
        BY <4>2, <4>3
    <3> QED
      BY <3>1 DEF CallersOK, Story
  <2>13. ClaimsOK'
    <3>1. \A d \in Callers : \A id \in 1..MaxDec : Claims(d, id)' => Claims(d, id) \/ (d = c /\ id = answer.id)
      BY <1>1, <2>1, <2>3 DEF Claims, Typing, Writing, Pc, Untyped
    <3> QED
      BY <1>0, <1>1, <1>2, <2>1, <2>2, <3>1, ClaimsNew
  <2> QED
    BY <2>4, <2>5, <2>6, <2>12, <2>13
<1>3. CASE ~(answer # None /\ SamePrompt(answer, f))
  <2>1. /\ mon' = [mon EXCEPT !.pc = "tick", !.frame = f] /\ UNCHANGED decision
        /\ IF answer = None THEN UNCHANGED <<open, call>> ELSE Resolve(answer.id) /\ Wakes(answer.by, "stale")
    BY <1>3 DEF DrainAnswer
  <2>2. mon' \in MonitorRow /\ mon'.pc = "tick" /\ UNCHANGED Dropped
    BY <1>1, <2>1 DEF TypeOK, MonitorRow, MonitorPc, Dropped
  <2>3. open' \subseteq open /\ Renewed
    BY <1>0, <1>1, <2>1 DEF Resolve, Renewed
  <2>4. MonOK' /\ GateOK' /\ KindOK'
    BY <1>1, <2>1, <2>2 DEF MonOK, GateOK, KindOK
  <2>5. DeliveryOK'
    BY <1>1, <2>1, <2>2, <2>3 DEF DeliveryOK, Current, BlockedOnlyBefore
  <2>6. CASE answer = None
    <3>1. TypeOK'
      BY <1>1, <2>1, <2>2, <2>6 DEF TypeOK
    <3>2. CallersOK' /\ ClaimsOK'
      BY <1>1, <2>1, <2>2, <2>3, <2>6, QuietStep DEF slots, Handing
    <3> QED
      BY <2>4, <2>5, <3>1, <3>2
  <2>7. CASE answer # None
    <3>1. PICK c \in Callers : c = answer.by
      BY <2>7 DEF TypeOK, Answer
    <3>2. Story(c) /\ Left(c)
      BY <2>7, <3>1 DEF CallersOK, Story, Left
    <3>3. Pc(c, "wait") /\ Untyped(c) /\ ~Queued(c)
      BY <3>2 DEF Story, LeftOK
    <3>4. call' = Answered(c, "stale") /\ call' \in [Callers -> CallRow] /\ \A d \in Callers \ {c} : call'[d] = call[d]
      BY <2>1, <2>7, <3>1, <3>3, CallAnswered DEF Wakes
    <3>5. TypeOK'
      BY <1>0, <1>1, <2>1, <2>2, <2>3, <3>4, RingShrinks DEF TypeOK
    <3>6. \A d \in Callers \ {c} : Unmoved(d)
      BY <1>1, <2>2, <3>1, <3>4, OthersUnmoved
    <3>7. CallersOK'
      <4>1. /\ Told("stale") = "refused"
            /\ ~Left(c)' /\ ~Queued(c)' /\ ~Typing(c)' /\ ~Writing(c)' /\ ~Carried(c)' /\ Untyped(c)'
        BY <1>1, <2>2, <3>3, ToldTyped DEF Left, Queued, Typing, Writing, Carried, Refusals, Untyped
      <4> QED
        BY <1>1, <2>3, <3>3, <3>4, <3>6, <4>1, WaiterAnswered
    <3>8. ClaimsOK'
      <4>1. call'[c].pc = "done"
        BY <3>4, CallAnswered
      <4>2. \A d \in Callers : \A id \in 1..MaxDec : Claims(d, id)' => Claims(d, id)
        BY <1>1, <2>2, <3>4, <4>1 DEF Claims, Typing, Writing, Pc, Untyped
      <4> QED
        BY <2>3, <4>2, ClaimsFrame
    <3> QED
      BY <2>4, <2>5, <3>5, <3>7, <3>8
  <2> QED
    BY <2>6, <2>7
<1> QED
  BY <1>2, <1>3


\* The text of a call is typed, and it was not before.
LEMMA TypesOnce ==
  ASSUME TypeOK, NEW c \in Callers, Untyped(c), NEW id \in 0..MaxDec, Types(c, id)
  PROVE /\ typed' \in [Callers -> Seq(Keystrokes)]
        /\ Once(typed'[c]) /\ ~Untyped(c)' /\ typed'[c][1].id = id
        /\ \A d \in Callers \ {c} : typed'[d] = typed[d]
<1>1. PICK k \in Keystrokes : k.id = id /\ typed' = [typed EXCEPT ![c] = Append(typed[c], k)]
  BY DEF Types, Keystrokes
<1>2. typed \in [Callers -> Seq(Keystrokes)] /\ typed[c] = <<>>
  BY DEF TypeOK, Untyped
<1>3. Append(typed[c], k) \in Seq(Keystrokes) /\ Len(Append(typed[c], k)) = 1 /\ Append(typed[c], k)[1] = k
  BY <1>1, <1>2
<1>4. typed'[c] = Append(typed[c], k)
  BY <1>1, <1>2
<1> QED
  BY <1>1, <1>2, <1>3, <1>4 DEF Once, Untyped

\* The monitor types an answer it has claimed.
LEMMA TypeAnswerStep == ASSUME SInv, TypeAnswer PROVE SInv'
<1> USE DEF SInv
<1>0. MaxDec \in Nat /\ made \in 0..MaxDec
  BY Numbers
<1>1. /\ mon.pc = "type" /\ delivery = "pending" /\ mon' = [mon EXCEPT !.pc = "tick", !.held = None]
      /\ open' = {d \in open : d.id # mon.held.id} /\ eng' = OnSubmit(eng) /\ state' = "busy"
      /\ UNCHANGED <<answer, submit, reply, turn, question, lost, asked, hooked, delivery, dedup, decision, made, closing>>
  BY DEF TypeAnswer, At, asyncVars, slotVars, Resolve, Submitted, DeliveryOK
<1>2. mon.held \in Answer
  BY <1>1 DEF MonOK
<1>3. PICK c \in Callers, i \in 1..MaxDec : c = mon.held.by /\ i = mon.held.id
  BY <1>2 DEF Answer
<1>4. mon' \in MonitorRow /\ mon'.pc = "tick"
  BY <1>1 DEF TypeOK, MonitorRow, MonitorPc
<1>5. Story(c) /\ Typing(c)
  BY <1>1, <1>3 DEF CallersOK, Story, Typing
<1>6. Pc(c, "wait") /\ Untyped(c) /\ ~Left(c) /\ ~Queued(c)
  BY <1>5 DEF Story, LeftOK
<1>7. /\ call' = Answered(c, "resumed") /\ call' \in [Callers -> CallRow] /\ call'[c].pc = "done"
      /\ \A d \in Callers \ {c} : call'[d] = call[d]
  BY <1>3, <1>6, CallAnswered DEF TypeAnswer, Wakes
<1>8. /\ typed' \in [Callers -> Seq(Keystrokes)]
      /\ Once(typed'[c]) /\ ~Untyped(c)' /\ typed'[c][1].id = i
      /\ \A d \in Callers \ {c} : typed'[d] = typed[d]
  <2>1. Types(c, i) /\ i \in 0..MaxDec
    BY <1>0, <1>2, <1>3 DEF TypeAnswer
  <2> QED
    BY <1>6, <2>1, TypesOnce
<1>9. Renewed
  BY <1>0, <1>1 DEF Renewed
<1>10. TypeOK'
  <2>1. EngOK(eng')
    BY <1>1, OnSubmitTyped DEF TypeOK, EngOK
  <2>2. open' \subseteq Event /\ \A d \in open' : d.id <= made'
    BY <1>1, RingShrinks
  <2> QED
    BY <1>1, <1>4, <1>7, <1>8, <2>1, <2>2 DEF TypeOK, EngOK
<1>11. MonOK' /\ GateOK' /\ KindOK'
  BY <1>1, <1>4 DEF MonOK, GateOK, KindOK
<1>12. DeliveryOK'
  BY <1>1, <1>4 DEF DeliveryOK, BlockedOnlyBefore, Current
<1>13. \A d \in Callers \ {c} : Unmoved(d)
  BY <1>1, <1>3, <1>4, <1>7, <1>8 DEF Unmoved, Left, Queued, Typing, Writing, Carried, Turning, Forsaken, Dropped
<1>14. CallersOK'
  <2>1. /\ Told("resumed") = "resumed"
        /\ ~Left(c)' /\ ~Queued(c)' /\ ~Typing(c)' /\ ~Writing(c)' /\ ~Carried(c)'
    BY <1>1, <1>4, <1>6, ToldTyped DEF Left, Queued, Typing, Writing, Carried
  <2> QED
    BY <1>1, <1>6, <1>7, <1>8, <1>9, <1>13, <2>1, WaiterAnswered
<1>15. ClaimsOK'
  <2>1. Claims(c, i)
    BY <1>3, <1>5 DEF Claims
  <2>2. \A d \in Callers : \A id \in 1..MaxDec : Claims(d, id)' => Claims(d, id)
    BY <1>4, <1>7, <1>8, <2>1 DEF Claims, Typing, Writing, Pc, Untyped
  <2> QED
    BY <1>9, <2>2, ClaimsFrame
<1> QED
  BY <1>10, <1>11, <1>12, <1>14, <1>15

\* The write times out.
LEMMA TypeAnswerFailsStep == ASSUME SInv, TypeAnswerFails PROVE SInv'
<1> USE DEF SInv
<1>0. MaxDec \in Nat /\ made \in 0..MaxDec
  BY Numbers
<1>1. /\ mon.pc = "type" /\ delivery = "pending" /\ mon' = [mon EXCEPT !.pc = "tick", !.held = None]
      /\ open' = {d \in open : d.id # mon.held.id}
      /\ UNCHANGED <<answer, submit, reply, turn, question, lost, asked, state, eng, hooked, delivery, dedup, decision, made, closing, typed>>
  BY DEF TypeAnswerFails, At, asyncVars, slotVars, belief, Resolve, DeliveryOK
<1>2. PICK c \in Callers : c = mon.held.by
  BY <1>1 DEF MonOK, Answer
<1>3. mon' \in MonitorRow /\ mon'.pc = "tick" /\ UNCHANGED Dropped
  BY <1>1 DEF TypeOK, MonitorRow, MonitorPc, Dropped
<1>4. Story(c) /\ Typing(c)
  BY <1>1, <1>2 DEF CallersOK, Story, Typing
<1>5. Pc(c, "wait") /\ Untyped(c) /\ ~Left(c) /\ ~Queued(c)
  BY <1>4 DEF Story, LeftOK
<1>6. /\ call' = Answered(c, "write_timeout") /\ call' \in [Callers -> CallRow] /\ call'[c].pc = "done"
      /\ \A d \in Callers \ {c} : call'[d] = call[d]
  BY <1>2, <1>5, CallAnswered DEF Wakes, TypeAnswerFails
<1>7. Renewed
  BY <1>0, <1>1 DEF Renewed
<1>8. TypeOK'
  <2>1. open' \subseteq Event /\ \A d \in open' : d.id <= made'
    BY <1>1, RingShrinks
  <2> QED
    BY <1>1, <1>3, <1>6, <2>1 DEF TypeOK
<1>9. MonOK' /\ GateOK' /\ KindOK'
  BY <1>1, <1>3 DEF MonOK, GateOK, KindOK
<1>10. DeliveryOK'
  <2>1. open' = {}
    BY <1>1 DEF DeliveryOK
  <2> QED
    BY <1>1, <1>3, <2>1 DEF DeliveryOK, BlockedOnlyBefore
<1>11. \A d \in Callers \ {c} : Unmoved(d)
  BY <1>1, <1>2, <1>3, <1>6 DEF Unmoved, Left, Queued, Typing, Writing, Carried, Turning, Forsaken
<1>12. CallersOK'
  <2>1. /\ Told("write_timeout") = "unsure"
        /\ ~Left(c)' /\ ~Queued(c)' /\ ~Typing(c)' /\ ~Writing(c)' /\ ~Carried(c)' /\ Untyped(c)'
    BY <1>1, <1>3, <1>5, ToldTyped DEF Left, Queued, Typing, Writing, Carried, Refusals, Untyped
  <2> QED
    BY <1>1, <1>5, <1>6, <1>7, <1>11, <2>1, WaiterAnswered
<1>13. ClaimsOK'
  <2>1. \A d \in Callers : \A id \in 1..MaxDec : Claims(d, id)' => Claims(d, id)
    BY <1>1, <1>3, <1>6 DEF Claims, Typing, Writing, Pc, Untyped
  <2> QED
    BY <1>7, <2>1, ClaimsFrame
<1> QED
  BY <1>8, <1>9, <1>10, <1>12, <1>13

\* The drain raises: the caller whose answer it had goes on waiting.
LEMMA DrainRaisesStep == ASSUME SInv, DrainRaises PROVE SInv'
<1> USE DEF SInv
<1>0. MaxDec \in Nat /\ made \in 0..MaxDec
  BY Numbers
<1>1. /\ delivery = "pending" /\ mon.pc \in {"ready", "type"} /\ answer' \in {answer, None}
      /\ UNCHANGED <<submit, reply, turn, question, lost, asked, state, eng, hooked, delivery, dedup, decision, made, open, closing,
                     call, typed>>
  BY DEF DrainRaises, At, asyncVars, belief, pauseVars, DeliveryOK
<1>2. PICK a \in Answer : /\ mon' = [Resting EXCEPT !.pc = "close", !.held = a]
                          /\ \/ mon.pc = "ready" /\ a = answer /\ answer # None /\ answer' = None
                             \/ mon.pc = "type" /\ a = mon.held /\ answer' = answer
  BY DEF DrainRaises, At, MonOK, TypeOK
<1>3. PICK c \in Callers : c = a.by
  BY DEF Answer
<1>4. mon' \in MonitorRow /\ mon'.pc = "close" /\ mon'.held = a
  <2>1. [Resting EXCEPT !.pc = "close"] \in MonitorRow /\ [Resting EXCEPT !.pc = "close"].pc = "close"
    BY RestTyped DEF MonitorPc
  <2> DEFINE r == [Resting EXCEPT !.pc = "close"]
  <2>2. mon' = [r EXCEPT !.held = a]
    BY <1>2 DEF Resting
  <2> HIDE DEF r
  <2>3. r \in MonitorRow /\ r.pc = "close"
    BY <2>1 DEF r
  <2> QED
    BY <2>2, <2>3 DEF MonitorRow
<1>5. Story(c) /\ (Left(c) \/ Typing(c))
  BY <1>2, <1>3 DEF CallersOK, Story, Left, Typing
<1>6. Pc(c, "wait") /\ Untyped(c) /\ ~Queued(c) /\ ~Promised(c) /\ reply # c /\ ~Turning(c)
  BY <1>1, <1>5 DEF Story, LeftOK, TurnOK, Promised, Done, Pc, Carried
<1>7. ~Left(c)'
  BY <1>2, <1>3, <1>5 DEF Story, LeftOK, Left, Typing
<1>8. TypeOK' /\ Renewed
  BY <1>0, <1>1, <1>4 DEF TypeOK, Renewed
<1>9. MonOK' /\ GateOK' /\ KindOK' /\ DeliveryOK'
  BY <1>1, <1>4 DEF MonOK, GateOK, KindOK, DeliveryOK, BlockedOnlyBefore
<1>10. a # None
  BY SessionAssumption
<1>11. \A d \in Callers \ {c} : Unmoved(d)
  BY <1>1, <1>2, <1>3, <1>4 DEF Unmoved, Left, Queued, Typing, Writing, Carried, Turning, Forsaken, Dropped
<1>12. Story(c)'
  <2>1. /\ Pc(c, "wait")' /\ Untyped(c)' /\ ~Queued(c)' /\ ~Turning(c)' /\ ~Promised(c)' /\ reply' # c
        /\ Forsaken(c)' /\ ~Typing(c)' /\ ~Writing(c)' /\ ~Carried(c)'
    BY <1>1, <1>3, <1>4, <1>6, <1>10
       DEF Pc, Untyped, Queued, Turning, Promised, Done, Typing, Writing, Carried, Forsaken, Dropped
  <2>2. LeftOK(c)' /\ TurnOK(c)'
    BY <1>7, <2>1 DEF LeftOK, TurnOK
  <2>3. TypedOK(c)' /\ ReplyOK(c)'
    BY <2>1 DEF TypedOK, ReplyOK, Pc, Done
  <2> QED
    BY <2>2, <2>3 DEF Story
<1>13. CallersOK'
  <2>1. BoundOK(c)'
    BY <1>1, <1>6, UnboundOK DEF Pc
  <2> QED
    BY <1>1, <1>8, <1>11, <1>12, <2>1, OneMoves
<1>14. ClaimsOK'
  <2>1. \A d \in Callers : \A id \in 1..MaxDec : Claims(d, id)' => Claims(d, id)
    BY <1>1, <1>4 DEF Claims, Typing, Writing, Pc, Untyped
  <2> QED
    BY <1>8, <2>1, ClaimsFrame
<1> QED
  BY <1>8, <1>9, <1>13, <1>14

\* Delivery is confirmed: the blocked decision and the answer that waits for
\* its menu go with their events.
LEMMA ConfirmStep == ASSUME SInv, Confirm PROVE SInv'
<1> USE DEF SInv
<1>0. MaxDec \in Nat /\ made \in 0..MaxDec
  BY Numbers
<1>1. /\ mon.pc = "confirm" /\ delivery = "pending" /\ delivery' = "delivered" /\ answer' = None
      /\ mon' = [mon EXCEPT !.pc = "end"] /\ eng' = ExpectHooks(OnSubmit(eng))
      /\ UNCHANGED <<submit, reply, turn, question, lost, asked, hooked, dedup, made, state, closing, typed>>
  BY DEF Confirm, At, Goto, asyncVars, DeliveryOK
<1>2. mon' \in MonitorRow /\ mon'.pc = "end" /\ UNCHANGED Dropped
  BY <1>1 DEF TypeOK, MonitorRow, MonitorPc, Dropped
<1>3. decision' = None
  BY <1>1 DEF Confirm, Orphans, DeliveryOK
<1>4. open' = {}
  <2>1. \A d \in open : decision # None /\ decision.kind = "blocked" /\ d.id = decision.id
    BY <1>1 DEF DeliveryOK, Current
  <2>2. \A d \in open : d.id \in Orphans
    BY <2>1 DEF Orphans
  <2> QED
    BY <2>2 DEF Confirm
<1>5. Renewed
  BY <1>0, <1>1, <1>3 DEF Renewed
<1>6. EngOK(eng')
  BY <1>1, OnSubmitTyped DEF TypeOK, EngOK
<1>7. MonOK' /\ GateOK' /\ KindOK'
  BY <1>1, <1>2, <1>3 DEF MonOK, GateOK, KindOK
<1>8. DeliveryOK'
  BY <1>1, <1>2, <1>3, <1>4 DEF DeliveryOK, BlockedOnlyBefore
<1>9. CASE answer = None
  <2>1. UNCHANGED call
    BY <1>9 DEF Confirm
  <2>2. TypeOK'
    BY <1>1, <1>2, <1>3, <1>4, <1>6, <2>1 DEF TypeOK, EngOK
  <2>3. CallersOK' /\ ClaimsOK'
    BY <1>1, <1>2, <1>5, <1>9, <2>1, QuietStep DEF slots, Handing
  <2> QED
    BY <1>7, <1>8, <2>2, <2>3
<1>10. CASE answer # None
  <2>1. PICK c \in Callers : c = answer.by
    BY <1>10 DEF TypeOK, Answer
  <2>2. Story(c) /\ Left(c)
    BY <1>10, <2>1 DEF CallersOK, Story, Left
  <2>3. Pc(c, "wait") /\ Untyped(c) /\ ~Queued(c)
    BY <2>2 DEF Story, LeftOK
  <2>4. /\ call' = Answered(c, "stale") /\ call' \in [Callers -> CallRow] /\ call'[c].pc = "done"
        /\ \A d \in Callers \ {c} : call'[d] = call[d]
    BY <1>10, <2>1, <2>3, CallAnswered DEF Confirm
  <2>5. TypeOK'
    BY <1>1, <1>2, <1>3, <1>4, <1>6, <2>4 DEF TypeOK, EngOK
  <2>6. \A d \in Callers \ {c} : Unmoved(d)
    BY <1>1, <1>2, <2>1, <2>4, OthersUnmoved
  <2>7. CallersOK'
    <3>1. /\ Told("stale") = "refused"
          /\ ~Left(c)' /\ ~Queued(c)' /\ ~Typing(c)' /\ ~Writing(c)' /\ ~Carried(c)' /\ Untyped(c)'
      BY <1>1, <1>2, <2>3, ToldTyped DEF Left, Queued, Typing, Writing, Carried, Refusals, Untyped
    <3> QED
      BY <1>1, <1>5, <2>3, <2>4, <2>6, <3>1, WaiterAnswered
  <2>8. ClaimsOK'
    <3>1. \A d \in Callers : \A id \in 1..MaxDec : Claims(d, id)' => Claims(d, id)
      BY <1>1, <1>2, <2>4 DEF Claims, Typing, Writing, Pc, Untyped
    <3> QED
      BY <1>5, <3>1, ClaimsFrame
  <2> QED
    BY <1>7, <1>8, <2>5, <2>7, <2>8
<1> QED
  BY <1>9, <1>10

\* Behind the gate the answer that waits is aborted.
LEMMA AbortAnswerStep == ASSUME SInv, AbortAnswer PROVE SInv'
<1> USE DEF SInv
<1>0. MaxDec \in Nat /\ made \in 0..MaxDec
  BY Numbers
<1>1. /\ mon.pc = "abort" /\ answer' = None /\ mon' = [mon EXCEPT !.pc = "abort_submit"] /\ open' \subseteq open
      /\ UNCHANGED <<submit, reply, turn, question, lost, asked, state, eng, hooked, delivery, dedup, decision, made, closing, typed>>
  BY DEF AbortAnswer, At, Goto, asyncVars, belief, Resolve
<1>2. mon' \in MonitorRow /\ mon'.pc = "abort_submit" /\ UNCHANGED Dropped
  BY <1>1 DEF TypeOK, MonitorRow, MonitorPc, Dropped
<1>3. Renewed /\ open' \subseteq Event /\ \A d \in open' : d.id <= made'
  BY <1>0, <1>1, RingShrinks DEF Renewed
<1>4. MonOK' /\ GateOK' /\ KindOK'
  BY <1>1, <1>2 DEF MonOK, GateOK, KindOK
<1>5. DeliveryOK'
  BY <1>1, <1>2 DEF DeliveryOK, BlockedOnlyBefore
<1>6. CASE answer = None
  <2>1. UNCHANGED call
    BY <1>6 DEF AbortAnswer
  <2>2. TypeOK'
    BY <1>1, <1>2, <1>3, <2>1 DEF TypeOK
  <2>3. CallersOK' /\ ClaimsOK'
    BY <1>1, <1>2, <1>3, <1>6, <2>1, QuietStep DEF slots, Handing
  <2> QED
    BY <1>4, <1>5, <2>2, <2>3
<1>7. CASE answer # None
  <2>1. PICK c \in Callers : c = answer.by
    BY <1>7 DEF TypeOK, Answer
  <2>2. Story(c) /\ Left(c)
    BY <1>7, <2>1 DEF CallersOK, Story, Left
  <2>3. Pc(c, "wait") /\ Untyped(c) /\ ~Queued(c)
    BY <2>2 DEF Story, LeftOK
  <2>4. /\ call' = Answered(c, "terminal") /\ call' \in [Callers -> CallRow] /\ call'[c].pc = "done"
        /\ \A d \in Callers \ {c} : call'[d] = call[d]
    BY <1>7, <2>1, <2>3, CallAnswered DEF AbortAnswer, Wakes
  <2>5. TypeOK'
    BY <1>1, <1>2, <1>3, <2>4 DEF TypeOK
  <2>6. \A d \in Callers \ {c} : Unmoved(d)
    BY <1>1, <1>2, <2>1, <2>4, OthersUnmoved
  <2>7. CallersOK'
    <3>1. /\ Told("terminal") = "unsure"
          /\ ~Left(c)' /\ ~Queued(c)' /\ ~Typing(c)' /\ ~Writing(c)' /\ ~Carried(c)' /\ Untyped(c)'
      BY <1>1, <1>2, <2>3, ToldTyped DEF Left, Queued, Typing, Writing, Carried, Untyped
    <3> QED
      BY <1>1, <1>3, <2>3, <2>4, <2>6, <3>1, WaiterAnswered
  <2>8. ClaimsOK'
    <3>1. \A d \in Callers : \A id \in 1..MaxDec : Claims(d, id)' => Claims(d, id)
      BY <1>1, <1>2, <2>4 DEF Claims, Typing, Writing, Pc, Untyped
    <3> QED
      BY <1>3, <3>1, ClaimsFrame
  <2> QED
    BY <1>4, <1>5, <2>5, <2>7, <2>8
<1> QED
  BY <1>6, <1>7


\* The same for a text that was left to the monitor.
LEMMA OthersUnmovedText ==
  ASSUME NEW c \in Callers, \A d \in Callers \ {c} : call'[d] = call[d] /\ typed'[d] = typed[d],
         UNCHANGED <<answer, reply, turn, Dropped>>,
         submit = None \/ submit.by = c, submit' = None \/ submit'.by = c,
         mon.pc = "write" => mon.held.by = c, mon'.pc = "write" => mon'.held.by = c,
         mon.pc \notin {"type", "turn", "requeue"}, mon'.pc \notin {"type", "turn", "requeue"}
  PROVE \A d \in Callers \ {c} : Unmoved(d)
BY DEF Unmoved, Left, Queued, Typing, Writing, Carried, Turning, Forsaken, Dropped

\* A step of the monitor, or behind the gate, that leaves the engine and the
\* bookkeeping alone and at most takes a decision or events away.
Subsiding ==
  /\ UNCHANGED <<reply, turn, question, lost, asked, hooked, delivery, dedup, made, closing>>
  /\ decision' \in {decision, None} /\ open' \subseteq open
  /\ EngOK(eng') /\ state' \in {state, "busy"}

\* It keeps what the invariant says of the monitor's own state.
LEMMA SubsidingFrame ==
  ASSUME SInv, Subsiding, delivery = "delivered" \/ mon'.pc \notin {"ready", "tick", "confirm", "end", "type"},
         mon'.pc \in {"ready", "type", "tick", "confirm"} => delivery = "pending",
         mon'.pc \in {"hooks", "apply", "install", "submit", "write", "reply", "turn", "requeue"} => delivery = "delivered",
         mon' \in MonitorRow, call' \in [Callers -> CallRow], typed' \in [Callers -> Seq(Keystrokes)],
         answer' \in {answer, None}, submit' \in Submit \cup {None}, submit' # None => submit'.id <= made'
  PROVE TypeOK' /\ KindOK' /\ DeliveryOK' /\ Renewed
<1> USE DEF SInv, Subsiding
<1>1. open' \subseteq Event /\ \A d \in open' : d.id <= made'
  BY RingShrinks
<1>2. TypeOK'
  BY <1>1 DEF TypeOK, EngOK
<1>3. KindOK' /\ Renewed
  BY Numbers DEF KindOK, Renewed
<1>4. DeliveryOK'
  BY DEF DeliveryOK, BlockedOnlyBefore
<1> QED
  BY <1>2, <1>3, <1>4

\* _drain_pending_submit, a queued text.
LEMMA DrainQueuedStep == ASSUME SInv, DrainQueued PROVE SInv'
<1> USE DEF SInv
<1>0. MaxDec \in Nat /\ made \in 0..MaxDec
  BY Numbers
<1>1. /\ mon.pc = "submit" /\ delivery = "delivered" /\ submit # None /\ submit.st = "queued" /\ submit \in Submit
      /\ submit.id \in 1..MaxDec /\ submit.id <= made
      /\ UNCHANGED <<answer, reply, turn, question, lost, asked, state, eng, hooked, delivery, dedup, made, closing, typed>>
  BY Numbers DEF DrainQueued, At, asyncVars, belief, DeliveryOK, TypeOK
<1>2. PICK c \in Callers : c = submit.by
  BY <1>1 DEF Submit
<1>3. Story(c) /\ Queued(c)
  BY <1>1, <1>2 DEF CallersOK, Story, Queued
<1>4. Pc(c, "wait") /\ Untyped(c) /\ ~Left(c) /\ ~Promised(c) /\ ~Turning(c) /\ reply # c
  BY <1>1, <1>3 DEF Story, LeftOK, TurnOK, Pc, Promised, Done
<1>5. EngOK(eng') /\ typed' \in [Callers -> Seq(Keystrokes)]
  BY <1>1 DEF TypeOK, EngOK
<1>6. CASE Current(submit.id) /\ mon.frame \in {"box", "echo"}
  <2>1. decision' = None /\ mon' = [mon EXCEPT !.pc = "write", !.held = submit] /\ UNCHANGED <<submit, open, call>>
    BY <1>6 DEF DrainQueued
  <2>2. mon' \in MonitorRow /\ mon'.pc = "write" /\ mon'.held = submit /\ UNCHANGED Dropped
    BY <1>1, <2>1 DEF TypeOK, MonitorRow, MonitorPc, Dropped
  <2>3. TypeOK' /\ KindOK' /\ DeliveryOK' /\ Renewed
    <3>1. Subsiding
      BY <1>1, <1>5, <2>1 DEF Subsiding
    <3>2. call' \in [Callers -> CallRow]
      BY <2>1 DEF TypeOK
    <3> QED
      BY <1>1, <1>5, <2>1, <2>2, <3>1, <3>2, SubsidingFrame
  <2>4. MonOK' /\ GateOK'
    BY <1>1, <1>6, <2>1, <2>2 DEF MonOK, GateOK
  <2>5. \A d \in Callers \ {c} : Unmoved(d)
    BY <1>1, <1>2, <2>1, <2>2, OthersUnmovedText
  <2>6. Story(c)'
    <3>1. /\ Pc(c, "wait")' /\ Untyped(c)' /\ Queued(c)' /\ ~Turning(c)' /\ ~Promised(c)' /\ reply' # c
          /\ ~Left(c)' /\ ~Typing(c)' /\ Writing(c)' /\ ~Carried(c)' /\ submit' = mon'.held /\ submit' # None
          /\ submit'.st = "queued" /\ ~Forsaken(c)'
      BY <1>1, <1>2, <1>4, <2>1, <2>2
         DEF Pc, Untyped, Queued, Turning, Promised, Done, Left, Typing, Writing, Carried, Forsaken, Dropped
    <3>2. LeftOK(c)' /\ TurnOK(c)'
      BY <3>1 DEF LeftOK, TurnOK
    <3>3. TypedOK(c)' /\ ReplyOK(c)'
      BY <3>1 DEF TypedOK, ReplyOK, Pc, Done
    <3> QED
      BY <3>2, <3>3 DEF Story
  <2>7. CallersOK'
    <3>1. ASSUME NEW d \in Callers PROVE Story(d)' /\ BoundOK(d)'
      <4>1. Story(d) /\ BoundOK(d)
        BY DEF CallersOK, Story
      <4>2. BoundOK(d)'
        BY <4>1, <2>1, <2>3, BoundFrame
      <4>3. Story(d)'
        BY <1>1, <2>5, <2>6, <4>1, UnmovedFrame
      <4> QED
        BY <4>2, <4>3
    <3> QED
      BY <3>1 DEF CallersOK, Story
  <2>8. ClaimsOK'
    <3>1. \A d \in Callers : \A id \in 1..MaxDec : Claims(d, id)' => Claims(d, id) \/ (d = c /\ id = submit.id)
      BY <1>1, <1>2, <2>1, <2>2 DEF Claims, Typing, Writing, Pc, Untyped
    <3> QED
      BY <1>1, <1>6, <2>1, <3>1, ClaimsNew
  <2> QED
    BY <2>3, <2>4, <2>7, <2>8
<1>7. CASE ~(Current(submit.id) /\ mon.frame \in {"box", "echo"})
  <2>1. /\ submit' = None /\ open' \subseteq open /\ mon' = [mon EXCEPT !.pc = "reply"] /\ UNCHANGED decision
        /\ Wakes(submit.by, "stale")
    BY <1>7 DEF DrainQueued, Resolve, Goto
  <2>2. mon' \in MonitorRow /\ mon'.pc = "reply" /\ UNCHANGED Dropped
    BY <1>1, <2>1 DEF TypeOK, MonitorRow, MonitorPc, Dropped
  <2>3. /\ call' = Answered(c, "stale") /\ call' \in [Callers -> CallRow] /\ call'[c].pc = "done"
        /\ \A d \in Callers \ {c} : call'[d] = call[d]
    BY <1>2, <1>4, <2>1, CallAnswered DEF Wakes
  <2>4. TypeOK' /\ KindOK' /\ DeliveryOK' /\ Renewed
    <3>1. Subsiding
      BY <1>1, <1>5, <2>1 DEF Subsiding
    <3> QED
      BY <1>1, <1>5, <2>1, <2>2, <2>3, <3>1, SubsidingFrame
  <2>5. MonOK' /\ GateOK'
    BY <1>1, <2>1, <2>2 DEF MonOK, GateOK
  <2>6. \A d \in Callers \ {c} : Unmoved(d)
    BY <1>1, <1>2, <2>1, <2>2, <2>3, OthersUnmovedText
  <2>7. CallersOK'
    <3>1. /\ Told("stale") = "refused"
          /\ ~Left(c)' /\ ~Queued(c)' /\ ~Typing(c)' /\ ~Writing(c)' /\ ~Carried(c)' /\ Untyped(c)'
      BY <1>1, <1>4, <2>1, <2>2, ToldTyped DEF Left, Queued, Typing, Writing, Carried, Refusals, Untyped
    <3> QED
      BY <1>1, <1>4, <2>3, <2>4, <2>6, <3>1, WaiterAnswered
  <2>8. ClaimsOK'
    <3>1. \A d \in Callers : \A id \in 1..MaxDec : Claims(d, id)' => Claims(d, id)
      BY <1>1, <2>2, <2>3 DEF Claims, Typing, Writing, Pc, Untyped
    <3> QED
      BY <2>4, <3>1, ClaimsFrame
  <2> QED
    BY <2>4, <2>5, <2>7, <2>8
<1> QED
  BY <1>6, <1>7


\* The monitor has claimed a text: its caller waits, or has given up.
LEMMA ClaimedText ==
  ASSUME SInv, mon.pc = "write", NEW c \in Callers, c = mon.held.by
  PROVE /\ Writing(c) /\ Untyped(c) /\ ~Left(c) /\ ~Promised(c) /\ ~Turning(c) /\ reply # c /\ ~Carried(c) /\ ~Typing(c)
        /\ delivery = "delivered" /\ mon.held \in Submit /\ mon.held.id <= made /\ mon.held.st = "queued"
        /\ \/ submit = None /\ Done(c, "unsure")
           \/ submit = mon.held /\ submit # None /\ Queued(c) /\ Pc(c, "wait")
<1>1. mon.held \in Submit /\ mon.held.id <= made /\ mon.held.st = "queued" /\ delivery = "delivered"
  BY DEF SInv, MonOK, DeliveryOK
<1>2. Story(c) /\ Writing(c) /\ ~Carried(c) /\ ~Typing(c)
  BY DEF SInv, CallersOK, Story, Writing, Carried, Typing
<1>3. Untyped(c) /\ (IF submit = None THEN Done(c, "unsure") ELSE submit = mon.held)
  BY <1>2 DEF Story, LeftOK
<1>4. CASE submit = None
  BY <1>1, <1>2, <1>3, <1>4 DEF Story, LeftOK, TurnOK, Done, Pc, Promised
<1>5. CASE submit # None
  <2>1. Queued(c)
    BY <1>3, <1>5 DEF Queued
  <2> QED
    BY <1>1, <1>2, <1>3, <1>5, <2>1 DEF Story, LeftOK, TurnOK, Done, Pc, Promised
<1> QED
  BY <1>4, <1>5

\* The monitor types a text it has claimed.
LEMMA WriteSubmitStep == ASSUME SInv, WriteSubmit PROVE SInv'
<1> USE DEF SInv
<1>0. MaxDec \in Nat /\ made \in 0..MaxDec
  BY Numbers
<1>1. /\ mon.pc = "write" /\ mon' = [mon EXCEPT !.pc = "reply", !.held = None]
      /\ open' \subseteq open /\ eng' = OnSubmit(eng) /\ state' = "busy"
      /\ submit' = (IF submit = None THEN None ELSE [submit EXCEPT !.st = "written"])
      /\ UNCHANGED <<answer, reply, turn, question, lost, asked, hooked, delivery, dedup, decision, made, closing, call>>
  BY DEF WriteSubmit, At, asyncVars, Resolve, Submitted
<1>2. PICK c \in Callers, i \in 1..MaxDec : c = mon.held.by /\ i = mon.held.id
  BY <1>1 DEF MonOK, Submit
<1>3. /\ Writing(c) /\ Untyped(c) /\ ~Left(c) /\ ~Promised(c) /\ ~Turning(c) /\ reply # c /\ ~Carried(c) /\ ~Typing(c)
      /\ delivery = "delivered" /\ mon.held \in Submit /\ mon.held.id <= made
      /\ \/ submit = None /\ Done(c, "unsure")
         \/ submit = mon.held /\ submit # None /\ Queued(c) /\ Pc(c, "wait")
  BY <1>1, <1>2, ClaimedText
<1>4. /\ typed' \in [Callers -> Seq(Keystrokes)]
      /\ Once(typed'[c]) /\ ~Untyped(c)' /\ typed'[c][1].id = i
      /\ \A d \in Callers \ {c} : typed'[d] = typed[d]
  <2>1. Types(c, i) /\ i \in 0..MaxDec
    BY <1>0, <1>2, <1>3 DEF WriteSubmit
  <2> QED
    BY <1>3, <2>1, TypesOnce
<1>5. mon' \in MonitorRow /\ mon'.pc = "reply" /\ UNCHANGED Dropped /\ Dropped' = None
  BY <1>1 DEF TypeOK, MonitorRow, MonitorPc, Dropped
<1>6. /\ submit' \in Submit \cup {None} /\ (submit' # None => submit'.id <= made /\ submit'.st = "written" /\ submit'.by = c)
      /\ (submit' = None <=> submit = None)
  <2>1. CASE submit = None
    BY <2>1, <1>1
  <2>2. CASE submit # None
    <3>1. submit \in Submit /\ submit' = [submit EXCEPT !.st = "written"] /\ submit.id <= made /\ submit.by = c
      BY <2>2, <1>1, <1>2, <1>3
    <3>2. submit' \in Submit /\ submit'.id = submit.id /\ submit'.st = "written" /\ submit'.by = submit.by
      BY <3>1 DEF Submit
    <3> QED
      BY <2>2, <3>1, <3>2, SessionAssumption
  <2> QED
    BY <2>1, <2>2
<1>7. TypeOK' /\ KindOK' /\ DeliveryOK' /\ Renewed
  <2>1. EngOK(eng')
    BY <1>1, OnSubmitTyped DEF TypeOK, EngOK
  <2>2. Subsiding /\ call' \in [Callers -> CallRow]
    BY <1>1, <2>1 DEF Subsiding, TypeOK
  <2> QED
    BY <1>1, <1>3, <1>4, <1>5, <1>6, <2>2, SubsidingFrame
<1>8. MonOK' /\ GateOK'
  BY <1>1, <1>5 DEF MonOK, GateOK
<1>9. \A d \in Callers \ {c} : Unmoved(d)
  BY <1>1, <1>2, <1>3, <1>4, <1>5, <1>6, OthersUnmovedText
<1>10. Story(c)'
  <2>1. /\ ~Left(c)' /\ ~Promised(c)' /\ ~Turning(c)' /\ reply' # c /\ ~Carried(c)' /\ ~Typing(c)' /\ ~Writing(c)'
        /\ (Pc(c, "wait")' <=> Queued(c)') /\ (Done(c, "unsure")' \/ Pc(c, "wait")') /\ ~Forsaken(c)'
    BY <1>1, <1>3, <1>5, <1>6 DEF Left, Promised, Turning, Carried, Typing, Writing, Pc, Queued, Done, Forsaken
  <2>2. LeftOK(c)' /\ TurnOK(c)'
    BY <1>4, <1>6, <2>1 DEF LeftOK, TurnOK, Queued
  <2>3. TypedOK(c)' /\ ReplyOK(c)'
    BY <1>4, <2>1 DEF TypedOK, ReplyOK, Pc, Done, Once
  <2> QED
    BY <2>2, <2>3 DEF Story
<1>11. CallersOK'
  <2>1. BoundOK(c)'
    BY <1>1, <1>3, UnboundOK DEF Done, Pc
  <2> QED
    BY <1>1, <1>7, <1>9, <1>10, <2>1, OneMoves
<1>12. ClaimsOK'
  <2>1. Claims(c, i)
    BY <1>2, <1>3 DEF Claims
  <2>2. \A d \in Callers : \A id \in 1..MaxDec : Claims(d, id)' => Claims(d, id)
    BY <1>1, <1>4, <1>5, <2>1 DEF Claims, Typing, Writing, Pc, Untyped
  <2> QED
    BY <1>7, <2>2, ClaimsFrame
<1> QED
  BY <1>7, <1>8, <1>11, <1>12

\* Or it fails to.
LEMMA WriteSubmitFailsStep == ASSUME SInv, WriteSubmitFails PROVE SInv'
<1> USE DEF SInv
<1>1. /\ mon.pc = "write" /\ open' \subseteq open
      /\ UNCHANGED <<answer, reply, turn, question, lost, asked, state, eng, hooked, delivery, dedup, decision, made, closing, typed>>
  BY DEF WriteSubmitFails, At, asyncVars, belief, Resolve
<1>2. PICK c \in Callers : c = mon.held.by
  BY <1>1 DEF MonOK, Submit
<1>3. /\ Writing(c) /\ Untyped(c) /\ ~Left(c) /\ ~Promised(c) /\ ~Turning(c) /\ reply # c /\ ~Carried(c) /\ ~Typing(c)
      /\ delivery = "delivered" /\ mon.held \in Submit /\ mon.held.id <= made /\ mon.held.st = "queued"
      /\ \/ submit = None /\ Done(c, "unsure")
         \/ submit = mon.held /\ submit # None /\ Queued(c) /\ Pc(c, "wait")
  BY <1>1, <1>2, ClaimedText
<1>4. typed' \in [Callers -> Seq(Keystrokes)] /\ EngOK(eng') /\ submit \in Submit \cup {None}
      /\ (submit # None => submit.id <= made) /\ call \in [Callers -> CallRow]
  BY <1>1 DEF TypeOK, EngOK
<1>5. CASE /\ submit' = None /\ mon' = [mon EXCEPT !.pc = "reply", !.held = None]
           /\ call' = (IF submit = None THEN call ELSE Answered(mon.held.by, "write_timeout"))
  <2>1. mon' \in MonitorRow /\ mon'.pc = "reply" /\ UNCHANGED Dropped
    BY <1>1, <1>5 DEF TypeOK, MonitorRow, MonitorPc, Dropped
  <2>2. call' \in [Callers -> CallRow] /\ call'[c].pc = "done" /\ call'[c].out = "unsure"
        /\ \A d \in Callers \ {c} : call'[d] = call[d]
    <3>1. CASE submit = None
      BY <3>1, <1>3, <1>4, <1>5 DEF Done, Pc, Queued
    <3>2. CASE submit # None
      <4>1. call' = Answered(c, "write_timeout") /\ Told("write_timeout") = "unsure"
        BY <3>2, <1>2, <1>5, ToldTyped
      <4> QED
        BY <4>1, CallAnswered
    <3> QED
      BY <3>1, <3>2
  <2>3. TypeOK' /\ KindOK' /\ DeliveryOK' /\ Renewed
    <3>1. Subsiding
      BY <1>1, <1>4 DEF Subsiding
    <3> QED
      BY <1>1, <1>3, <1>4, <1>5, <2>1, <2>2, <3>1, SubsidingFrame
  <2>4. MonOK' /\ GateOK'
    BY <1>1, <2>1 DEF MonOK, GateOK
  <2>5. \A d \in Callers \ {c} : Unmoved(d)
    BY <1>1, <1>2, <1>3, <1>5, <2>1, <2>2, OthersUnmovedText
  <2>6. Story(c)'
    <3>1. /\ ~Left(c)' /\ ~Promised(c)' /\ ~Turning(c)' /\ reply' # c /\ ~Carried(c)' /\ ~Typing(c)' /\ ~Writing(c)'
          /\ ~Queued(c)' /\ Done(c, "unsure")' /\ Untyped(c)'
      BY <1>1, <1>3, <1>5, <2>1, <2>2 DEF Left, Promised, Turning, Carried, Typing, Writing, Pc, Queued, Done, Untyped
    <3>2. LeftOK(c)' /\ TurnOK(c)'
      BY <3>1 DEF LeftOK, TurnOK, Done, Pc
    <3>3. TypedOK(c)' /\ ReplyOK(c)'
      BY <3>1 DEF TypedOK, ReplyOK, Pc, Done
    <3> QED
      BY <3>2, <3>3 DEF Story
  <2>7. CallersOK'
    BY <1>1, <2>2, <2>3, <2>5, <2>6, OneMoves, UnboundOK
  <2>8. ClaimsOK'
    <3>1. \A d \in Callers : \A id \in 1..MaxDec : Claims(d, id)' => Claims(d, id)
      BY <1>1, <2>1, <2>2 DEF Claims, Typing, Writing, Pc, Untyped
    <3> QED
      BY <2>3, <3>1, ClaimsFrame
  <2> QED
    BY <2>3, <2>4, <2>7, <2>8
<1>6. CASE mon' = [Resting EXCEPT !.pc = "close"] /\ UNCHANGED <<submit, open, call>>
  <2>1. mon' \in MonitorRow /\ mon'.pc = "close" /\ UNCHANGED Dropped /\ Dropped' = None
    BY <1>1, <1>6, RestTyped DEF MonitorPc, Dropped, Resting
  <2>2. TypeOK' /\ KindOK' /\ DeliveryOK' /\ Renewed
    <3>1. Subsiding
      BY <1>1, <1>4 DEF Subsiding
    <3> QED
      BY <1>1, <1>3, <1>4, <1>6, <2>1, <3>1, SubsidingFrame
  <2>3. MonOK' /\ GateOK'
    BY <1>1, <1>6, <2>1 DEF MonOK, GateOK
  <2>4. \A d \in Callers \ {c} : Unmoved(d)
    <3>1. submit = None \/ submit.by = c
      BY <1>2, <1>3
    <3> QED
      BY <1>1, <1>2, <1>6, <2>1, <3>1, OthersUnmovedText
  <2>5. Story(c)'
    <3>1. /\ ~Left(c)' /\ ~Promised(c)' /\ ~Turning(c)' /\ reply' # c /\ ~Carried(c)' /\ ~Typing(c)' /\ ~Writing(c)'
          /\ (Pc(c, "wait")' <=> Queued(c)') /\ (Done(c, "unsure")' \/ Pc(c, "wait")') /\ Untyped(c)'
          /\ (Queued(c)' => submit'.st = "queued") /\ ~Forsaken(c)'
      BY <1>1, <1>3, <1>6, <2>1 DEF Forsaken, Left, Promised, Turning, Carried, Typing, Writing, Pc, Queued, Done, Untyped
    <3>2. LeftOK(c)' /\ TurnOK(c)'
      BY <3>1 DEF LeftOK, TurnOK
    <3>3. TypedOK(c)' /\ ReplyOK(c)'
      BY <3>1 DEF TypedOK, ReplyOK, Pc, Done
    <3> QED
      BY <3>2, <3>3 DEF Story
  <2>6. CallersOK'
    <3>1. BoundOK(c)'
      BY <1>3, <1>6, UnboundOK DEF Done, Pc
    <3> QED
      BY <1>1, <2>2, <2>4, <2>5, <3>1, OneMoves
  <2>7. ClaimsOK'
    <3>1. \A d \in Callers : \A id \in 1..MaxDec : Claims(d, id)' => Claims(d, id)
      BY <1>1, <1>6, <2>1 DEF Claims, Typing, Writing, Pc, Untyped
    <3> QED
      BY <2>2, <3>1, ClaimsFrame
  <2> QED
    BY <2>2, <2>3, <2>6, <2>7
<1> QED
  BY <1>5, <1>6 DEF WriteSubmitFails


\* A written text is confirmed, given up, or watched further.
LEMMA ConfirmSubmitStep == ASSUME SInv, ConfirmSubmit PROVE SInv'
<1> USE DEF SInv
<1>1. /\ mon.pc = "submit" /\ delivery = "delivered" /\ submit # None /\ submit.st = "written" /\ submit \in Submit
      /\ submit.id <= made /\ mon' = [mon EXCEPT !.pc = "reply"]
      /\ UNCHANGED <<answer, reply, turn, question, lost, asked, state, eng, hooked, delivery, dedup, made, open, decision, closing, typed>>
  BY DEF ConfirmSubmit, At, Goto, asyncVars, belief, pauseVars, DeliveryOK, TypeOK
<1>2. PICK c \in Callers : c = submit.by
  BY <1>1 DEF Submit
<1>3. Story(c) /\ Queued(c)
  BY <1>1, <1>2 DEF CallersOK, Story, Queued
<1>4. Pc(c, "wait") /\ ~Untyped(c) /\ ~Left(c) /\ ~Promised(c) /\ ~Turning(c) /\ reply # c
  BY <1>1, <1>3 DEF Story, LeftOK, TurnOK, Pc, Promised, Done
<1>5. typed' \in [Callers -> Seq(Keystrokes)] /\ call \in [Callers -> CallRow]
  BY <1>1 DEF TypeOK
<1>6. mon' \in MonitorRow /\ mon'.pc = "reply" /\ UNCHANGED Dropped /\ Dropped' = None
  BY <1>1 DEF TypeOK, MonitorRow, MonitorPc, Dropped
<1>7. Subsiding
  BY <1>1 DEF Subsiding, TypeOK, EngOK
<1>8. MonOK' /\ GateOK'
  BY <1>1, <1>6 DEF MonOK, GateOK
<1>9. ASSUME NEW out \in {"resumed", "respond_failed"}, submit' = None, Wakes(submit.by, out) PROVE SInv'
  <2>1. /\ call' = Answered(c, out) /\ call' \in [Callers -> CallRow] /\ call'[c].pc = "done"
        /\ \A d \in Callers \ {c} : call'[d] = call[d]
    BY <1>2, <1>4, <1>9, CallAnswered DEF Wakes
  <2>2. TypeOK' /\ KindOK' /\ DeliveryOK' /\ Renewed
    BY <1>1, <1>5, <1>6, <1>7, <1>9, <2>1, SubsidingFrame
  <2>3. \A d \in Callers \ {c} : Unmoved(d)
    BY <1>1, <1>2, <1>6, <1>9, <2>1, OthersUnmovedText
  <2>4. CallersOK'
    <3>1. /\ Told(out) \in {"resumed", "unsure"}
          /\ ~Left(c)' /\ ~Queued(c)' /\ ~Typing(c)' /\ ~Writing(c)' /\ ~Carried(c)' /\ ~Untyped(c)'
      BY <1>1, <1>4, <1>6, <1>9, ToldTyped DEF Left, Queued, Typing, Writing, Carried, Untyped
    <3> QED
      BY <1>1, <1>4, <2>1, <2>2, <2>3, <3>1, WaiterAnswered
  <2>5. ClaimsOK'
    <3>1. \A d \in Callers : \A id \in 1..MaxDec : Claims(d, id)' => Claims(d, id)
      BY <1>1, <1>6, <2>1 DEF Claims, Typing, Writing, Pc, Untyped
    <3> QED
      BY <2>2, <3>1, ClaimsFrame
  <2> QED
    BY <1>8, <2>2, <2>4, <2>5
<1>10. ASSUME submit' = [submit EXCEPT !.echo = @ \/ mon.frame = "echo"], UNCHANGED call PROVE SInv'
  <2>1. submit' \in Submit /\ submit' # None /\ submit'.by = c /\ submit'.id = submit.id /\ submit'.st = "written"
    <3> DEFINE b == submit.echo \/ mon.frame = "echo"
    <3>1. b \in BOOLEAN
      BY <1>1 DEF Submit
    <3>2. submit' = [submit EXCEPT !.echo = b]
      BY <1>10
    <3> HIDE DEF b
    <3>3. submit' \in Submit /\ submit'.by = submit.by /\ submit'.id = submit.id /\ submit'.st = submit.st
      BY <1>1, <3>1, <3>2 DEF Submit
    <3> QED
      BY <1>1, <1>2, <3>3, SessionAssumption
  <2>2. TypeOK' /\ KindOK' /\ DeliveryOK' /\ Renewed
    BY <1>1, <1>5, <1>6, <1>7, <1>10, <2>1, SubsidingFrame
  <2>3. \A d \in Callers \ {c} : Unmoved(d)
    BY <1>1, <1>2, <1>6, <1>10, <2>1, OthersUnmovedText
  <2>4. Story(c)'
    <3>1. /\ ~Left(c)' /\ ~Promised(c)' /\ ~Turning(c)' /\ reply' # c /\ ~Carried(c)' /\ ~Typing(c)' /\ ~Writing(c)'
          /\ Pc(c, "wait")' /\ Queued(c)' /\ ~Untyped(c)' /\ submit'.st # "queued" /\ ~Forsaken(c)'
      BY <1>1, <1>4, <1>6, <1>10, <2>1 DEF Forsaken, Left, Promised, Turning, Carried, Typing, Writing, Pc, Queued, Done, Untyped
    <3>2. LeftOK(c)' /\ TurnOK(c)'
      BY <3>1 DEF LeftOK, TurnOK
    <3>3. TypedOK(c)' /\ ReplyOK(c)'
      BY <1>1, <1>3, <3>1 DEF TypedOK, ReplyOK, Pc, Done, Story, Untyped
    <3> QED
      BY <3>2, <3>3 DEF Story
  <2>5. CallersOK'
    <3>1. BoundOK(c)'
      BY <1>4, <1>10, UnboundOK DEF Pc
    <3> QED
      BY <1>1, <2>2, <2>3, <2>4, <3>1, OneMoves
  <2>6. ClaimsOK'
    <3>1. \A d \in Callers : \A id \in 1..MaxDec : Claims(d, id)' => Claims(d, id)
      BY <1>1, <1>6, <1>10 DEF Claims, Typing, Writing, Pc, Untyped
    <3> QED
      BY <2>2, <3>1, ClaimsFrame
  <2> QED
    BY <1>8, <2>2, <2>5, <2>6
<1> QED
  BY <1>9, <1>10 DEF ConfirmSubmit

\* Behind the gate the text that waits is aborted.
LEMMA AbortSubmitStep == ASSUME SInv, AbortSubmit PROVE SInv'
<1> USE DEF SInv
<1>1. /\ mon.pc = "abort_submit" /\ submit' = None /\ mon' = [mon EXCEPT !.pc = "publish"] /\ open' \subseteq open
      /\ UNCHANGED <<answer, reply, turn, question, lost, asked, state, eng, hooked, delivery, dedup, decision, made, closing, typed>>
  BY DEF AbortSubmit, At, Goto, asyncVars, belief, Resolve
<1>2. mon' \in MonitorRow /\ mon'.pc = "publish" /\ UNCHANGED Dropped
  BY <1>1 DEF TypeOK, MonitorRow, MonitorPc, Dropped
<1>3. Subsiding /\ typed' \in [Callers -> Seq(Keystrokes)] /\ call \in [Callers -> CallRow]
  BY <1>1 DEF Subsiding, TypeOK, EngOK
<1>4. MonOK' /\ GateOK'
  BY <1>1, <1>2 DEF MonOK, GateOK
<1>5. CASE submit = None
  <2>1. UNCHANGED <<call, submit>>
    BY <1>1, <1>5 DEF AbortSubmit
  <2>2. TypeOK' /\ KindOK' /\ DeliveryOK' /\ Renewed
    BY <1>1, <1>2, <1>3, <2>1, SubsidingFrame
  <2>3. CallersOK' /\ ClaimsOK'
    BY <1>1, <1>2, <2>1, <2>2, QuietStep DEF slots, Handing
  <2> QED
    BY <1>4, <2>2, <2>3
<1>6. CASE submit # None
  <2>1. PICK c \in Callers : c = submit.by
    BY <1>6 DEF TypeOK, Submit
  <2>2. Story(c) /\ Queued(c)
    BY <1>6, <2>1 DEF CallersOK, Story, Queued
  <2>3. Pc(c, "wait") /\ ~Left(c)
    BY <2>2 DEF Story, LeftOK
  <2>4. /\ call' = Answered(c, "terminal") /\ call' \in [Callers -> CallRow] /\ call'[c].pc = "done"
        /\ \A d \in Callers \ {c} : call'[d] = call[d]
    BY <1>6, <2>1, <2>3, CallAnswered DEF AbortSubmit, Wakes
  <2>5. TypeOK' /\ KindOK' /\ DeliveryOK' /\ Renewed
    BY <1>1, <1>2, <1>3, <2>4, SubsidingFrame
  <2>6. \A d \in Callers \ {c} : Unmoved(d)
    BY <1>1, <1>2, <2>1, <2>4, OthersUnmovedText
  <2>7. CallersOK'
    <3>1. /\ Told("terminal") = "unsure"
          /\ ~Left(c)' /\ ~Queued(c)' /\ ~Typing(c)' /\ ~Writing(c)' /\ ~Carried(c)'
      BY <1>1, <1>2, <2>3, ToldTyped DEF Left, Queued, Typing, Writing, Carried
    <3> QED
      BY <1>1, <2>3, <2>4, <2>5, <2>6, <3>1, WaiterAnswered
  <2>8. ClaimsOK'
    <3>1. \A d \in Callers : \A id \in 1..MaxDec : Claims(d, id)' => Claims(d, id)
      BY <1>1, <1>2, <2>4 DEF Claims, Typing, Writing, Pc, Untyped
    <3> QED
      BY <2>5, <3>1, ClaimsFrame
  <2> QED
    BY <1>4, <2>5, <2>7, <2>8
<1> QED
  BY <1>5, <1>6

\* The monitor takes the queued reply out of its slot.
LEMMA DrainReplyStep == ASSUME SInv, DrainReply PROVE SInv'
<1> USE DEF SInv
<1>1. /\ mon.pc = "reply" /\ mon.pc \in Loop /\ delivery = "delivered" /\ closing = FALSE
      /\ UNCHANGED <<call, answer, submit, turn, question, lost, asked, state, eng, hooked, delivery, dedup, decision, made, open, closing, typed>>
  BY DEF DrainReply, At, belief, pauseVars, DeliveryOK, Loop, GateOK, TypeOK
<1>2. CASE reply # None /\ reply' = None /\ mon' = [mon EXCEPT !.pc = "turn", !.held = reply]
  <2>1. PICK c \in Callers : c = reply
    BY <1>2 DEF TypeOK
  <2>2. mon' \in MonitorRow /\ mon'.pc = "turn" /\ mon'.held = c
    BY <1>2, <2>1 DEF TypeOK, MonitorRow, MonitorPc
  <2>3. TypeOK'
    BY <1>1, <1>2, <2>2 DEF TypeOK
  <2>4. MonOK' /\ GateOK' /\ KindOK' /\ DeliveryOK'
    BY <1>1, <2>2 DEF MonOK, GateOK, KindOK, DeliveryOK, BlockedOnlyBefore
  <2>5. Renewed
    BY <1>1, Numbers DEF Renewed
  <2>6. \A d \in Callers \ {c} : Unmoved(d)
    BY <1>1, <1>2, <2>1, <2>2, SessionAssumption DEF Unmoved, Left, Queued, Typing, Writing, Carried, Turning, Forsaken, Dropped
  <2>7. Story(c)'
    <3>1. Story(c)
      BY DEF CallersOK, Story
    <3>2. Promised(c) /\ Untyped(c)
      BY <2>1, <3>1 DEF Story, TurnOK
    <3>3. ~Left(c) /\ ~Queued(c) /\ ~Turning(c)
      BY <1>1, <3>1, <3>2 DEF Story, LeftOK, TurnOK, Promised, Done, Pc, Carried
    <3>4. /\ Promised(c)' /\ Untyped(c)' /\ ~Left(c)' /\ ~Queued(c)' /\ ~Turning(c)' /\ Carried(c)'
          /\ ~Typing(c)' /\ ~Writing(c)' /\ reply' # c /\ ~Forsaken(c)'
      BY <1>1, <1>2, <2>1, <2>2, <3>2, <3>3
         DEF Forsaken, Dropped, Promised, Done, Pc, Untyped, Left, Queued, Turning, Carried, Typing, Writing
    <3>5. LeftOK(c)' /\ TurnOK(c)'
      BY <3>4 DEF LeftOK, TurnOK, Promised, Pc, Done
    <3>6. TypedOK(c)' /\ ReplyOK(c)'
      BY <1>1, <2>1, <3>1, <3>4 DEF TypedOK, ReplyOK, Promised, Pc, Done, Story
    <3> QED
      BY <3>5, <3>6 DEF Story
  <2>8. CallersOK'
    <3>1. BoundOK(c)'
      BY <1>1, <2>5, BoundFrame DEF CallersOK
    <3> QED
      BY <1>1, <2>5, <2>6, <2>7, <3>1, OneMoves
  <2>9. ClaimsOK'
    <3>1. \A d \in Callers : \A id \in 1..MaxDec : Claims(d, id)' => Claims(d, id)
      BY <1>1, <2>2 DEF Claims, Typing, Writing, Pc, Untyped
    <3> QED
      BY <2>5, <3>1, ClaimsFrame
  <2> QED
    BY <2>3, <2>4, <2>8, <2>9
<1>3. CASE LoopEnd /\ UNCHANGED reply
  <2>1. PICK p \in {"hooks", "close"} : mon' = [Resting EXCEPT !.pc = p]
    BY <1>3 DEF LoopEnd, Again
  <2>2. mon' \in MonitorRow /\ mon'.pc = p /\ mon'.held = None
    BY <2>1, RestTyped DEF MonitorPc, Resting
  <2>3. MonOK' /\ Renewed /\ KindOK'
    BY <1>1, <2>2, Numbers DEF MonOK, Renewed, KindOK
  <2> QED
    BY <1>1, <1>3, <2>2, <2>3, Delivered, LoopStep DEF slots, Loop
<1> QED
  BY <1>2, <1>3 DEF DrainReply


-----------------------------------------------------------------------------
(* The RPC threads                                                         *)

\* A step of an RPC thread: the monitor is where it was, and decisions and
\* events at most go.
ByCaller ==
  /\ UNCHANGED <<callerOnly, asked, lost, turn>>
  /\ decision' \in {decision, None} /\ (delivery = "pending" => decision' = decision)
  /\ open' \subseteq open
  /\ EngOK(eng') /\ state' \in {state, "busy"}
  /\ question' \in {question, None} /\ reply' \in Callers \cup {None}
  /\ answer' \in Answer \cup {None} /\ (answer' # None => answer' = answer \/ (~closing /\ answer'.id <= made))
  /\ submit' \in Submit \cup {None} /\ (submit' # None => submit' = submit \/ (~closing /\ submit'.id <= made))
  /\ call' \in [Callers -> CallRow] /\ typed' \in [Callers -> Seq(Keystrokes)]

\* It keeps what the invariant says of the session.
LEMMA ByCallerFrame ==
  ASSUME SInv, ByCaller
  PROVE TypeOK' /\ MonOK' /\ GateOK' /\ KindOK' /\ DeliveryOK' /\ Renewed
<1> USE DEF SInv, ByCaller, callerOnly
<1>1. TypeOK'
  <2>1. open' \subseteq Event /\ \A d \in open' : d.id <= made'
    BY RingShrinks
  <2>2. question' \in {None} \cup {QuestionId(n) : n \in 1..asked'}
    BY DEF TypeOK
  <2>3. (answer' # None => answer'.id <= made') /\ (submit' # None => submit'.id <= made')
    BY DEF TypeOK
  <2>4. decision' \in Decision \cup {None} /\ (decision' # None => decision'.id <= made')
    BY DEF TypeOK
  <2> QED
    BY <2>1, <2>2, <2>3, <2>4 DEF TypeOK, EngOK
<1>2. MonOK' /\ GateOK' /\ KindOK'
  BY ZenonT(60) DEF MonOK, GateOK, KindOK, TypeOK
<1>3. DeliveryOK'
  BY DEF DeliveryOK, BlockedOnlyBefore, Current
<1>4. Renewed
  BY Numbers DEF Renewed
<1> QED
  BY <1>1, <1>2, <1>3, <1>4

Outside == {"new", "resolve", "peek", "bind", "blocked", "text", "modal", "write", "settle"}

\* A thread at these steps has its answer with it.
LEMMA OutsideOK ==
  ASSUME SInv, NEW c \in Callers, call[c].pc \in Outside
  PROVE /\ Story(c) /\ ~Left(c) /\ ~Queued(c) /\ ~Typing(c) /\ ~Writing(c) /\ ~Carried(c) /\ ~Turning(c)
        /\ ~Promised(c) /\ reply # c /\ ~Forsaken(c)
        /\ call[c].pc # "settle" => Untyped(c)
<1>1. Story(c)
  BY DEF SInv, CallersOK, Story
<1>2. ~Pc(c, "wait") /\ ~Promised(c) /\ ~Pc(c, "done") /\ call[c].pc \notin {"turn", "deliver"}
  BY DEF Outside, Pc, Promised, Done
<1>3. ~Left(c) /\ ~Queued(c) /\ ~Typing(c) /\ ~Forsaken(c)
  BY <1>1, <1>2 DEF Story, LeftOK
<1>4. ~Writing(c)
  <2>1. Writing(c) => (IF submit = None THEN Done(c, "unsure") ELSE submit = mon.held)
    BY <1>1 DEF Story, LeftOK
  <2>2. Writing(c) /\ submit # None => Queued(c)
    BY <2>1 DEF Writing, Queued
  <2> QED
    BY <1>2, <1>3, <2>1, <2>2 DEF Done
<1>5. ~Carried(c) /\ reply # c
  BY <1>1, <1>2 DEF Story, TurnOK
<1>6. ~Turning(c)
  BY <1>1, <1>2, <1>5 DEF Story, TurnOK
<1>7. call[c].pc # "settle" => Untyped(c)
  BY <1>1 DEF Story, TypedOK, Outside
<1> QED
  BY <1>1, <1>2, <1>3, <1>4, <1>5, <1>6, <1>7

\* A thread goes on, or returns, with its answer.
LEMMA OutsideMoves ==
  ASSUME SInv, ByCaller, NEW c \in Callers, call[c].pc \in Outside, UNCHANGED <<answer, submit, reply>>,
         \A d \in Callers \ {c} : call'[d] = call[d] /\ typed'[d] = typed[d],
         call'[c].pc \notin {"wait", "requeue", "requeued"}, call'[c].pc = "done" => call'[c].out # "queued",
         call'[c].pc = "deliver" => question' = None,
         TypedOK(c)', BoundOK(c)'
  PROVE CallersOK'
<1> USE DEF ByCaller, callerOnly
<1>1. /\ ~Left(c) /\ ~Queued(c) /\ ~Typing(c) /\ ~Writing(c) /\ ~Carried(c) /\ ~Turning(c) /\ ~Promised(c) /\ reply # c /\ ~Forsaken(c)
  BY OutsideOK
<1>2. /\ ~Left(c)' /\ ~Queued(c)' /\ ~Typing(c)' /\ ~Writing(c)' /\ ~Carried(c)' /\ ~Turning(c)' /\ reply' # c /\ ~Forsaken(c)'
  BY <1>1 DEF Forsaken, Dropped, Left, Queued, Typing, Writing, Carried, Turning
<1>3. ~Promised(c)' /\ ~Pc(c, "wait")'
  BY DEF Promised, Done, Pc
<1>4. LeftOK(c)' /\ TurnOK(c)'
  BY <1>2, <1>3 DEF LeftOK, TurnOK
<1>5. ReplyOK(c)'
  BY <1>2, <1>3 DEF ReplyOK
<1>6. \A d \in Callers \ {c} : Unmoved(d)
  BY DEF Unmoved, Left, Queued, Typing, Writing, Carried, Turning, Forsaken, Dropped
<1>7. Renewed
  BY ByCallerFrame
<1> QED
  BY <1>4, <1>5, <1>6, <1>7, OneMoves DEF Story

\* Then no claim is new, unless it has one.
LEMMA OutsideClaims ==
  ASSUME SInv, ByCaller, NEW c \in Callers,
         \A d \in Callers \ {c} : call'[d] = call[d] /\ typed'[d] = typed[d],
         typed'[c] = typed[c], call'[c].pc # "write"
  PROVE ClaimsOK'
<1>1. \A d \in Callers : \A id \in 1..MaxDec : Claims(d, id)' => Claims(d, id)
  BY DEF Claims, Typing, Writing, Pc, Untyped, ByCaller, callerOnly
<1>2. Renewed
  BY ByCallerFrame
<1> QED
  BY <1>1, <1>2, ClaimsFrame DEF SInv

\* A thread that returns at once is refused, or not sure.
LEMMA ReturnsStep ==
  ASSUME SInv, ByCaller, NEW c \in Callers, call[c].pc \in Outside \ {"settle"}, NEW out,
         out \in Refusals \cup {"terminal", "write_timeout"},
         Returns(c, out), UNCHANGED <<answer, submit, reply, typed>>
  PROVE SInv'
<1>1. /\ call'[c].pc = "done" /\ call'[c].out \in {"refused", "unsure"}
      /\ \A d \in Callers \ {c} : call'[d] = call[d]
  BY CallAnswered, ToldTyped DEF SInv, Returns
<1>2. Untyped(c)'
  BY OutsideOK DEF Untyped
<1>3. TypedOK(c)'
  BY <1>1, <1>2 DEF TypedOK, Pc, Done
<1>4. CallersOK'
  <2>1. BoundOK(c)'
    BY <1>1, UnboundOK
  <2> QED
    BY <1>1, <1>3, <2>1, OutsideMoves
<1>5. ClaimsOK'
  BY <1>1, OutsideClaims
<1> QED
  BY <1>4, <1>5, ByCallerFrame DEF SInv

\* A thread that has typed nothing goes on.
LEMMA MovesStep ==
  ASSUME SInv, ByCaller, NEW c \in Callers, call[c].pc \in Outside \ {"settle"},
         call'[c].pc \in {"resolve", "peek", "bind", "blocked", "text", "modal", "turn", "deliver"},
         \A d \in Callers \ {c} : call'[d] = call[d],
         call'[c].pc = "deliver" => question' = None, BoundOK(c)', UNCHANGED <<answer, submit, reply, typed>>
  PROVE SInv'
<1>1. Untyped(c)'
  BY OutsideOK DEF Untyped
<1>2. TypedOK(c)'
  BY <1>1 DEF TypedOK, Pc, Done
<1>3. CallersOK'
  BY <1>2, OutsideMoves
<1>4. ClaimsOK'
  BY OutsideClaims
<1> QED
  BY <1>3, <1>4, ByCallerFrame DEF SInv


\* Only the call moves.
LEMMA PlainCaller ==
  ASSUME SInv, UNCHANGED <<callerOnly, slotVars, belief, decision, open, typed>>, call' \in [Callers -> CallRow]
  PROVE ByCaller /\ UNCHANGED <<answer, submit, reply, question>>
BY DEF SInv, TypeOK, ByCaller, slotVars, asyncVars, belief, EngOK

\* respond is called.
LEMMA RespondStep == ASSUME SInv, NEW c \in Callers, NEW id \in 0..MaxDec + MaxAsked, Respond(c, id) PROVE SInv'
<1> DEFINE p == IF id = question THEN "resolve" ELSE "peek"
<1>1. /\ call[c].pc = "new" /\ call' = [call EXCEPT ![c].pc = p, ![c].id = id] /\ p \in {"resolve", "peek"}
      /\ UNCHANGED <<callerOnly, slotVars, belief, decision, open, typed>>
  BY DEF Respond, Pc
<1> HIDE DEF p
<1>2. call' \in [Callers -> CallRow] /\ call'[c].pc = p /\ \A d \in Callers \ {c} : call'[d] = call[d]
  BY <1>1, ZenonT(60) DEF SInv, TypeOK, CallRow, CallPc
<1>3. ByCaller /\ UNCHANGED <<answer, submit, reply, question>>
  BY <1>1, <1>2, PlainCaller
<1>4. BoundOK(c)'
  BY <1>1, <1>2, UnboundOK
<1> QED
  BY <1>1, <1>2, <1>3, <1>4, MovesStep DEF Outside

\* An idle session takes the answer as its next turn.
LEMMA PeekStep == ASSUME SInv, NEW c \in Callers, Peek(c) PROVE SInv'
<1> DEFINE p == IF state = "idle" THEN "turn" ELSE "bind"
<1>1. /\ call[c].pc = "peek" /\ Moves(c, p) /\ p \in {"turn", "bind"}
      /\ UNCHANGED <<callerOnly, slotVars, belief, decision, open, typed>>
  BY DEF Peek, Pc
<1> HIDE DEF p
<1>2. call' \in [Callers -> CallRow] /\ call'[c].pc = p /\ \A d \in Callers \ {c} : call'[d] = call[d]
  BY <1>1, CallMoves DEF SInv, CallPc
<1>3. ByCaller /\ UNCHANGED <<answer, submit, reply, question>>
  BY <1>1, <1>2, PlainCaller
<1>4. BoundOK(c)'
  BY <1>1, <1>2, UnboundOK
<1> QED
  BY <1>1, <1>2, <1>3, <1>4, MovesStep DEF Outside

\* The answer is bound to the decision that is pending.
LEMMA BindStep == ASSUME SInv, NEW c \in Callers, Bind(c) PROVE SInv'
<1>1. call[c].pc = "bind" /\ UNCHANGED <<callerOnly, slotVars, belief, decision, open, typed>>
  BY DEF Bind, Pc
<1>2. ASSUME NEW out \in Refusals \cup {"terminal"}, Returns(c, out) PROVE SInv'
  <2>1. call' \in [Callers -> CallRow]
    BY <1>2, CallAnswered DEF SInv, Returns
  <2>2. ByCaller /\ UNCHANGED <<answer, submit, reply, question>>
    BY <1>1, <2>1, PlainCaller
  <2> QED
    BY <1>1, <1>2, <2>2, ReturnsStep DEF Outside
<1>3. ASSUME decision \notin {None, Idle}, call[c].id = decision.id, Moves(c, decision.kind) PROVE SInv'
  <2>1. decision.kind \in {"blocked", "modal", "text"} /\ decision.id \in 1..made
    BY <1>3, Numbers DEF SInv, TypeOK, KindOK, Decision
  <2>2. /\ call' \in [Callers -> CallRow] /\ call'[c].pc = decision.kind /\ call'[c].id = decision.id
        /\ \A d \in Callers \ {c} : call'[d] = call[d]
    BY <1>3, <2>1, CallMoves DEF SInv, CallPc
  <2>3. ByCaller /\ UNCHANGED <<answer, submit, reply, question>>
    BY <1>1, <2>2, PlainCaller
  <2>4. BoundOK(c)'
    BY <1>1, <2>1, <2>2 DEF BoundOK, callerOnly
  <2> QED
    BY <1>1, <2>1, <2>2, <2>3, <2>4, MovesStep DEF Outside
<1> QED
  BY <1>2, <1>3 DEF Bind, Refusals

\* A menu is answered by the RPC thread, which claims the decision.
LEMMA ClaimStep == ASSUME SInv, NEW c \in Callers, Claim(c) PROVE SInv'
<1>1. call[c].pc = "modal" /\ UNCHANGED <<callerOnly, slotVars, belief, open, typed>>
  BY DEF Claim, Pc
<1>2. CASE Returns(c, "no_pending") /\ UNCHANGED decision
  <2>1. call' \in [Callers -> CallRow]
    BY <1>2, CallAnswered DEF SInv, Returns
  <2>2. ByCaller /\ UNCHANGED <<answer, submit, reply, question>>
    BY <1>1, <1>2, <2>1, PlainCaller
  <2> QED
    BY <1>1, <1>2, <2>2, ReturnsStep DEF Outside, Refusals
<1>3. CASE Current(call[c].id) /\ decision' = None /\ Moves(c, "write")
  <2>1. /\ call' \in [Callers -> CallRow] /\ call'[c].pc = "write" /\ call'[c].id = call[c].id
        /\ \A d \in Callers \ {c} : call'[d] = call[d]
    BY <1>3, CallMoves DEF SInv, CallPc
  <2>2. call[c].id \in 1..made /\ decision # None /\ decision.kind = "modal"
    BY <1>1, <1>3 DEF SInv, CallersOK, BoundOK, Current
  <2>3. ByCaller /\ UNCHANGED <<answer, submit, reply, question>>
    <3>1. delivery # "pending"
      BY <2>2 DEF SInv, DeliveryOK
    <3> QED
      BY <1>1, <1>3, <2>1, <3>1 DEF SInv, TypeOK, ByCaller, slotVars, asyncVars, belief, EngOK
  <2>4. CallersOK'
    <3>1. Untyped(c)'
      BY <1>1, OutsideOK DEF Untyped, Outside
    <3>2. TypedOK(c)'
      BY <2>1, <3>1 DEF TypedOK, Pc, Done
    <3>3. BoundOK(c)'
      BY <1>1, <2>1, <2>2 DEF BoundOK, callerOnly
    <3> QED
      BY <1>1, <2>1, <2>3, <3>2, <3>3, OutsideMoves DEF Outside
  <2>5. ClaimsOK'
    <3>1. PICK i \in 1..MaxDec : i = call[c].id
      BY <2>2, Numbers DEF SInv
    <3>2. \A d \in Callers : \A id \in 1..MaxDec : Claims(d, id)' => Claims(d, id) \/ (d = c /\ id = i)
      BY <1>1, <2>1, <3>1 DEF Claims, Typing, Writing, Pc, Untyped, callerOnly
    <3> QED
      BY <1>1, <1>3, <3>1, <3>2, ClaimsNew DEF SInv, callerOnly
  <2> QED
    BY <2>3, <2>4, <2>5, ByCallerFrame DEF SInv
<1> QED
  BY <1>2, <1>3 DEF Claim, Claimable

\* It writes.
LEMMA WriteStep == ASSUME SInv, NEW c \in Callers, Write(c) PROVE SInv'
<1>1. /\ call[c].pc = "write" /\ open' \subseteq open
      /\ UNCHANGED <<callerOnly, slotVars, belief, decision>>
  BY DEF Write, Pc, Resolve, callerOnly
<1>2. ASSUME call' \in [Callers -> CallRow], typed' \in [Callers -> Seq(Keystrokes)]
      PROVE ByCaller /\ UNCHANGED <<answer, submit, reply, question>>
  BY <1>1, <1>2 DEF SInv, TypeOK, ByCaller, slotVars, asyncVars, belief, EngOK
<1>3. CASE Returns(c, "write_timeout") /\ UNCHANGED typed
  <2>1. call' \in [Callers -> CallRow]
    BY <1>3, CallAnswered DEF SInv, Returns
  <2>2. ByCaller /\ UNCHANGED <<answer, submit, reply, question>>
    BY <1>2, <1>3, <2>1 DEF SInv, TypeOK
  <2> QED
    BY <1>1, <1>3, <2>2, ReturnsStep DEF Outside
<1>4. CASE Types(c, call[c].id) /\ Moves(c, "settle")
  <2>1. /\ call' \in [Callers -> CallRow] /\ call'[c].pc = "settle"
        /\ \A d \in Callers \ {c} : call'[d] = call[d]
    BY <1>4, CallMoves DEF SInv, CallPc
  <2>2. Untyped(c) /\ call[c].id \in 1..MaxDec
    BY <1>1, OutsideOK, Numbers DEF Outside, SInv, CallersOK, BoundOK
  <2>3. /\ typed' \in [Callers -> Seq(Keystrokes)]
        /\ Once(typed'[c]) /\ ~Untyped(c)' /\ typed'[c][1].id = call[c].id
        /\ \A d \in Callers \ {c} : typed'[d] = typed[d]
    <3>1. PICK i \in 0..MaxDec : i = call[c].id
      BY <2>2, Numbers DEF SInv
    <3> QED
      BY <1>4, <2>2, <3>1, TypesOnce DEF SInv
  <2>4. ByCaller /\ UNCHANGED <<answer, submit, reply, question>>
    BY <1>2, <2>1, <2>3
  <2>5. CallersOK'
    <3>1. TypedOK(c)'
      BY <2>1, <2>3 DEF TypedOK, Pc, Done, Once
    <3>2. BoundOK(c)'
      BY <2>1, UnboundOK
    <3> QED
      BY <1>1, <2>1, <2>3, <2>4, <3>1, <3>2, OutsideMoves DEF Outside
  <2>6. ClaimsOK'
    <3>1. \A id \in 1..MaxDec : Claims(c, id)' => Claims(c, id)
      BY <1>1, <2>1, <2>3 DEF Claims, Typing, Writing, Pc, Untyped, callerOnly
    <3>2. \A d \in Callers \ {c} : \A id \in 1..MaxDec : Claims(d, id)' => Claims(d, id)
      BY <1>1, <2>1, <2>3 DEF Claims, Typing, Writing, Pc, Untyped, callerOnly
    <3>3. Renewed
      BY <2>4, ByCallerFrame
    <3> QED
      BY <3>1, <3>2, <3>3, ClaimsFrame DEF SInv
  <2> QED
    BY <2>4, <2>5, <2>6, ByCallerFrame DEF SInv
<1> QED
  BY <1>3, <1>4 DEF Write

\* And tells the engine.
LEMMA SettleStep == ASSUME SInv, NEW c \in Callers, Settle(c) PROVE SInv'
<1>1. /\ call[c].pc = "settle" /\ eng' = OnSubmit(eng) /\ state' = "busy" /\ Returns(c, "resumed")
      /\ UNCHANGED <<callerOnly, slotVars, decision, open, typed>>
  BY DEF Settle, Pc, Submitted
<1>2. /\ call' \in [Callers -> CallRow] /\ call'[c].pc = "done" /\ call'[c].out = "resumed"
      /\ \A d \in Callers \ {c} : call'[d] = call[d]
  BY <1>1, CallAnswered, ToldTyped DEF SInv, Returns
<1>3. EngOK(eng')
  BY <1>1, OnSubmitTyped DEF SInv, TypeOK, EngOK
<1>4. ByCaller /\ UNCHANGED <<answer, submit, reply, question>>
  BY <1>1, <1>2, <1>3 DEF SInv, TypeOK, ByCaller, slotVars, asyncVars
<1>5. TypedOK(c)'
  BY <1>1, <1>2 DEF SInv, CallersOK, TypedOK, Pc, Done, Untyped
<1>6. CallersOK'
  <2>1. BoundOK(c)'
    BY <1>2, UnboundOK
  <2> QED
    BY <1>1, <1>2, <1>4, <1>5, <2>1, OutsideMoves DEF Outside
<1>7. ClaimsOK'
  BY <1>1, <1>2, <1>4, OutsideClaims
<1> QED
  BY <1>4, <1>6, <1>7, ByCallerFrame DEF SInv


\* A thread leaves its answer to the monitor, or takes it back.
LEMMA OthersStay ==
  ASSUME ByCaller, NEW c \in Callers, UNCHANGED <<reply, typed>>,
         \A d \in Callers \ {c} : call'[d] = call[d],
         answer' = answer \/ ((answer = None \/ answer.by = c) /\ (answer' = None \/ answer'.by = c)),
         submit' = submit \/ ((submit = None \/ submit.by = c) /\ (submit' = None \/ submit'.by = c)),
         submit' = submit \/ mon.pc # "write" \/ mon.held.by = c
  PROVE \A d \in Callers \ {c} : Unmoved(d)
BY DEF Unmoved, Left, Queued, Typing, Writing, Carried, Turning, Forsaken, Dropped, ByCaller, callerOnly

\* _respond_blocked.
LEMMA EnqueueStep == ASSUME SInv, NEW c \in Callers, Enqueue(c) PROVE SInv'
<1> DEFINE id == call[c].id
<1>1. /\ call[c].pc = "blocked" /\ open' \subseteq open
      /\ UNCHANGED <<callerOnly, submit, asyncVars, turn, belief, decision, typed>>
  BY DEF Enqueue, Pc, Resolve
<1>2. ASSUME NEW out \in Refusals \cup {"terminal"}, Returns(c, out), UNCHANGED answer PROVE SInv'
  <2>1. call' \in [Callers -> CallRow]
    BY <1>2, CallAnswered DEF SInv, Returns
  <2>2. ByCaller /\ UNCHANGED <<answer, submit, reply, typed>>
    BY <1>1, <1>2, <2>1 DEF SInv, TypeOK, ByCaller, asyncVars, belief, EngOK
  <2> QED
    BY <1>1, <1>2, <2>2, ReturnsStep DEF Outside
<1>3. ASSUME ~closing, Current(id), AnswerFree, Moves(c, "wait"), UNCHANGED open,
             answer' = [by |-> c, id |-> id, about |-> decision.key[2]]
      PROVE SInv'
  <2>1. id \in 1..made /\ id \in 1..MaxDec /\ decision # None /\ decision.kind = "blocked"
    BY <1>1, <1>3, Numbers DEF SInv, CallersOK, BoundOK, Current
  <2>2. decision.key[2] \in Modals
    BY <2>1 DEF SInv, KindOK
  <2>3. answer' \in Answer /\ answer' # None /\ answer'.by = c /\ answer'.id <= made
    <3>1. answer' \in Answer /\ answer'.by = c /\ answer'.id = id
      BY <1>3, <2>1, <2>2 DEF Answer
    <3> QED
      BY <2>1, <3>1, SessionAssumption, Numbers DEF SInv
  <2>4. /\ call' \in [Callers -> CallRow] /\ call'[c].pc = "wait"
        /\ \A d \in Callers \ {c} : call'[d] = call[d]
    BY <1>3, CallMoves DEF SInv, CallPc
  <2>5. ByCaller /\ UNCHANGED <<submit, reply, typed, question>>
    BY <1>1, <1>3, <2>3, <2>4 DEF SInv, TypeOK, ByCaller, asyncVars, belief, EngOK
  <2>6. \A d \in Callers \ {c} : Unmoved(d)
    BY <1>3, <2>3, <2>4, <2>5, OthersStay DEF AnswerFree
  <2>7. Story(c)'
    <3>1. /\ ~Queued(c) /\ ~Typing(c) /\ ~Writing(c) /\ ~Carried(c) /\ ~Turning(c) /\ reply # c /\ Untyped(c) /\ ~Forsaken(c)
      BY <1>1, OutsideOK DEF Outside
    <3>2. /\ Left(c)' /\ ~Queued(c)' /\ ~Typing(c)' /\ ~Writing(c)' /\ ~Carried(c)' /\ ~Turning(c)' /\ reply' # c
          /\ Untyped(c)' /\ Pc(c, "wait")' /\ ~Promised(c)' /\ ~Forsaken(c)'
      BY <1>1, <2>3, <2>4, <2>5, <3>1
         DEF Left, Queued, Typing, Writing, Carried, Turning, Untyped, Pc, Promised, Done, Forsaken, Dropped, callerOnly
    <3>3. LeftOK(c)' /\ TurnOK(c)'
      BY <3>2 DEF LeftOK, TurnOK
    <3>4. TypedOK(c)' /\ ReplyOK(c)'
      BY <3>2 DEF TypedOK, ReplyOK, Pc, Done
    <3> QED
      BY <3>3, <3>4 DEF Story
  <2>8. CallersOK'
    <3>1. BoundOK(c)' /\ Renewed
      BY <2>4, <2>5, UnboundOK, ByCallerFrame
    <3> QED
      BY <2>5, <2>6, <2>7, <3>1, OneMoves DEF ByCaller, callerOnly
  <2>9. ClaimsOK'
    BY <2>4, <2>5, OutsideClaims
  <2> QED
    BY <2>5, <2>8, <2>9, ByCallerFrame DEF SInv
<1> QED
  BY <1>2, <1>3 DEF Enqueue, Refusals

\* _respond_free_text.
LEMMA QueueStep == ASSUME SInv, NEW c \in Callers, Queue(c) PROVE SInv'
<1>1. /\ call[c].pc = "text"
      /\ UNCHANGED <<callerOnly, answer, asyncVars, turn, belief, decision, open, typed>>
  BY DEF Queue, Pc
<1>2. ASSUME NEW out \in {"terminal", "no_pending"}, Returns(c, out), UNCHANGED submit PROVE SInv'
  <2>1. call' \in [Callers -> CallRow]
    BY <1>2, CallAnswered DEF SInv, Returns
  <2>2. ByCaller /\ UNCHANGED <<answer, submit, reply, typed>>
    BY <1>1, <1>2, <2>1 DEF SInv, TypeOK, ByCaller, asyncVars, belief, EngOK
  <2> QED
    BY <1>1, <1>2, <2>2, ReturnsStep DEF Outside, Refusals
<1>3. ASSUME ~closing, Current(call[c].id), submit = None, Moves(c, "wait"),
             submit' = [by |-> c, id |-> call[c].id, st |-> "queued", echo |-> FALSE]
      PROVE SInv'
  <2>1. call[c].id \in 1..made /\ call[c].id \in 1..MaxDec /\ decision # None
    BY <1>1, <1>3, Numbers DEF SInv, CallersOK, BoundOK, Current
  <2>2. submit' \in Submit /\ submit' # None /\ submit'.by = c /\ submit'.id <= made /\ submit'.st = "queued"
    <3>1. submit' \in Submit /\ submit'.by = c /\ submit'.id = call[c].id /\ submit'.st = "queued"
      BY <1>3, <2>1 DEF Submit
    <3> QED
      BY <2>1, <3>1, SessionAssumption, Numbers DEF SInv
  <2>3. /\ call' \in [Callers -> CallRow] /\ call'[c].pc = "wait"
        /\ \A d \in Callers \ {c} : call'[d] = call[d]
    BY <1>3, CallMoves DEF SInv, CallPc
  <2>4. ByCaller /\ UNCHANGED <<answer, reply, typed, question>>
    BY <1>1, <1>3, <2>2, <2>3 DEF SInv, TypeOK, ByCaller, asyncVars, belief, EngOK
  <2>5. \A d \in Callers \ {c} : Unmoved(d)
    <3>1. mon.pc # "write"
      BY <2>1 DEF SInv, MonOK
    <3> QED
      BY <1>3, <2>2, <2>3, <2>4, <3>1, OthersStay
  <2>6. Story(c)'
    <3>1. /\ ~Left(c) /\ ~Typing(c) /\ ~Writing(c) /\ ~Carried(c) /\ ~Turning(c) /\ reply # c /\ Untyped(c) /\ ~Forsaken(c)
      BY <1>1, OutsideOK DEF Outside
    <3>2. /\ ~Left(c)' /\ Queued(c)' /\ ~Typing(c)' /\ ~Writing(c)' /\ ~Carried(c)' /\ ~Turning(c)' /\ reply' # c
          /\ Untyped(c)' /\ Pc(c, "wait")' /\ ~Promised(c)' /\ ~Forsaken(c)'
      BY <1>1, <2>2, <2>3, <2>4, <3>1
         DEF Left, Queued, Typing, Writing, Carried, Turning, Untyped, Pc, Promised, Done, Forsaken, Dropped, callerOnly
    <3>3. LeftOK(c)' /\ TurnOK(c)'
      BY <2>2, <3>2 DEF LeftOK, TurnOK
    <3>4. TypedOK(c)' /\ ReplyOK(c)'
      BY <3>2 DEF TypedOK, ReplyOK, Pc, Done
    <3> QED
      BY <3>3, <3>4 DEF Story
  <2>7. CallersOK'
    <3>1. BoundOK(c)' /\ Renewed
      BY <2>3, <2>4, UnboundOK, ByCallerFrame
    <3> QED
      BY <2>4, <2>5, <2>6, <3>1, OneMoves DEF ByCaller, callerOnly
  <2>8. ClaimsOK'
    BY <2>3, <2>4, OutsideClaims
  <2> QED
    BY <2>4, <2>7, <2>8, ByCallerFrame DEF SInv
<1> QED
  BY <1>2, <1>3 DEF Queue

\* The caller has waited long enough.
LEMMA ReclaimStep == ASSUME SInv, NEW c \in Callers, Reclaim(c) PROVE SInv'
<1>1. /\ Pc(c, "wait") /\ open' \subseteq open
      /\ UNCHANGED <<callerOnly, asyncVars, turn, belief, decision, typed>>
  BY DEF Reclaim, Resolve
<1>2. PICK out \in {"taken_back", "respond_failed"} :
        /\ Returns(c, out)
        /\ \/ out = "taken_back" /\ Left(c) /\ answer' = None /\ UNCHANGED submit
           \/ out = "respond_failed" /\ Queued(c) /\ submit' = None /\ UNCHANGED answer
  BY DEF Reclaim, Unclaimed, Left, Queued
<1>3. /\ call' = Answered(c, out) /\ call' \in [Callers -> CallRow] /\ call'[c].pc = "done"
      /\ \A d \in Callers \ {c} : call'[d] = call[d]
  BY <1>2, CallAnswered DEF SInv, Returns
<1>4. ByCaller /\ UNCHANGED <<reply, typed, question>>
  BY <1>1, <1>2, <1>3 DEF SInv, TypeOK, ByCaller, asyncVars, belief, EngOK
<1>5. Story(c)
  BY DEF SInv, CallersOK, Story
<1>6. CallersOK'
  <2>1. Told(out) \in {"refused", "unsure"} /\ (out = "respond_failed" => Told(out) = "unsure")
    BY <1>2, ToldTyped DEF Refusals
  <2>2. ~Left(c)' /\ ~Queued(c)' /\ ~Typing(c)' /\ (Told(out) = "refused" => Untyped(c)')
    <3>1. CASE out = "taken_back"
      BY <1>1, <1>2, <1>5, <3>1 DEF Story, LeftOK, Left, Queued, Typing, Untyped, callerOnly
    <3>2. CASE out = "respond_failed"
      BY <1>1, <1>2, <1>5, <2>1, <3>2 DEF Story, LeftOK, Left, Queued, Typing, Untyped, callerOnly
    <3> QED
      BY <3>1, <3>2
  <2>3. Writing(c)' => submit' = None /\ Told(out) = "unsure" /\ Untyped(c)'
    <3>1. Writing(c)' => Writing(c) /\ Untyped(c)'
      BY <1>1, <1>5 DEF Story, LeftOK, Writing, Untyped, callerOnly
    <3>2. Writing(c) => Queued(c)
      BY <1>1, <1>5 DEF Story, LeftOK, Writing, Queued, Done, Pc
    <3>3. Left(c) => ~Queued(c)
      BY <1>5 DEF Story, LeftOK
    <3> QED
      BY <1>2, <2>1, <3>1, <3>2, <3>3
  <2>4. \A d \in Callers \ {c} : Unmoved(d)
    <3>1. mon.pc # "write" \/ mon.held.by = c \/ submit' = submit
      <4>1. ASSUME mon.pc = "write", Queued(c) PROVE mon.held.by = c
        <5>1. PICK e \in Callers : e = mon.held.by
          BY <4>1 DEF SInv, MonOK, Submit
        <5>2. submit = mon.held
          BY <4>1, <5>1, ClaimedText DEF Queued
        <5> QED
          BY <4>1, <5>2 DEF Queued
      <4> QED
        BY <1>2, <4>1
    <3> QED
      BY <1>2, <1>3, <1>4, <3>1, OthersStay DEF Left, Queued
  <2>5. Carried(c)' => Carried(c)
    BY <1>1 DEF Carried, callerOnly
  <2>6. Renewed
    BY <1>4, ByCallerFrame
  <2> QED
    BY <1>1, <1>3, <1>4, <2>1, <2>2, <2>3, <2>4, <2>5, <2>6, WaiterAnswered DEF ByCaller, callerOnly
<1>7. ClaimsOK'
  BY <1>3, <1>4, OutsideClaims
<1> QED
  BY <1>4, <1>6, <1>7, ByCallerFrame DEF SInv

\* The caller has waited again, for a monitor that raised.
LEMMA GiveUpStep == ASSUME SInv, NEW c \in Callers, GiveUp(c) PROVE SInv'
<1>1. Pc(c, "wait") /\ Forsaken(c) /\ UNCHANGED <<callerOnly, slotVars, belief, decision, open, typed>>
  BY DEF GiveUp
<1>2. /\ call' = Answered(c, "stale") /\ call' \in [Callers -> CallRow] /\ call'[c].pc = "done"
      /\ \A d \in Callers \ {c} : call'[d] = call[d]
  BY CallAnswered DEF SInv, Returns, GiveUp
<1>3. ByCaller /\ UNCHANGED <<answer, submit, reply, question>>
  BY <1>1, <1>2, PlainCaller
<1>4. Story(c)
  BY DEF SInv, CallersOK, Story
<1>5. Untyped(c) /\ ~Left(c) /\ ~Queued(c) /\ ~Typing(c) /\ ~Writing(c)
  BY <1>1, <1>4 DEF Story, LeftOK, Pc, Forsaken, Dropped, Typing, Writing
<1>6. CallersOK'
  <2>1. /\ Told("stale") = "refused"
        /\ ~Left(c)' /\ ~Queued(c)' /\ ~Typing(c)' /\ ~Writing(c)' /\ (Carried(c)' => Carried(c)) /\ Untyped(c)'
    BY <1>1, <1>3, <1>5, ToldTyped DEF Left, Queued, Typing, Writing, Carried, Refusals, Untyped, callerOnly
  <2>2. \A d \in Callers \ {c} : Unmoved(d)
    BY <1>1, <1>2, <1>3, OthersStay
  <2>3. Renewed
    BY <1>3, ByCallerFrame
  <2> QED
    BY <1>1, <1>2, <1>3, <2>1, <2>2, <2>3, WaiterAnswered DEF ByCaller, callerOnly
<1>7. ClaimsOK'
  BY <1>1, <1>2, <1>3, OutsideClaims
<1> QED
  BY <1>3, <1>6, <1>7, ByCallerFrame DEF SInv

\* resolve_async_question.
LEMMA ResolveQuestionStep == ASSUME SInv, NEW c \in Callers, ResolveQuestion(c) PROVE SInv'
<1>1. /\ call[c].pc = "resolve" /\ question' \in {question, None}
      /\ UNCHANGED <<callerOnly, answer, submit, asked, lost, turn, belief, decision, open, typed>>
  BY DEF ResolveQuestion, Pc
<1>2. ASSUME call' \in [Callers -> CallRow], reply' \in {reply, c}
      PROVE ByCaller
  BY <1>1, <1>2 DEF SInv, TypeOK, ByCaller, belief, EngOK
<1>3. CASE Returns(c, "not_delivered") /\ UNCHANGED reply
  <2>1. call' \in [Callers -> CallRow]
    BY <1>3, CallAnswered DEF SInv, Returns
  <2>2. ByCaller
    BY <1>2, <1>3, <2>1
  <2> QED
    BY <1>1, <1>3, <2>2, ReturnsStep DEF Outside, Refusals
<1>4. CASE question' = None /\ Moves(c, "deliver") /\ UNCHANGED reply
  <2>1. /\ call' \in [Callers -> CallRow] /\ call'[c].pc = "deliver"
        /\ \A d \in Callers \ {c} : call'[d] = call[d]
    BY <1>4, CallMoves DEF SInv, CallPc
  <2>2. ByCaller
    BY <1>2, <1>4, <2>1
  <2>3. BoundOK(c)'
    BY <2>1, UnboundOK
  <2> QED
    BY <1>1, <1>4, <2>1, <2>2, <2>3, MovesStep DEF Outside
<1>5. CASE question = call[c].id /\ question' = None /\ ~closing /\ Returns(c, "queued") /\ reply' = c
  <2>1. /\ call' \in [Callers -> CallRow] /\ call'[c].pc = "done" /\ call'[c].out = "queued"
        /\ \A d \in Callers \ {c} : call'[d] = call[d]
    BY <1>5, CallAnswered, ToldTyped DEF SInv, Returns
  <2>2. ByCaller
    BY <1>2, <1>5, <2>1
  <2>3. Renewed
    BY <2>2, ByCallerFrame
  <2>4. Story(c)'
    <3>1. ~Left(c) /\ ~Queued(c) /\ ~Typing(c) /\ ~Writing(c) /\ ~Carried(c) /\ ~Turning(c) /\ Untyped(c)
      BY <1>1, OutsideOK DEF Outside
    <3>2. /\ ~Left(c)' /\ ~Queued(c)' /\ ~Typing(c)' /\ ~Writing(c)' /\ ~Carried(c)' /\ ~Turning(c)' /\ reply' = c
          /\ Untyped(c)' /\ Promised(c)' /\ Done(c, "queued")'
      BY <1>1, <1>5, <2>1, <3>1
         DEF Left, Queued, Typing, Writing, Carried, Turning, Untyped, Pc, Promised, Done, callerOnly
    <3>3. LeftOK(c)' /\ TurnOK(c)'
      BY <3>2 DEF LeftOK, TurnOK, Done, Pc
    <3>4. TypedOK(c)' /\ ReplyOK(c)'
      BY <1>5, <3>2 DEF TypedOK, ReplyOK, Pc, Done
    <3> QED
      BY <3>3, <3>4 DEF Story
  <2>5. ASSUME NEW d \in Callers \ {c} PROVE Story(d)'
    <3>1. Story(d)
      BY DEF SInv, CallersOK, Story
    <3>2. CASE reply # d
      <4>1. Unmoved(d)
        BY <1>1, <1>5, <2>1, <3>2 DEF Unmoved, Left, Queued, Typing, Writing, Carried, Turning, Forsaken, Dropped, callerOnly
      <4> QED
        BY <1>1, <1>5, <3>1, <4>1, UnmovedFrame DEF callerOnly
    <3>3. CASE reply = d
      <4>1. question # None
        <5>1. call[c].id \in 0..MaxDec + MaxAsked
          BY DEF SInv, TypeOK, CallRow
        <5> QED
          BY <1>5, <5>1, SessionAssumption
      <4>2. d \in lost /\ Promised(d) /\ Untyped(d) /\ ~Carried(d)
        BY <3>1, <3>3, <4>1 DEF Story, ReplyOK, TurnOK
      <4>3. /\ (Left(d)' <=> Left(d)) /\ (Queued(d)' <=> Queued(d)) /\ (Typing(d)' <=> Typing(d))
            /\ (Writing(d)' <=> Writing(d)) /\ ~Carried(d)' /\ (Turning(d)' <=> Turning(d)) /\ reply' # d
            /\ (Promised(d)' <=> Promised(d)) /\ (Untyped(d)' <=> Untyped(d)) /\ d \in lost' /\ (\A p : Pc(d, p)' <=> Pc(d, p))
            /\ (Forsaken(d)' <=> Forsaken(d)) /\ (\A o : Done(d, o)' <=> Done(d, o))
        BY <1>1, <1>5, <2>1, <4>2
           DEF Left, Queued, Typing, Writing, Carried, Turning, Untyped, Pc, Promised, Done, Forsaken, Dropped, callerOnly
      <4>4. LeftOK(d)'
        BY <1>1, <3>1, <4>3 DEF LeftOK, Story, callerOnly
      <4>5. TurnOK(d)'
        BY <1>1, <2>1, <3>1, <4>2, <4>3 DEF TurnOK, Story, callerOnly
      <4>6. TypedOK(d)' /\ ReplyOK(d)'
        BY <1>1, <2>1, <3>1, <4>3 DEF TypedOK, ReplyOK, Story
      <4> QED
        BY <4>4, <4>5, <4>6 DEF Story
    <3> QED
      BY <3>2, <3>3
  <2>6. CallersOK'
    <3>1. ASSUME NEW d \in Callers PROVE BoundOK(d)'
      BY <2>1, <2>3, UnboundOK, BoundFrame DEF SInv, CallersOK
    <3> QED
      BY <2>4, <2>5, <3>1 DEF CallersOK, Story
  <2>7. ClaimsOK'
    BY <1>1, <2>1, <2>2, OutsideClaims
  <2> QED
    BY <2>2, <2>6, <2>7, ByCallerFrame DEF SInv
<1> QED
  BY <1>3, <1>4, <1>5 DEF ResolveQuestion


-----------------------------------------------------------------------------
(* Turns                                                                   *)

\* The thread that has the turn of a call.
LEMMA TurnOwner ==
  ASSUME SInv, turn # None
  PROVE /\ turn \in InTurn /\ turn.for \in Callers /\ turn.by \in Callers \cup {Monitor}
        /\ Turning(turn.for) /\ Wants(turn.by, turn.for) /\ delivery = "delivered"
        /\ Untyped(turn.for) <=> turn.pc # "settle"
<1>1. turn \in InTurn /\ turn.for \in Callers /\ turn.by \in Callers \cup {Monitor}
  BY DEF SInv, TypeOK, InTurn
<1>2. PICK c \in Callers : c = turn.for
  BY <1>1
<1>3. Turning(c) /\ TurnOK(c)
  BY <1>2 DEF Turning, SInv, CallersOK
<1>4. Wants(turn.by, c)
  <2>1. CASE turn.by = Monitor
    <3>1. Carried(c) /\ mon.pc = "turn"
      BY <1>2, <1>3, <2>1, SessionAssumption DEF TurnOK
    <3> QED
      BY <2>1, <3>1 DEF Wants, At, Carried
  <2>2. CASE turn.by # Monitor
    BY <1>3, <2>2 DEF TurnOK, Wants
  <2> QED
    BY <2>1, <2>2
<1>5. delivery = "delivered"
  BY DEF SInv, DeliveryOK
<1> QED
  BY <1>1, <1>2, <1>3, <1>4, <1>5 DEF TurnOK

\* A thread that wants a turn for a call has its answer, or has been promised
\* it.
LEMMA WantsOK ==
  ASSUME SInv, NEW c \in Callers, NEW t \in Callers \cup {Monitor}, Wants(t, c)
  PROVE /\ Story(c) /\ ~Left(c) /\ ~Queued(c) /\ ~Typing(c) /\ ~Writing(c) /\ reply # c /\ ~Forsaken(c)
        /\ t = Monitor => mon.pc = "turn" /\ mon.held = c /\ Carried(c) /\ Promised(c)
        /\ t # Monitor => t = c /\ call[c].pc \in {"turn", "deliver"} /\ ~Carried(c) /\ ~Promised(c)
        /\ (turn # None => turn.by # t) => ~Turning(c) /\ Untyped(c)
<1>1. Story(c)
  BY DEF SInv, CallersOK, Story
<1>2. CASE t = Monitor
  <2>1. mon.pc = "turn" /\ mon.held = c /\ Carried(c)
    BY <1>2 DEF Wants, At, Carried
  <2>2. Promised(c) /\ reply # c
    BY <1>1, <2>1 DEF Story, TurnOK
  <2>3. ~Pc(c, "wait") /\ call[c].pc \notin {"turn", "deliver"}
    BY <2>2 DEF Promised, Done, Pc
  <2>4. ~Left(c) /\ ~Queued(c) /\ ~Typing(c) /\ ~Writing(c) /\ ~Forsaken(c)
    BY <1>1, <2>1, <2>3 DEF Story, LeftOK, Writing, Forsaken, Dropped
  <2>5. (turn # None => turn.by # Monitor) => ~Turning(c) /\ Untyped(c)
    BY <1>1, <2>1, <2>3 DEF Story, TurnOK, Turning
  <2> QED
    BY <1>1, <1>2, <2>1, <2>2, <2>4, <2>5
<1>3. CASE t # Monitor
  <2>1. t = c /\ call[c].pc \in {"turn", "deliver"}
    BY <1>3 DEF Wants
  <2>2. ~Promised(c) /\ ~Pc(c, "wait") /\ ~Pc(c, "done")
    BY <2>1 DEF Promised, Done, Pc
  <2>3. ~Carried(c) /\ reply # c
    BY <1>1, <2>2 DEF Story, TurnOK
  <2>4. ~Left(c) /\ ~Queued(c) /\ ~Typing(c) /\ ~Forsaken(c)
    BY <1>1, <2>2 DEF Story, LeftOK
  <2>5. ~Writing(c)
    <3>1. Writing(c) => (IF submit = None THEN Done(c, "unsure") ELSE submit = mon.held)
      BY <1>1 DEF Story, LeftOK
    <3>2. Writing(c) /\ submit # None => Queued(c)
      BY <3>1 DEF Writing, Queued
    <3> QED
      BY <2>2, <2>4, <3>1, <3>2 DEF Done
  <2>6. (turn # None => turn.by # c) => ~Turning(c) /\ Untyped(c)
    BY <1>1, <2>1, <2>3 DEF Story, TurnOK, TypedOK, Turning
  <2> QED
    BY <1>1, <1>3, <2>1, <2>2, <2>3, <2>4, <2>5, <2>6
<1> QED
  BY <1>2, <1>3

TurnOuts == {"at_capacity", "no_pending", "admission_unavailable", "terminal", "write_timeout", "resumed"}

\* What send_turn leaves alone, and what it may change.
ByTurn ==
  /\ UNCHANGED turnOnly
  /\ decision' \in {decision, None} /\ (delivery = "pending" => decision' = decision)
  /\ EngOK(eng') /\ state' \in {state, "busy"}

\* send_turn returns: the reply is on its way again, or its fate is known.
LEMMA OverStep ==
  ASSUME SInv, ByTurn, NEW c \in Callers, NEW t \in Callers \cup {Monitor}, Wants(t, c), NEW out \in TurnOuts,
         Over(t, c, out), UNCHANGED typed, turn' \in {turn, None}, ~Turning(c)',
         \A d \in Callers \ {c} : Turning(d) => turn' = turn,
         out = "resumed" => ~Untyped(c), out # "resumed" => Untyped(c)
  PROVE SInv'
<1> USE DEF ByTurn, turnOnly
<1>0. /\ Story(c) /\ ~Left(c) /\ ~Queued(c) /\ ~Typing(c) /\ ~Writing(c) /\ reply # c /\ ~Forsaken(c)
      /\ t = Monitor => mon.pc = "turn" /\ mon.held = c /\ Carried(c) /\ Promised(c)
      /\ t # Monitor => t = c /\ call[c].pc \in {"turn", "deliver"} /\ ~Carried(c) /\ ~Promised(c)
  BY WantsOK
<1>1. lost \subseteq lost' /\ lost' \subseteq Callers
  BY DEF Over, SInv, TypeOK
<1>2. /\ mon' \in MonitorRow /\ call' \in [Callers -> CallRow]
      /\ \A d \in Callers \ {c} : call'[d] = call[d]
      /\ call'[c].pc # "write" /\ UNCHANGED Dropped
      /\ IF t = Monitor
         THEN /\ mon'.pc \in {"requeue", "hooks", "close"} /\ (mon'.pc = "requeue" => mon'.held = c /\ out \in Retried)
              /\ (mon'.pc # "requeue" /\ out # "resumed" => c \in lost')
              /\ call' = call
         ELSE /\ mon' = mon
              /\ \/ Pc(c, "deliver") /\ call'[c].pc = "requeue" /\ out # "resumed"
                 \/ call'[c].pc = "done" /\ call'[c].out = Told(out)
  <2>1. CASE t = Monitor
    <3>1. call' = call /\ call \in [Callers -> CallRow] /\ mon \in MonitorRow /\ call[c].pc # "write"
      BY <1>0, <2>1 DEF Over, SInv, TypeOK, Promised, Done, Pc
    <3>2. CASE out \in Retried
      <4>1. mon' = [mon EXCEPT !.pc = "requeue"]
        BY <2>1, <3>2 DEF Over, Goto
      <4>2. mon' \in MonitorRow /\ mon'.pc = "requeue" /\ mon'.held = mon.held /\ UNCHANGED Dropped
        BY <1>0, <2>1, <3>1, <4>1 DEF MonitorRow, MonitorPc, Dropped
      <4> QED
        BY <1>0, <2>1, <3>1, <3>2, <4>2
    <3>3. CASE out \notin Retried
      <4>1. PICK p \in {"hooks", "close"} : mon' = [Resting EXCEPT !.pc = p]
        BY <2>1, <3>3 DEF Over, LoopEnd, Again
      <4>2. mon' \in MonitorRow /\ mon'.pc = p /\ UNCHANGED Dropped
        BY <1>0, <2>1, <4>1, RestTyped DEF MonitorPc, Dropped, Resting
      <4>3. out # "resumed" => c \in lost'
        BY <2>1, <3>3 DEF Over, Retried, TurnOuts
      <4> QED
        BY <1>0, <2>1, <3>1, <4>2, <4>3
    <3> QED
      BY <3>2, <3>3
  <2>2. CASE t # Monitor
    <3>1. mon' = mon /\ mon \in MonitorRow /\ UNCHANGED Dropped
      BY <2>2 DEF Over, SInv, TypeOK, Dropped
    <3>2. CASE Pc(c, "deliver") /\ out \in Retried \cup {"admission_unavailable"}
      <4>1. Moves(c, "requeue")
        BY <2>2, <3>2 DEF Over, Moves
      <4>2. call' \in [Callers -> CallRow] /\ call'[c].pc = "requeue" /\ \A d \in Callers \ {c} : call'[d] = call[d]
        BY <4>1, CallMoves DEF SInv, CallPc
      <4> QED
        BY <2>2, <3>1, <3>2, <4>2 DEF Retried
    <3>3. CASE ~(Pc(c, "deliver") /\ out \in Retried \cup {"admission_unavailable"})
      <4>1. call' = Answered(c, out)
        BY <2>2, <3>3 DEF Over
      <4>2. call' \in [Callers -> CallRow] /\ call'[c].pc = "done" /\ call'[c].out = Told(out)
            /\ \A d \in Callers \ {c} : call'[d] = call[d]
        BY <4>1, CallAnswered DEF SInv
      <4> QED
        BY <2>2, <3>1, <4>2
    <3> QED
      BY <3>2, <3>3
  <2> QED
    BY <2>1, <2>2
<1>3. /\ mon.pc = "turn" => closing = FALSE /\ delivery = "delivered"
      /\ delivery # "delivered" => turn = None
  BY DEF SInv, GateOK, DeliveryOK, TypeOK
<1>4. TypeOK'
  BY <1>1, <1>2 DEF SInv, TypeOK, EngOK
<1>5. MonOK' /\ GateOK' /\ KindOK'
  <2>1. KindOK'
    BY DEF SInv, KindOK
  <2>2. CASE t = Monitor
    BY <1>0, <1>2, <1>3, <2>1, <2>2 DEF SInv, MonOK, GateOK
  <2>3. CASE t # Monitor
    BY <1>2, <2>1, <2>3 DEF SInv, MonOK, GateOK
  <2> QED
    BY <2>2, <2>3
<1>6. DeliveryOK'
  <2>1. CASE t = Monitor
    BY <1>0, <1>2, <1>3, <2>1 DEF SInv, DeliveryOK, BlockedOnlyBefore
  <2>2. CASE t # Monitor
    BY <1>2, <1>3, <2>2 DEF SInv, DeliveryOK, BlockedOnlyBefore, Current
  <2> QED
    BY <2>1, <2>2
<1>7. Renewed
  BY Numbers DEF SInv, Renewed
<1>8. \A d \in Callers \ {c} : Unmoved(d)
  <2>1. CASE t = Monitor
    <3> SUFFICES ASSUME NEW d \in Callers \ {c} PROVE Unmoved(d)
      OBVIOUS
    <3>1. Turning(d) => turn.by # Monitor
      <4>1. TurnOK(d)
        BY DEF SInv, CallersOK
      <4>2. ~Carried(d)
        BY <1>0, <2>1 DEF Carried
      <4> QED
        BY <4>1, <4>2, SessionAssumption DEF TurnOK
    <3> QED
      BY <1>0, <1>2, <2>1, <3>1 DEF Unmoved, Left, Queued, Typing, Writing, Carried, Turning, Forsaken
  <2>2. CASE t # Monitor
    BY <1>2, <2>2 DEF Unmoved, Left, Queued, Typing, Writing, Carried, Turning, Forsaken
  <2> QED
    BY <2>1, <2>2
<1>9. Story(c)'
  <2>1. ~Left(c)' /\ ~Queued(c)' /\ reply' # c /\ (Untyped(c)' <=> Untyped(c))
    BY <1>0 DEF Left, Queued, Untyped
  <2>2. ~Typing(c)' /\ ~Writing(c)' /\ ~Forsaken(c)'
    BY <1>0, <1>2 DEF Typing, Writing, Forsaken
  <2>3. CASE t = Monitor
    <3>1. Promised(c)' /\ (Carried(c)' => mon'.pc = "requeue")
      BY <1>0, <1>2, <2>3 DEF Promised, Done, Pc, Carried
    <3>2. Carried(c)' \/ c \in lost' \/ ~Untyped(c)'
      BY <1>2, <2>1, <2>3 DEF Carried
    <3>3. LeftOK(c)'
      BY <2>1, <2>2, <3>1 DEF LeftOK, Promised, Done, Pc
    <3>4. TurnOK(c)'
      BY <1>2, <2>1, <2>3, <3>1 DEF TurnOK, Carried, Retried
    <3>5. TypedOK(c)'
      BY <1>0, <1>2, <2>1, <2>3, <3>1 DEF Story, TypedOK, Promised, Done, Pc, Untyped
    <3>6. ReplyOK(c)'
      BY <1>0, <1>1, <1>2, <2>1, <2>3, <3>1, <3>2 DEF Story, ReplyOK, Promised, Done, Pc
    <3> QED
      BY <3>3, <3>4, <3>5, <3>6 DEF Story
  <2>4. CASE t # Monitor
    <3>1. /\ ~Carried(c)' /\ ~Promised(c)' /\ ~Pc(c, "wait")'
      BY <1>0, <1>2, <2>4, ToldTyped DEF Carried, Promised, Done, Pc, TurnOuts, Refusals
    <3>2. LeftOK(c)' /\ TurnOK(c)'
      BY <2>1, <2>2, <3>1 DEF LeftOK, TurnOK
    <3>3. TypedOK(c)'
      <4>1. out # "resumed" => Told(out) \in {"refused", "unsure"}
        BY ToldTyped DEF TurnOuts, Refusals
      <4>2. out = "resumed" => Told(out) = "resumed"
        BY ToldTyped
      <4>3. ~Untyped(c) => Len(typed[c]) = 1
        BY <1>0 DEF Story, TypedOK
      <4> QED
        BY <1>2, <2>1, <2>4, <4>1, <4>2, <4>3 DEF TypedOK, Done, Pc, Untyped
    <3>4. ReplyOK(c)'
      BY <1>0, <1>1, <1>2, <2>1, <2>4, <3>1 DEF Story, ReplyOK, Pc
    <3> QED
      BY <3>2, <3>3, <3>4 DEF Story
  <2> QED
    BY <2>3, <2>4
<1>10. CallersOK'
  <2>1. BoundOK(c)'
    <3>1. call'[c].pc \notin {"blocked", "modal", "text", "write"}
      BY <1>0, <1>2 DEF Promised, Done, Pc
    <3> QED
      BY <3>1, UnboundOK
  <2> QED
    BY <1>1, <1>7, <1>8, <1>9, <2>1, OneMoves
<1>11. ClaimsOK'
  <2>1. mon' = mon \/ mon'.pc \notin {"type", "write"}
    BY <1>2
  <2>2. \A d \in Callers : \A id \in 1..MaxDec : Claims(d, id)' => Claims(d, id)
    BY <1>2, <2>1 DEF Claims, Typing, Writing, Pc, Untyped
  <2> QED
    BY <1>7, <2>2, ClaimsFrame DEF SInv
<1> QED
  BY <1>4, <1>5, <1>6, <1>10, <1>11 DEF SInv


\* A thread has the turn of a call, and goes on with it.
LEMMA HoldsTurn ==
  ASSUME SInv, UNCHANGED <<turnOnly, belief, decision, mon, call, lost>>, delivery = "delivered",
         NEW c \in Callers, NEW t \in Callers \cup {Monitor}, Wants(t, c),
         turn = None \/ turn.for = c,
         turn' \in InTurn, turn'.by = t, turn'.for = c, Untyped(c)' <=> turn'.pc # "settle",
         typed' \in [Callers -> Seq(Keystrokes)], \A d \in Callers \ {c} : typed'[d] = typed[d],
         typed'[c] = typed[c] \/ (Once(typed'[c]) /\ typed'[c][1].id = 0)
  PROVE SInv'
<1> USE DEF turnOnly, belief
<1>1. /\ Story(c) /\ ~Left(c) /\ ~Queued(c) /\ ~Typing(c) /\ ~Writing(c) /\ reply # c /\ ~Forsaken(c)
      /\ t = Monitor => mon.pc = "turn" /\ mon.held = c /\ Carried(c) /\ Promised(c)
      /\ t # Monitor => t = c /\ call[c].pc \in {"turn", "deliver"} /\ ~Carried(c) /\ ~Promised(c)
  BY WantsOK
<1>2. turn' # None /\ Turning(c)'
  BY SessionAssumption DEF Turning
<1>3. TypeOK'
  BY DEF SInv, TypeOK
<1>4. MonOK' /\ GateOK' /\ KindOK' /\ DeliveryOK'
  BY DEF SInv, MonOK, GateOK, KindOK, DeliveryOK, BlockedOnlyBefore
<1>5. Renewed
  BY Numbers DEF SInv, Renewed
<1>6. \A d \in Callers \ {c} : Unmoved(d)
  BY DEF Unmoved, Left, Queued, Typing, Writing, Carried, Turning, Forsaken, Dropped
<1>7. Story(c)'
  <2>1. /\ ~Left(c)' /\ ~Queued(c)' /\ ~Typing(c)' /\ ~Writing(c)' /\ reply' # c /\ ~Forsaken(c)'
        /\ (Carried(c)' <=> Carried(c)) /\ (Promised(c)' <=> Promised(c))
        /\ \A p : Pc(c, p)' <=> Pc(c, p)
    BY <1>1 DEF Left, Queued, Typing, Writing, Carried, Promised, Done, Pc, Forsaken, Dropped
  <2>2. LeftOK(c)'
    BY <1>1, <2>1 DEF Story, LeftOK
  <2>3. TurnOK(c)'
    BY <1>1, <1>2, <2>1 DEF TurnOK
  <2>4. TypedOK(c)'
    BY <1>1, <1>2, <2>1 DEF Story, TypedOK, Untyped, Done, Pc, Promised, Once
  <2>5. ReplyOK(c)'
    BY <1>1, <2>1 DEF Story, ReplyOK
  <2> QED
    BY <2>2, <2>3, <2>4, <2>5 DEF Story
<1>8. CallersOK'
  <2>1. BoundOK(c)'
    BY <1>5, BoundFrame DEF SInv, CallersOK
  <2> QED
    BY <1>5, <1>6, <1>7, <2>1, OneMoves
<1>9. ClaimsOK'
  <2>1. \A d \in Callers : \A id \in 1..MaxDec : Claims(d, id)' => Claims(d, id)
    BY Numbers DEF SInv, Claims, Typing, Writing, Pc, Untyped
  <2> QED
    BY <1>5, <2>1, ClaimsFrame DEF SInv
<1> QED
  BY <1>3, <1>4, <1>8, <1>9 DEF SInv

\* What the steps of a turn change beside the session is nothing.
LEMMA PlainTurn ==
  ASSUME SInv, UNCHANGED <<turnOnly, belief, decision>>
  PROVE ByTurn
BY DEF SInv, TypeOK, ByTurn, belief, EngOK

\* send_turn is entered.
LEMMA BeginTurnStep ==
  ASSUME SInv, NEW t \in Callers \cup {Monitor}, NEW c \in Callers, BeginTurn(t, c) PROVE SInv'
<1>1. Wants(t, c) /\ (turn # None => turn.by # t) /\ UNCHANGED <<turnOnly, belief, decision, typed>>
  BY DEF BeginTurn
<1>2. ~Turning(c) /\ Untyped(c)
  BY <1>1, WantsOK
<1>3. ByTurn
  BY <1>1, PlainTurn
<1>4. CASE turn' = turn /\ \E out \in {"at_capacity", "no_pending"} : Over(t, c, out)
  <2>1. PICK out \in TurnOuts : out # "resumed" /\ Over(t, c, out)
    BY <1>4 DEF TurnOuts
  <2>2. ~Turning(c)'
    BY <1>2, <1>4 DEF Turning
  <2> QED
    BY <1>1, <1>2, <1>3, <1>4, <2>1, <2>2, OverStep
<1>5. CASE /\ turn = None /\ state = "idle"
           /\ turn' = [by |-> t, for |-> c, pc |-> "acquire"] /\ UNCHANGED <<mon, call, lost>>
  <2>1. turn' \in InTurn /\ turn'.by = t /\ turn'.for = c /\ turn'.pc # "settle"
    BY <1>5 DEF InTurn
  <2>2. delivery = "delivered" /\ typed \in [Callers -> Seq(Keystrokes)] /\ Untyped(c)'
    BY <1>1, <1>2, <1>5 DEF SInv, DeliveryOK, TypeOK, Untyped
  <2> QED
    BY <1>1, <1>5, <2>1, <2>2, HoldsTurn
<1> QED
  BY <1>1, <1>4, <1>5 DEF BeginTurn

\* The thread that has the turn goes on without having typed.
LEMMA TurnGoesOn ==
  ASSUME SInv, turn # None, turn.pc # "settle", NEW p \in {"check", "write"}, turn' = [turn EXCEPT !.pc = p],
         UNCHANGED <<turnOnly, belief, decision, typed, mon, call, lost>>
  PROVE SInv'
<1>1. PICK c \in Callers, t \in Callers \cup {Monitor} : c = turn.for /\ t = turn.by
  BY TurnOwner
<1>2. turn \in InTurn /\ Wants(t, c) /\ delivery = "delivered" /\ Untyped(c)
  BY <1>1, TurnOwner
<1>3. turn' \in InTurn /\ turn'.by = t /\ turn'.for = c /\ turn'.pc # "settle"
  BY <1>1, <1>2 DEF InTurn
<1>4. typed \in [Callers -> Seq(Keystrokes)] /\ Untyped(c)'
  BY <1>2 DEF SInv, TypeOK, Untyped
<1> QED
  BY <1>1, <1>2, <1>3, <1>4, HoldsTurn

\* It gives the turn back without having typed.
LEMMA TurnFails ==
  ASSUME SInv, turn # None, turn.pc # "settle", turn' = None, NEW out \in TurnOuts, out # "resumed",
         Over(turn.by, turn.for, out), UNCHANGED <<turnOnly, belief, decision, typed>>
  PROVE SInv'
<1>1. PICK c \in Callers, t \in Callers \cup {Monitor} : c = turn.for /\ t = turn.by
  BY TurnOwner
<1>2. Wants(t, c) /\ Untyped(c)
  BY <1>1, TurnOwner
<1>3. ByTurn /\ ~Turning(c)' /\ \A d \in Callers \ {c} : ~Turning(d)
  BY <1>1, PlainTurn DEF Turning
<1> QED
  BY <1>1, <1>2, <1>3, OverStep

\* The lease is granted, or refused.
LEMMA AcquireTurnStep == ASSUME SInv, AcquireTurn PROVE SInv'
<1>1. turn # None /\ turn.pc # "settle" /\ UNCHANGED <<turnOnly, belief, decision, typed>>
  BY DEF AcquireTurn
<1>2. CASE turn' = [turn EXCEPT !.pc = "check"] /\ UNCHANGED <<mon, call, lost>>
  BY <1>1, <1>2, TurnGoesOn
<1>3. CASE turn' = None /\ \E out \in {"at_capacity", "admission_unavailable", "no_pending"} : Over(turn.by, turn.for, out)
  <2>1. PICK out \in TurnOuts : out # "resumed" /\ Over(turn.by, turn.for, out)
    BY <1>3 DEF TurnOuts
  <2> QED
    BY <1>1, <1>3, <2>1, TurnFails
<1> QED
  BY <1>2, <1>3 DEF AcquireTurn

\* The session is looked at again.
LEMMA CheckTurnStep == ASSUME SInv, CheckTurn PROVE SInv'
<1>1. turn # None /\ turn.pc # "settle" /\ UNCHANGED <<turnOnly, belief, decision, typed>>
  BY DEF CheckTurn
<1>2. CASE turn' = [turn EXCEPT !.pc = "write"] /\ UNCHANGED <<mon, call, lost>>
  BY <1>1, <1>2, TurnGoesOn
<1>3. CASE turn' = None /\ \E out \in {"terminal", "no_pending"} : Over(turn.by, turn.for, out)
  <2>1. PICK out \in TurnOuts : out # "resumed" /\ Over(turn.by, turn.for, out)
    BY <1>3 DEF TurnOuts
  <2> QED
    BY <1>1, <1>3, <2>1, TurnFails
<1> QED
  BY <1>2, <1>3 DEF CheckTurn

\* The text of a turn is typed, or is not.
LEMMA WriteTurnStep == ASSUME SInv, WriteTurn PROVE SInv'
<1>1. turn # None /\ turn.pc = "write" /\ UNCHANGED <<turnOnly, belief, decision>>
  BY DEF WriteTurn
<1>2. PICK c \in Callers, t \in Callers \cup {Monitor} : c = turn.for /\ t = turn.by
  BY <1>1, TurnOwner
<1>3. CASE Types(turn.for, 0) /\ turn' = [turn EXCEPT !.pc = "settle"] /\ UNCHANGED <<mon, call, lost>>
  <2>1. turn \in InTurn /\ Wants(t, c) /\ delivery = "delivered" /\ Untyped(c)
    BY <1>1, <1>2, TurnOwner
  <2>2. turn' \in InTurn /\ turn'.by = t /\ turn'.for = c /\ turn'.pc = "settle"
    BY <1>2, <1>3, <2>1 DEF InTurn
  <2>3. /\ typed' \in [Callers -> Seq(Keystrokes)]
        /\ Once(typed'[c]) /\ ~Untyped(c)' /\ typed'[c][1].id = 0
        /\ \A d \in Callers \ {c} : typed'[d] = typed[d]
    <3>1. 0 \in 0..MaxDec
      BY SessionAssumption
    <3> QED
      BY <1>2, <1>3, <2>1, <3>1, TypesOnce DEF SInv
  <2> QED
    BY <1>1, <1>2, <1>3, <2>1, <2>2, <2>3, HoldsTurn
<1>4. CASE turn' = None /\ Over(turn.by, turn.for, "write_timeout") /\ UNCHANGED typed
  <2>1. "write_timeout" \in TurnOuts
    BY DEF TurnOuts
  <2> QED
    BY <1>1, <1>4, <2>1, TurnFails
<1> QED
  BY <1>3, <1>4 DEF WriteTurn

\* The turn is taken.
LEMMA SettleTurnStep == ASSUME SInv, SettleTurn PROVE SInv'
<1>1. /\ turn # None /\ turn.pc = "settle" /\ turn' = None /\ decision' = None
      /\ eng' = OnSubmit(eng) /\ state' = "busy" /\ UNCHANGED <<turnOnly, typed>>
  BY DEF SettleTurn, Submitted
<1>2. PICK c \in Callers, t \in Callers \cup {Monitor} : c = turn.for /\ t = turn.by
  BY <1>1, TurnOwner
<1>3. Wants(t, c) /\ ~Untyped(c) /\ delivery = "delivered"
  BY <1>1, <1>2, TurnOwner
<1>4. ByTurn
  <2>1. EngOK(eng')
    BY <1>1, OnSubmitTyped DEF SInv, TypeOK, EngOK
  <2> QED
    BY <1>1, <1>3, <2>1 DEF ByTurn
<1>5. ~Turning(c)' /\ (\A d \in Callers \ {c} : ~Turning(d)) /\ "resumed" \in TurnOuts
  BY <1>1, <1>2 DEF Turning, TurnOuts
<1>6. Over(t, c, "resumed")
  BY <1>2 DEF SettleTurn
<1> QED
  BY <1>1, <1>3, <1>4, <1>5, <1>6, OverStep


\* A reply that could not be delivered is queued again, unless a newer one is.
LEMMA RequeueStep ==
  ASSUME SInv, NEW t \in Callers \cup {Monitor}, NEW c \in Callers, Requeue(t, c) PROVE SInv'
<1>1. /\ UNCHANGED <<answer, submit, question, asked, turn, state, eng, decision, made, open, hooked, delivery,
                     dedup, closing, typed>>
      /\ reply' = (IF reply = None /\ ~closing THEN c ELSE reply)
      /\ lost' = (IF reply = None THEN lost ELSE lost \cup {c})
  BY DEF Requeue, belief, pauseVars
<1>2. Story(c)
  BY DEF SInv, CallersOK, Story
<1>3. /\ mon' \in MonitorRow /\ call' \in [Callers -> CallRow] /\ \A d \in Callers \ {c} : call'[d] = call[d]
      /\ \/ /\ mon.pc = "requeue" /\ mon.held = c /\ mon'.pc \in {"hooks", "close"} /\ call' = call
            /\ delivery = "delivered" /\ closing = FALSE
         \/ mon' = mon /\ call[c].pc = "requeue" /\ call'[c].pc = "requeued"
      /\ UNCHANGED Dropped
  <2>1. CASE t = Monitor
    <3>1. PICK p \in {"hooks", "close"} : mon' = [Resting EXCEPT !.pc = p]
      BY <2>1 DEF Requeue, LoopEnd, Again
    <3>2. mon' \in MonitorRow /\ mon'.pc = p /\ mon'.held = None
      BY <3>1, RestTyped DEF MonitorPc, Resting
    <3>3. mon.pc = "requeue" /\ mon.held = c /\ call' = call
      BY <2>1 DEF Requeue, At
    <3> QED
      BY <3>2, <3>3 DEF Dropped, SInv, TypeOK, DeliveryOK, GateOK
  <2>2. CASE t # Monitor
    <3>1. call[c].pc = "requeue" /\ Moves(c, "requeued") /\ mon' = mon
      BY <2>2 DEF Requeue, Pc
    <3>2. call' \in [Callers -> CallRow] /\ call'[c].pc = "requeued" /\ \A d \in Callers \ {c} : call'[d] = call[d]
      BY <3>1, CallMoves DEF SInv, CallPc
    <3> QED
      BY <3>1, <3>2 DEF SInv, TypeOK, Dropped
  <2> QED
    BY <2>1, <2>2
<1>4. /\ ~Left(c) /\ ~Queued(c) /\ ~Typing(c) /\ ~Writing(c) /\ ~Turning(c) /\ reply # c /\ Untyped(c)
      /\ Forsaken(c) => Pc(c, "done")
      /\ question # None => c \in lost
  <2>1. CASE mon.pc = "requeue" /\ mon.held = c
    <3>1. Carried(c)
      BY <2>1 DEF Carried
    <3>2. Promised(c) /\ reply # c
      BY <1>2, <3>1 DEF Story, TurnOK
    <3>3. ~Pc(c, "wait") /\ call[c].pc \notin {"turn", "deliver"}
      BY <3>2 DEF Promised, Done, Pc
    <3>4. ~Turning(c)
      BY <1>2, <2>1, <3>3 DEF Story, TurnOK
    <3>5. ~Forsaken(c)
      BY <2>1 DEF Forsaken, Dropped
    <3> QED
      BY <1>2, <2>1, <3>1, <3>2, <3>3, <3>4, <3>5 DEF Story, LeftOK, TurnOK, ReplyOK, Typing, Writing
  <2>2. CASE call[c].pc = "requeue"
    <3>1. ~Promised(c) /\ ~Pc(c, "wait") /\ ~Pc(c, "done")
      BY <2>2 DEF Promised, Done, Pc
    <3>2. reply # c /\ ~Carried(c) /\ ~Left(c) /\ ~Queued(c) /\ ~Typing(c) /\ ~Forsaken(c)
      BY <1>2, <3>1 DEF Story, TurnOK, LeftOK
    <3>3. ~Turning(c)
      BY <1>2, <2>2, <3>2 DEF Story, TurnOK
    <3>4. ~Writing(c)
      <4>1. Writing(c) => (IF submit = None THEN Done(c, "unsure") ELSE submit = mon.held)
        BY <1>2 DEF Story, LeftOK
      <4>2. Writing(c) /\ submit # None => Queued(c)
        BY <4>1 DEF Writing, Queued
      <4> QED
        BY <3>1, <3>2, <4>1, <4>2 DEF Done
    <3> QED
      BY <1>2, <2>2, <3>2, <3>3, <3>4 DEF Story, TypedOK, ReplyOK
  <2> QED
    BY <1>3, <2>1, <2>2
<1>5. TypeOK'
  BY <1>1, <1>3 DEF SInv, TypeOK
<1>6. MonOK' /\ GateOK' /\ KindOK' /\ DeliveryOK'
  BY <1>1, <1>3 DEF SInv, MonOK, GateOK, KindOK, DeliveryOK, BlockedOnlyBefore, Current
<1>7. Renewed
  BY <1>1, Numbers DEF SInv, Renewed
<1>8. \A d \in Callers \ {c} : Unmoved(d)
  BY <1>1, <1>3, SessionAssumption DEF Unmoved, Left, Queued, Typing, Writing, Carried, Turning, Forsaken
<1>9. Story(c)'
  <2>1. /\ ~Left(c)' /\ ~Queued(c)' /\ ~Turning(c)' /\ Untyped(c)' /\ ~Typing(c)' /\ ~Writing(c)' /\ (Forsaken(c)' <=> Forsaken(c))
    BY <1>1, <1>3, <1>4 DEF Left, Queued, Turning, Untyped, Typing, Writing, Forsaken
  <2>2. Promised(c)' /\ ~Carried(c)' /\ ~Pc(c, "wait")'
    <3>1. CASE mon.pc = "requeue" /\ mon.held = c /\ call' = call /\ mon'.pc \in {"hooks", "close"}
      <4>1. Promised(c)
        BY <1>2, <3>1 DEF Story, TurnOK, Carried
      <4> QED
        BY <3>1, <4>1 DEF Promised, Done, Pc, Carried
    <3>2. CASE mon' = mon /\ call[c].pc = "requeue" /\ call'[c].pc = "requeued"
      <4>1. ~Carried(c)
        BY <1>2, <3>2 DEF Story, TurnOK, Promised, Done, Pc
      <4> QED
        BY <3>2, <4>1 DEF Promised, Done, Pc, Carried
    <3> QED
      BY <1>3, <3>1, <3>2
  <2>3. LeftOK(c)' /\ TurnOK(c)'
    <3>1. Forsaken(c)' => Pc(c, "done")'
      BY <1>3, <1>4, <2>1 DEF Pc
    <3> QED
      BY <2>1, <2>2, <3>1 DEF LeftOK, TurnOK
  <2>4. TypedOK(c)'
    BY <2>1, <2>2 DEF TypedOK, Promised, Done, Pc
  <2>5. ReplyOK(c)'
    BY <1>1, <1>4, <2>1, <2>2 DEF ReplyOK, Promised, Done, Pc
  <2> QED
    BY <2>3, <2>4, <2>5 DEF Story
<1>10. CallersOK'
  <2>1. BoundOK(c)'
    BY <1>3, <1>7, BoundFrame, UnboundOK DEF SInv, CallersOK
  <2> QED
    BY <1>1, <1>7, <1>8, <1>9, <2>1, OneMoves
<1>11. ClaimsOK'
  <2>1. \A d \in Callers : \A id \in 1..MaxDec : Claims(d, id)' => Claims(d, id)
    BY <1>1, <1>3 DEF Claims, Typing, Writing, Pc, Untyped
  <2> QED
    BY <1>7, <2>1, ClaimsFrame DEF SInv
<1> QED
  BY <1>5, <1>6, <1>10, <1>11 DEF SInv

\* The executor asks: a reply that is out of its slot may be lost by it.
LEMMA AskStep == ASSUME SInv, Ask PROVE SInv'
<1>1. /\ UNCHANGED <<answer, submit, reply, turn, state, eng, decision, made, open, hooked, delivery, dedup,
                     closing, mon, call, typed>>
      /\ reply = None /\ asked < MaxAsked /\ asked' = asked + 1 /\ question' = QuestionId(asked')
      /\ lost' = lost \cup {c \in Callers : mon.held = c \/ call[c].pc \in {"deliver", "requeue"}}
  BY DEF Ask, belief, pauseVars, MayAsk
<1>2. TypeOK'
  <2>1. asked \in 0..MaxAsked /\ MaxAsked \in Nat /\ lost \subseteq Callers
    BY SessionAssumption DEF SInv, TypeOK
  <2>2. asked' \in 0..MaxAsked /\ question' \in {QuestionId(n) : n \in 1..asked'} /\ lost' \subseteq Callers
    BY <1>1, <2>1
  <2> QED
    BY <1>1, <2>2 DEF SInv, TypeOK
<1>3. MonOK' /\ GateOK' /\ KindOK' /\ DeliveryOK'
  BY <1>1 DEF SInv, MonOK, GateOK, KindOK, DeliveryOK, BlockedOnlyBefore, Current
<1>4. Renewed
  BY <1>1, Numbers DEF SInv, Renewed
<1>5. CallersOK'
  <2> SUFFICES ASSUME NEW c \in Callers
               PROVE LeftOK(c)' /\ TurnOK(c)' /\ TypedOK(c)' /\ BoundOK(c)' /\ ReplyOK(c)'
    BY DEF CallersOK
  <2>1. LeftOK(c) /\ TurnOK(c) /\ TypedOK(c) /\ BoundOK(c) /\ ReplyOK(c)
    BY DEF SInv, CallersOK
  <2>2. /\ (Left(c)' <=> Left(c)) /\ (Queued(c)' <=> Queued(c)) /\ (Typing(c)' <=> Typing(c))
        /\ (Writing(c)' <=> Writing(c)) /\ (Carried(c)' <=> Carried(c)) /\ (Turning(c)' <=> Turning(c))
        /\ (Promised(c)' <=> Promised(c)) /\ (Untyped(c)' <=> Untyped(c))
        /\ (\A p : Pc(c, p)' <=> Pc(c, p)) /\ (\A o : Done(c, o)' <=> Done(c, o)) /\ (Forsaken(c)' <=> Forsaken(c))
    BY <1>1 DEF Forsaken, Dropped, Left, Queued, Typing, Writing, Carried, Turning, Promised, Untyped, Pc, Done
  <2>3. LeftOK(c)' /\ TurnOK(c)' /\ TypedOK(c)'
    BY <1>1, <2>1, <2>2 DEF LeftOK, TurnOK, TypedOK
  <2>4. BoundOK(c)'
    BY <1>1, <1>4, <2>1, BoundFrame DEF SInv
  <2>5. ReplyOK(c)'
    BY <1>1, <2>1, <2>2, SessionAssumption DEF ReplyOK, Carried
  <2> QED
    BY <2>3, <2>4, <2>5
<1>6. ClaimsOK'
  <2>1. \A d \in Callers : \A id \in 1..MaxDec : Claims(d, id)' => Claims(d, id)
    BY <1>1 DEF Claims, Typing, Writing, Pc, Untyped
  <2> QED
    BY <1>4, <2>1, ClaimsFrame DEF SInv
<1> QED
  BY <1>2, <1>3, <1>5, <1>6 DEF SInv


-----------------------------------------------------------------------------
(* The invariant holds, and what follows from it                           *)

\* It holds at first.
LEMMA InitSInv == Init => SInv
<1> SUFFICES ASSUME Init PROVE SInv
  OBVIOUS
<1> USE DEF Init, Resting
<1>1. TypeOK
  <2>1. EngOK(eng)
    BY BeliefAssumption DEF EngineStart, Engine, EngOK
  <2>2. mon \in MonitorRow
    BY RestTyped DEF MonitorPc
  <2>3. call \in [Callers -> CallRow]
    <3>1. [pc |-> "new", id |-> 0, out |-> None] \in CallRow
      BY SessionAssumption DEF CallRow, CallPc
    <3> QED
      BY <3>1
  <2>4. typed \in [Callers -> Seq(Keystrokes)]
    OBVIOUS
  <2>5. hooked \in 0..MaxHooks /\ made \in 0..MaxDec /\ asked \in 0..MaxAsked
    BY SessionAssumption
  <2> QED
    BY <2>1, <2>2, <2>3, <2>4, <2>5 DEF TypeOK, EngOK
<1>2. mon.pc = "ready"
  OBVIOUS
<1>3. MonOK /\ GateOK /\ KindOK
  <2>1. MonOK /\ KindOK
    BY <1>2 DEF MonOK, KindOK
  <2>2. closing = FALSE /\ answer = None /\ submit = None
    OBVIOUS
  <2>3. (mon.pc \in {"abort", "abort_submit", "publish", "ended"}) = FALSE
    BY <1>2
  <2> QED
    BY <1>2, <2>1, <2>2, <2>3, Zenon DEF GateOK
<1>4. DeliveryOK
  <2>1. delivery = "pending" /\ turn = None /\ state = "busy" /\ decision = None /\ open = {}
    OBVIOUS
  <2> HIDE DEF Init
  <2> QED
    BY <1>2, <2>1 DEF DeliveryOK, BlockedOnlyBefore
<1>5. \A c \in Callers : call[c].pc = "new" /\ call[c].out = None /\ Untyped(c)
  BY DEF Untyped
<1>6. CallersOK
  <2> SUFFICES ASSUME NEW c \in Callers
               PROVE LeftOK(c) /\ TurnOK(c) /\ TypedOK(c) /\ BoundOK(c) /\ ReplyOK(c)
    BY DEF CallersOK
  <2>1. /\ ~Left(c) /\ ~Queued(c) /\ ~Typing(c) /\ ~Writing(c) /\ ~Carried(c) /\ ~Turning(c)
        /\ ~Promised(c) /\ reply # c /\ ~Pc(c, "wait") /\ ~Pc(c, "done") /\ ~Pc(c, "settle")
        /\ ~Forsaken(c)
    BY <1>2, <1>5, SessionAssumption
       DEF Forsaken, Dropped, Left, Queued, Typing, Writing, Carried, Turning, Promised, Pc, Done
  <2>2. LeftOK(c) /\ TurnOK(c) /\ ReplyOK(c)
    BY <2>1 DEF LeftOK, TurnOK, ReplyOK
  <2>3. TypedOK(c) /\ BoundOK(c)
    BY <1>5, <2>1 DEF TypedOK, BoundOK, Done
  <2> QED
    BY <2>2, <2>3
<1>7. ClaimsOK
  BY <1>2, <1>5 DEF ClaimsOK, Claims, Typing, Writing, Pc
<1> QED
  BY <1>1, <1>3, <1>4, <1>6, <1>7 DEF SInv

\* A step that changes nothing keeps it.
LEMMA StutterSInv == ASSUME SInv, UNCHANGED vars PROVE SInv'
<1> USE DEF vars, slotVars, asyncVars, belief, pauseVars
<1>1. TypeOK' /\ MonOK' /\ GateOK' /\ KindOK'
  BY DEF SInv, TypeOK, MonOK, GateOK, KindOK
<1>2. DeliveryOK'
  BY DEF SInv, DeliveryOK, BlockedOnlyBefore, Current
<1>3. CallersOK'
  BY DEF SInv, CallersOK, LeftOK, TurnOK, TypedOK, BoundOK, ReplyOK, Left, Queued, Typing, Writing, Carried,
         Turning, Promised, Untyped, Pc, Done, Current, Forsaken, Dropped
<1>4. ClaimsOK'
  BY DEF SInv, ClaimsOK, Claims, Typing, Writing, Untyped, Pc, Current
<1> QED
  BY <1>1, <1>2, <1>3, <1>4 DEF SInv

\* Every step keeps it.
LEMMA NextSInv == SInv /\ [Next]_vars => SInv'
<1> SUFFICES ASSUME SInv, [Next]_vars PROVE SInv'
  OBVIOUS
<1>1. CASE MonitorNext
  <2>1. CASE \E f \in Frames : DrainAnswer(f) \/ See(f)
    BY <2>1, DrainAnswerStep, SeeStep
  <2>2. CASE \E h \in Hooks : DrainHook(h)
    BY <2>2, DrainHookStep
  <2>3. CASE TypeAnswer \/ TypeAnswerFails \/ DrainRaises \/ DeliveryTick \/ Confirm \/ FailDelivery \/ EndPre
    BY <2>3, TypeAnswerStep, TypeAnswerFailsStep, DrainRaisesStep, DeliveryTickStep, ConfirmStep,
       FailDeliveryStep, EndPreStep
  <2>4. CASE ApplyWithdraw \/ EmitIdle \/ Build \/ Install
    BY <2>4, ApplyWithdrawStep, EmitIdleStep, BuildStep, InstallStep
  <2>5. CASE DrainQueued \/ WriteSubmit \/ WriteSubmitFails \/ ConfirmSubmit \/ NoSubmit \/ DrainReply
    BY <2>5, DrainQueuedStep, WriteSubmitStep, WriteSubmitFailsStep, ConfirmSubmitStep, NoSubmitStep, DrainReplyStep
  <2>6. CASE Close \/ AbortAnswer \/ AbortSubmit \/ FinishPublish
    BY <2>6, CloseStep, AbortAnswerStep, AbortSubmitStep, FinishPublishStep
  <2> QED
    BY <1>1, <2>1, <2>2, <2>3, <2>4, <2>5, <2>6 DEF MonitorNext
<1>2. ASSUME NEW c \in Callers, CallerNext(c) PROVE SInv'
  <2>1. CASE \E id \in 0..MaxDec + MaxAsked : Respond(c, id)
    BY <2>1, RespondStep
  <2>2. CASE ResolveQuestion(c) \/ Peek(c) \/ Bind(c) \/ Enqueue(c) \/ Queue(c) \/ Reclaim(c) \/ GiveUp(c)
    BY <2>2, ResolveQuestionStep, PeekStep, BindStep, EnqueueStep, QueueStep, ReclaimStep, GiveUpStep
  <2>3. CASE Claim(c) \/ Write(c) \/ Settle(c)
    BY <2>3, ClaimStep, WriteStep, SettleStep
  <2> QED
    BY <1>2, <2>1, <2>2, <2>3 DEF CallerNext
<1>3. CASE TurnNext
  <2>1. CASE \E t \in Callers \cup {Monitor}, c \in Callers : BeginTurn(t, c) \/ Requeue(t, c)
    BY <2>1, BeginTurnStep, RequeueStep
  <2>2. CASE AcquireTurn \/ CheckTurn \/ WriteTurn \/ SettleTurn
    BY <2>2, AcquireTurnStep, CheckTurnStep, WriteTurnStep, SettleTurnStep
  <2> QED
    BY <1>3, <2>1, <2>2 DEF TurnNext
<1>4. CASE Ask
  BY <1>4, AskStep
<1>5. CASE UNCHANGED vars
  BY <1>5, StutterSInv
<1> QED
  BY <1>1, <1>2, <1>3, <1>4, <1>5 DEF Next

\* The invariant holds in every reachable state.
LEMMA SInvariance == Spec => []SInv
BY InitSInv, NextSInv, PTL DEF Spec

\* The variables keep their types, whatever the threads, the screen and the
\* hooks do.
THEOREM SessionTyped == Spec => []TypeOK
<1>1. SInv => TypeOK
  BY DEF SInv
<1> QED
  BY <1>1, SInvariance, PTL

\* No answer is written twice, and no decision gets two answers
\* (claim-before-write), for any number of callers.
THEOREM TypedAtMostOnce == Spec => []AnsweredOnce
<1>1. SInv => AnsweredOnce
  <2> SUFFICES ASSUME SInv PROVE AnsweredOnce
    OBVIOUS
  <2>1. \A c \in Callers : typed[c] \in Seq(Keystrokes) /\ (typed[c] # <<>> => Len(typed[c]) = 1)
    BY DEF SInv, TypeOK, CallersOK, TypedOK, Untyped
  <2>2. \A c \in Callers : Len(typed[c]) <= 1
    <3> SUFFICES ASSUME NEW c \in Callers PROVE Len(typed[c]) <= 1
      OBVIOUS
    <3>1. CASE typed[c] = <<>>
      BY <3>1
    <3>2. CASE typed[c] # <<>>
      <4>1. Len(typed[c]) = 1
        BY <2>1, <3>2
      <4> QED
        BY <4>1
    <3> QED
      BY <3>1, <3>2
  <2>3. ASSUME NEW c \in Callers, NEW d \in Callers, typed[c] # <<>>, typed[d] # <<>>, c # d,
               typed[c][1].id # 0, typed[c][1].id = typed[d][1].id
        PROVE FALSE
    <3>1. typed[c][1] \in Keystrokes
      BY <2>1, <2>3
    <3>2. PICK id \in 1..MaxDec : id = typed[c][1].id
      BY <2>3, <3>1, SessionAssumption DEF Keystrokes
    <3>3. Claims(c, id) /\ Claims(d, id)
      BY <2>3, <3>2 DEF Claims, Untyped
    <3> QED
      BY <2>3, <3>3 DEF SInv, ClaimsOK
  <2> QED
    BY <2>2, <2>3 DEF AnsweredOnce
<1> QED
  BY <1>1, SInvariance, PTL

\* "resumed" is said only of what was written, though it may not have arrived,
\* and a refusal only of what was not (Session.respond).
THEOREM RepliesAreHonest == Spec => []HonestReply
<1>1. SInv => HonestReply
  BY DEF SInv, CallersOK, TypedOK, Untyped, HonestReply
<1> QED
  BY <1>1, SInvariance, PTL

\* When the monitor has ended nothing is left to it, and only the caller whose
\* answer it had in its hands when it raised may still wait (_finish).
THEOREM NobodyIsStranded == Spec => []NoStranded
<1>1. SInv => NoStranded
  BY DEF SInv, GateOK, CallersOK, LeftOK, Left, Queued, Typing, NoStranded, At
<1> QED
  BY <1>1, SInvariance, PTL

\* Delivery leaves no blocked decision behind, neither pending nor in the
\* ring (_deliver_task).
THEOREM DeliveryClearsBlocked == Spec => []BlockedOnlyBefore
<1>1. SInv => BlockedOnlyBefore
  BY DEF SInv, DeliveryOK
<1> QED
  BY <1>1, SInvariance, PTL

\* A queued reply is in its slot, on its way or typed while the session
\* lives, but for the two cases that lost records (resolve_async_question,
\* drain_async_reply, requeue_async_reply).
THEOREM QueuedRepliesAreKept == Spec => []QueuedIsKept
<1>1. SInv => QueuedIsKept
  BY DEF SInv, CallersOK, ReplyOK, Promised, Carried, Untyped, QueuedIsKept
<1> QED
  BY <1>1, SInvariance, PTL

\* A step opens events only of the decision that is pending, or of a new one.
LEMMA NewEvents ==
  ASSUME SInv, [Next]_vars
  PROVE \A d \in open' : d \in open \/ Current(d.id) \/ d.id = made + 1
<1>1. CASE DeliveryTick
  <2>1. CASE EmitBlocked
    <3>1. \A d \in open' : d \in open \/ d = [id |-> made', kind |-> "blocked"]
      BY <2>1 DEF EmitBlocked
    <3> QED
      BY <2>1, <3>1 DEF EmitBlocked
  <2>2. CASE ~EmitBlocked
    BY <1>1, <2>2 DEF DeliveryTick, pauseVars
  <2> QED
    BY <2>1, <2>2
<1>2. CASE EndPre
  <2>1. open' = open \/ (decision # None /\ open' = open \cup {[id |-> decision.id, kind |-> "blocked"]})
    BY <1>2 DEF EndPre
  <2> QED
    BY <2>1 DEF Current
<1>3. CASE Install
  <2> DEFINE d == mon.draft
             ev == [id |-> d.id, kind |-> d.kind]
  <2>1. IF d.again THEN open' = IF Current(d.id) THEN open \cup {ev} ELSE open
        ELSE open' = {o \in open : ~Current(o.id)} \cup {ev}
    BY <1>3 DEF Install, Installed, Reinstalled
  <2>2. (~d.again => d.id = made + 1) /\ ev.id = d.id
    BY <1>3, SMTT(40) DEF SInv, MonOK, Install, At
  <2> HIDE DEF d, ev
  <2> QED
    BY <2>1, <2>2
<1>4. CASE MonitorNext /\ ~DeliveryTick /\ ~EndPre /\ ~Install
  BY <1>4 DEF MonitorNext, DrainAnswer, See, DrainHook, TypeAnswer, TypeAnswerFails, DrainRaises, Confirm, FailDelivery,
     ApplyWithdraw, EmitIdle, Build, DrainQueued, WriteSubmit, WriteSubmitFails, ConfirmSubmit, NoSubmit,
     DrainReply, Close, AbortAnswer, AbortSubmit, FinishPublish, Resolve, pauseVars
<1>5. ASSUME NEW c \in Callers, CallerNext(c) PROVE open' \subseteq open
  BY <1>5 DEF CallerNext, Respond, ResolveQuestion, Peek, Bind, Enqueue, Queue, Reclaim, GiveUp, Claim,
     Write, Settle, Resolve
<1>6. CASE TurnNext \/ Ask \/ UNCHANGED vars
  BY <1>6 DEF TurnNext, BeginTurn, Requeue, AcquireTurn, CheckTurn, WriteTurn, SettleTurn, turnOnly, Ask, pauseVars, vars
<1> QED
  BY <1>1, <1>2, <1>3, <1>4, <1>5, <1>6 DEF Next

StaysOver ==
  \A id \in 1..made : ~Current(id) /\ (\A d \in open : d.id # id) => \A d \in open' : d.id # id

\* A decision that is answered, withdrawn or superseded stays so: no late
\* event makes it pending again (_install).
THEOREM OverStaysOver == Spec => NeverResurrected
<1>1. SInv /\ [Next]_vars => [StaysOver]_vars
  <2> SUFFICES ASSUME SInv, [Next]_vars PROVE StaysOver
    OBVIOUS
  <2>1. \A d \in open' : d \in open \/ Current(d.id) \/ d.id = made + 1
    BY NewEvents
  <2>2. made \in Nat
    BY Numbers DEF SInv
  <2> QED
    BY <2>1, <2>2 DEF StaysOver
<1>2. Spec => [][StaysOver]_vars
  BY <1>1, SInvariance, PTL DEF Spec
<1> QED
  BY <1>2 DEF NeverResurrected, StaysOver
=============================================================================
