------------------------------- MODULE Belief -------------------------------
(***************************************************************************)
(* The belief engine of a session (daemon/belief.py): what the agent's own *)
(* hooks and the frames of its screen are taken to mean, and which         *)
(* decisions are published or withdrawn for it.                            *)
(*                                                                         *)
(* The engine is a function of its state and one input.  Its clocks are    *)
(* left out: whatever waits for a window (a settled prompt, the startup    *)
(* grace, a lost Stop) may or may not have waited long enough, so a tick   *)
(* has a set of results.  "busy" stands for intervention_required too:     *)
(* the advisories of the watchdog change nothing else.                     *)
(***************************************************************************)
EXTENDS Sequences

CONSTANTS Modals,     \* menus; also the fingerprints of the hooks' gates
          None

ASSUME BeliefAssumption == None \notin Modals \cup {"busy", "box", "echo", "gone", "permission", "modal"}

\* What a frame shows: no prompt, the empty input box, the box with the text
\* we submitted, a menu, or a dead agent.
Frames == {"busy", "box", "echo", "gone"} \cup Modals

\* opens: UserPromptSubmit.  closes: Stop.  clears: the answer of a modal was
\* read.  asks, permits: the two hooks of a gate.  pre: a tool is invoked.
Hooks == [what : {"opens", "closes", "clears"}, gate : {None}]
           \cup [what : {"asks", "permits", "pre"}, gate : Modals]

\* mode "grace" is "unknown" with the startup grace armed.  pub: the prompt
\* published from the screen.  gate, kind: the pause published from a hook.
Engine == [mode : {"unknown", "grace", "active", "unavailable"},
           pub : Frames \cup {None}, gate : Modals \cup {None},
           kind : {"permission", "modal", None},
           turn : {"fresh", "open", "closed"}, tomb : SUBSET Modals,
           state : {"busy", "awaiting", "idle", "terminal"}]

EngineStart == [mode |-> "unknown", pub |-> None, gate |-> None, kind |-> None,
                turn |-> "fresh", tomb |-> {}, state |-> "busy"]

\* What the session has to do.  A decision key tells a menu on the screen from
\* the gate of a hook, also when they are the same menu.
Withdrawing(key) == [do |-> "withdraw", key |-> key, kind |-> None]
Asking(key, kind) == [do |-> "ask", key |-> key, kind |-> kind]
Idling == [do |-> "idle", key |-> None, kind |-> None]

ScreenKey(p) == <<"screen", p>>
GateKey(g)   == <<"gate", g>>
EngineKeys   == {"screen", "gate"} \X Frames

Act == [do : {"withdraw"}, key : EngineKeys, kind : {None}]
         \cup [do : {"ask"}, key : EngineKeys, kind : {"modal", "text"}] \cup {Idling}

ExpectHooks(e) == IF e.mode = "unknown" THEN [e EXCEPT !.mode = "grace"] ELSE e

-----------------------------------------------------------------------------
(* on_hook                                                                 *)

\* The hooks take over from the screen.
TakeOver(e) == [e EXCEPT !.mode = "active", !.pub = None]
TakenBack(e) == IF e.pub = None THEN <<>> ELSE <<Withdrawing(ScreenKey(e.pub))>>

GatePending(e) == IF e.gate = None THEN <<>> ELSE <<Withdrawing(GateKey(e.gate))>>
Turn(e, turn, state) ==
  [e EXCEPT !.turn = turn, !.state = state, !.gate = None, !.kind = None]

\* Mutant: a permission hook never names the pause.
PreferredOnlyModal(a, what) == IF what = "asks" THEN "modal" ELSE a

\* The more specific reading of a pause wins.
Preferred(a, what) == IF a = "modal" \/ what = "asks" THEN "modal"
                      ELSE IF a = None THEN "permission" ELSE a

OnGate(e, h) ==
  LET kind == Preferred(e.kind, h.what)
      asks == [e EXCEPT !.turn = "open", !.state = "awaiting", !.gate = h.gate, !.kind = kind]
      ask  == <<Asking(GateKey(h.gate), "modal")>>
  IN  IF e.gate = h.gate THEN [eng |-> asks, acts |-> IF kind = e.kind THEN <<>> ELSE ask]
      ELSE IF h.gate \in e.tomb
           THEN [eng |-> [e EXCEPT !.turn = "open", !.state = "busy"], acts |-> <<>>]
           ELSE [eng |-> asks, acts |-> ask]

OnHookActive(e, h) ==
  CASE h.what = "opens"
         -> [eng |-> [Turn(e, "open", "busy") EXCEPT !.tomb = {}], acts |-> <<>>]
    [] h.what = "closes" /\ e.turn # "closed"
         -> [eng |-> [Turn(e, "closed", "idle") EXCEPT !.tomb = {}],
             acts |-> Append(GatePending(e), Idling)]
    [] h.what = "clears" /\ e.turn # "closed"
         -> [eng |-> Turn(e, "open", "busy"), acts |-> GatePending(e)]
    [] h.what \in {"asks", "permits"} /\ e.turn # "closed"
         -> OnGate(e, h)
    [] h.what = "pre" /\ e.turn = "open"
         -> [eng |-> [e EXCEPT !.tomb = @ \ {h.gate}, !.state = "busy"], acts |-> <<>>]
    [] OTHER -> [eng |-> e, acts |-> <<>>]

OnHook(e, h) ==
  LET r == OnHookActive(TakeOver(e), h)
  IN  [r EXCEPT !.acts = TakenBack(e) \o @]

\* on_submit: the published decision is forgotten, the answered gate becomes
\* a tombstone.  The state of the engine is left as it is.
OnSubmit(e) ==
  [e EXCEPT !.pub = None, !.gate = None, !.kind = None,
            !.tomb = IF e.gate = None THEN @ ELSE @ \cup {e.gate}]

-----------------------------------------------------------------------------
(* tick                                                                    *)

\* The startup grace may have run out.
Graced(e) == {e} \cup IF e.mode = "grace" THEN {[e EXCEPT !.mode = "unavailable"]} ELSE {}

\* Hooks own the state.  An input box that stays may mean a lost Stop.
TickHookActive(e, f) ==
  {[eng |-> e, acts |-> <<>>]}
    \cup IF e.state = "busy" /\ f \in {"box", "echo"}
         THEN {[eng |-> [e EXCEPT !.turn = "closed", !.state = "idle"], acts |-> <<Idling>>]}
         ELSE {}

\* A prompt that is not the published one withdraws it; a menu is published at
\* once, the empty box when it has settled.
OnPrompt(e, f) ==
  LET gone == e.pub \notin {None, f}
      left == IF gone THEN <<Withdrawing(ScreenKey(e.pub))>> ELSE <<>>
      held == ~gone /\ e.pub # None
      says == {<<>>} \cup IF f = "box" /\ e.mode # "grace" THEN {<<Asking(ScreenKey(f), "text")>>} ELSE {}
      new  == IF held THEN {<<>>} ELSE IF f \in Modals THEN {<<Asking(ScreenKey(f), "modal")>>} ELSE says
  IN  {[eng  |-> [e EXCEPT !.pub = IF a # <<>> THEN f ELSE IF held THEN @ ELSE None,
                           !.state = IF a # <<>> \/ held THEN "awaiting" ELSE "busy"],
        acts |-> left \o a] : a \in new}

OnBusy(e) == {[eng |-> [e EXCEPT !.pub = None, !.state = "busy"], acts |-> TakenBack(e)]}

Tick(e0, f) ==
  IF f = "gone" THEN {[eng |-> [e0 EXCEPT !.state = "terminal"], acts |-> <<>>]}
  ELSE UNION {IF e.mode = "active" THEN TickHookActive(e, f)
              ELSE IF f = "busy" THEN OnBusy(e) ELSE OnPrompt(e, f) : e \in Graced(e0)}
=============================================================================
