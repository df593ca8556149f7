---------------------------- MODULE LeaseProtocol ----------------------------
(***************************************************************************)
(* The generation daemons as clients of the router's lease service:        *)
(* daemon/lease_client.py and the lease choreography of daemon/manager.py  *)
(* (start, restart, send_turn, idle, terminal, the snapshot handshake), as *)
(* many daemons as there are epochs, against LeaseService.                 *)
(*                                                                         *)
(* A thread is a caller (an RPC thread of a daemon) or a session's monitor *)
(* thread, named by its session id.  What a thread does under              *)
(* manager._lock is one step; a call to the router is one step, with the   *)
(* reply, and any other thread may run between two steps.                  *)
(***************************************************************************)
EXTENDS Integers, FiniteSets

CONSTANTS Epochs, Sids, Limit, MaxToken, MaxRid, NoRid,
          MaxAct,            \* bound: how often a session goes idle
          Callers,           \* RPC threads
          EpochOf,           \* EpochOf[s]: the epoch whose daemon runs s
          NoSid, NoToken,
          Faults,            \* the faults that may happen, a set of Fault
          ClientNamesEpoch   \* whether LeaseClient was built with its epoch

\* A call does not reach the router or its reply is lost; the same for the
\* reply that grants a lease; the text of a follow-up turn is rejected; a
\* terminal row cannot be written; the router restarts; a daemon dies.
Fault == {"network", "lost grant", "input", "store", "router", "daemon"}
Acts  == 0..MaxAct

ASSUME LeaseProtocolAssumption ==
  /\ Limit \in [{"active", "live"} -> Nat]
  /\ MaxToken \in Nat /\ MaxRid \in Nat \ {0} /\ NoRid \notin 1..MaxRid
  /\ MaxAct \in Nat
  /\ EpochOf \in [Sids -> Epochs]
  /\ Faults \subseteq Fault
  /\ ClientNamesEpoch \in BOOLEAN
  /\ NoToken \notin 1..MaxToken /\ NoSid \notin Sids /\ Callers \cap Sids = {}

VARIABLES
  rid, tokens, byKindKey, count, total, reconciled, minted,  \* LeaseService
  up,         \* up[e]: the daemon runs
  known,      \* known[e]: LeaseClient._reconciliation_id
  handshook,  \* handshook[e]: LeaseClient._handshook_rid
  outbox,     \* outbox[e]: LeaseClient._release_outbox
  held,       \* held[s][kind]: _active_lease_tokens, _live_lease_tokens
  tokenAct,   \* tokenAct[s]: _active_token_activation
  counter,    \* counter[s]: Session._activation_counter
  pending,    \* _pending_acquire
  phase,      \* phase[s]: the session, see Phase
  caller,     \* caller[c]: what an RPC thread is doing
  monitor,    \* monitor[s]: what a monitor thread is doing
  releases    \* releases[th]: the release calls a thread is making

Service == INSTANCE LeaseService

service  == <<rid, tokens, byKindKey, count, total, reconciled, minted>>
client   == <<up, known, handshook, outbox>>
sessions == <<held, tokenAct, counter, pending, phase>>
threads  == <<caller, monitor, releases>>
vars     == <<service, client, sessions, threads>>

\* "popped": restart() took it out of _sessions, its monitor still runs.
Phase == {"new", "starting", "busy", "idle", "popped", "closing", "gone"}
CallerPc == {"none", "start", "spawn", "inserted", "unwind", "failed", "turn", "granted",
             "sending", "raised", "shake", "register", "return"}
MonitorPc == {"none", "run", "notify", "persisted", "unpersisted", "over"}
Threads == Callers \cup Sids

Nothing == [kind \in Service!Kinds |-> NoToken]
Free    == [pc |-> "none", sid |-> NoSid, act |-> 0, hand |-> Nothing, fresh |-> FALSE,
            rid |-> NoRid, snap |-> {}]
Settled == [out |-> {}, retry |-> FALSE, via |-> NoRid]

MaybeToken == Service!Tokens \cup {NoToken}
MaybeRid   == Service!Rids \cup {NoRid}

CallerRec  == [pc : CallerPc, sid : Sids \cup {NoSid}, act : Acts,
               hand : [Service!Kinds -> MaybeToken], fresh : BOOLEAN,
               rid : MaybeRid, snap : SUBSET Service!Entry]
ReleaseRec == [out : SUBSET Service!Tokens, retry : BOOLEAN, via : MaybeRid]

TypeOK ==
  /\ Service!TypeOK
  /\ up \in [Epochs -> BOOLEAN]
  /\ known \in [Epochs -> MaybeRid] /\ handshook \in [Epochs -> MaybeRid]
  /\ outbox \in [Epochs -> SUBSET Service!Tokens]
  /\ held \in [Sids -> [Service!Kinds -> MaybeToken]]
  /\ tokenAct \in [Sids -> Acts] /\ counter \in [Sids -> Acts]
  /\ pending \subseteq Sids
  /\ phase \in [Sids -> Phase]
  /\ caller \in [Callers -> CallerRec]
  /\ monitor \in [Sids -> MonitorPc]
  /\ releases \in [Threads -> ReleaseRec]

Init ==
  /\ Service!Init
  /\ up = [e \in Epochs |-> TRUE]
  /\ known = [e \in Epochs |-> NoRid] /\ handshook = [e \in Epochs |-> NoRid]
  /\ outbox = [e \in Epochs |-> {}]
  /\ held = [s \in Sids |-> Nothing]
  /\ tokenAct = [s \in Sids |-> 0] /\ counter = [s \in Sids |-> 0]
  /\ pending = {}
  /\ phase = [s \in Sids |-> "new"]
  /\ caller = [c \in Callers |-> Free]
  /\ monitor = [s \in Sids |-> "none"]
  /\ releases = [th \in Threads |-> Settled]

-----------------------------------------------------------------------------
(* Releasing: LeaseClient.release, _do_release and retry_outbox            *)

SidOf(th) == IF th \in Callers THEN caller[th].sid ELSE th
EpochOfThread(th) == EpochOf[SidOf(th)]

\* A thread goes on only when the release calls it has begun are over.
Ready(th) == releases[th] = Settled
Learn(e)  == known' = [known EXCEPT ![e] = rid]

\* The thread releases these tokens next; then it retries the outbox, or not.
ThenRelease(th, out, retry) ==
  releases' = [releases EXCEPT ![th] = [out |-> out \ {NoToken}, retry |-> retry, via |-> NoRid]]

\* What the router does with a release that reaches it.  A client that does
\* not name its epoch names one that can never register.
Names(e, t)  == ClientNamesEpoch /\ \E x \in tokens : x.epoch = e /\ x.tid = t
Acks(e, r)   == ClientNamesEpoch /\ Service!Admits(e, r)
RouterReleases(e, t, r) ==
  IF Acks(e, r) /\ Names(e, t) THEN Service!Release(e, t, r) ELSE UNCHANGED service

\* Mutant: any answer of the router takes the token out of the outbox.
KeptInOutboxNever(e, t, r) == outbox[e] \ {t}

\* "released", true or false, is definitive; every error is retryable and
\* leaves the token in the outbox.
KeptInOutbox(e, t, r) == IF Acks(e, r) THEN outbox[e] \ {t} ELSE outbox[e] \cup {t}

ReleaseOne(th, t) ==
  LET e == EpochOfThread(th)
      r == IF releases[th].via # NoRid THEN releases[th].via ELSE known[e]
      left == releases[th].out \ {t}
  IN /\ t \in releases[th].out
     /\ releases' = [releases EXCEPT ![th].out = left,
                                     ![th].via = IF left = {} THEN NoRid ELSE @]
     /\ \/ /\ RouterReleases(e, t, r)
           /\ outbox' = [outbox EXCEPT ![e] = KeptInOutbox(e, t, r)]
           /\ Learn(e)
        \/ /\ "network" \in Faults
           /\ RouterReleases(e, t, r) \/ UNCHANGED service
           /\ outbox' = [outbox EXCEPT ![e] = @ \cup {t}]
           /\ UNCHANGED known
     /\ UNCHANGED <<up, handshook, sessions, caller, monitor>>

\* retry_outbox: one pass over the outbox, with the id that is current now.
RetryOutbox(th) ==
  LET e == EpochOfThread(th)
  IN /\ releases[th].out = {} /\ releases[th].retry
     /\ releases' = [releases EXCEPT ![th] =
          IF outbox[e] = {} THEN Settled
          ELSE [out |-> outbox[e], retry |-> FALSE, via |-> known[e]]]
     /\ UNCHANGED <<service, client, sessions, caller, monitor>>

-----------------------------------------------------------------------------
(* Admission: _lease_start, restart and _lease_send_turn                   *)

At(c, pc)    == caller[c].pc = pc /\ Ready(c)
Goto(c, pc)  == caller' = [caller EXCEPT ![c].pc = pc]
Return(c)    == caller' = [caller EXCEPT ![c] = Free]
\* A call for session s begins; it gets these tokens.
Enter(c, pc, s, a) ==
  caller' = [caller EXCEPT ![c] = [Free EXCEPT !.pc = pc, !.sid = s, !.act = a]]
Take(c, pc, hand, fresh) ==
  caller' = [caller EXCEPT ![c].pc = pc, ![c].hand = hand, ![c].fresh = fresh]
SetPhase(s, p) == phase' = [phase EXCEPT ![s] = p]

\* _lease_start: the pending marker, then an opportunistic outbox retry.
StartBegin(c, s) ==
  /\ At(c, "none") /\ up[EpochOf[s]]
  /\ phase[s] = "new" /\ s \notin pending
  /\ \A d \in Callers : caller[d].sid # s
  /\ pending' = pending \cup {s}
  /\ Enter(c, "start", s, 0)
  /\ ThenRelease(c, {}, TRUE)
  /\ UNCHANGED <<service, client, held, tokenAct, counter, phase, monitor>>

\* restart: an old session that is registered leaves _sessions under the lock
\* and is told to stop; the new one gets leases of its own, with no pending
\* marker and no outbox retry.
RestartBegin(c, old, s) ==
  /\ At(c, "none") /\ up[EpochOf[s]] /\ EpochOf[old] = EpochOf[s]
  /\ phase[s] = "new" /\ \A d \in Callers : caller[d].sid # s
  /\ phase[old] \in {"busy", "idle", "gone"}
  /\ SetPhase(old, IF phase[old] = "gone" THEN "gone" ELSE "popped")
  /\ Enter(c, "start", s, 0)
  /\ UNCHANGED <<service, client, held, tokenAct, counter, pending, monitor, releases>>

\* acquire is refused; the answer carries the router's id all the same.
Refused(c, kinds) ==
  LET s == caller[c].sid
  IN /\ ~Service!CanAcquire(EpochOf[s], s, caller[c].act, kinds, known[EpochOf[s]])
     /\ Learn(EpochOf[s])
     /\ UNCHANGED service

\* A start is given up before a session exists.  The id was never admitted,
\* so it may stand for the next one.
StartAcquire(c) ==
  LET s == caller[c].sid
      e == EpochOf[s]
  IN /\ At(c, "start")
     /\ \/ /\ Service!Acquire(e, s, 0, Service!Kinds, known[e])
           /\ Take(c, "spawn", Service!Granted(e, s, 0, Service!Kinds), FALSE)
           /\ Learn(e)
           /\ UNCHANGED <<pending, phase>>
        \/ /\ Refused(c, Service!Kinds)
           /\ pending' = pending \ {s}
           /\ Goto(c, "shake")
           /\ UNCHANGED phase
        \/ /\ "network" \in Faults
           /\ pending' = pending \ {s}
           /\ Return(c)
           /\ UNCHANGED <<service, known, phase>>
        \/ /\ "lost grant" \in Faults
           /\ Service!Acquire(e, s, 0, Service!Kinds, known[e])
           /\ pending' = pending \ {s}
           /\ SetPhase(s, "gone")
           /\ Return(c)
           /\ UNCHANGED known
     /\ UNCHANGED <<up, handshook, outbox, held, tokenAct, counter, monitor, releases>>

\* _spawn, under the lock: the session and its tokens are registered.
Insert(c) ==
  LET s == caller[c].sid
  IN /\ At(c, "spawn")
     /\ held' = [held EXCEPT ![s] = caller[c].hand]
     /\ tokenAct' = [tokenAct EXCEPT ![s] = 0]
     /\ counter' = [counter EXCEPT ![s] = 0]
     /\ SetPhase(s, "starting")
     /\ Goto(c, "inserted")
     /\ UNCHANGED <<service, client, pending, monitor, releases>>

HandTokens(c) == {caller[c].hand[kind] : kind \in Service!Kinds}

\* _spawn raises before the insert: the granted tokens are given back.
SpawnRefused(c) ==
  /\ At(c, "spawn")
  /\ ThenRelease(c, HandTokens(c), TRUE)
  /\ Goto(c, "failed")
  /\ UNCHANGED <<service, client, sessions, monitor>>

\* The executor is spawned and the monitor thread starts.
Launch(c) ==
  LET s == caller[c].sid
  IN /\ At(c, "inserted")
     /\ SetPhase(s, "busy")
     /\ monitor' = [monitor EXCEPT ![s] = "run"]
     /\ pending' = pending \ {s}
     /\ Return(c)
     /\ UNCHANGED <<service, client, held, tokenAct, counter, releases>>

\* _spawn raises after the insert: it drops the session and gives its tokens
\* back, and its caller gives the same tokens back again.
Rollback(c) ==
  LET s == caller[c].sid
  IN /\ At(c, "inserted")
     /\ held' = [held EXCEPT ![s] = Nothing]
     /\ SetPhase(s, "gone")
     /\ ThenRelease(c, {held[s][kind] : kind \in Service!Kinds}, TRUE)
     /\ Goto(c, "unwind")
     /\ UNCHANGED <<service, client, tokenAct, counter, pending, monitor>>

\* The rows cannot be deleted: the session stays registered, with its tokens.
RollbackRaises(c) ==
  /\ "store" \in Faults
  /\ At(c, "inserted")
  /\ Goto(c, "unwind")
  /\ UNCHANGED <<service, client, sessions, monitor, releases>>
Unwind(c) ==
  /\ At(c, "unwind")
  /\ ThenRelease(c, HandTokens(c), TRUE)
  /\ Goto(c, "failed")
  /\ UNCHANGED <<service, client, sessions, monitor>>
StartFailed(c) ==
  LET s == caller[c].sid
  IN /\ At(c, "failed")
     /\ SetPhase(s, IF phase[s] = "new" THEN "gone" ELSE phase[s])
     /\ pending' = pending \ {s}
     /\ Return(c)
     /\ UNCHANGED <<service, client, held, tokenAct, counter, monitor, releases>>

\* Only an idle session takes a follow-up turn, and one thread at a time.
MayTurn(s) == phase[s] = "idle" /\ s \notin pending

\* _lease_send_turn: the pending marker, the activation, the outbox retry.
TurnBegin(c, s) ==
  /\ At(c, "none") /\ MayTurn(s)
  /\ pending' = pending \cup {s}
  /\ Enter(c, "turn", s, counter[s])
  /\ ThenRelease(c, {}, TRUE)
  /\ UNCHANGED <<service, client, held, tokenAct, counter, phase, monitor>>

\* Whether the refusal means that the router does not know this client.
NotServed(e) == ~Service!Admits(e, known[e])

TurnAcquire(c) ==
  LET s == caller[c].sid
      e == EpochOf[s]
      a == caller[c].act
      Grant == Service!Acquire(e, s, a, {"active"}, known[e])
      got == Service!Granted(e, s, a, {"active"})["active"]
  IN /\ At(c, "turn")
     /\ \/ /\ Grant
           /\ Take(c, "granted", [Nothing EXCEPT !["active"] = got],
                   Service!Held(e, s, a, "active") = {})
           /\ Learn(e)
           /\ UNCHANGED pending
        \/ /\ Refused(c, {"active"})
           /\ pending' = pending \ {s}
           /\ Goto(c, IF NotServed(e) THEN "shake" ELSE "return")
        \/ /\ "network" \in Faults
           /\ pending' = pending \ {s}
           /\ Return(c)
           /\ UNCHANGED <<service, known>>
        \/ /\ "lost grant" \in Faults
           /\ Grant
           /\ pending' = pending \ {s}
           /\ Return(c)
           /\ UNCHANGED known
     /\ UNCHANGED <<up, handshook, outbox, held, tokenAct, counter, phase, monitor, releases>>

\* Revalidated under the lock: the token becomes the session's active token,
\* and the one it replaces is released before anything is typed.
TurnCommit(c) ==
  LET s == caller[c].sid
  IN /\ At(c, "granted") /\ phase[s] = "idle"
     /\ held' = [held EXCEPT ![s]["active"] = caller[c].hand["active"]]
     /\ tokenAct' = [tokenAct EXCEPT ![s] = caller[c].act]
     /\ ThenRelease(c, {held[s]["active"]}, FALSE)
     /\ Goto(c, "sending")
     /\ UNCHANGED <<service, client, counter, pending, phase, monitor>>

\* The session is gone or busy, or the epoch quiesces: a fresh token is
\* given back, one that the key already had is not.
TurnRejected(c) ==
  /\ At(c, "granted")
  /\ pending' = pending \ {caller[c].sid}
  /\ ThenRelease(c, IF caller[c].fresh THEN HandTokens(c) ELSE {}, FALSE)
  /\ Goto(c, "return")
  /\ UNCHANGED <<service, client, held, tokenAct, counter, phase, monitor>>

\* Session.send_turn: the turn is typed, or it is not (terminal, no longer
\* idle, or the write timed out) and the session stays as it is.
Send(c) ==
  LET s == caller[c].sid
  IN /\ At(c, "sending")
     /\ \/ phase[s] = "idle" /\ SetPhase(s, "busy")
        \/ UNCHANGED phase
     /\ pending' = pending \ {s}
     /\ Return(c)
     /\ UNCHANGED <<service, client, held, tokenAct, counter, monitor, releases>>

\* It raises (rejected input): the token is released, then forgotten.
SendRaises(c) ==
  /\ "input" \in Faults
  /\ At(c, "sending")
  /\ ThenRelease(c, HandTokens(c), FALSE)
  /\ Goto(c, "raised")
  /\ UNCHANGED <<service, client, sessions, monitor>>
SendRaised(c) ==
  LET s == caller[c].sid
  IN /\ At(c, "raised")
     /\ held' = [held EXCEPT ![s]["active"] = NoToken]
     /\ pending' = pending \ {s}
     /\ Return(c)
     /\ UNCHANGED <<service, client, tokenAct, counter, phase, monitor, releases>>

-----------------------------------------------------------------------------
(* The handshake: _ensure_handshake, _lease_snapshot, register_snapshot    *)

\* The activation a token was acquired with; a live token's is the start's.
ActivationOf(s, kind) == IF kind = "live" THEN 0 ELSE tokenAct[s]

HeldEntry(s, kind) ==
  [tid |-> held[s][kind], epoch |-> EpochOf[s], sid |-> s, act |-> ActivationOf(s, kind), kind |-> kind]

\* _lease_snapshot, under the lock.
Snapshot(e) ==
  {x \in {HeldEntry(s, kind) : s \in Sids, kind \in Service!Kinds} : x.epoch = e /\ x.tid # NoToken}

NeedsHandshake(e) == known[e] # NoRid /\ handshook[e] # known[e]
InFlight(e, r)    == \E d \in Callers : caller[d].pc = "register" /\ caller[d].rid = r
                                        /\ EpochOf[caller[d].sid] = e

Offer(c, r, snap) ==
  caller' = [caller EXCEPT ![c].pc = "register", ![c].rid = r, ![c].snap = snap]

\* One thread per id registers; the others return.
ShakeBegin(c) ==
  LET e == EpochOf[caller[c].sid]
  IN /\ At(c, "shake")
     /\ IF NeedsHandshake(e) /\ ~InFlight(e, known[e])
        THEN Offer(c, known[e], Snapshot(e))
        ELSE Return(c)
     /\ UNCHANGED <<service, client, sessions, monitor, releases>>

\* The snapshot goes out with the id it was taken for.  Accepted (or already
\* registered): handshaken, and the outbox is retried.
Register(c) ==
  LET s == caller[c].sid
      e == EpochOf[s]
      r == caller[c].rid
      snap == caller[c].snap
      Again == r = rid /\ reconciled[e] = rid /\ UNCHANGED service
      Accepted == Again \/ Service!RegisterSnapshot(e, r, snap)
  IN /\ At(c, "register")
     /\ \/ /\ Accepted
           /\ Learn(e)
           /\ handshook' = [handshook EXCEPT ![e] = r]
           /\ ThenRelease(c, {}, TRUE)
           /\ Goto(c, "return")
        \/ /\ r # rid \/ (reconciled[e] # rid /\ ~Service!Fits(e, snap))
           /\ Learn(e)
           /\ Return(c)
           /\ UNCHANGED <<service, handshook, releases>>
        \/ /\ "network" \in Faults
           /\ Accepted \/ UNCHANGED service
           /\ Return(c)
           /\ UNCHANGED <<known, handshook, releases>>
     /\ UNCHANGED <<up, outbox, sessions, monitor>>

ReturnCall(c) ==
  /\ At(c, "return")
  /\ Return(c)
  /\ UNCHANGED <<service, client, sessions, monitor, releases>>

-----------------------------------------------------------------------------
(* The monitor thread: on_idle, the terminal path and _free_slot           *)

MonitorAt(s, pc)   == monitor[s] = pc /\ Ready(s)
MonitorGoto(s, pc) == monitor' = [monitor EXCEPT ![s] = pc]

\* The turn is over: the session is idle for everyone to see, and only then,
\* outside Session._lock, is on_idle called.
TurnDone(s) ==
  /\ MonitorAt(s, "run") /\ phase[s] = "busy"
  /\ counter[s] < MaxAct
  /\ SetPhase(s, "idle")
  /\ MonitorGoto(s, "notify")
  /\ UNCHANGED <<service, client, held, tokenAct, counter, pending, caller, releases>>

\* A Stop hook ends the turn.  _drain_hooks has made the session idle before
\* _loop_once reads the state it compares with, so on_idle is not called and
\* the active token stays.
TurnDoneByHook(s) ==
  /\ MonitorAt(s, "run") /\ phase[s] = "busy"
  /\ SetPhase(s, "idle")
  /\ UNCHANGED <<service, client, held, tokenAct, counter, pending, threads>>

\* A UserPromptSubmit hook opens a turn that nobody sent.
TurnByHook(s) ==
  /\ MonitorAt(s, "run") /\ phase[s] = "idle"
  /\ SetPhase(s, "busy")
  /\ UNCHANGED <<service, client, held, tokenAct, counter, pending, threads>>

\* Mutant: going idle gives the live token back.
IdleReleasesLive == "live"

IdleReleases == "active"

OnIdle(s) ==
  /\ MonitorAt(s, "notify")
  /\ held' = [held EXCEPT ![s][IdleReleases] = NoToken]
  /\ counter' = [counter EXCEPT ![s] = IF phase[s] = "popped" THEN @ ELSE @ + 1]
  /\ ThenRelease(s, {held[s][IdleReleases]}, FALSE)
  /\ MonitorGoto(s, "run")
  /\ UNCHANGED <<service, client, tokenAct, pending, phase, caller>>

\* Mutant: the live token is forgotten, not released.
TerminalTokensActive(s) == {held[s]["active"]}

TerminalTokens(s) == {held[s]["active"], held[s]["live"]}

\* The session ends.  Its row is persisted and both tokens are given back,
\* before the event and before _free_slot; or the row cannot be written.
Ends(s) == /\ MonitorAt(s, "run") /\ phase[s] \in {"busy", "idle", "popped"}
           /\ phase' = [phase EXCEPT ![s] = IF @ = "popped" THEN @ ELSE "closing"]
PersistTerminal(s) ==
  /\ Ends(s)
  /\ held' = [held EXCEPT ![s] = Nothing]
  /\ ThenRelease(s, TerminalTokens(s), TerminalTokens(s) # {NoToken})
  /\ MonitorGoto(s, "persisted")
  /\ UNCHANGED <<service, client, tokenAct, counter, pending, caller>>
PersistFails(s) ==
  /\ "store" \in Faults
  /\ Ends(s)
  /\ MonitorGoto(s, "unpersisted")
  /\ UNCHANGED <<service, client, held, tokenAct, counter, pending, caller, releases>>

\* _free_slot takes the tokens of a session only if its active one is held.
Uncollected(s) == held[s]["active"] # NoToken
FreeSlot(s) ==
  /\ MonitorAt(s, "persisted") \/ MonitorAt(s, "unpersisted")
  /\ held' = IF Uncollected(s) THEN [held EXCEPT ![s] = Nothing] ELSE held
  /\ ThenRelease(s, IF Uncollected(s) THEN TerminalTokens(s) ELSE {}, Uncollected(s))
  /\ SetPhase(s, "gone")
  /\ MonitorGoto(s, "over")
  /\ UNCHANGED <<service, client, tokenAct, counter, pending, caller>>

\* Its own attempt to persist raises: the tokens are out of the dicts, they
\* are not released, and the session is never removed from _sessions.
FreeSlotRaises(s) ==
  /\ "store" \in Faults
  /\ MonitorAt(s, "unpersisted") /\ phase[s] = "closing"
  /\ held' = IF Uncollected(s) THEN [held EXCEPT ![s] = Nothing] ELSE held
  /\ MonitorGoto(s, "over")
  /\ UNCHANGED <<service, client, tokenAct, counter, pending, phase, caller, releases>>

-----------------------------------------------------------------------------
(* Crashes                                                                 *)

RouterRestart ==
  /\ "router" \in Faults
  /\ Service!RouterRestart
  /\ UNCHANGED <<client, sessions, threads>>

\* The daemon's memory, threads and outbox are gone; its tokens stay in the
\* router's account until the epoch is retired.
DaemonCrash(e) ==
  LET Of(th) == SidOf(th) # NoSid /\ EpochOfThread(th) = e
      mine == {s \in Sids : EpochOf[s] = e}
      Wiped(f, x) == [s \in Sids |-> IF s \in mine THEN x ELSE f[s]]
  IN /\ "daemon" \in Faults /\ up[e]
     /\ up' = [up EXCEPT ![e] = FALSE]
     /\ known' = [known EXCEPT ![e] = NoRid] /\ handshook' = [handshook EXCEPT ![e] = NoRid]
     /\ outbox' = [outbox EXCEPT ![e] = {}]
     /\ held' = Wiped(held, Nothing)
     /\ phase' = Wiped(phase, "gone") /\ monitor' = Wiped(monitor, "over")
     /\ pending' = pending \ mine
     /\ caller' = [c \in Callers |-> IF Of(c) THEN Free ELSE caller[c]]
     /\ releases' = [th \in Threads |-> IF Of(th) THEN Settled ELSE releases[th]]
     /\ UNCHANGED <<service, tokenAct, counter>>

\* The operator's retire step for a dead incarnation.
Retire(e) ==
  /\ ~up[e] /\ Service!OfEpoch(tokens, e) # {}
  /\ Service!ReleaseEpoch(e)
  /\ UNCHANGED <<client, sessions, threads>>

-----------------------------------------------------------------------------
CallerStep(c) ==
  \/ StartAcquire(c) \/ Insert(c) \/ SpawnRefused(c) \/ Launch(c) \/ Rollback(c)
  \/ RollbackRaises(c) \/ Unwind(c) \/ StartFailed(c) \/ TurnAcquire(c) \/ TurnCommit(c) \/ TurnRejected(c) \/ Send(c)
  \/ SendRaises(c) \/ SendRaised(c) \/ ShakeBegin(c) \/ Register(c) \/ ReturnCall(c)

MonitorStep(s) == OnIdle(s) \/ FreeSlot(s) \/ FreeSlotRaises(s)

ReleaseStep(th) == RetryOutbox(th) \/ \E t \in Service!Tokens : ReleaseOne(th, t)

Next ==
  \/ \E c \in Callers : \/ \E s \in Sids : StartBegin(c, s) \/ TurnBegin(c, s)
                        \/ \E old, s \in Sids : RestartBegin(c, old, s)
                        \/ CallerStep(c)
  \/ \E s \in Sids : MonitorStep(s) \/ TurnDone(s) \/ TurnDoneByHook(s) \/ TurnByHook(s) \/ PersistTerminal(s) \/ PersistFails(s)
  \/ \E th \in Threads : ReleaseStep(th)
  \/ RouterRestart
  \/ \E e \in Epochs : DaemonCrash(e) \/ Retire(e)

Spec == Init /\ [][Next]_vars

\* Threads run, and every call to the router has a timeout.
Fairness == /\ \A c \in Callers : WF_vars(CallerStep(c))
            /\ \A s \in Sids : WF_vars(MonitorStep(s))
            /\ \A th \in Threads : WF_vars(ReleaseStep(th))
FairSpec == Spec /\ Fairness

-----------------------------------------------------------------------------
(* Properties                                                              *)

\* The router's account stays sound with these clients: bounded, counted and
\* indexed (LeaseService!IInv).
AccountSound == Service!IInv

\* From Session.start until _finish: the process group itself is killed a
\* little later, in _finish_cleanup, when the leases are already given back.
HasPty(s) == monitor[s] \in {"run", "notify"}

\* There are never more sessions that serve a live PTY, over all generations,
\* than live_pty_limit: each is backed by a live token of its own, through
\* idling, resuming, restarting and failed starts.
PtyBound == Cardinality({s \in Sids : HasPty(s)}) <= Limit["live"]

\* No slot is lost: a token in the router's account is held by its session,
\* in the hand of a thread that just acquired it, about to be released, or in
\* the outbox; also after a handshake with a snapshot that was stale when it
\* was registered.
Accounted(x) ==
  \/ held[x.sid][x.kind] = x.tid
  \/ \E c \in Callers : caller[c].pc \in {"spawn", "granted"} /\ caller[c].hand[x.kind] = x.tid
  \/ \E th \in Threads : x.tid \in releases[th].out
  \/ x.tid \in outbox[x.epoch]
NoLeak == \A x \in tokens : up[x.epoch] => Accounted(x)

\* leases.py:10: "release(token) removes the token and decrements once": when
\* the router serves the epoch and the call got through, the token is gone.
ReleaseFrees ==
  [][\A th \in Threads : \A t \in releases[th].out :
       LET e == EpochOfThread(th)
       IN /\ releases' # releases /\ t \notin releases'[th].out
          /\ Service!Admits(e, known[e]) /\ releases[th].via \in {NoRid, known[e]}
          => ~\E x \in tokens' : x.epoch = e /\ x.tid = t]_vars

\* The slots of a session that ended come back, with no help from a later call.
SlotsComeBack == \A s \in Sids : phase[s] = "gone" ~> ~\E x \in tokens : x.sid = s
=============================================================================
