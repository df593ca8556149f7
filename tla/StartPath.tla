------------------------------ MODULE StartPath ------------------------------
(***************************************************************************)
(* POST /start and POST /restart from the router's handler thread, through *)
(* the durable start ledger, to the generation daemon that spawns the      *)
(* worker, with lost replies, router crashes and daemon crashes.           *)
(*                                                                         *)
(* A ledger or store method is one SQLite BEGIN IMMEDIATE transaction, so  *)
(* it is one step here; between two of them any other thread or process    *)
(* may run.  An epoch is one incarnation of one generation's daemon.       *)
(***************************************************************************)
EXTENDS Naturals, FiniteSets

CONSTANTS Keys,      \* (owner, idempotency_key) pairs of POST /start
          Requests,  \* request fingerprints of POST /start
          Sids,      \* the ids StartLedger._mint may return
          Epochs,    \* generation epochs
          Gens,      \* generation ids
          GenOf,     \* GenOf[e]: the generation e is an incarnation of
          Handlers,  \* threads of the router's ThreadingHTTPServer
          NoKey, NoEpoch, NoRow

ASSUME StartPathAssumption ==
  /\ GenOf \in [Epochs -> Gens]
  /\ NoEpoch \notin Epochs

\* restart.py derives the key from the old session id and the force flag, and
\* the fingerprint from the same two, so a restart key has one request only.
RestartKeys == [old : Sids, force : BOOLEAN]
AllKeys     == Keys \cup RestartKeys
Fingerprint(k) == IF k \in RestartKeys THEN {k} ELSE Requests

VARIABLES
  starts,    \* table starts: [Sids -> row or NoRow]
  sessions,  \* table sessions: the ids that have a row
  dir,       \* dir[s]: sessions/<s>/ on disk, see DirState
  live,      \* live[e]: SessionManager._sessions of e's daemon
  epochs,    \* epochs[e]: the daemon process, "unborn", "up" or "dead"
  active,    \* what registry.active() answers, or NoEpoch
  daemon,    \* daemon[s]: the /start or /restart request for s at its daemon
  worker,    \* worker[s]: the executor process of s
  handler,   \* the router's handler threads
  answers    \* what callers have been told, for each key

vars == <<starts, sessions, dir, live, epochs, active, daemon, worker, handler, answers>>

Row == [key : AllKeys, fp : Requests \cup RestartKeys,
        state : {"starting", "started", "failed"},
        epoch : Epochs \cup {NoEpoch}]

HandlerPc == {"idle", "reserved", "picked", "assigned", "sent", "committing", "failing"}
DaemonPc  == {"none", "arrived", "stopping", "admitting", "inserted", "created",
              "owned", "rollback", "ok", "err"}
\* No trustworthy owner record, an owner record, or also the meta.json that a
\* restart of a session that is no longer registered needs.
DirState  == {"absent", "owned", "meta"}

\* The null values are no rows, session ids or keys.
ASSUME NullAssumption == NoRow \notin Row \cup Sids /\ NoKey \notin AllKeys

Idle      == [pc |-> "idle", sid |-> NoRow, epoch |-> NoEpoch]
NoRequest == [pc |-> "none", epoch |-> NoEpoch]

TypeOK ==
  /\ starts \in [Sids -> Row \cup {NoRow}]
  /\ sessions \subseteq Sids
  /\ dir \in [Sids -> DirState]
  /\ live \in [Epochs -> SUBSET Sids]
  /\ epochs \in [Epochs -> {"unborn", "up", "dead"}]
  /\ active \in Epochs \cup {NoEpoch}
  /\ daemon \in [Sids -> [pc : DaemonPc, epoch : Epochs \cup {NoEpoch}]]
  /\ worker \in [Sids -> {"none", "running", "over"}]
  /\ handler \in [Handlers -> [pc : HandlerPc, sid : Sids \cup {NoRow},
                               epoch : Epochs \cup {NoEpoch}]]
  /\ answers \subseteq [key : AllKeys, status : {"started", "starting", "failed"}, sid : Sids]

\* One generation serves; the other epochs have not been started yet.
Init ==
  /\ starts = [s \in Sids |-> NoRow]
  /\ sessions = {}
  /\ dir = [s \in Sids |-> "absent"]
  /\ live = [e \in Epochs |-> {}]
  /\ active \in Epochs
  /\ epochs = [e \in Epochs |-> IF e = active THEN "up" ELSE "unborn"]
  /\ daemon = [s \in Sids |-> NoRequest]
  /\ worker = [s \in Sids |-> "none"]
  /\ handler = [h \in Handlers |-> Idle]
  /\ answers = {}

-----------------------------------------------------------------------------
(* The router: StartPath._handle / RestartPath._handle and the StartLedger *)

Up     == {e \in Epochs : epochs[e] = "up"}
Minted == {s \in Sids : starts[s] # NoRow}

\* Mutant: the constraint compares the request as well as the key.
HoldersPerRequest(k, fp) == {s \in Minted : starts[s].key = k /\ starts[s].fp = fp}

\* The rows the UNIQUE (owner_id, idempotency_key) constraint compares with.
Holders(k, fp) == {s \in Minted : starts[s].key = k}

At(h, pc)   == handler[h].pc = pc
Goto(h, pc) == handler' = [handler EXCEPT ![h].pc = pc]
HangUp(h)   == handler' = [handler EXCEPT ![h] = Idle]
Told(s, status) == answers' = answers \cup {[key |-> starts[s].key, status |-> status, sid |-> s]}

DaemonSide == <<sessions, dir, live, epochs, active, daemon, worker>>

NewRow(k, fp) == [key |-> k, fp |-> fp, state |-> "starting", epoch |-> NoEpoch]

\* StartLedger.reserve, first use of the key.  The mint is a fresh uuid4.
ReserveFresh(h, k, fp) ==
  /\ At(h, "idle")
  /\ Holders(k, fp) = {}
  /\ \E s \in Sids \ Minted :
       /\ starts' = [starts EXCEPT ![s] = NewRow(k, fp)]
       /\ handler' = [handler EXCEPT ![h] = [pc |-> "reserved", sid |-> s, epoch |-> NoEpoch]]
  /\ UNCHANGED <<DaemonSide, answers>>

\* Mutant: a pending row is replayed as an accomplished start.
ReplayStatusOptimistic(row) == IF row.state = "starting" THEN "started" ELSE row.state

\* What _replay reports of a row.
ReplayStatus(row) == row.state

\* StartLedger.reserve, the key is taken: the same request is answered from
\* the row and never forwarded; another request is a conflict, which changes
\* nothing and is not an action.
ReserveReplay(h, k, fp) ==
  /\ At(h, "idle")
  /\ \E s \in Holders(k, fp) : starts[s].fp = fp /\ Told(s, ReplayStatus(starts[s]))
  /\ UNCHANGED <<DaemonSide, starts, handler>>

\* _drive_fresh asks the registry for the active generation.
PickGeneration(h) ==
  /\ At(h, "reserved")
  /\ handler' = [handler EXCEPT ![h] = [pc |-> IF active = NoEpoch THEN "failing" ELSE "picked",
                                        sid |-> @.sid, epoch |-> active]]
  /\ UNCHANGED <<DaemonSide, starts, answers>>

CanAssign(row, e) ==
  /\ row.state = "starting"
  /\ row.epoch # NoEpoch => GenOf[row.epoch] = GenOf[e]
Assigned(row, e) == [row EXCEPT !.epoch = e]

\* StartLedger.assign_generation, before anything is forwarded.
AssignGeneration(h) ==
  LET s == handler[h].sid
      e == handler[h].epoch
  IN /\ At(h, "picked")
     /\ CanAssign(starts[s], e)
     /\ starts' = [starts EXCEPT ![s] = Assigned(@, e)]
     /\ Goto(h, "assigned")
     /\ UNCHANGED <<DaemonSide, answers>>

\* It is refused, or the store is unavailable.
AssignFails(h) ==
  /\ At(h, "picked")
  /\ Goto(h, "failing")
  /\ UNCHANGED <<DaemonSide, starts, answers>>

\* The request is delivered completely to the daemon of the assigned epoch.
Forward(h) ==
  LET s == handler[h].sid
      e == handler[h].epoch
  IN /\ At(h, "assigned")
     /\ e \in Up
     /\ daemon' = [daemon EXCEPT ![s] = [pc |-> "arrived", epoch |-> e]]
     /\ Goto(h, "sent")
     /\ UNCHANGED <<sessions, dir, live, epochs, active, worker, starts, answers>>

\* ForwardConnectError: no complete request reached the daemon.
ForwardConnectError(h) ==
  /\ At(h, "assigned")
  /\ Goto(h, "failing")
  /\ UNCHANGED <<DaemonSide, starts, answers>>

\* Mutant: every failed forward is definite.
ForwardResponseErrorDefinite(h) ==
  /\ At(h, "sent")
  /\ Goto(h, "failing")
  /\ UNCHANGED <<DaemonSide, starts, answers>>

\* Mutant: no timeout, only a connection that drops with a dead daemon.
ForwardResponseErrorUntimed(h) ==
  /\ At(h, "sent")
  /\ daemon[handler[h].sid].pc \in {"ok", "err"}
  /\ HangUp(h)
  /\ UNCHANGED <<DaemonSide, starts, answers>>

\* ForwardResponseError: sent, but the reply was late, lost or garbled.  The
\* row is left "starting" and the caller gets a retryable error.
ForwardResponseError(h) ==
  /\ At(h, "sent")
  /\ HangUp(h)
  /\ UNCHANGED <<DaemonSide, starts, answers>>

\* Mutant: any reply counts as success.
ReplyIsAnything(s) == daemon[s].pc \in {"ok", "err"}

\* "started" with the assigned session id; any other reply is a failed start.
ReplyIsSuccess(s) == daemon[s].pc = "ok"

ReplyArrives(h) ==
  LET s == handler[h].sid
  IN /\ At(h, "sent")
     /\ daemon[s].pc \in {"ok", "err"}
     /\ Goto(h, IF ReplyIsSuccess(s) THEN "committing" ELSE "failing")
     /\ UNCHANGED <<DaemonSide, starts, answers>>

CanCommit(row, e) == row.state # "failed" /\ row.epoch = e

\* Mutant: commit rebinds the row to the generation that is active now.
CommittedRebinding(row) == [row EXCEPT !.state = "started", !.epoch = active]

Committed(row) == [row EXCEPT !.state = "started"]

\* StartLedger.commit, then the "started" answer.
Commit(h) ==
  LET s == handler[h].sid
  IN /\ At(h, "committing")
     /\ CanCommit(starts[s], handler[h].epoch)
     /\ starts' = [starts EXCEPT ![s] = Committed(@)]
     /\ Told(s, "started")
     /\ HangUp(h)
     /\ UNCHANGED DaemonSide

\* It is refused, or the store is unavailable: the caller gets that error.
CommitFails(h) ==
  /\ At(h, "committing")
  /\ HangUp(h)
  /\ UNCHANGED <<DaemonSide, starts, answers>>

\* create_session's mirror: a start that acquired a session is not failed.
CanFail(s) == starts[s].state = "starting" /\ s \notin sessions
Failed(row) == [row EXCEPT !.state = "failed"]

\* StartLedger.fail, and the failure is reported.
Fail(h) ==
  LET s == handler[h].sid
  IN /\ At(h, "failing")
     /\ CanFail(s)
     /\ starts' = [starts EXCEPT ![s] = Failed(@)]
     /\ Told(s, "failed")
     /\ HangUp(h)
     /\ UNCHANGED DaemonSide

\* _fail swallows a refused fail and an unavailable store alike; the caller is
\* told of the failure all the same.
FailSwallowed(h) ==
  /\ At(h, "failing")
  /\ Told(handler[h].sid, "failed")
  /\ HangUp(h)
  /\ UNCHANGED <<DaemonSide, starts>>

\* The router process dies: its threads vanish, the ledger and the daemons
\* (and the requests already delivered to them) stay.
RouterCrash ==
  /\ \E h \in Handlers : ~At(h, "idle")
  /\ handler' = [h \in Handlers |-> Idle]
  /\ UNCHANGED <<DaemonSide, starts, answers>>

-----------------------------------------------------------------------------
(* The generation daemon: SessionManager.start / restart / _spawn          *)

RouterSide == <<starts, handler, answers>>
D(s, pc)      == daemon[s].pc = pc /\ daemon[s].epoch \in Up
DGoto(s, pc)  == daemon' = [daemon EXCEPT ![s].pc = pc]
IsRestart(s)  == starts[s].key \in RestartKeys
Old(s)        == starts[s].key.old
Ended(w)      == IF w = "running" THEN "over" ELSE w

\* Refused before anything changed: bad cwd or executor, a quiescing epoch,
\* no lease, no restart budget, no owner record or meta for the old id.
DaemonReject(s) ==
  /\ D(s, "arrived") \/ D(s, "admitting")
  /\ DGoto(s, "err")
  /\ UNCHANGED <<sessions, dir, live, epochs, active, worker, RouterSide>>

\* restart(): a session of THIS daemon is popped under the lock, before it is
\* stopped; any other source is known from its directory alone.
TakeOldSession(s) ==
  LET e == daemon[s].epoch
      registered == Old(s) \in live[e]
  IN /\ D(s, "arrived") /\ IsRestart(s)
     /\ dir[Old(s)] \in IF registered THEN {"owned", "meta"} ELSE {"meta"}
     /\ live' = [live EXCEPT ![e] = @ \ {Old(s)}]
     /\ DGoto(s, IF registered THEN "stopping" ELSE "admitting")
     /\ UNCHANGED <<sessions, dir, epochs, active, worker, RouterSide>>

\* active.stop(), outside the lock.  An exception is logged and ignored: the
\* monitor thread, told to stop, then ends the worker in its own time.
StopOldSession(s) ==
  /\ D(s, "stopping")
  /\ worker' \in {worker, [worker EXCEPT ![Old(s)] = Ended(@)]}
  /\ DGoto(s, "admitting")
  /\ UNCHANGED <<sessions, dir, live, epochs, active, RouterSide>>

\* gc_sessions: any directories, by age and by count, but those registered
\* with the daemon that runs it (keep_ids).
Prunable(keep) == {s \in Sids : dir[s] # "absent" /\ s \notin keep}

\* _spawn: the insert into _sessions under the lock, then gc_sessions.
InsertSession(s) ==
  LET e == daemon[s].epoch
  IN /\ (D(s, "arrived") /\ ~IsRestart(s)) \/ D(s, "admitting")
     /\ s \notin live[e] /\ dir[s] = "absent"
     /\ live' = [live EXCEPT ![e] = @ \cup {s}]
     /\ \E gone \in SUBSET Prunable(live[e] \cup {s}) :
          dir' = [t \in Sids |-> IF t \in gone THEN "absent" ELSE dir[t]]
     /\ DGoto(s, "inserted")
     /\ UNCHANGED <<sessions, epochs, active, worker, RouterSide>>

CanCreate(s) ==
  /\ starts[s] # NoRow
  /\ starts[s].epoch # NoEpoch
  /\ starts[s].state # "failed"
  /\ s \notin sessions

\* Store.create_session: a transaction of its own, after the insert.
CreateSession(s) ==
  /\ D(s, "inserted")
  /\ CanCreate(s)
  /\ sessions' = sessions \cup {s}
  /\ DGoto(s, "created")
  /\ UNCHANGED <<dir, live, epochs, active, worker, RouterSide>>

\* owner.write, before the PTY exists.
WriteOwner(s) ==
  /\ D(s, "created")
  /\ dir' = [dir EXCEPT ![s] = "owned"]
  /\ DGoto(s, "owned")
  /\ UNCHANGED <<sessions, live, epochs, active, worker, RouterSide>>

\* Session.start: meta.json, the PTY, the monitor; the reply is written.  A
\* directory pruned meanwhile comes back without its owner record.
Launch(s) ==
  /\ D(s, "owned")
  /\ dir' = [dir EXCEPT ![s] = IF @ = "owned" THEN "meta" ELSE @]
  /\ worker' = [worker EXCEPT ![s] = "running"]
  /\ DGoto(s, "ok")
  /\ UNCHANGED <<sessions, live, epochs, active, RouterSide>>

\* Mutant: the teardown is forgotten.
NotTornDown == "running"

\* Session.stop() in _spawn's except clause tears down what was spawned.
TornDown == "over"

\* create_session, owner.write or Session.start raised.
SpawnFails(s) ==
  /\ \E pc \in {"inserted", "created", "owned"} : D(s, pc)
  /\ \/ UNCHANGED <<dir, worker>>
     \/ /\ D(s, "owned")
        /\ dir' = [dir EXCEPT ![s] = IF @ = "owned" THEN "meta" ELSE @]
        /\ worker' \in {worker, [worker EXCEPT ![s] = TornDown]}
  /\ DGoto(s, "rollback")
  /\ UNCHANGED <<sessions, live, epochs, active, RouterSide>>

\* The rows are deleted in one transaction and the session is dropped; if the
\* DELETE itself raises, neither happens.  Either way the reply is an error.
Rollback(s) ==
  LET e == daemon[s].epoch
  IN /\ D(s, "rollback")
     /\ \/ sessions' = sessions \ {s} /\ live' = [live EXCEPT ![e] = @ \ {s}]
        \/ UNCHANGED <<sessions, live>>
     /\ DGoto(s, "err")
     /\ UNCHANGED <<dir, epochs, active, worker, RouterSide>>

\* The executor ends, by itself, killed by its monitor or by the reaper;
\* _free_slot drops the session, its rows are the archive.
WorkerExits(s) ==
  /\ worker[s] = "running"
  /\ worker' = [worker EXCEPT ![s] = "over"]
  /\ live' = [e \in Epochs |-> live[e] \ {s}]
  /\ UNCHANGED <<sessions, dir, epochs, active, daemon, RouterSide>>

\* A daemon dies; its executors get SIGHUP, and those that survive it run on
\* until a later daemon reaps them.  An epoch never comes back.
DaemonCrash(e) ==
  /\ e \in Up
  /\ epochs' = [epochs EXCEPT ![e] = "dead"]
  /\ live' = [live EXCEPT ![e] = {}]
  /\ \E dead \in SUBSET {s \in Sids : daemon[s].epoch = e /\ worker[s] = "running"} :
       worker' = [s \in Sids |-> IF s \in dead THEN "over" ELSE worker[s]]
  /\ active' = IF active = e THEN NoEpoch ELSE active
  /\ UNCHANGED <<sessions, dir, daemon, RouterSide>>

\* The registry, or the operator, makes another epoch the active one.  Two
\* incarnations of one generation never run at once (the daemon's singleton).
Activate(e) ==
  /\ epochs[e] # "dead" /\ active # e
  /\ \A f \in Up : f # e => GenOf[f] # GenOf[e]
  /\ epochs' = [epochs EXCEPT ![e] = "up"]
  /\ active' = e
  /\ UNCHANGED <<sessions, dir, live, daemon, worker, RouterSide>>

-----------------------------------------------------------------------------
Call(h) == \E k \in Keys \cup [old : Minted, force : BOOLEAN] : \E fp \in Fingerprint(k) :
             ReserveFresh(h, k, fp) \/ ReserveReplay(h, k, fp)

HandlerStep(h) ==
  \/ PickGeneration(h) \/ AssignGeneration(h) \/ AssignFails(h)
  \/ Forward(h) \/ ForwardConnectError(h) \/ ForwardResponseError(h)
  \/ ReplyArrives(h) \/ Commit(h) \/ CommitFails(h) \/ Fail(h) \/ FailSwallowed(h)

DaemonStep(s) ==
  \/ DaemonReject(s) \/ TakeOldSession(s) \/ StopOldSession(s) \/ InsertSession(s)
  \/ CreateSession(s) \/ WriteOwner(s) \/ Launch(s) \/ SpawnFails(s) \/ Rollback(s)

Next ==
  \/ \E h \in Handlers : Call(h) \/ HandlerStep(h)
  \/ RouterCrash
  \/ \E s \in Sids : DaemonStep(s) \/ WorkerExits(s)
  \/ \E e \in Epochs : DaemonCrash(e) \/ Activate(e)

Spec == Init /\ [][Next]_vars

\* A running thread is scheduled, and every forward has a timeout, so a
\* handler always takes its next step; a live daemon serves its requests.
Fairness == /\ \A h \in Handlers : WF_vars(HandlerStep(h))
            /\ \A s \in Sids : WF_vars(DaemonStep(s))
FairSpec == Spec /\ Fairness

-----------------------------------------------------------------------------
(* Properties                                                              *)

\* A key never gets two workers, whatever is lost, retried or restarted and
\* whichever generation is active by then (ledger.reserve, StartPath._replay).
OneWorkerPerKey ==
  \A s, t \in Sids :
    /\ worker[s] # "none" /\ worker[t] # "none"
    /\ starts[s].key = starts[t].key
    => s = t

\* A durable "failed" is true: no worker runs behind it (start.py's definite /
\* ambiguous split, _spawn's rollback).
FailedHasNoWorker ==
  \A s \in Minted : starts[s].state = "failed" => worker[s] # "running"

\* fail() and create_session() exclude one another in both orders: no start is
\* both failed and in possession of a session row.
FailedHasNoSession ==
  \A s \in Minted : starts[s].state = "failed" => s \notin sessions

\* A caller that was told "failed" has no worker running, then or later, even
\* when recording the failure was itself swallowed (StartPath._fail).
FailedAnswerHasNoWorker ==
  \A a \in answers : a.status = "failed" => worker[a.sid] # "running"

\* A caller that was told "started" has a session row and a worker that was
\* really launched; the row says so too.
StartedAnswerIsBacked ==
  \A a \in answers : a.status = "started" =>
    /\ a.sid \in sessions
    /\ worker[a.sid] # "none"
    /\ starts[a.sid].state = "started"

\* All callers of one key, the first and the retries, are told of one session
\* id, and never of a success and of a failure.
AnswersAgree ==
  \A a, b \in answers : a.key = b.key =>
    /\ a.sid = b.sid
    /\ ~(a.status = "started" /\ b.status = "failed")

\* The binding that a lost reply is recovered from never moves: a row stays,
\* keeps its key and request, its epoch once assigned, its verdict once given.
RowsOnlyAdvance ==
  [][\A s \in Sids : starts[s] # NoRow =>
       /\ starts'[s] # NoRow
       /\ starts'[s].key = starts[s].key /\ starts'[s].fp = starts[s].fp
       /\ starts[s].epoch # NoEpoch => starts'[s].epoch = starts[s].epoch
       /\ starts[s].state # "starting" => starts'[s].state = starts[s].state]_vars

\* Every call is answered: the router's thread never waits for good, not even
\* on a daemon that died or hangs with the request.
CallsEnd == \A h \in Handlers : ~At(h, "idle") ~> At(h, "idle")

\* The inductive invariant.  A thread that drives a start is alone with its
\* row, which is undecided, and its position bounds the daemon's:
HandlerOK(h) ==
  LET s  == handler[h].sid
      pc == handler[h].pc
  IN IF pc = "idle" THEN s = NoRow ELSE
       /\ s \in Minted
       /\ starts[s].state = "starting"
       /\ pc \in {"reserved", "picked", "assigned"} => daemon[s].pc = "none"
       /\ pc = "failing" => daemon[s].pc \in {"none", "err"}
       /\ pc = "committing" => daemon[s].pc = "ok"
       /\ pc \in {"picked", "assigned", "sent", "committing"} => handler[h].epoch \in Epochs
       /\ pc \in {"assigned", "sent", "committing"} => starts[s].epoch = handler[h].epoch
       /\ pc \in {"reserved", "picked"} => starts[s].epoch = NoEpoch
HandlerInv ==
  /\ \A h \in Handlers : HandlerOK(h)
  /\ \A h, g \in Handlers : ~At(h, "idle") /\ handler[h].sid = handler[g].sid => h = g

\* The daemon's position bounds the worker and the session row:
DaemonInv ==
  \A s \in Sids :
    /\ daemon[s].pc # "none" =>
         s \in Minted /\ daemon[s].epoch \in Epochs /\ starts[s].epoch = daemon[s].epoch
    /\ daemon[s].pc \notin {"rollback", "ok", "err"} => worker[s] = "none"
    /\ daemon[s].pc \in {"rollback", "err"} => worker[s] # "running"
    /\ daemon[s].pc = "ok" => worker[s] # "none" /\ s \in sessions
    /\ daemon[s].pc \in {"created", "owned"} => s \in sessions
    /\ s \in sessions => daemon[s].pc \in {"created", "owned", "rollback", "ok", "err"}

\* A verdict in the ledger bounds the daemon's position, and keys are unique:
LedgerInv ==
  /\ \A s \in Minted :
       /\ starts[s].state = "failed" => daemon[s].pc \in {"none", "err"} /\ s \notin sessions
       /\ starts[s].state = "started" => daemon[s].pc = "ok"
  /\ \A s, t \in Minted : starts[s].key = starts[t].key => s = t

\* And an answer that was given stays true:
AnswerInv ==
  \A a \in answers :
    /\ a.sid \in Minted /\ starts[a.sid].key = a.key
    /\ a.status = "started" => starts[a.sid].state = "started"
    /\ a.status = "failed" => /\ daemon[a.sid].pc \in {"none", "err"}
                              /\ \A h \in Handlers : At(h, "idle") \/ handler[h].sid # a.sid

IInv == TypeOK /\ HandlerInv /\ DaemonInv /\ LedgerInv /\ AnswerInv

KeyOf   == [s \in Sids |-> IF starts[s] = NoRow THEN NoKey ELSE starts[s].key]
Outcome == [s \in Sids |-> IF starts[s] = NoRow THEN "free"
                           ELSE IF starts[s].state = "starting" THEN "pending"
                           ELSE starts[s].state]
Abstract == INSTANCE StartOnce WITH keyOf <- KeyOf, outcome <- Outcome, run <- worker

\* The start path implements StartOnce: one claim per key, one worker per
\* claim, a verdict that is given once and true.
ImplementsStartOnce == Abstract!Spec
=============================================================================
