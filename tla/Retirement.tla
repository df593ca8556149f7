----------------------------- MODULE Retirement -----------------------------
(***************************************************************************)
(* How a generation is retired: the operator's retire and its crash        *)
(* reconciliation (router/operator.py), the daemon's side of it            *)
(* (daemon/manager.py: quiescence, obligations, certify_epoch), what a     *)
(* session owes when it ends (daemon/session.py), the records of executor  *)
(* processes (daemon/reaper.py) and the oracle of nelix_contracts.  It     *)
(* composes these with the daemons, rows and crashes of Generations.       *)
(***************************************************************************)
EXTENDS Generations, FiniteSetsExt

CONSTANTS Sessions

VARIABLES
  sess,       \* sess[s]: a session, its executor and its rows
  confirmed   \* confirmed[e]: generation_progress.confirmed_high_water of e

sessVars == <<sess, confirmed>>
retVars  == <<genVars, sessVars>>

\* How far a session is.  In its daemon: admitted, its row created, executor
\* spawned, on record (running), about to be persisted (ending), persisted or
\* failed to, its record gone (cleaned, unsaved), slot freed (done, or owing:
\* stored late and the obligation kept), or never freed (stuck).  With its
\* daemon gone: not cleaned up after (orphan), or cleaned up after (left).
Recorded == {"running", "ending", "persisted", "failed", "orphan"}
CleanedUp == {"cleaned", "unsaved", "owing", "stuck", "done", "left"}
Stage == {"none", "admitted", "row", "spawned", "void"} \cup Recorded \cup CleanedUp

\* leader: of the executor's process group, until the session's own daemon is
\* through with it; killed: it was sent a SIGKILL that nobody waited for.
\* rest: nobody has seen that the whole group is gone.  record: child.json.
Leader == {"none", "runs", "killed"}

NoSession == [stage |-> "none", epoch |-> NoEpoch, leader |-> "none", rest |-> FALSE,
              record |-> FALSE, seq |-> 0]

RetTypeOK ==
  /\ GenTypeOK
  /\ sess \in [Sessions -> [stage : Stage, epoch : Epochs \cup {NoEpoch}, leader : Leader,
                            rest : BOOLEAN, record : BOOLEAN, seq : 0..Cardinality(Sessions)]]
  /\ confirmed \in [Epochs -> 0..Cardinality(Sessions)]

RetInit ==
  /\ GenInit
  /\ sess = [s \in Sessions |-> NoSession]
  /\ confirmed = [e \in Epochs |-> 0]

SessionsOf(e) == {s \in Sessions : sess[s].epoch = e}
Alive(r)      == r.leader # "none"
UpFor(s)      == sess[s].epoch # NoEpoch /\ daemon[sess[s].epoch] = "up"
InStage(s, stages) == UpFor(s) /\ sess[s].stage \in stages

\* SessionManager._sessions, _terminal_obligations and _terminal_pending of
\* the daemon of e: gone with its process.
Live(e) == {s \in SessionsOf(e) : InStage(s, Stage \ {"none", "owing", "done", "void"})}
Owes(e) == {s \in SessionsOf(e) :
              InStage(s, {"admitted", "row", "spawned", "running", "ending", "failed", "unsaved",
                          "owing", "stuck"})}
Pending(e) == {s \in SessionsOf(e) :
                 InStage(s, {"persisted", "cleaned", "done"}) /\ sess[s].seq > confirmed[e]}

\* The store: sessions with a row and no terminal; the sequence numbers in use.
Outstanding(e) == {s \in SessionsOf(e) :
                     sess[s].stage \notin {"none", "admitted", "void"} /\ sess[s].seq = 0}
Seqs(e)        == {sess[s].seq : s \in SessionsOf(e)} \ {0}
HighWater(e)   == Max(Seqs(e) \cup {0})

\* put_terminal: the next number of the epoch, once.
Terminal(s) == [sess[s] EXCEPT !.seq = IF @ = 0 THEN HighWater(sess[s].epoch) + 1 ELSE @]

-----------------------------------------------------------------------------
(* Sessions in a daemon                                                    *)

\* Mutant: the flag read before the lock is trusted.
QuiescentStale(e) == FALSE

\* _check_quiescent, read from the store under the manager's lock.
Quiescent(e) == epochs[e].proc = "dead" \/ epochs[e].ret # "open"

\* The commit of _spawn: the router sends starts to epochs that serve.
Admit(s, e) ==
  /\ sess[s].stage = "none"
  /\ daemon[e] = "up" /\ epochs[e].meta
  /\ ~Quiescent(e)
  /\ sess' = [sess EXCEPT ![s] = [NoSession EXCEPT !.stage = "admitted", !.epoch = e]]
  /\ UNCHANGED <<genVars, confirmed>>

Step(s, from, to, f(_)) ==
  /\ InStage(s, from)
  /\ sess' = [sess EXCEPT ![s] = f([@ EXCEPT !.stage = to])]
  /\ UNCHANGED <<genVars, confirmed>>
Same(r) == r

CreateRow(s)   == Step(s, {"admitted"}, "row", Same)
SpawnChild(s)  == Step(s, {"row"}, "spawned", LAMBDA r : [r EXCEPT !.leader = "runs", !.rest = TRUE])
RecordChild(s) == Step(s, {"spawned"}, "running", LAMBDA r : [r EXCEPT !.record = TRUE])

\* The daemon lets go of the executor: whether its processes have ended is
\* not known, and from here on nobody looks.
LetGo(r) == [r EXCEPT !.leader = "none", !.record = FALSE]

\* A start that fails: the PTY is closed, which need not end the executor,
\* both rows are deleted, and the session leaves _sessions and
\* _terminal_obligations.
Rollback(s) == Step(s, {"admitted", "row", "spawned"}, "void", LetGo)

\* The monitor is through; _persist_terminal_for_publish asks first whether
\* the epoch is certified, and refuses.
End(s) ==
  Step(s, {"running"},
       IF epochs[sess[s].epoch].ret = "certified" THEN "failed" ELSE "ending", Same)

Persist(s) ==
  /\ InStage(s, {"ending"})
  /\ sess' = [sess EXCEPT ![s] = [Terminal(s) EXCEPT !.stage = "persisted"]]
  /\ UNCHANGED <<genVars, confirmed>>

PersistFails(s) == "writes" \in Faults /\ Step(s, {"ending"}, "failed", Same)

\* _finish_cleanup: kill_group, unless the monitor takes the leader for dead,
\* which it does when the PTY is closed or at its end; forget_child in any case.
\* Neither sees to it that the group is gone.
CleanUp(s)  == \/ Step(s, {"persisted"}, "cleaned", LetGo)
               \/ Step(s, {"failed"}, "unsaved", LetGo)

\* _free_slot: the slot; a session that was not persisted is stored now, and
\* its obligation stays.
FreeSlot(s) ==
  \/ Step(s, {"cleaned"}, "done", Same)
  \/ /\ InStage(s, {"unsaved"})
     /\ epochs[sess[s].epoch].ret # "certified"
     /\ sess' = [sess EXCEPT ![s] = [Terminal(s) EXCEPT !.stage = "owing"]]
     /\ UNCHANGED <<genVars, confirmed>>
  \/ "writes" \in Faults /\ Step(s, {"unsaved"}, "stuck", Same)

\* The leader ends.
ChildExits(s) ==
  /\ Alive(sess[s])
  /\ sess' = [sess EXCEPT ![s].leader = "none"]
  /\ UNCHANGED <<genVars, confirmed>>

SessionStep(s) ==
  \/ \E e \in Epochs : Admit(s, e)
  \/ CreateRow(s) \/ SpawnChild(s) \/ RecordChild(s) \/ Rollback(s)
  \/ End(s) \/ Persist(s) \/ PersistFails(s) \/ CleanUp(s) \/ FreeSlot(s) \/ ChildExits(s)

-----------------------------------------------------------------------------
(* What the steps of Generations do to sessions                            *)

\* kill_group: a SIGTERM, and it returns once the leader is gone, whatever
\* else of the group runs on; after the grace a SIGKILL that it does not wait for.
KillGroup(r, obeys) ==
  IF Alive(r) THEN [r EXCEPT !.leader = IF obeys THEN "none" ELSE "killed"] ELSE r

\* Mutants: whether the owner runs is not asked; the group is not killed.
ReconciledAll(r, own, obeys) ==
  IF r.record THEN [KillGroup(r, obeys) EXCEPT !.record = FALSE] ELSE r
ForgetsOnly(r, own, obeys) ==
  IF r.record /\ ~(own /\ Alive(r)) THEN [r EXCEPT !.record = FALSE] ELSE r

\* reconcile_orphans in a daemon that starts, over the records of every
\* generation: the executor of a dead daemon is killed and forgotten, and so
\* is the record of a leader that is dead.  own: the session's daemon runs.
Reconciled(r, own, obeys) ==
  IF r.record /\ ~(own /\ Alive(r)) THEN [KillGroup(r, obeys) EXCEPT !.record = FALSE] ELSE r

\* What a daemon knew of a session goes with its process; the rows, the
\* record and the executor stay.
Remembered(r, own) ==
  IF own THEN r
  ELSE [r EXCEPT !.stage = IF @ \in Recorded THEN "orphan"
                           ELSE IF @ \in CleanedUp THEN "left" ELSE @]

Boots == {e \in Epochs : daemon[e] = "none" /\ daemon'[e] # "none"}

\* A daemon that serves has reconciled; one that dies while it starts may not
\* have come to it.
SessionsFollow ==
  LET own(s) == sess[s].epoch # NoEpoch /\ daemon'[sess[s].epoch] = "up"
      rem(s) == Remembered(sess[s], own(s)) IN
  /\ \/ /\ \A e \in Boots : daemon'[e] = "gone"
        /\ sess' = [s \in Sessions |-> rem(s)]
     \/ /\ Boots # {}
        /\ \E obeys \in SUBSET {s \in Sessions : Alive(sess[s]) /\ sess[s].record} :
             sess' = [s \in Sessions |-> Reconciled(rem(s), own(s), s \in obeys)]
  /\ UNCHANGED confirmed

-----------------------------------------------------------------------------
(* retire                                                                  *)

Blocked(t) ==
  /\ thread' = [thread EXCEPT ![t] = Idle]
  /\ opLock' = NoThread

\* retire reads the generation and its epochs before it takes the lock.
RetireBegin(t, g) ==
  LET todo  == {e \in EpochsOf(g) : epochs[e].ret # "certified"}
      c     == gens[g].current
      clean == IF c \in todo /\ epochs[c].proc # "dead" THEN c ELSE NoEpoch
  IN
  /\ At(t, "idle") /\ t \notin Starters
  /\ gens[g].life \in {"active", "draining", "retiring"}
  /\ EpochsOf(g) # {}
  /\ thread' = [thread EXCEPT ![t] =
       [Idle EXCEPT !.kind = "retire", !.pc = "lock", !.gen = g,
                    !.crash = {e \in todo : epochs[e].proc = "dead"}, !.clean = clean,
                    !.open = clean # NoEpoch /\ epochs[clean].ret = "open"]]
  /\ UNCHANGED <<rows, daemon, active, regLock, opLock, router, sessVars>>

\* The lock is not waited for.
RetireLock(t) ==
  /\ At(t, "lock")
  /\ \/ opLock = NoThread /\ opLock' = t /\ Goto(t, "certify")
     \/ opLock # NoThread /\ thread' = [thread EXCEPT ![t] = Idle] /\ UNCHANGED opLock
  /\ UNCHANGED <<rows, daemon, active, regLock, router, sessVars>>

\* Mutant: an epoch whose daemon was never recorded counts as dead.
ProvableUnrecorded(e) == epochs[e].proc = "dead"

\* _crash_reconcile_epoch needs a recorded daemon that is provably dead, and
\* closes admission first.
Provable(e) == epochs[e].proc = "dead" /\ epochs[e].meta /\ daemon[e] # "up"

CrashBegin(t) ==
  /\ At(t, "certify")
  /\ \E e \in thread[t].crash :
       \/ /\ Provable(e)
          /\ epochs' = [epochs EXCEPT ![e].ret = IF @ = "open" THEN "quiescing" ELSE @]
          /\ thread' = [thread EXCEPT ![t].epoch = e, ![t].pc = "children"]
          /\ UNCHANGED opLock
       \/ /\ ~Provable(e)
          /\ Blocked(t)
          /\ UNCHANGED epochs
  /\ UNCHANGED <<gens, daemon, active, regLock, router, sessVars>>

\* Mutant: a session with no record is passed over.
ReapableAlways(s) == TRUE

Reapable(s) == sess[s].record

\* _reap_child_groups kills the groups one by one, up to a record that is
\* missing or a group that is still there.  Only if all are gone it goes on.
ReapChildren(t) ==
  /\ At(t, "children")
  /\ LET out      == Outstanding(thread[t].epoch)
         recorded == {s \in out : sess[s].record} IN
     \/ /\ \A s \in out : Reapable(s)
        /\ sess' = [s \in Sessions |-> IF s \in recorded
                                       THEN [sess[s] EXCEPT !.leader = "none", !.rest = FALSE]
                                       ELSE sess[s]]
        /\ Goto(t, "lose") /\ UNCHANGED opLock
     \/ \E dead \in SUBSET recorded :
          /\ sess' = [s \in Sessions |-> IF s \in dead THEN [sess[s] EXCEPT !.leader = "none"]
                                         ELSE sess[s]]
          /\ Blocked(t)
  /\ UNCHANGED <<rows, daemon, active, regLock, router, confirmed>>

\* A generation_lost terminal for each of them; a failing store blocks.
LoseSession(t) ==
  /\ At(t, "lose")
  /\ \E s \in Outstanding(thread[t].epoch) :
       \/ sess' = [sess EXCEPT ![s] = Terminal(s)] /\ UNCHANGED <<thread, opLock>>
       \/ "writes" \in Faults /\ Blocked(t) /\ UNCHANGED sess
  /\ UNCHANGED <<rows, daemon, active, regLock, router, confirmed>>

Certified(e) == [epochs EXCEPT ![e].ret = "certified", ![e].final = HighWater(e)]

CrashCertify(t) ==
  LET e == thread[t].epoch IN
  /\ At(t, "lose") /\ Outstanding(e) = {}
  /\ epochs' = Certified(e)
  /\ thread' = [thread EXCEPT ![t].crash = @ \ {e}, ![t].pc = "certify"]
  /\ UNCHANGED <<gens, daemon, active, regLock, opLock, router, sessVars>>

\* _daemon_rpc knows only the registry's active generation.
Reachable(g) == active # NoEpoch /\ epochs[active].gen = g /\ daemon[active] = "up"

\* The write is unconditional but for the state read before the lock; the
\* daemon that is reached writes its own row too (begin_quiescence).
CleanBegin(t) ==
  LET c == thread[t].clean  g == thread[t].gen IN
  /\ At(t, "certify") /\ thread[t].crash = {} /\ c # NoEpoch
  /\ epochs' = [e \in Epochs |->
                  IF (e = c /\ thread[t].open) \/ (e = active /\ Reachable(g))
                  THEN [epochs[e] EXCEPT !.ret = "quiescing"] ELSE epochs[e]]
  /\ Goto(t, "resolve")
  /\ UNCHANGED <<gens, daemon, active, regLock, opLock, router, sessVars>>

\* _resolve_confirmed: up to the first gap.
Resolved(e) == Max({n \in 0..HighWater(e) : 1..n \subseteq Seqs(e)})

Resolve(t) ==
  LET c == thread[t].clean IN
  /\ At(t, "resolve")
  /\ confirmed' = [confirmed EXCEPT ![c] = Resolved(c)]
  /\ Goto(t, "status")
  /\ UNCHANGED <<rows, daemon, active, regLock, opLock, router, sess>>

CheckQuiesced(t) ==
  /\ At(t, "status")
  /\ \/ /\ Reachable(thread[t].gen)
        /\ Live(active) = {} /\ Owes(active) = {} /\ Pending(active) = {}
        /\ Goto(t, "rpc") /\ UNCHANGED opLock
     \/ /\ \/ ~Reachable(thread[t].gen)
           \/ Live(active) # {} \/ Owes(active) # {} \/ Pending(active) # {}
        /\ Blocked(t)
  /\ UNCHANGED <<rows, daemon, active, regLock, router, sessVars>>

Barrier(e) == Live(e) = {} /\ Owes(e) = {}

\* certify_epoch in the daemon; retire then asks the store, not the reply.
CertifyRpc(t) ==
  LET c == thread[t].clean
      certifies == Reachable(thread[t].gen) /\ active = c /\ Barrier(c) IN
  /\ At(t, "rpc")
  /\ epochs' = IF certifies THEN Certified(c) ELSE epochs
  /\ \/ epochs'[c].ret = "certified" /\ Goto(t, "final") /\ UNCHANGED opLock
     \/ epochs'[c].ret # "certified" /\ Blocked(t)
  /\ UNCHANGED <<gens, daemon, active, regLock, router, sessVars>>

ResolveAgain(t) ==
  LET c == thread[t].clean IN
  /\ At(t, "final")
  /\ confirmed' = [confirmed EXCEPT ![c] = Resolved(c)]
  /\ \/ Resolved(c) >= epochs[c].final /\ Goto(t, "reap") /\ UNCHANGED opLock
     \/ Resolved(c) < epochs[c].final /\ Blocked(t)
  /\ UNCHANGED <<rows, daemon, active, regLock, router, sess>>

NothingToCertify(t) ==
  /\ At(t, "certify") /\ thread[t].crash = {} /\ thread[t].clean = NoEpoch
  /\ Goto(t, "reap")
  /\ UNCHANGED <<rows, daemon, active, regLock, opLock, router, sessVars>>

OnRecord(g) == {e \in EpochsOf(g) : epochs[e].meta /\ epochs[e].proc # "dead"}

\* reap_holder, for each of them, refuses when another daemon holds the
\* generation's lock.
ReapDaemon(t) ==
  LET g == thread[t].gen  ours == OnRecord(g) IN
  /\ At(t, "reap")
  /\ \/ /\ ours # {} => Running(g) \subseteq ours
        /\ daemon' = [e \in Epochs |-> IF e \in ours /\ daemon[e] = "up" THEN "gone" ELSE daemon[e]]
        /\ Goto(t, "oracle") /\ UNCHANGED opLock
     \/ /\ ours # {} /\ ~(Running(g) \subseteq ours)
        /\ Blocked(t) /\ UNCHANGED daemon
  /\ SessionsFollow
  /\ UNCHANGED <<rows, active, regLock, router>>

\* generation_retirement_oracle_blockers, has_current_epoch aside
OracleClear(g) ==
  \A e \in EpochsOf(g) : epochs[e].ret = "certified" /\ confirmed'[e] >= epochs[e].final

Oracle(t) ==
  LET g == thread[t].gen IN
  /\ At(t, "oracle")
  /\ confirmed' = [e \in Epochs |-> IF e \in EpochsOf(g) THEN Resolved(e) ELSE confirmed[e]]
  /\ \/ OracleClear(g) /\ Goto(t, "clear") /\ UNCHANGED opLock
     \/ ~OracleClear(g) /\ Blocked(t)
  /\ UNCHANGED <<rows, daemon, active, regLock, router, sess>>

ClearCurrent(t) ==
  /\ At(t, "clear")
  /\ gens' = [gens EXCEPT ![thread[t].gen].current = NoEpoch]
  /\ Goto(t, "finish")
  /\ UNCHANGED <<epochs, daemon, active, regLock, opLock, router, sessVars>>

\* One write per transition of the lifecycle.
Finish(t) ==
  LET g == thread[t].gen
      next == [active |-> "draining", draining |-> "retiring", retiring |-> "retired"] IN
  /\ At(t, "finish")
  /\ \/ /\ gens[g].life \in DOMAIN next
        /\ gens' = [gens EXCEPT ![g].life = next[@]]
        /\ UNCHANGED <<thread, opLock>>
     \/ /\ gens[g].life \notin DOMAIN next
        /\ Blocked(t) /\ UNCHANGED gens
  /\ UNCHANGED <<epochs, daemon, active, regLock, router, sessVars>>

RetireStep(t) ==
  \/ \E g \in Gens : RetireBegin(t, g)
  \/ RetireLock(t) \/ CrashBegin(t) \/ ReapChildren(t) \/ LoseSession(t) \/ CrashCertify(t)
  \/ CleanBegin(t) \/ Resolve(t) \/ CheckQuiesced(t) \/ CertifyRpc(t) \/ ResolveAgain(t)
  \/ NothingToCertify(t) \/ ReapDaemon(t) \/ Oracle(t) \/ ClearCurrent(t) \/ Finish(t)

RetNext ==
  \/ GenNext /\ SessionsFollow
  \/ \E s \in Sessions : SessionStep(s)
  \/ \E t \in Threads : RetireStep(t)

RetSpec == RetInit /\ [][RetNext]_retVars

-----------------------------------------------------------------------------
(* Properties                                                              *)

\* A certificate is final: from then on the epoch owes no result, none of
\* its sessions is without one, and no number above its final mark is given
\* out (certify_epoch, _crash_reconcile_epoch; manager.py:1060 says a later
\* one "would invalidate final_high_water").
CertifiedIsFinal ==
  \A e \in Epochs : epochs[e].ret = "certified" =>
    /\ Outstanding(e) = {} /\ Owes(e) = {}
    /\ HighWater(e) = epochs[e].final

\* A retired generation is over: every epoch certified and confirmed, no
\* daemon of it runs, and every session that got a row has its result.
RetiredIsSettled ==
  \A g \in Gens : gens[g].life = "retired" =>
    /\ Running(g) = {}
    /\ \A e \in EpochsOf(g) :
         epochs[e].ret = "certified" /\ Outstanding(e) = {} /\ confirmed[e] >= HighWater(e)

\* No result is given up for lost while its executor may still run: a
\* session of a dead daemon gets its terminal only when its whole group has
\* been seen gone (_reap_child_groups, with killpg(pgid, 0)).
LostIsDead ==
  [][\A s \in Sessions :
       sess[s].seq = 0 /\ sess'[s].seq > 0 /\ ~UpFor(s) => ~Alive(sess[s]) /\ ~sess[s].rest]_retVars

\* Whatever outlives its daemon can be found: the leader of an executor that
\* was put on record, and that its daemon did not come to clean up after,
\* is on record for as long as it runs, unless it was sent a SIGKILL.  It
\* says nothing of the leader's descendants, nor of a session that was
\* cleaned up: _finish_cleanup forgets both.
RecordsAreKept ==
  \A s \in Sessions :
    sess[s].stage \in Recorded /\ sess[s].leader = "runs" => sess[s].record

\* An executor is its daemon's for as long as that daemon runs: no step of
\* the router, of the operator or of another daemon that starts kills it or
\* takes the record of a leader that runs (_should_reap, reconcile_orphans,
\* _crash_reconcile_epoch).
LeftToTheirDaemon ==
  [][genVars' # genVars =>
       \A s \in Sessions : UpFor(s) /\ UpFor(s)' =>
         /\ sess'[s].leader = sess[s].leader /\ sess'[s].rest = sess[s].rest
         /\ Alive(sess[s]) => sess'[s].record = sess[s].record]_retVars
=============================================================================
