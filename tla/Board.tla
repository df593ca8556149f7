-------------------------------- MODULE Board --------------------------------
(***************************************************************************)
(* How an owner's client learns of changes: the router's board read        *)
(* (router/board.py) and orchestration wait (router/wait.py) with their    *)
(* vector cursor (nelix_contracts/cursor.py), over the ring of the active  *)
(* daemon and the terminal results in the store.  One client, one          *)
(* orchestration; every other owner only makes noise.                      *)
(*                                                                         *)
(* A handler of the router is one step per call it makes of the registry,  *)
(* the daemon or the store.  The archive epoch is minted with the router's *)
(* epoch, so the comparison of the router epochs decides for both.  A      *)
(* daemon that was replaced is not modelled further: no new wait gets to   *)
(* it.                                                                     *)
(***************************************************************************)
EXTENDS EventRing

CONSTANTS Me,                     \* the owner of the client
          MaxEpochs, MaxFaults,   \* bounds of the model: daemons, faults
          MaxResults              \* and results of the owner

ASSUME BoardAssumption ==
  Me \in Owners /\ MaxEpochs \in Nat \ {0} /\ MaxFaults \in Nat /\ MaxResults \in Nat

VARIABLES
  rows,      \* rows[s]: the row in the table terminal of a session of the owner
  boardSeq,  \* the owner's row in owner_board_seq
  life,      \* life[s]: where session s is on its way
  daemon,    \* the last daemon that was spawned
  router,    \* the router: its epoch, its topology revision, the epoch of _active
  client,    \* the client's request and what it knows; passed is history
  faults     \* how many faults happened

boardVars == <<ringVars, rows, boardSeq, life, daemon, router, client, faults>>

Mine   == {s \in Sessions : OwnerOf[s] = Me}
Ledger == {s \in Mine : life[s] # "new"}       \* sessions_for_orchestration
OnBoard == {s \in Mine : rows[s] = "on"}       \* list_terminal

\* A position: the epoch of the daemon and a seq.  split is history: a daemon
\* was installed between the two reads of the registry that the board makes.
Cursor   == [re : Nat, topo : Nat, pos : [epoch : 0..MaxEpochs, seq : Nat],
             arch : [set : BOOLEAN, seq : Nat], split : BOOLEAN]
NoPos    == [epoch |-> 0, seq |-> 0]
NoArch   == [set |-> FALSE, seq |-> 0]
NoCursor == [re |-> 0, topo |-> 0, pos |-> NoPos, arch |-> NoArch, split |-> FALSE]

Pcs == {"idle", "topology", "status", "snapshot", "archive",
        "active", "now", "start", "loop", "again", "forward", "daemon"}

BoardTypeOK ==
  /\ RingTypeOK
  /\ rows \in [Mine -> {"none", "on", "acked", "expired"}]
  /\ boardSeq \in Nat
  /\ life \in [Sessions -> {"new", "live", "ending", "ended", "forgotten", "lost"}]
  /\ daemon \in [epoch : 0..MaxEpochs, up : BOOLEAN]
  /\ router \in [epoch : Nat, topo : Nat, active : 0..MaxEpochs]
  /\ client \in [pc : Pcs, gen : 0..MaxEpochs, dirty : BOOLEAN, whole : BOOLEAN,
                 cur : Cursor, new : Cursor, scope : SUBSET Mine, snap : SUBSET (1..MaxSeq),
                 seen : SUBSET (1..MaxSeq), passed : SUBSET (1..MaxSeq), view : SUBSET Mine]
  /\ faults \in 0..MaxFaults

BoardInit ==
  /\ RingEmpty
  /\ rows = [s \in Mine |-> "none"] /\ boardSeq = 0
  /\ life = [s \in Sessions |-> "new"]
  /\ daemon = [epoch |-> 0, up |-> FALSE]
  /\ router = [epoch |-> 1, topo |-> 1, active |-> 0]
  /\ client = [pc |-> "idle", gen |-> 0, dirty |-> TRUE, whole |-> TRUE, cur |-> NoCursor,
               new |-> NoCursor, scope |-> {}, snap |-> {}, seen |-> {}, passed |-> {},
               view |-> {}]
  /\ faults = 0

Fault == faults < MaxFaults /\ faults' = faults + 1
Fine  == UNCHANGED faults

Serving == daemon.up /\ router.active = daemon.epoch
Live(s) == life[s] = "live" /\ daemon.up

-----------------------------------------------------------------------------
(* Daemons, sessions and results                                           *)

\* active() of a start or a wait, while no handle is installed: the daemon of
\* the generation, if one still runs, is reaped and another one spawned; its
\* installation bumps the topology.  The sessions of the old one are lost.
Minted ==
  /\ router.active = 0 /\ daemon.epoch < MaxEpochs
  /\ daemon' = [epoch |-> daemon.epoch + 1, up |-> TRUE]
  /\ router' = [router EXCEPT !.topo = @ + 1, !.active = daemon.epoch + 1]
  /\ life' = [s \in Sessions |-> IF life[s] \in {"live", "ending"} THEN "lost" ELSE life[s]]
  /\ log' = <<>> /\ kept' = {} /\ high' = [s \in Sessions |-> 0] /\ cached' = {}
  /\ decision' = [s \in Sessions |-> 0] /\ poll' = Calm

Mint ==
  /\ Minted
  /\ client' = [client EXCEPT !.seen = {}, !.snap = {}, !.passed = {}]
  /\ UNCHANGED <<rows, boardSeq>> /\ Fine

\* A start that was driven to the active daemon.
Start(s) ==
  /\ life[s] = "new" /\ Serving
  /\ life' = [life EXCEPT ![s] = "live"]
  /\ UNCHANGED <<ringVars, rows, boardSeq, daemon, router, client>> /\ Fine

\* To a cursor one event is like another.
Wakes(s) ==
  /\ Live(s)
  /\ PublishNote(s)
  /\ UNCHANGED <<rows, boardSeq, life, daemon, router, client>> /\ Fine

\* Mutant: a result that leaves the board does not move board_seq.
MarkSilently(S, to) ==
  /\ rows' = [s \in Mine |-> IF s \in S THEN to ELSE rows[s]]
  /\ boardSeq' = boardSeq + IF to = "on" THEN 1 ELSE 0

\* One transaction: the rows, and _bump_board_seq once for their owner.
Mark(S, to) ==
  /\ rows' = [s \in Mine |-> IF s \in S THEN to ELSE rows[s]]
  /\ boardSeq' = boardSeq + 1

\* No result yet, within the bound.
CanPut(s) == rows[s] = "none" /\ Cardinality({x \in Mine : rows[x] # "none"}) < MaxResults

\* Mutant: the record is left for later.
PersistsNot(s) ==
  /\ Live(s)
  /\ life' = [life EXCEPT ![s] = "ending"]
  /\ UNCHANGED <<ringVars, rows, boardSeq, daemon, router, client>> /\ Fine

\* _finish_publish: put_terminal before the event that tells of it.
Persist(s) ==
  /\ Live(s) /\ CanPut(s)
  /\ life' = [life EXCEPT ![s] = "ending"]
  /\ Mark({s}, "on")
  /\ UNCHANGED <<ringVars, daemon, router, client>> /\ Fine

TellsEnd(s) ==
  /\ life[s] = "ending" /\ daemon.up
  /\ Publish(s, 0, FALSE, TRUE, 0)
  /\ life' = [life EXCEPT ![s] = "ended"]
  /\ UNCHANGED <<decision, rows, boardSeq, daemon, router, client>> /\ Fine

\* The operator's crash reconciliation writes the result of a lost session.
PutLost(s) ==
  /\ life[s] = "lost" /\ CanPut(s)
  /\ Mark({s}, "on")
  /\ UNCHANGED <<ringVars, life, daemon, router, client>> /\ Fine

\* ack_terminal: an expired result is refused, a repeated ack changes nothing.
Ack(s) ==
  /\ rows[s] = "on"
  /\ Mark({s}, "acked")
  /\ UNCHANGED <<ringVars, life, daemon, router, client>> /\ Fine

\* prune_terminal: some results that are on a board, by age or by count.
Prune ==
  /\ \E S \in (SUBSET OnBoard) \ {{}} : Mark(S, "expired")
  /\ UNCHANGED <<ringVars, life, daemon, router, client>> /\ Fine

\* The request is over: its local variables are gone.
Over(c) == [c EXCEPT !.pc = "idle", !.gen = 0, !.whole = TRUE, !.new = NoCursor,
                     !.scope = {}, !.snap = {}]

DaemonDies ==
  /\ daemon.up /\ Fault
  /\ daemon' = [daemon EXCEPT !.up = FALSE]
  /\ life' = [s \in Sessions |-> IF life[s] \in {"live", "ending"} THEN "lost" ELSE life[s]]
  /\ poll' = Calm
  /\ UNCHANGED <<log, kept, high, cached, decision, rows, boardSeq, router, client>>

\* The new router adopts a daemon that runs, unless its probe fails.  The
\* client's request ends with a connection error.
RouterRestarts ==
  /\ Fault
  /\ \E a \in IF daemon.up THEN {0, daemon.epoch} ELSE {0} :
       router' = [epoch |-> router.epoch + 1, topo |-> 1, active |-> a]
  /\ client' = Over(client)
  /\ poll' = Calm
  /\ UNCHANGED <<log, kept, high, cached, decision, rows, boardSeq, life, daemon>>

-----------------------------------------------------------------------------
(* GET /status without a session: the board                                *)

At(pc)     == client.pc = pc
Others     == <<rows, boardSeq, daemon, router>>
Work(new, pc) == client' = [client EXCEPT !.new = new, !.pc = pc]

\* History: events before the one that is delivered, of sessions that started
\* after the wait had read the ledger.  No cursor leads back to them.
Outside(seen) ==
  {n \in DOMAIN log : /\ n > client.new.pos.seq /\ \E m \in seen : n < m
                      /\ log[n].sid \in Ledger \ client.scope}

Gives(reply) ==
  client' = Over([client EXCEPT !.dirty = @ \/ reply.dirty, !.cur = reply.cur,
                                !.seen = @ \cup reply.seen,
                                !.passed = @ \cup Outside(reply.seen)])

\* registry.generations(discover=True).  Discovery never installs a handle:
\* it inserts the epoch that the daemon reports, whose row already exists.
ReadBoard ==
  /\ At("idle")
  /\ client' = [client EXCEPT !.pc = "topology", !.gen = router.active, !.whole = TRUE,
                              !.snap = {}]
  /\ UNCHANGED <<ringVars, life, Others>> /\ Fine

\* new_cursor with the topology revision of this moment
ReadTopology ==
  /\ At("topology")
  /\ Work([NoCursor EXCEPT !.re = router.epoch, !.topo = router.topo,
                           !.split = client.gen # router.active],
          IF client.gen = 0 THEN "archive" ELSE "status")
  /\ UNCHANGED <<ringVars, life, Others>> /\ Fine

\* The daemon that the handle names runs and has answered.
Reached == daemon.up /\ client.gen = daemon.epoch

\* A reply that was lost or that is no healthy board: board_incomplete.
Unreached(pc) ==
  /\ \/ ~Reached /\ Fine
     \/ Reached /\ Fault
  /\ client' = [client EXCEPT !.whole = FALSE, !.pc = pc]
  /\ UNCHANGED <<ringVars, life, Others>>

\* The sweep of manager.status: results whose time is over are forgotten.
Sweep ==
  \E S \in SUBSET {s \in Sessions : life[s] = "ended"} :
    /\ Forget(S)
    /\ life' = [s \in Sessions |-> IF s \in S THEN "forgotten" ELSE life[s]]

\* manager.status: the cursor first, then, outside the manager's lock, the
\* snapshots of the sessions.
Status ==
  /\ At("status") /\ Reached
  /\ client' = [client EXCEPT !.new.pos = [epoch |-> client.gen, seq |-> LatestSeq],
                              !.pc = "snapshot"]
  /\ Sweep
  /\ UNCHANGED Others /\ Fine

StatusFails == At("status") /\ Unreached("archive")

Snapshot ==
  /\ At("snapshot") /\ Reached
  /\ client' = [client EXCEPT !.snap = DOMAIN log, !.pc = "archive"]
  /\ UNCHANGED <<ringVars, life, Others>> /\ Fine

SnapshotFails ==
  /\ At("snapshot")
  /\ \/ ~Reached /\ Fine
     \/ Reached /\ Fault
  /\ client' = [client EXCEPT !.whole = FALSE, !.new.pos = NoPos, !.pc = "archive"]
  /\ UNCHANGED <<ringVars, life, Others>>

\* read_board_snapshot: board_seq and rows in one transaction; then the reply.
ReadArchive ==
  /\ At("archive")
  /\ \/ /\ client' = Over([client EXCEPT
             !.dirty = ~client.whole, !.view = OnBoard, !.seen = @ \cup client.snap,
             !.cur = [client.new EXCEPT !.arch = [set |-> TRUE, seq |-> boardSeq]]])
        /\ Fine
     \/ /\ Fault                                          \* archive_incomplete
        /\ client' = Over([client EXCEPT !.dirty = TRUE, !.cur = client.new,
                                         !.seen = @ \cup client.snap])
  /\ UNCHANGED <<ringVars, life, Others>>

-----------------------------------------------------------------------------
(* GET /wait                                                               *)

Resync == client' = Over([client EXCEPT !.dirty = TRUE])   \* a marker, no cursor
Raises == client' = Over(client)                           \* GENERATION_UNAVAILABLE

Decodes(cur) == cur.re = router.epoch /\ cur.topo = router.topo

\* The ledger, then decode: an empty orchestration, cursor_expired and
\* board_changed are markers.
Wait ==
  /\ At("idle") /\ client.cur # NoCursor
  /\ IF Ledger = {} THEN Raises
     ELSE IF Decodes(client.cur)
          THEN client' = [client EXCEPT !.new = client.cur, !.scope = Ledger, !.pc = "active"]
          ELSE Resync
  /\ UNCHANGED <<ringVars, life, Others>> /\ Fine

\* What to do with the position for this generation, whose daemon is e.
Positioned(pos, e) ==
  IF pos.epoch = 0 THEN "now" ELSE IF pos.epoch = e THEN "start" ELSE "expired"

\* active(): the handle that is installed, verified, or a new daemon.
WaitActive ==
  /\ At("active")
  /\ \/ /\ Serving
        /\ LET to == Positioned(client.new.pos, router.active)
           IN  IF to = "expired" THEN Resync
               ELSE client' = [client EXCEPT !.gen = router.active, !.pc = to]
        /\ UNCHANGED <<ringVars, life, daemon, router>>
     \/ /\ router.active # 0 /\ ~Serving
        /\ Raises
        /\ UNCHANGED <<ringVars, life, daemon, router>>
     \/ /\ Minted
        /\ LET to == Positioned(client.new.pos, daemon.epoch + 1)
               next == [client EXCEPT !.seen = {}, !.snap = {}, !.passed = {}]
           IN  client' = IF to = "expired" THEN Over([next EXCEPT !.dirty = TRUE])
                         ELSE [next EXCEPT !.gen = daemon.epoch + 1, !.pc = to]
  /\ UNCHANGED <<rows, boardSeq>> /\ Fine

\* History: what a wait goes past that starts from now although the topology
\* of its cursor is the one with the daemon.
Behind ==
  IF client.new.split THEN {n \in DOMAIN log : log[n].sid \in Ledger} ELSE {}

\* _current_seq: no position for this generation means from now on.
WaitNow ==
  /\ At("now")
  /\ \/ /\ Reached
        /\ client' = [client EXCEPT !.new.pos = [epoch |-> client.gen, seq |-> LatestSeq],
                                    !.passed = @ \cup Behind, !.pc = "start"]
        /\ Sweep
     \/ /\ ~Reached
        /\ Raises
        /\ UNCHANGED <<ringVars, life>>
  /\ UNCHANGED Others /\ Fine

\* The archive position: the cursor's, or the board_seq of now; without one,
\* after a failed read, there is a single forward and no archive arm.
WaitStart ==
  /\ At("start")
  /\ \/ /\ client.new.arch.set
        /\ Work(client.new, "loop") /\ Fine
     \/ /\ ~client.new.arch.set
        /\ Work([client.new EXCEPT !.arch = [set |-> TRUE, seq |-> boardSeq]], "loop")
        /\ Fine
     \/ /\ ~client.new.arch.set /\ Fault
        /\ Work(client.new, "forward")
  /\ UNCHANGED <<ringVars, life, Others>>

\* One turn of the multiplexed wait: the archive first.  The window is longer
\* than one turn.
WaitLoop ==
  /\ At("loop") \/ At("again")
  /\ \/ /\ boardSeq > client.new.arch.seq
        /\ Gives([dirty |-> TRUE, seen |-> {},
                  cur |-> [client.new EXCEPT !.arch.seq = boardSeq]])
        /\ Fine
     \/ /\ boardSeq = client.new.arch.seq
        /\ Work(client.new, "forward") /\ Fine
     \/ /\ Fault                                          \* the poll failed
        /\ Work(client.new, "forward")
  /\ UNCHANGED <<ringVars, life, Others>>

\* Nothing in the whole window: the cursor as it is.
WindowOver ==
  /\ At("again")
  /\ \/ boardSeq = client.new.arch.seq /\ Fine
     \/ Fault                                             \* the poll failed
  /\ Gives([dirty |-> FALSE, seen |-> {}, cur |-> client.new])
  /\ UNCHANGED <<ringVars, life, Others>>

Back == IF client.new.arch.set THEN Work(client.new, "again") ELSE Raises

\* The daemon's /wait, on the sessions whose owner.json names this owner.
Forward ==
  /\ At("forward")
  /\ \/ /\ Reached
        /\ Arm(client.scope, client.new.pos.seq)
        /\ Work(client.new, "daemon")
        /\ Fine
     \/ /\ ~Reached /\ Back /\ Fine
        /\ UNCHANGED poll
     \/ /\ Reached /\ Fault /\ Back
        /\ UNCHANGED poll
  /\ UNCHANGED <<log, kept, high, cached, decision, life, Others>>

\* The daemon answers: an event, expiry, or nothing when the time is over.
Deliver ==
  /\ At("daemon") /\ poll.st \in {"awake", "late"} /\ Reached
  /\ LET r == Look(poll.after, poll.scope)
     IN  CASE r.what = "expired" -> Resync
           [] r.what = "event"   -> Gives([dirty |-> FALSE, seen |-> {r.seq},
                                           cur |-> [client.new EXCEPT !.pos.seq = r.seq]])
           [] r.what = "nothing" ->
                IF client.new.arch.set THEN Work(client.new, "again")
                ELSE Gives([dirty |-> FALSE, seen |-> {}, cur |-> client.new])
  /\ poll' = Calm
  /\ UNCHANGED <<log, kept, high, cached, decision, life, Others>> /\ Fine

\* The condition's timeout: the thread looks once more, and does not sleep.
TimesOut ==
  /\ poll.st = "asleep"
  /\ poll' = [poll EXCEPT !.st = "late"]
  /\ UNCHANGED <<log, kept, high, cached, decision, life, Others, client>> /\ Fine

Sleeps ==
  /\ Sleep
  /\ UNCHANGED <<life, Others, client>> /\ Fine

WaitBroken ==
  /\ At("daemon") /\ poll.st = "none"
  /\ Back
  /\ UNCHANGED <<ringVars, life, Others>> /\ Fine

-----------------------------------------------------------------------------
ClientNext ==
  \/ ReadBoard \/ ReadTopology \/ Status \/ StatusFails \/ Snapshot \/ SnapshotFails
  \/ ReadArchive
  \/ Wait \/ WaitActive \/ WaitNow \/ WaitStart \/ WaitLoop \/ WindowOver \/ Forward \/ Deliver
  \/ TimesOut \/ Sleeps \/ WaitBroken

WorldNext ==
  \/ Mint \/ DaemonDies \/ RouterRestarts \/ Prune
  \/ \E s \in Sessions : Start(s) \/ Wakes(s)
  \/ \E s \in Mine : Persist(s) \/ TellsEnd(s) \/ PutLost(s) \/ Ack(s)

BoardNext == ClientNext \/ WorldNext

\* The client comes back with its cursor, reads the board when it was told
\* to, and each of its requests is served to its end: time passes, so a window ends.
BoardSpec ==
  /\ BoardInit /\ [][BoardNext]_boardVars
  /\ SF_boardVars(client.dirty /\ ReadBoard) /\ WF_boardVars(~client.dirty /\ Wait)
  /\ WF_boardVars(~At("idle") /\ ClientNext) /\ SF_boardVars(WindowOver)

-----------------------------------------------------------------------------
(* What the client may rely on                                             *)

\* The client's cursor was minted by this router for this daemon.
Current == /\ Decodes(client.cur) /\ client.cur.arch.set
           /\ client.cur.pos.epoch = daemon.epoch /\ Serving

\* Whatever happened that this client may want to know, in its sessions.
Unknown == {n \in DOMAIN log : log[n].sid \in Ledger /\ ~log[n].gone} \ client.seen

\* No silent gap: when a wait with the client's cursor would block, and nobody
\* told the client to read the board again, it has seen every event of its
\* sessions and every result that is on its board.  Two sets of events are
\* excepted, and nothing else (passed):
\*  - of a session that started during a wait: the wait keeps the sessions it
\*    began with (router/wait.py:128) and its cursor may pass the new one's;
\*  - before a wait from now (wait.py:158-164) whose board was split: it read no
\*    handle (board.py:149), a daemon was installed, it read the topology (150).
\*    cursor.py:82 says such a cursor starts "from that generation's beginning".
NoSilentGap ==
  /\ At("idle") /\ ~client.dirty /\ Current
  /\ Look(client.cur.pos.seq, Ledger).what = "nothing"
  /\ client.cur.arch.seq = boardSeq
  => Unknown \subseteq client.passed /\ client.view = OnBoard

\* Whoever hears that a session ended finds its result in the store.
EndIsBacked == \A n \in kept : log[n].last => rows[log[n].sid] # "none"

\* If the daemon stays in reach, the client gets to know everything but the
\* events that NoSilentGap excepts.
Informed ==
  <>[]Serving => <>[](Unknown \subseteq client.passed /\ client.view = OnBoard)
=============================================================================
