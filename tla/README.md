# nelix: a TLA+ verification project

nelix runs coding CLIs (executors) in PTYs on behalf of several agents. A
*router* process accepts RPCs and owns what outlives a daemon: a durable start
ledger, a capacity account, the registry of generations. Each *generation* is
an installed build, served by a daemon process; one incarnation of that daemon
is an *epoch*. Several generations run side by side while one drains and the
next takes over. All of them share one SQLite store and one `sessions/`
directory.

This project models the parts where processes, threads and failures meet. It
follows a session from end to end: *starting a worker exactly once*, *never
using more slots than there are*, *writing an answer once and telling its
caller the truth*, *telling a client everything it should know*, and *never
retiring a generation that still owes something*.

    StartOnce.tla          what the start path promises its callers (abstract)
    StartPath.tla          router handler, ledger, daemon admission: /start, /restart
    StartPathProofs.tla    its theorems, with proofs
    LeaseService.tla       the router's capacity account
    LeaseServiceProofs.tla its theorems, with proofs
    LeaseProtocol.tla      the daemons as its clients, over LeaseService
    LeaseProtocolProofs.tla  its theorems, with proofs, over LeaseServiceProofs
    Generations.tla        registry, activation, spawning and adopting daemons
    GenerationsProofs.tla  its theorems, with proofs
    Retirement.tla         sessions, orphans and retire, over Generations
    RetirementProofs.tla   its theorems, with proofs, over GenerationsProofs
    EventRing.tla          the bounded event history of a daemon
    EventRingProofs.tla    its theorems, with proofs
    Board.tla              board, cursor, wait and results, over EventRing
    BoardProofs.tla        its theorems, with proofs, over EventRingProofs
    Belief.tla             what hooks and frames are taken to mean
    Session.tla            the monitor, its RPC threads and the executor, over Belief
    SessionProofs.tla      its theorems, with proofs
    MC*.tla, MC*.cfg       the instances TLC checks
    PROJECT.json           components, runs, source map, findings, hazards, theorems

`tlc -config MCStartPath_safety.cfg MCStartPath` runs one check,
`tlapm StartPathProofs.tla` checks the proofs of a module.

## 1. Inventory

| part | state | operations | what makes it correct |
|---|---|---|---|
| start ledger (`nelix_store/ledger.py`) | table `starts`: key, fingerprint, sid, state, epoch | `reserve`, `assign_generation`, `commit`, `fail` | a key has one row for good; a binding and a verdict never change |
| start and restart path (`router/start.py`, `restart.py`, `rpc_client.py`) | one thread per HTTP request | reserve, pick, assign, forward, commit or fail, replay | one worker per key; a reported failure has no worker |
| admission (`daemon/manager.py`, `owner.py`) | `_sessions`, session directories | `start`, `restart`, `_spawn`, rollback, `gc_sessions` | all or nothing; a registered session keeps its record |
| lease service (`router/leases.py`) | tokens, index, counters per epoch and global, reconciliation id | `acquire`, `release`, `release_epoch`, `register_snapshot` | tokens never exceed the limits; counters and index agree |
| lease client and choreography (`daemon/lease_client.py`, `manager.py`) | outbox, known id, token dicts, pending set | acquire for start and turn, release on idle and at the end, handshake | sessions with a PTY never exceed the limit; every slot comes back |
| store: terminals and board (`nelix_store/store.py`) | `sessions`, `terminals`, `board_seq` | `create_session`, `put_terminal`, `ack_terminal`, `prune_terminal` | whoever hears of an end finds its result; every change of a board moves `board_seq` |
| registry and lifecycle (`router/registry.py`, `lifecycle.py`) | generations, epochs, states | `active`, mint, eager reconciliation, adopt | at most one active; a dead epoch never returns; the registry routes to a serving one |
| operator and retirement (`router/operator.py`, `retirement.py`) | certificates, epoch states | activate, certify, retire, crash reconcile | nothing that owes a result is retired; no result is given up for lost while its executor may run |
| session monitor (`daemon/session.py`) | status, delivery, questions | launch, poll, deliver, respond, follow-up turn, question, terminal path | an answer is written once, nobody waits for a monitor that is gone, and what a caller is told is true |
| belief engine (`daemon/belief.py`) | hypotheses from hooks and screens | `on_hook`, `on_submit`, `tick` | what it publishes it withdraws; an answered gate does not come back |
| event ring (`daemon/events.py`) | bounded history, cursors | publish, resolve, forget, wait | pending decisions and quiet owners survive a flood; no wakeup is lost |
| board, cursor, wait (`router/board.py`, `wait.py`, `waiters.py`) | waiters, cursors over epochs | wait, merge | no silent gap: a client misses nothing without being told to read again |
| supervisor, singletons, install, reaper, PTY broker | file locks, symlinks, process fingerprints | spawn, flip, reap | one daemon per epoch; an executor is left to its daemon while that runs |

How they interact: a caller's `POST /start` runs on a router thread, which
writes the ledger, forwards to the active daemon and waits with a timeout. The
daemon acquires leases from the router (a call in the other direction), inserts
the session, writes the store and starts a monitor thread. That thread later
releases leases on its own. All threads of a daemon share `manager._lock`, but
no call to the router is made under it.

What is hard: replies that are lost after the work was done; a retry at any
point of the first attempt; either process dying between two transactions; two
processes that write one row; a router restart that forgets the account while
daemons keep their tokens; three threads that each pop and release one token;
a snapshot taken before a release and registered after it; a menu that changes
while its answer is on the way; a caller that gives up while the monitor types; a
position in a ring that was flooded, or that died with its daemon; a daemon
that dies between writing a result and killing its executor. `PROJECT.json` lists
each of these at its line under `hazards`, with the properties that cover it.

## 2. The modules and the code

### StartOnce and StartPath

`StartPath` has one variable for each thing the code keeps: `starts` and
`sessions` (the two tables), `dir` (the session directory as far as restart and
ownership read it), `live` (each daemon's `_sessions`), `epochs` and `active`,
`daemon` (where the request for a session id stands in `manager.start`),
`worker` (the executor process), and `handler` (the router's threads). `answers` is a
history variable: what callers were told.

A ledger or store method is one `BEGIN IMMEDIATE` transaction and therefore
one step. The router's `_drive_fresh` is `PickGeneration`, `AssignGeneration`,
`Forward`, `ReplyArrives`, `Commit`, `Fail`, with the exceptions of each as
actions of their own. `ForwardConnectError` is the definite failure (the request
was never sent); `ForwardResponseError` is the ambiguous one (it was, and no
usable reply came): the thread answers "starting" and leaves the row alone. On
the daemon's side `TakeOldSession` and `StopOldSession` are the restart's,
`InsertSession` (with `gc_sessions`, which the code calls there), `CreateSession`,
`WriteOwner` and `Launch` are `_spawn`'s, `SpawnFails` and `Rollback` its
unwinding. The request goes on at the daemon after the router's thread gave up:
that is what a lost reply is. `RouterCrash` drops all threads at any point;
`DaemonCrash` drops a daemon's memory and leaves each of its executors either
dead or orphaned; `Activate` makes another epoch the active one.

`StartOnce` says the same in five actions, with no threads, network or store: a
key is claimed once, a claim's worker runs at most once and only while the claim
is undecided, success is only said of a worker that was launched, failure only
when none runs. `ImplementsStartOnce` maps a claim's key and outcome to its
ledger row and its worker to the process.

### LeaseService

`tokens` and `byKindKey` are the dicts of that name, `count` the counters per
epoch and kind, `total` the global ones, `reconciled[e]` the reconciliation id
with which `e` registered, `rid` the router's own. Every method runs under the
service's lock and is one action. Token ids are uuid4 in the code and a counter
`minted` here. A reply carries the router's current id, so the module has no
separate refusal actions: a refusal changes nothing in the account, and
`LeaseProtocol` models what the client learns from it.

### LeaseProtocol

`Service == INSTANCE LeaseService` is the router; the rest is the daemons. A
thread is an RPC thread (`caller[c]`) or a session's monitor thread
(`monitor[s]`). What happens under `manager._lock` is one step, a call to the
router is one step with its reply, and everything interleaves in between.
`held`, `tokenAct`, `counter`, `pending` are `_active_lease_tokens` and
`_live_lease_tokens`, `_active_token_activation`, `_activation_counter` and
`_pending_acquire`. `releases[th]` are the release calls a thread is making;
a call that fails goes to `outbox`, which `RetryOutbox` reads back.

| actions | code |
|---|---|
| `StartBegin`, `StartAcquire`, `Insert`, `Launch`, `SpawnRefused`, `Rollback`, `RollbackRaises`, `Unwind`, `StartFailed` | `start`, `_lease_start`, `_spawn` |
| `RestartBegin` | `restart`, up to the pop and the stop of the old session |
| `TurnBegin`, `TurnAcquire`, `TurnCommit`, `TurnRejected`, `Send`, `SendRaises`, `SendRaised` | `send_turn`, `_lease_send_turn` |
| `ShakeBegin`, `Register`, `ReturnCall` | the handshake and the registration of the snapshot |
| `TurnDone`, `OnIdle` | the monitor's screen path sees idle, then calls `on_idle` |
| `TurnDoneByHook`, `TurnByHook` | a Stop or UserPromptSubmit hook ends or opens a turn: no `on_idle`, no acquire |
| `PersistTerminal`, `PersistFails`, `FreeSlot`, `FreeSlotRaises` | the terminal path |
| `ReleaseOne`, `RetryOutbox` | `LeaseClient.release`, `_do_release`, `retry_outbox` |
| `RouterRestart`, `DaemonCrash`, `Retire` | crashes, and the operator's `release_epoch` |

`Faults` is the set of faults an instance allows, so that a run can ask for
what holds under which of them. `ClientNamesEpoch` says whether the client was
built with its generation's ids (as the tests build it) or without (as
`daemon/app.py:162` builds it); see the finding in section 3.

### Generations and Retirement

`gens` and `epochs` are the two tables, `active` the registry's handle, `daemon`
the processes, `thread` what each router thread is doing. A mint and an
activation share the steps `CreateGeneration`, `InsertEpoch`, `Spawn`, `Promote`;
they differ in the lock they hold (`regLock`, `opLock`) and in how they end
(`Install`, or `Flip` and `Adopt`). `RouterStart` is `_eager_reconcile`, with its
three outcomes: it adopts a daemon, adopts none and marks the leftovers dead, or
aborts. An epoch id is minted per spawn, so it also stands for the
incarnation (pid and start fingerprint) that reaping compares.

A write of the store may fail in the mint, and a read in the search for the active generation;
`activate` swallows both (`operator.py:141-157`), and goes on.

`Retirement` adds the sessions of each daemon, by stage (admitted, row created, executor
spawned, on record, ending, persisted or failed, cleaned, freed), with
the leader of their executor's process group, whether that whole group has been *seen* gone
(`rest`), their `child.json` and the sequence number of their result. Three places deal with the
group, and only one of them looks whether it is gone:

- `CleanUp`, the monitor's `_finish_cleanup`, kills it only if the monitor takes the leader for alive
  (`session.py:1023`), which it does not when the PTY is closed or at its end; `kill_group` is through
  once the leader is gone, and does not wait after its SIGKILL (`reaper.py:187-193`); `forget_child`
  comes in any case. The model says no more than that: whatever is left is off the record (`LetGo`);
- `Reconciled`, `reconcile_orphans` of a daemon that starts, does the same to executors whose
  daemon is dead, after `_should_reap`; here a leader may outlive its record with a SIGKILL on its way;
- `ReapChildren`, the operator's `_reap_child_groups`, goes on only when `killpg(pgid, 0)` says
  that the whole group is gone.

Every step of `Generations` is taken along with what it does to sessions
(`SessionsFollow`): a daemon that starts reconciles the orphans of all generations, and what a daemon
knew of its sessions goes with its process (`Remembered`): the rows, the record and whether the executor was
cleaned up after stay. The executor of a daemon that died runs on, or ends whenever it likes (`ChildExits`). `RetireBegin` to `Finish` is
`retire`: which epochs are crash-reconciled and which take the clean path is read
before the lock; admission is closed by the store's row, which `_spawn` reads again
under the manager's lock (`Quiescent`).

### EventRing and Board

`log` is everything ever published and `kept` what the ring still has, so that
a property can speak of what was lost. `Publish` evicts as the code does:
the oldest event of an owner above its floor, never an open decision. `Look` is
what a reader is answered: expired before an event, an event before nothing. `Arm`, `Sleep`
and `NotifyAll` are the condition variable of a wait.

`Board` is one client that does as `nelix-wait` does: it reads the board when told to,
and otherwise waits with its cursor. The handlers of the router take a step for each
call they make, so the board is read in five pieces and a wait is a loop of archive polls
and short forwards, with everything else happening in between. `client.dirty` says
that it was told to read again, `seen` and `view` what it knows, and `passed` (history) what its
cursor went past unseen, in the two ways in which the code lets that happen (section 3): `Outside`, events of a
session that started during the wait, and `Behind`, events before a wait from now whose board was read around the
installation of a daemon (`split`, history too).
A new daemon starts an empty ring; a restarted router has a new epoch and finds the old
daemon or not.

### Belief and Session

`Belief` is the engine as a function: `OnHook`, `OnSubmit` and `Tick` map its
state and an input to a new state and a list of actions (ask, withdraw, idle). It
has no variables. Clocks are left out: whatever waits for a window may or may
not have waited long enough, so `Tick` gives a set of results.

`Session` has the slots that the monitor and the RPC threads share under
`Session._lock` (`_decision`, `_pending_answer`, `_pending_submit`,
`_async_question`, `_async_reply_pending`, `_pending_acquire`, `_closing`), the
open events of the ring, a program counter for each thread, and `typed`, a history of
what was written for each call. A write that returns does not say that its text arrived: `PtySession.write`
returns silently when the PTY is closed or at its end, or its child is gone (`pty_session.py:116`, `126`, `140`,
`151`, `161`), with nothing or a part of it written, and stays so; `whole` keeps which it was, and no caller
of it can tell (`Types`). The executor is unconstrained: any frame may follow any frame,
any hook may come at any time, the loop may end after any iteration. The frame is
therefore chosen where the monitor uses it.

| actions | code |
|---|---|
| `DrainAnswer`, `TypeAnswer`, `TypeAnswerFails`, `DrainRaises`, `DeliveryTick`, `Confirm`, `FailDelivery`, `EndPre` | the loop before delivery: `_drain_pending_answer`, `_delivery_tick`, `_deliver_task` |
| `DrainHook`, `See`, `ApplyWithdraw`, `EmitIdle`, `Build`, `Install` | `_loop_once`: hooks, tick, `_apply_actions`, `_publish` and its `_install` |
| `DrainQueued`, `WriteSubmit`, `WriteSubmitFails`, `ConfirmSubmit`, `NoSubmit`, `DrainReply` | `_drain_pending_submit`, `drain_async_reply` |
| `Close`, `AbortAnswer`, `AbortSubmit`, `FinishPublish` | `_finish` |
| `Respond`, `ResolveQuestion`, `Peek`, `Bind`, `Enqueue`, `Queue`, `Reclaim`, `GiveUp`, `Claim`, `Write`, `Settle` | `SessionManager.respond`, `Session.respond`, `_respond_blocked`, `_respond_free_text` |
| `BeginTurn`, `AcquireTurn`, `CheckTurn`, `WriteTurn`, `SettleTurn`, `Requeue` | `send_turn` of the manager and of the session, `requeue_async_reply` |
| `Ask` | `record_async_question` |

## 3. The runs

Passing:

| run | shows | instance |
|---|---|---|
| `start_safety` | one worker per key; failures and successes that were recorded or reported are true and agree; rows only advance; the path implements `StartOnce`; `IInv`, which the proofs use | 1 key of two possible requests, all restart keys, 2 session ids, 2 generations with an epoch each, 2 threads |
| `start_answered` | every call is answered | 1 key, 2 session ids, 1 epoch, 1 thread |
| `lease_account` | limits, counters and index, for arbitrary calls | 2 epochs, limits 1 active and 2 live, 3 tokens, 2 router incarnations |
| `lease_slots` | sessions with a PTY stay within the limit; a release that got through has freed its token | 1 daemon, 2 sessions, 2 RPC threads, one slot of each kind, 5 tokens; rejected input, store failures, lost grants |
| `lease_restarts` | no token is lost track of; the account stays sound | 1 daemon, 2 sessions, 1 RPC thread, 3 tokens, 2 router incarnations; lost calls and replies, router and daemon crashes |
| `lease_comeback` | the slots of a session that is over come back | 1 daemon, 2 sessions, 1 RPC thread, 5 tokens; rejected input |
| `generations` | one active generation; pointers, rows and the registry agree; dead stays dead | 3 generations, 3 epochs, a starter and an operator; daemons die, probes fail, the router restarts; the store works |
| `retirement` | a certified epoch is final, a retired generation is settled, no result is given up while its executor may run, an executor that outlives its daemon is on record, one whose daemon runs is left to it | 2 generations, 2 epochs, 2 sessions, one operator; daemon and router deaths, failing writes, failing reads in a mint and in `activate` |
| `ring` | open decisions and each owner's floor survive, the ring shrinks back to its bound, no wakeup is lost | 2 owners, a session each (one of them with a late `owner.json`), bound 1, floor 1, 4 events |
| `board` | no silent gap but the two that are named; an end that is told of has its result; the client is informed in the end | 2 sessions of the client's owner, one of which ends, bound 0, floor 1, 2 events per daemon, 2 daemons, 1 fault |
| `session` | an answer is written once, a reply says truly whether it was; nobody is stranded but the caller the monitor raised with; no blocked decision after delivery; a queued reply is kept; a decision that is over stays over | 2 RPC threads, 2 menus, 2 decisions, 2 questions, 2 hooks |

Why these bounds are enough to see the interesting cases. Two threads on one
key meet in every order (first attempt against retry), two epochs let a
retry come after the active generation changed, and a restart
needs two session ids: its old one and its new one. Two sessions that contend for one slot make
every illegal grant visible as a second PTY. Two router incarnations are one
restart, with a handshake before and after it; five tokens are one start (two)
and three further grants, so that a session starts, goes idle (`MaxAct` = 1), resumes
and another one starts in its place. Three generations are one that drains, its successor and one more
attempt; three epochs let a generation lose its daemon and get another. With one
thread, activation and retirement follow each other, which the operator's lock makes them
do anyway; two epochs and two sessions are one generation that is retired
while the other serves. A ring with no room beyond the floors evicts with the
second event. Two decisions are one that is superseded or withdrawn and the one that
takes its place; two menus are the right one and the wrong one; two callers
compete for either. Two questions let the second be asked while the first one's reply is on
its way. The bounds are `MaxToken`, `MaxRid`, `MaxAct`, `MaxSeq`, `MaxEpochs`, `MaxFaults`,
`MaxDec`, `MaxAsked`, `MaxHooks` and the sizes of the sets; each is a guard of the action that would exceed it. The
runs say `CHECK_DEADLOCK FALSE` where they stop at these bounds; `start_safety` and
`start_answered` do not.

Symmetry is used for safety only, over session ids, requests, callers,
menus, generations and epochs.

What a run does not list it still implies: `IInv` of `StartPath` and of
`LeaseService` contains their type invariants, the index of the account, and that a
failed row has neither worker nor session. `RetTypeOK`, `BoardTypeOK` and the
`TypeOK` of `LeaseProtocol` hold in the same instances.

Fairness. `FairSpec` of `StartPath` and of `LeaseProtocol` assumes only that a thread that can take
its next step takes one: handler threads, RPC threads and monitor threads are
OS threads that nothing suspends, and each of their blocking calls ends, since
`rpc_client.py` and `lease_client.py` set a timeout on every one. So the step a
thread waits in always has an outcome: a reply or a timeout. Nothing is assumed of
faults, of callers, of executors, of the operator, or of the daemon that has
the router's request: `CallsEnd` holds even if that daemon hangs.
`SlotsComeBack` is checked without faults of the network or the store, because a
release that is lost waits in the outbox until the daemon's next lease call, and
that call may never come. `BoardSpec` assumes of the client what `nelix-wait` does (it waits
again, and reads the board when told to) and of the router that a request under
way is served to its end, since each of its waits is bounded. The two strong fairness conditions
are for a board read that a fault may cut short, and for the end of a wait's window, which comes
however often the loop goes round. `Informed` then says that the client knows
everything in the end, provided a daemon stays in reach.

Violated: `lease_client_epoch`. The daemon builds its client without the
generation's ids (`daemon/app.py:162`), so every release names an epoch that
never registers, and frees nothing; `router/leases.py:11` says that a release removes
its token. The passing lease runs therefore describe the protocol with a client built as its
tests build it.

### What the models show and no run states

These follow from the code, and the modules contain them; they are no
properties because they do not hold. The passing properties are worded, or their
faults chosen, around them.

- The restart key contains the force flag (`restart.py:95`), so one old session can
  be restarted twice; `restart.py:9-10` says once.
- `gc_sessions` keeps its own daemon's sessions in a root that all generations
  share (`manager.py:759`, against `:184`).
- A follow-up turn between going idle and `on_idle` is granted the token the session
  already has, takes it for a stale one and releases it (`manager.py:1461`); a turn after
  a Stop hook does the same, since `_loop_once` compares with a state that the hook has
  already changed, and never calls `on_idle`. The bound on *working* sessions
  (`router/app.py:100`) therefore does not hold; `PtyBound` is about PTYs.
- After a router restart the limit is compared with the epochs registered so far
  (`leases.py:259`): the first one can be granted slots the others still
  use. `PtyBound` is checked with one daemon and proved for any number, within one router incarnation.
- When the terminal row of an idle session cannot be written, `_free_slot` takes "no
  active token" for "already released" (`manager.py:1056`) and keeps the live one;
  when it raises, neither is released (`:1083`). `manager.py:976` says both are.
- `NoLeak` is checked without rejected turns and without lost grants: the exception path of
  `_lease_send_turn` releases its token before it pops it (`manager.py:1487`), and a
  grant whose reply is lost (`:454`) is freed only by a router restart or by the epoch's retirement.
- A session's requests go to the active generation, not to the one that runs it
  (`session_forward.py:74`; `lifecycle.py:6` has a draining one "still routable"), and `_daemon_rpc`
  reaches only the active one (`operator.py:282`), so the clean path cannot certify a draining generation.
- `registry._active` is never given up: with a dead daemon every start is refused until the
  router restarts or a generation is activated.
- A failed read of the generations inside `activate` counts as "none is active"
  (`operator.py:155`), and so does a mint of its own whose write failed (`registry.py:600-603`, swallowed at
  `operator.py:141-148`) if a start mints before the flip: either leaves two active rows (the faults `"reads"` and
  `"writes"`). `OneActive` is checked and proved without the two.
- `reconcile_orphans` unlinks the records that crash reconciliation then misses
  (`child_record_missing`), and an epoch that died before its incarnation was
  recorded is never provably dead: such a generation is never retired. An executor whose
  daemon died before `_record_child` is not found by anyone (`session.py:288`).
- `_finish_cleanup` forgets the record of a group that may live on, and so may `reconcile_orphans`
  (section 2), although the comment at `session.py:1015` says survivors and "stragglers in the
  group" are reaped. `RecordsAreKept` is therefore about the *leader*, until its own daemon cleans up or it is sent a
  SIGKILL; `LostIsDead`, which does speak of the whole group, is about the sessions whose
  results are given up for lost. A start that is rolled back only closes the PTY and lets its executor go
  likewise (`manager.py:788-791`).
- A wait of an orchestration keeps the sessions that it read from the ledger when it began
  (`wait.py:128`) for its whole window. A session that starts in that window and publishes is
  passed over: the wait delivers a later event of another session, and its cursor is then
  beyond the first one, which no later wait delivers and no marker mentions (`events.py:337` and
  `:385` promise that for sessions of the set only).
- A board reads the handles first and the topology revision next (`board.py:149-150`). If a daemon is
  installed in between, say by the mint of a `/start`, the cursor is current and has no position for that daemon. The
  next wait then starts from now (`wait.py:158-164`) and passes over what its sessions published before,
  with no marker, although `cursor.py:82` says that such a cursor starts "from that generation's beginning"
  and `cursor.py:143-145` has the topology check prevent "silently missing a new generation's events".
  `NoSilentGap` and `Informed` except the events of these two cases, `client.passed`, and no others; without
  either part of the exception TLC finds the gap.
- `forget_session` drops events without telling a cursor before them (`events.py:509`, which
  defers it); `discover` inserts an epoch whose row exists and so installs nothing
  (`registry.py:950`, against `board.py:34-38`).
- `manager.respond` types an answer with a stale id as a fresh turn when the session is idle
  (`manager.py:1300`, against `session.py:1954-1958`).
- `drain_async_reply` does not queue a reply again after `admission_unavailable`, which
  `manager.respond` does. A question asked while a reply is out of its slot, being delivered,
  lets its own answer take the slot, and one of the two is lost (`session.py:1296-1300` says
  there is one outstanding reply until delivery). `QueuedIsKept` takes both out by way of `lost`.
- `on_submit` leaves the engine's state alone, so the next `_sync_control_state` shows a
  session that was just answered as awaiting or idle again (`session.py:2074`).
- A menu after delivery is typed by the RPC thread without another look at the screen
  (`session.py:2036`). Before delivery the monitor compares the menu with the frame in its hand and types at once
  (`SamePrompt`); that is one comparison, and no property restates it.
- A caller is told "resumed" when the write of its answer returned, and `PtySession.write` returns
  silently at the end of the PTY: "resumed" does not say that the answer arrived. `HonestReply` says what
  remains: a refused answer was not written and will not be, a "resumed" one was, and the write returned.
- When the drain of an answer raises, the answer is no longer in its slot (`session.py:1652`), so `_finish`
  finds nothing to abort, and the caller waits out both its timeouts (`session.py:1608`, `1621`) on a monitor
  that is gone. The comment at `session.py:1720` says a waiting respond is released on EVERY monitor-thread
  exit. `NoStranded` excepts this caller (`Forsaken`) and no other.
- `send_turn` clears a decision that was published since its idle check without resolving
  its event, and an idle verdict takes the place of one: the open event has no decision then.

## 4. The proofs

The theorems hold for every value of the constants: any numbers of keys,
sessions, threads, generations, epochs, tokens, events, menus, decisions and
faults. The assumptions on the constants are named, and TLC evaluates them in
every run.

**StartPathProofs**, from `StartPathAssumption` (every epoch belongs to a generation; the
null values are no epochs) and `NullAssumption`. None of the safety properties is inductive: that
a failed row has no worker depends on where the *other* process is. `IInv`
therefore says what the position of one process implies for the other:

- `HandlerInv`: a thread that drives a start is alone with its row, which is
  undecided, and its position bounds the daemon's (before the forward there is no request; a
  thread that is failing has one that never arrived or that ended in an error);
- `DaemonInv`: the daemon's position bounds the worker and the session row, and
  the request is at the epoch the row is bound to;
- `LedgerInv`: a verdict bounds the daemon's position, and keys are unique;
- `AnswerInv`: an answer that was given stays true, and no thread drives a start
  that was answered "failed".

Each conjunct has one lemma, with a step for each action that can disturb it. `Invariance`
combines them; `TypeCorrectness`, `StartsOnce`, `FailureIsTrue` and
`AnswersAreTrue` follow. `RowsAreStable` proves the action property: only four
actions write the ledger, and `IInv` says the row each of them writes is
undecided. `Implementation` proves the refinement: a ledger step maps to
`Claim`, `Succeed`, `Fail` or a stutter, a worker step to `Run`, `Over` or a
stutter.

**LeaseServiceProofs**, from `LeaseAssumption` and `NoRidAssumption`. The bound on the tokens is
not inductive, since the code compares its *counters* with the limit, and
decrements them by what it finds in its dicts. `IInv` adds that the global and
the per-epoch counters equal the cardinalities they stand for, that the index
and the tokens list the same entries, one per key, and that every token belongs to an epoch
registered with the current incarnation and has been minted. Two lemmas about disjoint finite
sets carry the arithmetic; `RemoveKeepsIInv` serves `Release` and
`ReleaseEpoch`, `AddKeepsIInv` serves `Acquire` and `RegisterSnapshot`. `LimitsHold` and
`BooksBalance` follow. `AcquireShape`, `ReleaseShape` and `StepGrows` say what a caller
may rely on.

**LeaseProtocolProofs**, from `LeaseProtocolAssumption` (every session has one daemon; the null values are
no tokens, sessions or incarnations; no RPC thread is a session). `Account` instantiates the theorems of
`LeaseServiceProofs` for the account these clients use. `LInv` has four parts:

- `PInv`: the account is sound, and whatever a client has anywhere (in a dict, in a hand, in an
  outbox, in a snapshot under way, in a release call) was minted before, in an incarnation there has been.
  Hence no client ever sends the service anything it would not expect, which is `ClientsUseTheService`:
  with every fault, each step is a step of `LeaseService` or leaves it alone. `AccountStaysSound` follows.
- `Orderly`: where a call is bounds the phase of its session; one thread at a time starts a session
  or sends it a turn; a dead daemon has neither calls nor sessions.
- `PtyInv`, while one router lives: the live token of a session that has a PTY, or is about to get one,
  is in the account and *nowhere else*: no other session or call holds it, no thread is about to release it,
  no outbox has it (`Sole`). That is what every release has to respect, and why the rollback of `_spawn`, which
  gives the same tokens back twice, is safe. `PtysAreBounded` maps each such session to its token.
- `LeakInv`: a token in the account is held, in a hand, about to be released or in the outbox; so is a token
  that a call got for a key that already had one, and each token of a snapshot that
  the router may still accept: between taking and registering it a session can go
  idle or end, and its token is then in the outbox. `NothingLeaks` follows, for any mixture of lost calls,
  router restarts and daemon crashes. Its hypothesis excludes the three faults that do lose a
  slot (a lost grant, a turn that raises, a row that cannot be written; section 3).

Each action has a lemma `...Step`; what several share are lemmas of their own: an acquire
(`AcquireBase`, `AcquirePty`, `AcquireLeak`), a token that is forgotten or given back (`ForgetPty`, `ForgetLeak`),
a monitor's step (`QuietMonitor`), a release call (`MovesStep`). `ReleasesFree`
proves the action property `ReleaseFrees` for a client that names its epoch and calls that get through; a thread
begins to release only when it has nothing left to release (`OnlyAdds`), so nothing else takes a
token out of a release call.

**GenerationsProofs**, from `GenerationsAssumption` (the null values are none of
the real ones). `GInv` says who owns what: a thread that mints owns the epoch it
inserted, which starts until the promotion and serves from then on; the thread
that mints holds the registry's lock, and while it is held nothing is active; a
router that is down has neither threads nor locks. `RoutedServes`, `PointersHold` and
`NothingGoesBack` follow, the last one as an action property. `NeverTwoActive` has
`Faults` without `"reads"` and `"writes"` as its hypothesis, since a failing read and a failing write do
leave two active rows (section 3); it needs `FlipIsSafe`, that the generation which `activate` read as the active
one still is when it flips, which rests on the operator's lock and on `active()`
having answered before.

**RetirementProofs** extends that: each step of `Generations` is shown to keep `GInv` and
to bring no thread into `retire`. `RetInv` adds `SessOK` (a session has a
number once its result is stored), `RetThread` (the epoch a thread
reconciles is dead for good, and when it gives up results every executor
they would come from is dead) and `CertOK` (a certified epoch has served, so no daemon
of it can start and nothing new can come from it). `CertificatesAreFinal`, `LivingAreRecorded`, `LostAreDead` and
`RetirementIsOrderly` follow. `ExecutorsAreLeft` follows from the same invariant: an epoch whose
daemon runs has been spawned, so a daemon that starts and reconciles is another one, and the operator kills sessions of
dead epochs only (`RetThread`).

What retirement is for is proved twice. `OnlyTheSettledRetire`: any number of operators call `activate` and
`retire` at once, daemons, sessions and the router die and writes fail at any step, and a step that makes a
generation retired finds it over (`Over`): no daemon, no result missing, all of it certified and confirmed.
Its hypothesis, `OperatorsOnly`, is that no `/start` mints beside them and daemons that run answer `/health`.
`RetiredAreSettled`: with one operator (`OneOperator`) it stays so, for every number of generations,
epochs and sessions; this is the instance of the run `retirement`.

`OpInv` adds to `RetInv` that who is past the lock of the operators holds it (`Exclusive`), so nothing but the
death of a daemon happens beside a thread that retires (`OneAtATime`); that a certified epoch whose daemon runs
still serves (`CertUp`), hence has its incarnation on record, so the reaper finds it; and what a thread
knows at each step of `retire` (`Retiring`), of which the last part is that from the oracle's answer on its
generation is `Settled`. `GoodStep` says what every step of `retire` after the first has in common: it stays
within its generation, and writes the lifecycle last. `SettledInv` adds that a generation which is being retired
is not retired yet, that epochs are inserted only into one that is new or active (`Alive`), and that retired
ones stay settled (`StaysSettled`), since a certified epoch's daemon never starts again.

Each hypothesis is needed. Without it TLC finds, on instances with one thread, one request or one fault more:

- a request's mint picks the active row under the registry's lock only (`registry.py:556`) and inserts an
  epoch into a generation whose `retire` has passed the oracle, which holds only the operator's lock;
- a router that starts while a certified daemon fails its health probe marks that epoch dead, and the
  reaper passes over dead epochs (`operator.py:694`), so the daemon outlives its generation;
- for `RetiredAreSettled`: a second `retire` of the same generation read its epochs before the lock
  (`operator.py:585`), gets the lock when the first is through, and sets an epoch of the retired generation
  back to "quiescing".

**EventRingProofs**, from `RingAssumption`. The eviction loop is a recursive function over
the number of passes; what it leaves is shown by taking the least
number of passes after which a claim fails, since the library's induction theorems cannot be used. One
pass drops an event that is not pinned and leaves the floor of its owner
(`PassShape`), the loop stops only when nothing is above a floor or the bound is met, and so `PendingIsKept`,
`FloorHolds` and `HistoryIsBounded` follow. `NoWakeupLost` is
part of the inductive invariant `RInv`, together with `DecidesOwn` (the id of a decision is
the number of an event of the same session) and `Settled` (between two operations nothing is left
to evict): publishing and forgetting notify everybody, so nobody sleeps after them; an
answer notifies nobody, and what it lets go was already known to the sleeper.

**BoardProofs**, from `BoardAssumption` and `RingAssumption`. What a position is worth is `Past(p, x)`:
if it is of the last daemon, every event up to it in a session of the owner is known to the client, or is among `x`,
or was gone past in one of the two ways that `passed` records. `BInv` says so of the client's cursor and, by where its
request stands, of the request's: before the snapshots nothing is claimed, after them `x` is what they show, in a
wait it is empty. It rests on

- `Marked`: whatever the ring evicted is at or below the mark of its session, so a reader behind it is told
  `expired` before it is given anything that is newer. `Delivered` is the argument for the first event after a cursor:
  one before it that is in scope would have been delivered or expired, one out of scope is what `passed` records;
- `Placed`, `Armed`: a wait asks the daemon of its position, and the daemon's thread looks for what was asked;
- `OldEpochs`: the client has no position of a daemon that was not spawned yet, so a new daemon's empty ring
  makes none of its positions wrong;
- `Fresh`: a cursor at the present `board_seq` goes with the results as they are, unless the client was told to
  read again;
- `CursorPart`, which is shown beside `BInv` in an induction of its own since it speaks of one more history
  (`BoardInvariance` has both): a cursor without a position that this router would still accept belongs to a board that
  was split, or has no daemon to wait for; so the wait from now that follows records in `passed` all that it goes past;
- `Spoken`, `Backed`: only a session that started has events, and an end is told of after its result was written.

Publishing, forgetting and a daemon's death are the same to a cursor: nothing that was forgotten comes back
(`LogKept`), and a position stays worth what it was (`PastStays`). `NothingIsMissed` and `EndsAreBacked` follow, for any
number of sessions, waits, daemons, router restarts and lost replies.

**SessionProofs**, from `SessionAssumption` and `BeliefAssumption` (the null value is
no menu, key, decision or answer; the monitor is no caller). An answer is always somewhere: in a slot,
in the hands of the monitor, in a turn, or written. `SInv` has

- `MonOK`, `GateOK`: what the monitor holds at each step, and that the gate is up
  exactly from `_finish` on, with the slots emptied one after the other behind it;
- `KindOK`, `DeliveryOK`: which decisions there can be before and after delivery;
- `CallersOK`: for each call, where its answer can be given the thread's program counter
  (`LeftOK`, `TurnOK`), what was written for it (`TypedOK`), what it is bound to (`BoundOK`) and
  what was promised (`ReplyOK`);
- `ClaimsOK`: a decision that was claimed, by the monitor or by an RPC thread, is no longer
  pending, and one call has it.

There is a lemma for each action, and lemmas for the parts that many of them share: the calls
that a step does not concern (`UnmovedFrame`), a waiting call that is answered (`WaiterAnswered`),
a claim (`ClaimsNew`), the end of a turn (`OverStep`). All six invariants of the run follow, for any screen and any hooks.
`OverStaysOver` proves the action property: events are opened at three places, of the decision that is
pending or of one that is new.

**Only model-checked**:

- `CallsEnd`, `SlotsComeBack` and `Informed`: liveness under fairness is out of
  the prover's reach.

## 5. What is not modelled

- Request validation, which refuses before any state changes, and the conflict
  of two requests on one key, which changes nothing.
- The recovery of a row that stays "starting" after a router crash or an
  ambiguous reply: the code has none, and says so. Retries are answered
  "starting" for good.
- The setters `set_rebuilding` and `set_reconciliation_id`, which only tests call;
  the local caps, which are bypassed when leases are used.
- A reply of the router that is delayed past a later one: a call and its reply
  are one step, so an old reply never overwrites a newer reconciliation id.
- A restart of a session whose own start is still under way, in
  `LeaseProtocol` (`StartPath` has it).
- The activation id is read at `manager.py:1371` just before the acquire;
  reading it together with the begin of the turn loses nothing, because the
  only writer, `on_idle`, changes no other state the turn reads in between.
- In `StartPath` the rollback of a start ends its worker (`TornDown`). The code swallows
  an exception of `sess.stop()` (`manager.py:788-791`), and then the worker may run on; the same in
  `LeaseProtocol`. `Retirement` has it (`Rollback`).
- The kill of the process group, which comes after the leases are released
  (`session.py:984`): `PtyBound` counts sessions that serve a PTY.
- In `Generations` and `Retirement`: pid reuse (an epoch is its incarnation) and the
  contents of health replies beyond whether they identify the daemon.
  `gc_retired_generations` has no caller.
- In `EventRing`: `resolve_decision` and the clearing of `Session._decision` are one step
  (`Answer`); `Session` has them apart. In `Board`: a daemon that was replaced and still
  answers an old wait; more than one generation in a cursor, which the code has not
  either. `ack_terminal` and `prune_terminal` are modelled, though only tests call them so far.
- In `Belief`: the advisories of the watchdog ("busy" covers `intervention_required`), and the
  permission notification without an id. A hookless driver is one whose
  startup grace has run out at once.
- In `Session`: the lease side of a turn (it is in `LeaseProtocol`), the cache that
  hydrates a hook's options from the screen, the raw-frame fallback of onboarding. A write that times out counts
  as not made, though a part of it may have been; an exception after the keys were written, in the bookkeeping that
  follows (`session.py:1696-1701`), is left out, one before is `DrainRaises`. The second wait of
  `_respond_blocked` outlasts the bounded write of a monitor that lives. What `Confirm` resolves in the ring
  after its critical section (`session.py:532`, `540`) is taken with it, since no thread here reads the ring. A menu without a
  body is in the model (`Bodyless`) and not in the run: its answers are always aborted.
- The routing of session requests (`session_forward.py`) changes no state.
- Terminal emulation, screen scraping, the PTY broker, configuration, CLI: I/O and pure functions.

## 6. Plan

1. **Retirement** beside requests that mint: that at the step which retires a generation only epochs
   inserted after the oracle's answer can be unsettled.
2. **Install** (`runtime.py`, `reconcile_current.py`): the flip of the current build
   with a crash at any point.
