----------------------------- MODULE Generations -----------------------------
(***************************************************************************)
(* Generations and their daemons: the tables generations and epochs of     *)
(* nelix_store/store.py, the router's in-memory registry                   *)
(* (router/registry.py), the operator's activate (router/operator.py) and  *)
(* the supervisor that spawns and reaps daemons (generation_supervisor.py).*)
(*                                                                         *)
(* A store method is one transaction and one step.  registry.active() runs *)
(* under the registry's lock, the operator under a file lock of its own;   *)
(* daemons die and the router crashes between any two steps.  An epoch id  *)
(* is minted per spawn, so an epoch also names the incarnation (pid and    *)
(* start fingerprint) of its daemon.                                       *)
(***************************************************************************)
EXTENDS Naturals, FiniteSets

CONSTANTS Gens, Epochs, Threads,
          Starters,          \* the threads that serve /start: they call active()
          NoGen, NoEpoch, NoThread,
          Faults             \* the faults that may happen, a set of Fault

\* A daemon dies; the router dies; a read or a write of the store fails; a
\* daemon that runs does not answer /health in time.
Fault == {"daemon", "router", "reads", "writes", "health"}

ASSUME GenerationsAssumption ==
  /\ NoGen \notin Gens /\ NoEpoch \notin Epochs /\ NoThread \notin Threads
  /\ Starters \subseteq Threads
  /\ Faults \subseteq Fault

VARIABLES
  gens,     \* gens[g]: row of generations, lifecycle_state and current_epoch
  epochs,   \* epochs[e]: row of epochs
  daemon,   \* daemon[e]: the process spawned for e
  active,   \* the epoch of GenerationRegistry._active
  regLock,  \* GenerationRegistry._lock, as far as a mint holds it
  opLock,   \* generations_install_lock
  thread,   \* thread[t]: what a router thread is doing
  router    \* whether the router runs

rows    == <<gens, epochs>>
memory  == <<active, regLock, opLock, thread, router>>
genVars == <<rows, daemon, memory>>

Life  == {"none", "ready", "active", "draining", "retiring", "retired"}
Pc    == {"idle", "active", "create", "insert", "spawn", "promote", "install",
          "list", "flip", "adopt",
          "lock", "certify", "children", "lose", "resolve", "status", "rpc", "final",
          "reap", "oracle", "clear", "finish"}   \* the last two lines: retire

NoRow  == [gen |-> NoGen, proc |-> "none", ret |-> "open", meta |-> FALSE, final |-> 0]
Idle   == [kind |-> "none", pc |-> "idle", mint |-> FALSE, gen |-> NoGen, epoch |-> NoEpoch,
           old |-> NoGen, crash |-> {}, clean |-> NoEpoch, open |-> FALSE]

GenRow   == [life : Life, current : Epochs \cup {NoEpoch}]
EpochRow == [gen : Gens \cup {NoGen}, proc : {"none", "starting", "serving", "dead"},
             ret : {"open", "quiescing", "certified"}, meta : BOOLEAN, final : Nat]
Work     == [kind : {"none", "start", "activate", "retire"}, pc : Pc, mint : BOOLEAN,
             gen : Gens \cup {NoGen}, epoch : Epochs \cup {NoEpoch}, old : Gens \cup {NoGen},
             crash : SUBSET Epochs, clean : Epochs \cup {NoEpoch}, open : BOOLEAN]

GenTypeOK ==
  /\ gens \in [Gens -> GenRow] /\ epochs \in [Epochs -> EpochRow]
  /\ daemon \in [Epochs -> {"none", "up", "gone"}]
  /\ active \in Epochs \cup {NoEpoch}
  /\ regLock \in Threads \cup {NoThread} /\ opLock \in Threads \cup {NoThread}
  /\ thread \in [Threads -> Work]
  /\ router \in BOOLEAN

GenInit ==
  /\ gens = [g \in Gens |-> [life |-> "none", current |-> NoEpoch]]
  /\ epochs = [e \in Epochs |-> NoRow]
  /\ daemon = [e \in Epochs |-> "none"]
  /\ active = NoEpoch /\ regLock = NoThread /\ opLock = NoThread
  /\ thread = [t \in Threads |-> Idle]
  /\ router = TRUE

EpochsOf(g)   == {e \in Epochs : epochs[e].gen = g}
ActiveRows    == {g \in Gens : gens[g].life = "active"}
Running(g)    == {e \in EpochsOf(g) : daemon[e] = "up"}   \* who holds g's daemon lock
At(t, pc)     == router /\ thread[t].pc = pc
Goto(t, pc)   == thread' = [thread EXCEPT ![t].pc = pc]

-----------------------------------------------------------------------------
(* Transactions of the store                                               *)

\* set this epoch dead, clear current_epoch only if it points to it
Dead(e) ==
  /\ epochs' = [epochs EXCEPT ![e].proc = "dead"]
  /\ gens' = [gens EXCEPT ![epochs[e].gen].current = IF @ = e THEN NoEpoch ELSE @]

\* Mutant: the pointer is not compared.
CanServeAnyway(e) == epochs[e].proc = "starting"

\* What cas_epoch_serving verifies, and the unique index epochs_one_serving.
CanServe(e) ==
  /\ gens[epochs[e].gen].current = NoEpoch
  /\ epochs[e].proc = "starting"
  /\ \A x \in EpochsOf(epochs[e].gen) : epochs[x].proc # "serving"

Serve(e) ==
  /\ epochs' = [epochs EXCEPT ![e].proc = "serving", ![e].meta = TRUE]
  /\ gens' = [gens EXCEPT ![epochs[e].gen].current = e]

-----------------------------------------------------------------------------
(* registry.active(), by a /start request or by activate                   *)

CallStart(t) ==
  /\ At(t, "idle") /\ t \in Starters
  /\ thread' = [thread EXCEPT ![t] = [Idle EXCEPT !.kind = "start", !.pc = "active"]]
  /\ UNCHANGED <<rows, daemon, active, regLock, opLock, router>>

CallActivate(t) ==
  /\ At(t, "idle") /\ t \notin Starters
  /\ opLock = NoThread
  /\ opLock' = t
  /\ thread' = [thread EXCEPT ![t] = [Idle EXCEPT !.kind = "activate", !.pc = "active"]]
  /\ UNCHANGED <<rows, daemon, active, regLock, router>>

\* active() answered or raised.  A start is done with it; activate stops if
\* that generation already runs its build, and otherwise ignores the answer.
Answered(t, ok) ==
  \/ /\ ok \/ thread[t].kind = "start"
     /\ thread' = [thread EXCEPT ![t] = Idle]
     /\ opLock' = IF opLock = t THEN NoThread ELSE opLock
  \/ /\ thread[t].kind = "activate"
     /\ thread' = [thread EXCEPT ![t] = [Idle EXCEPT !.kind = "activate", !.pc = "list"]]
     /\ UNCHANGED opLock

Healthy(e) == daemon[e] = "up" /\ epochs[e].proc = "serving"
                /\ gens[epochs[e].gen].current \in {e, NoEpoch}

\* _refresh_active_locked verifies the daemon, its row and the pointer, and
\* repairs a pointer that is NULL.  _active is never given up.
Refresh(t) ==
  /\ At(t, "active") /\ regLock = NoThread /\ active # NoEpoch
  /\ \/ /\ Healthy(active)
        /\ gens' = [gens EXCEPT ![epochs[active].gen].current = active]
        /\ Answered(t, TRUE)
     \/ /\ ~Healthy(active) \/ "health" \in Faults
        /\ Answered(t, FALSE)
        /\ UNCHANGED gens
  /\ UNCHANGED <<epochs, daemon, active, regLock, router>>

\* Mutant: the handle is installed before the promotion is known to hold.
FailsInstalled(t) ==
  /\ regLock' = IF regLock = t THEN NoThread ELSE regLock
  /\ active' = thread[t].epoch
  /\ thread' = [thread EXCEPT ![t] = Idle]
  /\ opLock' = IF opLock = t THEN NoThread ELSE opLock
  /\ UNCHANGED router

\* A mint that failed gives up the registry's lock and active() raises;
\* activate raises.
Fails(t) ==
  /\ regLock' = IF regLock = t THEN NoThread ELSE regLock
  /\ IF thread[t].mint THEN Answered(t, FALSE)
     ELSE /\ thread' = [thread EXCEPT ![t] = Idle]
          /\ opLock' = NoThread
  /\ UNCHANGED <<active, router>>

\* _find_or_create_locked: the active row, or a new generation; it fails
\* closed if the read fails or finds two.
FindOrCreate(t) ==
  /\ At(t, "active") /\ regLock = NoThread /\ active = NoEpoch
  /\ \/ /\ Cardinality(ActiveRows) <= 1
        /\ regLock' = t
        /\ \E g \in Gens :
             /\ IF ActiveRows = {} THEN gens[g].life = "none" ELSE g \in ActiveRows
             /\ thread' = [thread EXCEPT ![t].mint = TRUE, ![t].gen = g,
                                         ![t].pc = IF ActiveRows = {} THEN "create" ELSE "insert"]
        /\ UNCHANGED opLock
     \/ /\ Cardinality(ActiveRows) > 1 \/ "reads" \in Faults
        /\ Answered(t, FALSE)
        /\ UNCHANGED regLock
  /\ UNCHANGED <<rows, daemon, active, router>>

\* A mint creates its generation active, activate creates it ready.  If the
\* write fails there is no row, and activate goes on after such a mint
\* (router/registry.py:597-603, router/operator.py:141-148).
CreateGeneration(t) ==
  LET g == thread[t].gen IN
  /\ At(t, "create")
  /\ \/ /\ gens[g].life = "none"
        /\ gens' = [gens EXCEPT ![g].life = IF thread[t].mint THEN "active" ELSE "ready"]
        /\ Goto(t, "insert")
        /\ UNCHANGED <<active, regLock, opLock, router>>
     \/ /\ "writes" \in Faults
        /\ Fails(t)
        /\ UNCHANGED gens
  /\ UNCHANGED <<epochs, daemon>>

InsertEpoch(t) ==
  /\ At(t, "insert")
  /\ \/ /\ \E e \in Epochs :
             /\ epochs[e] = NoRow
             /\ epochs' = [epochs EXCEPT ![e] = [NoRow EXCEPT !.gen = thread[t].gen,
                                                              !.proc = "starting"]]
             /\ thread' = [thread EXCEPT ![t].epoch = e, ![t].pc = "spawn"]
        /\ UNCHANGED <<active, regLock, opLock, router>>
     \/ /\ "writes" \in Faults
        /\ Fails(t)
        /\ UNCHANGED epochs
  /\ UNCHANGED <<gens, daemon>>

\* ensure_running: a daemon of this generation that runs another epoch is
\* reaped, then ours is spawned and takes the generation's lock.
Spawned(e) == [x \in Epochs |-> IF x = e THEN "up"
                                ELSE IF x \in Running(epochs[e].gen) THEN "gone" ELSE daemon[x]]

Spawn(t) ==
  /\ At(t, "spawn")
  /\ daemon' = Spawned(thread[t].epoch)
  /\ Goto(t, "promote")
  /\ UNCHANGED <<rows, active, regLock, opLock, router>>

\* It exited early, or was not healthy in time: it is sent a SIGTERM and not
\* waited for, so that it may go on for a while.
SpawnFails(t) ==
  LET e == thread[t].epoch IN
  /\ At(t, "spawn") /\ "daemon" \in Faults
  /\ \/ daemon' = [Spawned(e) EXCEPT ![e] = "gone"]
     \/ daemon' = Spawned(e)
  /\ Dead(e)
  /\ Fails(t)

\* reap_holder kills only the incarnation it expects.
Reaped(e) == [daemon EXCEPT ![e] = IF @ = "up" THEN "gone" ELSE @]

\* /health, the holder and the compare-and-set, then serving; otherwise the
\* daemon is reaped and its epoch is dead.
Promote(t) ==
  LET e == thread[t].epoch IN
  /\ At(t, "promote")
  /\ daemon[e] = "up" /\ CanServe(e)
  /\ Serve(e)
  /\ Goto(t, IF thread[t].mint THEN "install" ELSE "flip")
  /\ UNCHANGED <<daemon, active, regLock, opLock, router>>

PromoteFails(t) ==
  LET e == thread[t].epoch IN
  /\ At(t, "promote")
  /\ daemon[e] # "up" \/ ~CanServe(e) \/ "health" \in Faults
  /\ daemon' = Reaped(e)
  /\ Dead(e)
  /\ Fails(t)

\* The last look at the holder: _active is set, or the epoch is dead.
Install(t) ==
  LET e == thread[t].epoch IN
  /\ At(t, "install")
  /\ \/ /\ daemon[e] = "up"
        /\ active' = e
        /\ regLock' = NoThread
        /\ Answered(t, TRUE)
        /\ UNCHANGED <<rows, router>>
     \/ /\ daemon[e] # "up"
        /\ Dead(e)
        /\ Fails(t)
  /\ UNCHANGED daemon

-----------------------------------------------------------------------------
(* The rest of activate                                                    *)

\* The active generation as the store has it, or none; a failing read counts
\* as none (router/operator.py:150-157).
ListActive(t) ==
  /\ At(t, "list")
  /\ \E g \in Gens, o \in ActiveRows \cup {NoGen} :
       /\ gens[g].life = "none"
       /\ o = NoGen => ActiveRows = {} \/ "reads" \in Faults
       /\ thread' = [thread EXCEPT ![t].gen = g, ![t].old = o, ![t].pc = "create"]
  /\ UNCHANGED <<rows, daemon, active, regLock, opLock, router>>

\* Mutant: the old generation stays as it is.
FlippedAlone(g, o) == [gens EXCEPT ![g].life = "active"]

\* set_generation_lifecycle_state_atomic
Flipped(g, o) ==
  [x \in Gens |-> IF x = g THEN [gens[x] EXCEPT !.life = "active"]
                  ELSE IF x = o THEN [gens[x] EXCEPT !.life = "draining"] ELSE gens[x]]

\* Neither can have moved: both states are checked in the transaction, and
\* only holders of this lock and the creator of the row change them.
Flip(t) ==
  LET g == thread[t].gen  o == thread[t].old IN
  /\ At(t, "flip")
  /\ gens[g].life = "ready" /\ (o # NoGen => gens[o].life = "active")
  /\ gens' = Flipped(g, o)
  /\ Goto(t, "adopt")
  /\ UNCHANGED <<epochs, daemon, active, regLock, opLock, router>>

\* adopt_generation, which waits for the registry's lock.
Adopt(t) ==
  /\ At(t, "adopt") /\ regLock = NoThread
  /\ active' = thread[t].epoch
  /\ thread' = [thread EXCEPT ![t] = Idle]
  /\ opLock' = NoThread
  /\ UNCHANGED <<rows, daemon, regLock, router>>

-----------------------------------------------------------------------------
(* Crashes, and what a new router does: _eager_reconcile                   *)

DaemonDies(e) ==
  /\ "daemon" \in Faults
  /\ daemon[e] = "up"
  /\ daemon' = [daemon EXCEPT ![e] = "gone"]
  /\ UNCHANGED <<rows, memory>>

RouterCrash ==
  /\ router /\ "router" \in Faults
  /\ router' = FALSE
  /\ active' = NoEpoch /\ regLock' = NoThread /\ opLock' = NoThread
  /\ thread' = [t \in Threads |-> Idle]
  /\ UNCHANGED <<rows, daemon>>

\* Mutant: whoever holds the lock and answers.
AdoptableAny(g) == Running(g)

\* The epochs that may be adopted: the current one if it serves, or, when
\* the pointer is NULL, one that serves or starts.
Adoptable(g) ==
  {e \in Running(g) :
     \/ epochs[e].proc = "serving" /\ gens[g].current \in {e, NoEpoch}
     \/ CanServe(e)}

\* What _eager_reconcile marks dead beside the epoch e it adopts.
Leftovers(g, e) ==
  {x \in EpochsOf(g) \ {e} :
     \/ epochs[x].proc = "starting" /\ (e = NoEpoch \/ gens[g].current = NoEpoch)
     \/ epochs[x].proc = "serving" /\ e = NoEpoch /\ gens[g].current \in {x, NoEpoch}}

\* It adopts e, or nobody.
EagerReconcile(g, e) ==
  /\ e # NoEpoch => e \in Adoptable(g)
  /\ e = NoEpoch => Adoptable(g) = {} \/ "health" \in Faults
  /\ epochs' = [x \in Epochs |->
                  IF x \in Leftovers(g, e) THEN [epochs[x] EXCEPT !.proc = "dead"]
                  ELSE IF x = e THEN [epochs[x] EXCEPT !.proc = "serving", !.meta = TRUE]
                  ELSE epochs[x]]
  /\ gens' = [gens EXCEPT ![g].current = e]
  /\ active' = e
  /\ UNCHANGED daemon

\* The holder changed between two looks at it: nothing is adopted and
\* nothing is marked.
AbortsAdoption(g) ==
  /\ "daemon" \in Faults
  /\ \E e \in Adoptable(g) : daemon' = [daemon EXCEPT ![e] = "gone"]
  /\ UNCHANGED <<rows, active>>

\* With two active rows the constructor raises and the router does not start.
RouterStart ==
  /\ ~router
  /\ Cardinality(ActiveRows) <= 1
  /\ router' = TRUE
  /\ \/ /\ ActiveRows = {}
        /\ UNCHANGED <<rows, daemon, active>>
     \/ \E g \in ActiveRows :
          \/ \E e \in Epochs \cup {NoEpoch} : EagerReconcile(g, e)
          \/ AbortsAdoption(g)
  /\ UNCHANGED <<regLock, opLock, thread>>

-----------------------------------------------------------------------------
(* Specification of the registry and activate alone                        *)

ThreadStep(t) ==
  \/ Refresh(t) \/ FindOrCreate(t) \/ CreateGeneration(t) \/ InsertEpoch(t)
  \/ Spawn(t) \/ SpawnFails(t) \/ Promote(t) \/ PromoteFails(t) \/ Install(t)
  \/ ListActive(t) \/ Flip(t) \/ Adopt(t)

GenNext ==
  \/ \E t \in Threads : CallStart(t) \/ CallActivate(t) \/ ThreadStep(t)
  \/ \E e \in Epochs : DaemonDies(e)
  \/ RouterCrash \/ RouterStart

GenSpec == GenInit /\ [][GenNext]_genVars

-----------------------------------------------------------------------------
(* Properties                                                              *)

\* At most one generation is active, whichever of activate and the mints of
\* request threads run at once and wherever the router and the daemons die:
\* the registry refuses to work, and a router to start, with two
\* (registry.py:77-82).  It takes a store that neither fails to read nor to
\* write: activate swallows both where it looks for the active generation
\* (router/operator.py:141-157), and a mint may make one meanwhile.
OneActive == Cardinality(ActiveRows) <= 1

\* The durable pointer of a generation names an epoch of its own that
\* serves, no other epoch of it serves unless the pointer is NULL, and a
\* serving epoch has the incarnation on record that retirement must kill.
PointersAgree ==
  /\ \A g \in Gens : LET c == gens[g].current IN
       c # NoEpoch => epochs[c].gen = g /\ epochs[c].proc = "serving"
  /\ \A g \in Gens : Cardinality({e \in EpochsOf(g) : epochs[e].proc = "serving"}) <= 1
  /\ \A e \in Epochs : epochs[e].proc = "serving" => epochs[e].meta

\* A daemon that answers, and that the registry would route to, is one the
\* store says serves: no request reaches a daemon that was given up for
\* dead (_refresh_active_locked, _mint_install_unlocked, adopt_generation).
RoutedIsServing ==
  active # NoEpoch => epochs[active].proc = "serving" /\ epochs[active].meta

\* A dead epoch never serves again, a lifecycle only advances, and the
\* incarnation of an epoch is never forgotten.
LifeRank == [none |-> 0, ready |-> 1, active |-> 2, draining |-> 3, retiring |-> 4, retired |-> 5]
OnlyAdvances ==
  [][/\ \A e \in Epochs : /\ epochs[e].proc = "dead" => epochs'[e].proc = "dead"
                          /\ epochs[e].meta => epochs'[e].meta
     /\ \A g \in Gens : LifeRank[gens[g].life] <= LifeRank[gens'[g].life]]_genVars
=============================================================================
