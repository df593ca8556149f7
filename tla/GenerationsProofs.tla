-------------------------- MODULE GenerationsProofs --------------------------
(***************************************************************************)
(* Proofs about Generations: who owns which epoch, why the registry routes *)
(* only to epochs that serve, why a generation's pointer names its serving *)
(* epoch, and why no interleaving of activate, mints and router crashes    *)
(* leaves two generations active.                                          *)
(***************************************************************************)
EXTENDS Generations, FiniteSetTheorems, TLAPS

-----------------------------------------------------------------------------
(* The inductive invariant                                                 *)

\* The thread is between the insertion of its epoch and the end of its call.
Minting == {"spawn", "promote", "install", "flip", "adopt"}

\* A router that is down keeps nothing in memory.
DownIsEmpty ==
  ~router => /\ active = NoEpoch /\ regLock = NoThread /\ opLock = NoThread
             /\ \A t \in Threads : thread[t] = Idle

\* An epoch that is not inserted has no state.
RowsOK == \A e \in Epochs : epochs[e].gen = NoGen => epochs[e] = NoRow

\* A thread owns the epoch it inserted: it starts until the promotion and
\* serves from then on, and nobody else works on it.
Owns(t) ==
  /\ thread[t].pc \in {"create", "insert"} \cup Minting => thread[t].gen \in Gens
  /\ thread[t].pc \in Minting =>
       /\ thread[t].epoch \in Epochs
       /\ epochs[thread[t].epoch].gen = thread[t].gen
       /\ epochs[thread[t].epoch].proc =
            IF thread[t].pc \in {"spawn", "promote"} THEN "starting" ELSE "serving"

OwnsEpoch ==
  /\ \A t \in Threads : Owns(t)
  /\ \A t, u \in Threads :
       thread[t].pc \in Minting /\ thread[u].pc \in Minting
         /\ thread[t].epoch = thread[u].epoch => t = u

\* Who holds the registry's lock, and that a registry with an active epoch
\* is not minting.
Locks(t) ==
  /\ thread[t].mint => regLock = t
  /\ thread[t].mint => thread[t].pc \in {"create", "insert", "spawn", "promote", "install"}
  /\ thread[t].pc = "install" => thread[t].mint
  /\ thread[t].pc = "idle" => thread[t] = Idle

LocksHeld ==
  /\ regLock # NoThread => active = NoEpoch
  /\ \A t \in Threads : Locks(t)

\* The first two parts of PointersAgree without cardinalities, and the third.
PointersOK ==
  /\ \A g \in Gens : gens[g].current # NoEpoch =>
       epochs[gens[g].current].gen = g /\ epochs[gens[g].current].proc = "serving"
  /\ \A d, e \in Epochs :
       epochs[d].gen = epochs[e].gen /\ epochs[d].proc = "serving"
         /\ epochs[e].proc = "serving" => d = e
  /\ \A e \in Epochs : epochs[e].proc = "serving" => epochs[e].meta

GInv == /\ GenTypeOK /\ DownIsEmpty /\ RowsOK /\ OwnsEpoch /\ LocksHeld /\ PointersOK
        /\ RoutedIsServing

\* What activate relies on when it flips.  While a mint is about to create
\* its generation none is active; once active() has answered there is one
\* for good; and the generation that activate read as the active one still
\* is when it flips.
Safe(t) ==
  /\ thread[t].mint /\ thread[t].pc = "create" => ActiveRows = {}
  /\ thread[t].mint /\ thread[t].pc # "create" => ActiveRows # {}
  /\ thread[t].pc \in {"list", "adopt"} => ActiveRows # {}
  /\ ~thread[t].mint /\ thread[t].pc \in {"create", "insert", "spawn", "promote", "flip"} =>
       thread[t].old \in ActiveRows
  /\ thread[t].kind = "start" => thread[t].pc = "active" \/ thread[t].mint
  /\ thread[t].kind \notin {"start", "none"} => opLock = t
  /\ thread[t].kind = "none" => thread[t] = Idle

FlipIsSafe ==
  /\ \A g, h \in ActiveRows : g = h
  /\ active # NoEpoch => ActiveRows # {}
  /\ \A t \in Threads : Safe(t)

-----------------------------------------------------------------------------
(* The steps of a thread, with the failures of a mint apart                *)

\* FindOrCreate, CreateGeneration and InsertEpoch where they succeed.
Finds(t) ==
  /\ At(t, "active") /\ regLock = NoThread /\ active = NoEpoch
  /\ Cardinality(ActiveRows) <= 1
  /\ regLock' = t
  /\ \E g \in Gens :
       /\ IF ActiveRows = {} THEN gens[g].life = "none" ELSE g \in ActiveRows
       /\ thread' = [thread EXCEPT ![t].mint = TRUE, ![t].gen = g,
                                   ![t].pc = IF ActiveRows = {} THEN "create" ELSE "insert"]
  /\ UNCHANGED <<rows, daemon, active, opLock, router>>

Creates(t) ==
  /\ At(t, "create") /\ gens[thread[t].gen].life = "none"
  /\ gens' = [gens EXCEPT ![thread[t].gen].life = IF thread[t].mint THEN "active" ELSE "ready"]
  /\ Goto(t, "insert")
  /\ UNCHANGED <<epochs, daemon, active, regLock, opLock, router>>

Inserts(t) ==
  /\ At(t, "insert")
  /\ \E e \in Epochs :
       /\ epochs[e] = NoRow
       /\ epochs' = [epochs EXCEPT ![e] = [NoRow EXCEPT !.gen = thread[t].gen, !.proc = "starting"]]
       /\ thread' = [thread EXCEPT ![t].epoch = e, ![t].pc = "spawn"]
  /\ UNCHANGED <<gens, daemon, active, regLock, opLock, router>>

\* They fail: the rows stay, and the thread is done with its mint.
Stops(t) ==
  /\ router /\ UNCHANGED <<rows, daemon>>
  /\ \/ /\ thread[t].pc = "active" /\ regLock = NoThread /\ active = NoEpoch
        /\ Cardinality(ActiveRows) > 1 \/ "reads" \in Faults
        /\ Answered(t, FALSE)
        /\ UNCHANGED <<active, regLock, router>>
     \/ /\ thread[t].pc \in {"create", "insert"} /\ "writes" \in Faults
        /\ Fails(t)

\* Every step of a thread is one of these.
LEMMA ThreadStepCases ==
  ASSUME NEW t \in Threads, ThreadStep(t)
  PROVE  \/ Refresh(t) \/ Finds(t) \/ Creates(t) \/ Inserts(t) \/ Stops(t)
         \/ Spawn(t) \/ SpawnFails(t) \/ Promote(t) \/ PromoteFails(t) \/ Install(t)
         \/ ListActive(t) \/ Flip(t) \/ Adopt(t)
<1>1. CASE FindOrCreate(t)
  BY <1>1 DEF FindOrCreate, Finds, Stops, At, rows
<1>2. CASE CreateGeneration(t)
  BY <1>2 DEF CreateGeneration, Creates, Stops, At, rows
<1>3. CASE InsertEpoch(t)
  BY <1>3 DEF InsertEpoch, Inserts, Stops, At, rows
<1> QED
  BY <1>1, <1>2, <1>3 DEF ThreadStep

-----------------------------------------------------------------------------
(* What the steps do to a thread, an epoch and a generation, field by field *)

\* An idle thread is a thread.
LEMMA IdleType ==
  Idle \in Work /\ Idle.kind = "none" /\ Idle.pc = "idle" /\ ~Idle.mint
BY GenerationsAssumption DEF Idle, Pc, Work

\* A thread that goes to its next step.
LEMMA Moved ==
  ASSUME NEW w \in Work, NEW p \in Pc
  PROVE  LET v == [w EXCEPT !.pc = p] IN
         /\ v \in Work
         /\ v.pc = p /\ v.kind = w.kind /\ v.gen = w.gen /\ v.epoch = w.epoch /\ v.old = w.old
         /\ v.mint = w.mint /\ v.clean = w.clean /\ v.crash = w.crash
BY DEF Work

\* Exactly one thread moves.
LEMMA OneThread ==
  ASSUME thread \in [Threads -> Work], NEW t \in Threads, NEW w \in Work,
         thread' = [thread EXCEPT ![t] = w]
  PROVE  /\ thread' \in [Threads -> Work]
         /\ thread'[t] = w
         /\ \A u \in Threads : u # t => thread'[u] = thread[u]
OBVIOUS

\* Goto moves one thread to one step.
LEMMA GotoShape ==
  ASSUME thread \in [Threads -> Work], NEW t \in Threads, NEW p \in Pc, Goto(t, p)
  PROVE  /\ thread' \in [Threads -> Work]
         /\ thread'[t].pc = p /\ thread'[t].kind = thread[t].kind /\ thread'[t].gen = thread[t].gen
         /\ thread'[t].epoch = thread[t].epoch /\ thread'[t].old = thread[t].old
         /\ thread'[t].mint = thread[t].mint /\ thread'[t].clean = thread[t].clean
         /\ thread'[t].crash = thread[t].crash
         /\ \A u \in Threads : u # t => thread'[u] = thread[u]
<1>1. thread' = [thread EXCEPT ![t] = [thread[t] EXCEPT !.pc = p]]
  BY DEF Goto
<1> QED
  BY <1>1, Moved, OneThread

\* active() answers: the call is over, or activate goes on to list.
LEMMA AnsweredShape ==
  ASSUME thread \in [Threads -> Work], NEW t \in Threads,
         Answered(t, TRUE) \/ Answered(t, FALSE)
  PROVE  /\ thread' \in [Threads -> Work]
         /\ \A u \in Threads : u # t => thread'[u] = thread[u]
         /\ \/ thread'[t] = Idle /\ opLock' = IF opLock = t THEN NoThread ELSE opLock
            \/ /\ thread[t].kind = "activate" /\ opLock' = opLock
               /\ thread'[t].kind = "activate" /\ thread'[t].pc = "list" /\ ~thread'[t].mint
<1>1. CASE thread' = [thread EXCEPT ![t] = Idle] /\ opLock' = IF opLock = t THEN NoThread ELSE opLock
  BY <1>1, IdleType, OneThread
<1>2. CASE /\ thread[t].kind = "activate" /\ UNCHANGED opLock
           /\ thread' = [thread EXCEPT ![t] = [Idle EXCEPT !.kind = "activate", !.pc = "list"]]
  <2> DEFINE w == [Idle EXCEPT !.kind = "activate", !.pc = "list"]
  <2>1. w \in Work /\ w.kind = "activate" /\ w.pc = "list" /\ ~w.mint
    BY GenerationsAssumption DEF Idle, Work, Pc
  <2>2. thread' = [thread EXCEPT ![t] = w]
    BY <1>2
  <2> HIDE DEF w
  <2> QED
    BY <1>2, <2>1, <2>2, OneThread
<1> QED
  BY <1>1, <1>2 DEF Answered

\* A failing mint lets go of the registry's lock; a failing activate is over.
LEMMA FailsShape ==
  ASSUME thread \in [Threads -> Work], NEW t \in Threads, Fails(t)
  PROVE  /\ thread' \in [Threads -> Work]
         /\ \A u \in Threads : u # t => thread'[u] = thread[u]
         /\ \/ /\ thread'[t] = Idle
               /\ \/ opLock' = IF opLock = t THEN NoThread ELSE opLock
                  \/ ~thread[t].mint /\ opLock' = NoThread
            \/ /\ thread[t].kind = "activate" /\ opLock' = opLock /\ thread[t].mint
               /\ thread'[t].kind = "activate" /\ thread'[t].pc = "list" /\ ~thread'[t].mint
         /\ regLock' = IF regLock = t THEN NoThread ELSE regLock
         /\ active' = active /\ router' = router
<1>1. CASE thread[t].mint /\ Answered(t, FALSE)
  <2>1. /\ regLock' = IF regLock = t THEN NoThread ELSE regLock
        /\ active' = active /\ router' = router
    BY DEF Fails
  <2>2. /\ thread' \in [Threads -> Work]
        /\ \A u \in Threads : u # t => thread'[u] = thread[u]
        /\ \/ thread'[t] = Idle /\ opLock' = IF opLock = t THEN NoThread ELSE opLock
           \/ /\ thread[t].kind = "activate" /\ opLock' = opLock
              /\ thread'[t].kind = "activate" /\ thread'[t].pc = "list" /\ ~thread'[t].mint
    BY <1>1, AnsweredShape
  <2> QED
    BY <1>1, <2>1, <2>2
<1>2. CASE ~thread[t].mint /\ thread' = [thread EXCEPT ![t] = Idle] /\ opLock' = NoThread
  BY <1>2, IdleType, OneThread DEF Fails
<1> QED
  BY <1>1, <1>2 DEF Fails

\* A mint that stops: the call is over, or activate goes on to list.
LEMMA StopsShape ==
  ASSUME GenTypeOK, NEW t \in Threads, Stops(t)
  PROVE  /\ router /\ UNCHANGED <<gens, epochs, daemon, active, router>>
         /\ thread[t].pc \in {"active", "create", "insert"}
         /\ thread' \in [Threads -> Work]
         /\ \A u \in Threads : u # t => thread'[u] = thread[u]
         /\ \/ /\ thread'[t] = Idle
               /\ \/ opLock' = IF opLock = t THEN NoThread ELSE opLock
                  \/ /\ ~thread[t].mint /\ thread[t].pc \in {"create", "insert"}
                     /\ opLock' = NoThread
            \/ /\ thread[t].kind = "activate" /\ opLock' = opLock
               /\ thread'[t].kind = "activate" /\ thread'[t].pc = "list" /\ ~thread'[t].mint
         /\ regLock' = IF regLock = t THEN NoThread ELSE regLock
<1>1. thread \in [Threads -> Work] /\ router /\ UNCHANGED <<gens, epochs, daemon>>
  BY DEF GenTypeOK, Stops, rows
<1>2. CASE /\ thread[t].pc = "active" /\ regLock = NoThread /\ Answered(t, FALSE)
           /\ UNCHANGED <<active, regLock, router>>
  <2>1. NoThread # t
    BY GenerationsAssumption
  <2>2. /\ thread' \in [Threads -> Work]
        /\ \A u \in Threads : u # t => thread'[u] = thread[u]
        /\ \/ thread'[t] = Idle /\ opLock' = IF opLock = t THEN NoThread ELSE opLock
           \/ /\ thread[t].kind = "activate" /\ opLock' = opLock
              /\ thread'[t].kind = "activate" /\ thread'[t].pc = "list" /\ ~thread'[t].mint
    BY <1>1, <1>2, AnsweredShape
  <2> QED
    BY <1>1, <1>2, <2>1, <2>2
<1>3. CASE thread[t].pc \in {"create", "insert"} /\ Fails(t)
  <2>1. /\ thread' \in [Threads -> Work]
        /\ \A u \in Threads : u # t => thread'[u] = thread[u]
        /\ \/ /\ thread'[t] = Idle
              /\ \/ opLock' = IF opLock = t THEN NoThread ELSE opLock
                 \/ ~thread[t].mint /\ opLock' = NoThread
           \/ /\ thread[t].kind = "activate" /\ opLock' = opLock /\ thread[t].mint
              /\ thread'[t].kind = "activate" /\ thread'[t].pc = "list" /\ ~thread'[t].mint
        /\ regLock' = IF regLock = t THEN NoThread ELSE regLock
        /\ active' = active /\ router' = router
    BY <1>1, <1>3, FailsShape
  <2> QED
    BY <1>1, <1>3, <2>1
<1> QED
  BY <1>2, <1>3 DEF Stops

\* An epoch that dies keeps its row but for its state, and a pointer to it
\* is cleared.
LEMMA DeadShape ==
  ASSUME GenTypeOK, NEW e \in Epochs, Dead(e)
  PROVE  /\ epochs' \in [Epochs -> EpochRow] /\ gens' \in [Gens -> GenRow]
         /\ epochs'[e].proc = "dead" /\ epochs'[e].gen = epochs[e].gen
         /\ epochs'[e].meta = epochs[e].meta /\ epochs'[e].ret = epochs[e].ret
         /\ epochs'[e].final = epochs[e].final
         /\ \A x \in Epochs : x # e => epochs'[x] = epochs[x]
         /\ \A g \in Gens : gens'[g].life = gens[g].life
         /\ \A g \in Gens : \/ gens'[g].current = gens[g].current
                            \/ gens[g].current = e /\ gens'[g].current = NoEpoch
         /\ \A g \in Gens : g = epochs[e].gen => gens'[g].current # e
<1>1. epochs' = [epochs EXCEPT ![e] = [epochs[e] EXCEPT !.proc = "dead"]]
  BY DEF Dead
<1>2. [epochs[e] EXCEPT !.proc = "dead"] \in EpochRow
  BY DEF GenTypeOK, EpochRow
<1>3. \A g \in Gens : gens'[g] = IF g = epochs[e].gen
                                 THEN [gens[g] EXCEPT !.current = IF @ = e THEN NoEpoch ELSE @]
                                 ELSE gens[g]
  BY DEF Dead, GenTypeOK
<1>4. \A g \in Gens : gens[g] \in GenRow
  BY DEF GenTypeOK
<1>5. gens' \in [Gens -> GenRow]
  <2>1. \A g \in Gens : gens'[g] \in GenRow
    BY <1>3, <1>4 DEF GenRow
  <2>2. gens' = [g \in Gens |-> gens'[g]]
    BY DEF Dead, GenTypeOK
  <2> QED
    BY <2>1, <2>2
<1>6. ASSUME NEW g \in Gens
      PROVE  /\ gens'[g].life = gens[g].life
             /\ \/ gens'[g].current = gens[g].current
                \/ gens[g].current = e /\ gens'[g].current = NoEpoch
             /\ g = epochs[e].gen => gens'[g].current # e
  <2>1. CASE g = epochs[e].gen /\ gens[g].current = e
    <3>1. gens'[g] = [gens[g] EXCEPT !.current = NoEpoch]
      BY <1>3, <2>1
    <3> QED
      BY <1>4, <2>1, <3>1, GenerationsAssumption DEF GenRow
  <2>2. CASE ~(g = epochs[e].gen /\ gens[g].current = e)
    <3>1. gens'[g] = gens[g] \/ gens'[g] = [gens[g] EXCEPT !.current = gens[g].current]
      BY <1>3, <2>2
    <3> QED
      BY <1>4, <2>2, <3>1 DEF GenRow
  <2> QED
    BY <2>1, <2>2
<1>7. /\ epochs' \in [Epochs -> EpochRow]
      /\ epochs'[e].proc = "dead" /\ epochs'[e].gen = epochs[e].gen
      /\ epochs'[e].meta = epochs[e].meta /\ epochs'[e].ret = epochs[e].ret
      /\ epochs'[e].final = epochs[e].final
      /\ \A x \in Epochs : x # e => epochs'[x] = epochs[x]
  <2> DEFINE r == [epochs[e] EXCEPT !.proc = "dead"]
  <2>1. epochs[e] \in EpochRow /\ epochs \in [Epochs -> EpochRow]
    BY DEF GenTypeOK
  <2>2. /\ r.proc = "dead" /\ r.gen = epochs[e].gen /\ r.meta = epochs[e].meta
        /\ r.ret = epochs[e].ret /\ r.final = epochs[e].final
    BY <2>1 DEF EpochRow
  <2>3. r \in EpochRow /\ epochs' = [epochs EXCEPT ![e] = r]
    BY <1>1, <1>2
  <2> HIDE DEF r
  <2> QED
    BY <2>1, <2>2, <2>3
<1> QED
  BY <1>5, <1>6, <1>7

\* An epoch that is promoted serves, has its incarnation on record and is the
\* current one of its generation.
LEMMA ServeShape ==
  ASSUME GenTypeOK, NEW e \in Epochs, Serve(e)
  PROVE  /\ epochs' \in [Epochs -> EpochRow] /\ gens' \in [Gens -> GenRow]
         /\ epochs'[e].proc = "serving" /\ epochs'[e].gen = epochs[e].gen
         /\ epochs'[e].meta /\ epochs'[e].ret = epochs[e].ret /\ epochs'[e].final = epochs[e].final
         /\ \A x \in Epochs : x # e => epochs'[x] = epochs[x]
         /\ \A g \in Gens : /\ gens'[g].life = gens[g].life
                           /\ gens'[g].current = IF g = epochs[e].gen THEN e ELSE gens[g].current
<1>1. epochs' = [epochs EXCEPT ![e] = [epochs[e] EXCEPT !.proc = "serving", !.meta = TRUE]]
  BY DEF Serve
<1>2. [epochs[e] EXCEPT !.proc = "serving", !.meta = TRUE] \in EpochRow
  BY DEF GenTypeOK, EpochRow
<1>3. \A g \in Gens : gens'[g] = IF g = epochs[e].gen THEN [gens[g] EXCEPT !.current = e] ELSE gens[g]
  BY DEF Serve, GenTypeOK
<1>4. \A g \in Gens : gens[g] \in GenRow
  BY DEF GenTypeOK
<1>5. gens' \in [Gens -> GenRow]
  <2>1. \A g \in Gens : gens'[g] \in GenRow
    BY <1>3, <1>4 DEF GenRow
  <2>2. gens' = [g \in Gens |-> gens'[g]]
    BY DEF Serve, GenTypeOK
  <2> QED
    BY <2>1, <2>2
<1> QED
  BY <1>1, <1>2, <1>3, <1>4, <1>5 DEF GenTypeOK, EpochRow, GenRow

\* A mint takes the registry's lock for a generation that is active, or for a
\* new one when none is.
LEMMA FindOrCreateShape ==
  ASSUME GenTypeOK, NEW t \in Threads, Finds(t)
  PROVE  /\ regLock = NoThread /\ active = NoEpoch /\ regLock' = t /\ thread[t].pc = "active"
         /\ thread' \in [Threads -> Work]
         /\ thread'[t].mint /\ thread'[t].gen \in Gens /\ thread'[t].kind = thread[t].kind
         /\ thread'[t].pc = IF ActiveRows = {} THEN "create" ELSE "insert"
         /\ \A u \in Threads : u # t => thread'[u] = thread[u]
<1>1. PICK g \in Gens :
        thread' = [thread EXCEPT ![t].mint = TRUE, ![t].gen = g,
                                 ![t].pc = IF ActiveRows = {} THEN "create" ELSE "insert"]
  BY DEF Finds
<1> DEFINE p == IF ActiveRows = {} THEN "create" ELSE "insert"
<1> DEFINE w == [thread[t] EXCEPT !.mint = TRUE, !.gen = g, !.pc = p]
<1>2. p \in Pc
  BY DEF Pc
<1> HIDE DEF p
<1>3. w \in Work /\ w.mint /\ w.gen = g /\ w.kind = thread[t].kind /\ w.pc = p
  BY <1>2 DEF GenTypeOK, Work
<1>4. thread' = [thread EXCEPT ![t] = w]
  BY <1>1 DEF p
<1> HIDE DEF w
<1>5. regLock = NoThread /\ active = NoEpoch /\ regLock' = t /\ thread[t].pc = "active"
  BY DEF Finds, At
<1>6. thread \in [Threads -> Work]
  BY DEF GenTypeOK
<1>7. /\ thread' \in [Threads -> Work] /\ thread'[t] = w
      /\ \A u \in Threads : u # t => thread'[u] = thread[u]
  BY <1>3, <1>4, <1>6, OneThread
<1> QED
  BY <1>3, <1>5, <1>7 DEF p

\* A new row: an epoch of the thread's generation that starts.
LEMMA InsertEpochShape ==
  ASSUME GenTypeOK, NEW t \in Threads, Inserts(t)
  PROVE  \E e \in Epochs :
         /\ epochs[e] = NoRow
         /\ epochs' \in [Epochs -> EpochRow]
         /\ epochs'[e].gen = thread[t].gen /\ epochs'[e].proc = "starting" /\ ~epochs'[e].meta
         /\ epochs'[e].ret = "open" /\ epochs'[e].final = 0
         /\ \A x \in Epochs : x # e => epochs'[x] = epochs[x]
         /\ thread' \in [Threads -> Work] /\ thread[t].pc = "insert"
         /\ thread'[t].epoch = e /\ thread'[t].pc = "spawn" /\ thread'[t].kind = thread[t].kind
         /\ thread'[t].gen = thread[t].gen /\ thread'[t].old = thread[t].old
         /\ thread'[t].mint = thread[t].mint
         /\ \A u \in Threads : u # t => thread'[u] = thread[u]
<1>1. PICK e \in Epochs :
        /\ epochs[e] = NoRow
        /\ epochs' = [epochs EXCEPT ![e] = [NoRow EXCEPT !.gen = thread[t].gen, !.proc = "starting"]]
        /\ thread' = [thread EXCEPT ![t].epoch = e, ![t].pc = "spawn"]
  BY DEF Inserts
<1> DEFINE r == [NoRow EXCEPT !.gen = thread[t].gen, !.proc = "starting"]
<1> DEFINE w == [thread[t] EXCEPT !.epoch = e, !.pc = "spawn"]
<1>2. thread[t] \in Work /\ thread \in [Threads -> Work]
  BY DEF GenTypeOK
<1>3. r \in EpochRow /\ r.gen = thread[t].gen /\ r.proc = "starting" /\ ~r.meta /\ r.ret = "open"
      /\ r.final = 0
  BY <1>2 DEF EpochRow, NoRow, Work
<1>4. /\ w \in Work /\ w.epoch = e /\ w.pc = "spawn" /\ w.kind = thread[t].kind
      /\ w.gen = thread[t].gen /\ w.old = thread[t].old /\ w.mint = thread[t].mint
  BY <1>2 DEF Work, Pc
<1>5. epochs' = [epochs EXCEPT ![e] = r] /\ thread' = [thread EXCEPT ![t] = w]
  BY <1>1
<1> HIDE DEF r, w
<1>6. thread' \in [Threads -> Work] /\ thread'[t] = w
      /\ \A u \in Threads : u # t => thread'[u] = thread[u]
  BY <1>2, <1>4, <1>5, OneThread
<1>7. /\ epochs' \in [Epochs -> EpochRow] /\ epochs'[e] = r
      /\ \A x \in Epochs : x # e => epochs'[x] = epochs[x]
  BY <1>3, <1>5 DEF GenTypeOK
<1>8. thread[t].pc = "insert"
  BY DEF Inserts, At
<1> QED
  BY <1>1, <1>3, <1>4, <1>6, <1>7, <1>8, ZenonT(60)

\* activate chose a new generation and remembers the one that is active.
LEMMA ListActiveShape ==
  ASSUME GenTypeOK, NEW t \in Threads, ListActive(t)
  PROVE  /\ thread' \in [Threads -> Work] /\ thread[t].pc = "list"
         /\ thread'[t].gen \in Gens /\ thread'[t].pc = "create" /\ thread'[t].kind = thread[t].kind
         /\ thread'[t].mint = thread[t].mint
         /\ \/ thread'[t].old \in ActiveRows
            \/ ActiveRows = {} \/ "reads" \in Faults
         /\ \A u \in Threads : u # t => thread'[u] = thread[u]
<1>1. PICK g \in Gens, o \in ActiveRows \cup {NoGen} :
        /\ o = NoGen => ActiveRows = {} \/ "reads" \in Faults
        /\ thread' = [thread EXCEPT ![t].gen = g, ![t].old = o, ![t].pc = "create"]
  BY DEF ListActive
<1> DEFINE w == [thread[t] EXCEPT !.gen = g, !.old = o, !.pc = "create"]
<1>2. thread[t] \in Work /\ thread \in [Threads -> Work]
  BY DEF GenTypeOK
<1>3. /\ w \in Work /\ w.gen = g /\ w.old = o /\ w.pc = "create" /\ w.kind = thread[t].kind
      /\ w.mint = thread[t].mint
  BY <1>2 DEF Work, Pc, ActiveRows
<1>4. thread' = [thread EXCEPT ![t] = w]
  BY <1>1
<1> HIDE DEF w
<1>5. /\ thread' \in [Threads -> Work] /\ thread'[t] = w
      /\ \A u \in Threads : u # t => thread'[u] = thread[u]
  BY <1>2, <1>3, <1>4, OneThread
<1>6. thread[t].pc = "list"
  BY DEF ListActive, At
<1> QED
  BY <1>1, <1>3, <1>5, <1>6

\* The flip makes one generation active and the other one draining.
LEMMA FlipShape ==
  ASSUME GenTypeOK, NEW t \in Threads, Flip(t)
  PROVE  /\ gens' \in [Gens -> GenRow]
         /\ \A g \in Gens :
              /\ gens'[g].current = gens[g].current
              /\ g = thread[t].gen => gens[g].life = "ready" /\ gens'[g].life = "active"
              /\ g # thread[t].gen /\ g = thread[t].old =>
                   gens[g].life = "active" /\ gens'[g].life = "draining"
              /\ g # thread[t].gen /\ g # thread[t].old => gens'[g].life = gens[g].life
<1> DEFINE h == thread[t].gen  o == thread[t].old
<1>1. \A g \in Gens : gens[g] \in GenRow
  BY DEF GenTypeOK
<1>2. gens' = [x \in Gens |-> IF x = h THEN [gens[x] EXCEPT !.life = "active"]
                              ELSE IF x = o THEN [gens[x] EXCEPT !.life = "draining"] ELSE gens[x]]
  BY DEF Flip, Flipped
<1>3. gens[h].life = "ready" /\ (o # NoGen => gens[o].life = "active")
  BY DEF Flip
<1>4. \A g \in Gens : /\ [gens[g] EXCEPT !.life = "active"] \in GenRow
                      /\ [gens[g] EXCEPT !.life = "active"].current = gens[g].current
                      /\ [gens[g] EXCEPT !.life = "active"].life = "active"
                      /\ [gens[g] EXCEPT !.life = "draining"] \in GenRow
                      /\ [gens[g] EXCEPT !.life = "draining"].current = gens[g].current
                      /\ [gens[g] EXCEPT !.life = "draining"].life = "draining"
  BY <1>1 DEF GenRow, Life
<1>5. gens' \in [Gens -> GenRow]
  BY <1>1, <1>2, <1>4
<1> QED
  BY <1>1, <1>2, <1>3, <1>4, <1>5, GenerationsAssumption

\* A write of one generation's pointer.
LEMMA RepairShape ==
  ASSUME GenTypeOK, NEW e \in Epochs \cup {NoEpoch}, NEW h, gens' = [gens EXCEPT ![h].current = e]
  PROVE  /\ gens' \in [Gens -> GenRow]
         /\ \A g \in Gens : /\ gens'[g].life = gens[g].life
                            /\ gens'[g].current = IF g = h THEN e ELSE gens[g].current
<1>1. \A g \in Gens : gens[g] \in GenRow
  BY DEF GenTypeOK
<1>2. \A g \in Gens : gens'[g] = IF g = h THEN [gens[g] EXCEPT !.current = e] ELSE gens[g]
  BY DEF GenTypeOK
<1>3. \A g \in Gens : gens'[g] \in GenRow
  BY <1>1, <1>2 DEF GenRow
<1>4. gens' = [g \in Gens |-> gens'[g]]
  BY DEF GenTypeOK
<1>5. gens' \in [Gens -> GenRow]
  BY <1>3, <1>4
<1> QED
  BY <1>1, <1>2, <1>5 DEF GenRow

\* A router that starts adopts the epoch e of g, or nobody, and marks what
\* is left over dead.
LEMMA EagerReconcileShape ==
  ASSUME GenTypeOK, NEW g \in Gens, NEW e \in Epochs \cup {NoEpoch}, EagerReconcile(g, e)
  PROVE  /\ epochs' \in [Epochs -> EpochRow]
         /\ \A x \in Epochs :
              /\ epochs'[x].gen = epochs[x].gen /\ epochs'[x].ret = epochs[x].ret
              /\ epochs'[x].final = epochs[x].final
              /\ epochs[x].meta \/ (x = e /\ x \notin Leftovers(g, e)) => epochs'[x].meta
              /\ epochs'[x].proc = IF x \in Leftovers(g, e) THEN "dead"
                                   ELSE IF x = e THEN "serving" ELSE epochs[x].proc
<1>1. \A x \in Epochs : epochs[x] \in EpochRow
  BY DEF GenTypeOK
<1>2. epochs' = [x \in Epochs |->
                   IF x \in Leftovers(g, e) THEN [epochs[x] EXCEPT !.proc = "dead"]
                   ELSE IF x = e THEN [epochs[x] EXCEPT !.proc = "serving", !.meta = TRUE]
                   ELSE epochs[x]]
  BY DEF EagerReconcile
<1>3. ASSUME NEW r \in EpochRow
      PROVE  LET d == [r EXCEPT !.proc = "dead"]
                 s == [r EXCEPT !.proc = "serving", !.meta = TRUE]
             IN  /\ d \in EpochRow /\ d.gen = r.gen /\ d.ret = r.ret /\ d.final = r.final
                 /\ d.meta = r.meta /\ d.proc = "dead"
                 /\ s \in EpochRow /\ s.gen = r.gen /\ s.ret = r.ret /\ s.final = r.final
                 /\ s.meta = TRUE /\ s.proc = "serving"
  BY DEF EpochRow
<1>4. \A x \in Epochs : epochs'[x] \in EpochRow
  BY <1>1, <1>2, <1>3
<1>5. epochs' \in [Epochs -> EpochRow]
  BY <1>2, <1>4
<1>6. \A x \in Epochs : epochs[x].meta \in BOOLEAN
  BY <1>1 DEF EpochRow
<1>7. ASSUME NEW x \in Epochs
      PROVE  /\ epochs'[x].gen = epochs[x].gen /\ epochs'[x].ret = epochs[x].ret
             /\ epochs'[x].final = epochs[x].final
             /\ epochs[x].meta \/ (x = e /\ x \notin Leftovers(g, e)) => epochs'[x].meta
             /\ epochs'[x].proc = IF x \in Leftovers(g, e) THEN "dead"
                                  ELSE IF x = e THEN "serving" ELSE epochs[x].proc
  <2>1. CASE x \in Leftovers(g, e)
    <3>1. epochs'[x] = [epochs[x] EXCEPT !.proc = "dead"]
      BY <1>2, <2>1
    <3> QED
      BY <1>1, <2>1, <3>1 DEF EpochRow, Leftovers
  <2>2. CASE x \notin Leftovers(g, e) /\ x = e
    <3>1. epochs'[x] = [epochs[x] EXCEPT !.proc = "serving", !.meta = TRUE]
      BY <1>2, <2>2
    <3> QED
      BY <1>1, <2>2, <3>1 DEF EpochRow
  <2>3. CASE x \notin Leftovers(g, e) /\ x # e
    BY <1>1, <1>2, <1>6, <2>3
  <2> QED
    BY <2>1, <2>2, <2>3
<1> QED
  BY <1>5, <1>7

\* A call begins.
LEMMA CalledShape ==
  ASSUME thread \in [Threads -> Work], NEW t \in Threads,
         NEW k \in {"none", "start", "activate", "retire"}, NEW p \in Pc,
         thread' = [thread EXCEPT ![t] = [Idle EXCEPT !.kind = k, !.pc = p]]
  PROVE  /\ thread' \in [Threads -> Work]
         /\ thread'[t].kind = k /\ thread'[t].pc = p /\ ~thread'[t].mint
         /\ \A u \in Threads : u # t => thread'[u] = thread[u]
<1> DEFINE w == [Idle EXCEPT !.kind = k, !.pc = p]
<1>1. w \in Work /\ w.kind = k /\ w.pc = p /\ ~w.mint
  BY GenerationsAssumption DEF Idle, Work
<1>2. thread' = [thread EXCEPT ![t] = w]
  OBVIOUS
<1> HIDE DEF w
<1> QED
  BY <1>1, <1>2, OneThread

-----------------------------------------------------------------------------
(* GInv is inductive: one lemma per action, one step per conjunct          *)

\* The initial states satisfy GInv.
LEMMA GenInitInv == GenInit => GInv
<1> SUFFICES ASSUME GenInit PROVE GInv
  OBVIOUS
<1>1. GenTypeOK
  <2>1. /\ [g \in Gens |-> [life |-> "none", current |-> NoEpoch]] \in [Gens -> GenRow]
        /\ NoRow \in EpochRow
    BY DEF GenRow, Life, EpochRow, NoRow
  <2> QED
    BY <2>1, IdleType DEF GenInit, GenTypeOK
<1>2. \A t \in Threads : thread[t] = Idle /\ thread[t].pc = "idle" /\ ~thread[t].mint
  BY IdleType DEF GenInit
<1>3. \A e \in Epochs : epochs[e] = NoRow /\ epochs[e].proc = "none"
  BY DEF GenInit, NoRow
<1>4. OwnsEpoch /\ LocksHeld
  BY <1>2 DEF OwnsEpoch, Owns, LocksHeld, Locks, Minting, GenInit
<1>5. PointersOK
  BY <1>3 DEF PointersOK, GenInit
<1> QED
  BY <1>1, <1>2, <1>3, <1>4, <1>5 DEF GInv, DownIsEmpty, RowsOK, RoutedIsServing, GenInit

\* A thread that moves, while rows stay, keeps GInv if it is left in order:
\* the part of GInv that is about threads.
LEMMA ThreadFrame ==
  ASSUME GInv, NEW t \in Threads, UNCHANGED epochs,
         \A u \in Threads : u # t => thread'[u] = thread[u],
         \/ thread'[t].pc \notin Minting
         \/ thread[t].pc \in Minting /\ thread'[t].epoch = thread[t].epoch,
         Owns(t)'
  PROVE  OwnsEpoch'
<1>1. \A u \in Threads : Owns(u)'
  BY DEF GInv, OwnsEpoch, Owns
<1> QED
  BY <1>1 DEF GInv, OwnsEpoch, Minting

\* Locks stay with their holders.
LEMMA LockFrame ==
  ASSUME GInv, NEW t \in Threads,
         \A u \in Threads : u # t => thread'[u] = thread[u],
         \/ regLock' = regLock
         \/ regLock = t /\ regLock' = NoThread
         \/ regLock = NoThread /\ regLock' = t,
         regLock' # NoThread => active' = NoEpoch,
         Locks(t)'
  PROVE  LocksHeld'
<1>1. ASSUME NEW u \in Threads, u # t PROVE Locks(u)'
  BY <1>1, GenerationsAssumption DEF GInv, LocksHeld, Locks
<1> QED
  BY <1>1 DEF LocksHeld

\* CallStart and CallActivate keep GInv.
LEMMA CallInv ==
  ASSUME GInv, NEW t \in Threads, CallStart(t) \/ CallActivate(t)
  PROVE  GInv'
<1>1. PICK k \in {"none", "start", "activate", "retire"}, p \in Pc :
         p = "active" /\ thread' = [thread EXCEPT ![t] = [Idle EXCEPT !.kind = k, !.pc = p]]
  BY DEF CallStart, CallActivate, Pc
<1>2. /\ thread' \in [Threads -> Work]
      /\ thread'[t].pc = "active" /\ ~thread'[t].mint
      /\ \A u \in Threads : u # t => thread'[u] = thread[u]
  BY <1>1, CalledShape DEF GInv, GenTypeOK
<1>3. /\ UNCHANGED <<gens, epochs, daemon, active, regLock, router>>
      /\ router /\ (opLock' = opLock \/ opLock' = t)
  BY DEF CallStart, CallActivate, rows, At
<1>4. GenTypeOK' /\ DownIsEmpty' /\ RowsOK' /\ PointersOK' /\ RoutedIsServing'
  BY <1>2, <1>3 DEF GInv, GenTypeOK, DownIsEmpty, RowsOK, PointersOK, RoutedIsServing
<1>5. OwnsEpoch'
  BY <1>2, <1>3, ThreadFrame DEF Owns, Minting
<1>6. LocksHeld'
  BY <1>2, <1>3, LockFrame DEF Locks, GInv, LocksHeld
<1> QED
  BY <1>4, <1>5, <1>6 DEF GInv

\* An epoch that its owner gives up dies: its thread is done with it, and the
\* rest of GInv does not depend on it.
LEMMA GiveUp ==
  ASSUME GInv, NEW t \in Threads, thread[t].pc \in Minting \ {"flip", "adopt"},
         router, Dead(thread[t].epoch), Fails(t),
         daemon' \in [Epochs -> {"none", "up", "gone"}]
  PROVE  GInv'
<1> DEFINE e == thread[t].epoch
<1>1. e \in Epochs /\ epochs[e].gen \in Gens /\ (thread[t].pc = "install" => thread[t].mint)
      /\ (thread[t].mint => regLock = t) /\ (active # e)
  BY GenerationsAssumption DEF GInv, OwnsEpoch, Owns, Minting, LocksHeld, Locks, RoutedIsServing
<1>2. GenTypeOK
  BY DEF GInv
<1>3. /\ epochs' \in [Epochs -> EpochRow] /\ gens' \in [Gens -> GenRow]
      /\ epochs'[e].proc = "dead" /\ epochs'[e].gen = epochs[e].gen
      /\ \A x \in Epochs : x # e => epochs'[x] = epochs[x]
      /\ \A g \in Gens : \/ gens'[g].current = gens[g].current
                         \/ gens[g].current = e /\ gens'[g].current = NoEpoch
      /\ \A g \in Gens : g = epochs[e].gen => gens'[g].current # e
  <2>1. Dead(e) /\ e \in Epochs
    BY <1>1
  <2> HIDE DEF e
  <2> QED
    BY <1>2, <2>1, DeadShape
<1>4. /\ thread' \in [Threads -> Work]
      /\ \A u \in Threads : u # t => thread'[u] = thread[u]
      /\ thread'[t] = Idle \/ (thread'[t].pc = "list" /\ ~thread'[t].mint)
      /\ opLock' \in {opLock, NoThread}
      /\ regLock' = IF regLock = t THEN NoThread ELSE regLock
      /\ active' = active /\ router' = router
  BY <1>2, FailsShape DEF GenTypeOK
<1>5. thread'[t].pc \notin Minting \cup {"create", "insert", "install"} /\ ~thread'[t].mint
      /\ (thread'[t].pc = "idle" => thread'[t] = Idle)
  BY <1>4, IdleType DEF Minting
<1>6. GenTypeOK' /\ DownIsEmpty'
  BY <1>2, <1>3, <1>4 DEF GenTypeOK, DownIsEmpty
<1>7. RowsOK'
  BY <1>1, <1>3, GenerationsAssumption DEF RowsOK, GInv
<1>8. OwnsEpoch'
  <2>1. \A u \in Threads : u # t /\ thread[u].pc \in Minting => thread[u].epoch # e
    BY DEF GInv, OwnsEpoch, Minting
  <2>2. ASSUME NEW u \in Threads PROVE Owns(u)'
    BY <1>3, <1>4, <1>5, <2>1 DEF GInv, OwnsEpoch, Owns, Minting
  <2> QED
    BY <1>4, <1>5, <2>2 DEF GInv, OwnsEpoch
<1>9. LocksHeld'
  <2>1. Locks(t)'
    BY <1>5 DEF Locks
  <2> QED
    BY <1>4, <2>1, LockFrame DEF GInv, LocksHeld
<1>10. PointersOK' /\ RoutedIsServing'
  <2>1. ASSUME NEW g \in Gens, gens'[g].current # NoEpoch
        PROVE  epochs'[gens'[g].current].gen = g /\ epochs'[gens'[g].current].proc = "serving"
    BY <1>1, <1>2, <1>3, <2>1 DEF GInv, PointersOK, GenTypeOK, GenRow
  <2>2. \A x \in Epochs : epochs'[x].proc = "serving" => x # e
    BY <1>3
  <2> QED
    BY <1>1, <1>2, <1>3, <1>4, <2>1, <2>2 DEF GInv, PointersOK, RoutedIsServing, GenTypeOK
<1> QED
  BY <1>2, <1>6, <1>7, <1>8, <1>9, <1>10 DEF GInv

\* SpawnFails and PromoteFails keep GInv: the epoch dies with the mint.
LEMMA FailingInv ==
  ASSUME GInv, NEW t \in Threads, SpawnFails(t) \/ PromoteFails(t)
  PROVE  GInv'
<1>1. thread[t].pc \in Minting \ {"flip", "adopt"} /\ router /\ Dead(thread[t].epoch) /\ Fails(t)
  BY DEF SpawnFails, PromoteFails, At, Minting
<1>2. thread[t].epoch \in Epochs
  BY <1>1 DEF GInv, OwnsEpoch, Owns, Minting
<1>3. daemon' \in [Epochs -> {"none", "up", "gone"}]
  BY <1>2 DEF GInv, GenTypeOK, SpawnFails, PromoteFails, Spawned, Reaped
<1> QED
  BY <1>1, <1>3, GiveUp

\* Refresh keeps GInv: it repairs a pointer only to an epoch that serves.
LEMMA RefreshInv ==
  ASSUME GInv, NEW t \in Threads, Refresh(t)
  PROVE  GInv'
<1>1. active \in Epochs /\ router /\ thread[t].pc = "active"
      /\ UNCHANGED <<epochs, daemon, active, regLock, router>>
  BY DEF Refresh, At, GInv, GenTypeOK
<1>2. Answered(t, TRUE) \/ Answered(t, FALSE)
  BY DEF Refresh
<1>3. /\ thread' \in [Threads -> Work]
      /\ \A u \in Threads : u # t => thread'[u] = thread[u]
      /\ thread'[t] = Idle \/ (thread'[t].pc = "list" /\ ~thread'[t].mint)
      /\ opLock' \in {opLock, NoThread}
  BY <1>2, AnsweredShape DEF GInv, GenTypeOK
<1>4. /\ gens' \in [Gens -> GenRow]
      /\ \A g \in Gens : \/ gens'[g].current = gens[g].current
                         \/ g = epochs[active].gen /\ gens'[g].current = active /\ Healthy(active)
  <2>1. CASE Healthy(active) /\ gens' = [gens EXCEPT ![epochs[active].gen].current = active]
    BY <1>1, <2>1, RepairShape, ZenonT(60) DEF GInv
  <2>2. CASE UNCHANGED gens
    BY <2>2 DEF GInv, GenTypeOK
  <2> QED
    BY <2>1, <2>2 DEF Refresh
<1>5. GenTypeOK' /\ DownIsEmpty' /\ RowsOK' /\ RoutedIsServing'
  BY <1>1, <1>3, <1>4 DEF GInv, GenTypeOK, DownIsEmpty, RowsOK, RoutedIsServing
<1>6. thread'[t].pc \notin Minting \cup {"create", "insert", "install"} /\ ~thread'[t].mint
      /\ (thread'[t].pc = "idle" => thread'[t] = Idle)
  BY <1>3, IdleType DEF Minting
<1>7. OwnsEpoch'
  BY <1>1, <1>3, <1>6, ThreadFrame DEF Owns
<1>8. LocksHeld'
  BY <1>1, <1>3, <1>6, LockFrame DEF Locks, GInv, LocksHeld
<1>9. PointersOK'
  BY <1>1, <1>4 DEF GInv, PointersOK, Healthy
<1> QED
  BY <1>5, <1>7, <1>8, <1>9 DEF GInv

\* Finds keeps GInv: the registry has no active epoch while it mints.
LEMMA FindOrCreateInv ==
  ASSUME GInv, NEW t \in Threads, Finds(t)
  PROVE  GInv'
<1>1. GenTypeOK
  BY DEF GInv
<1>2. /\ regLock = NoThread /\ active = NoEpoch /\ regLock' = t
      /\ thread' \in [Threads -> Work]
      /\ thread'[t].mint /\ thread'[t].gen \in Gens
      /\ thread'[t].pc \in {"create", "insert"}
      /\ \A u \in Threads : u # t => thread'[u] = thread[u]
  BY <1>1, FindOrCreateShape
<1>3. UNCHANGED <<gens, epochs, daemon, active, opLock, router>> /\ router
  BY DEF Finds, rows, At
<1>4. GenTypeOK' /\ DownIsEmpty' /\ RowsOK' /\ PointersOK' /\ RoutedIsServing'
  BY <1>2, <1>3 DEF GInv, GenTypeOK, DownIsEmpty, RowsOK, PointersOK, RoutedIsServing
<1>5. OwnsEpoch'
  BY <1>2, <1>3, ThreadFrame DEF Owns, Minting
<1>6. LocksHeld'
  BY <1>2, <1>3, LockFrame DEF Locks
<1> QED
  BY <1>4, <1>5, <1>6 DEF GInv

\* Stops keeps GInv: the rows stay, and so does everybody else's work.
LEMMA StopsInv ==
  ASSUME GInv, NEW t \in Threads, Stops(t)
  PROVE  GInv'
<1>1. GenTypeOK
  BY DEF GInv
<1>2. /\ router /\ UNCHANGED <<gens, epochs, daemon, active, router>>
      /\ thread' \in [Threads -> Work]
      /\ \A u \in Threads : u # t => thread'[u] = thread[u]
      /\ thread'[t] = Idle \/ (thread'[t].pc = "list" /\ ~thread'[t].mint)
      /\ opLock' \in {opLock, NoThread}
      /\ regLock' = IF regLock = t THEN NoThread ELSE regLock
  BY <1>1, StopsShape DEF GenTypeOK
<1>3. thread'[t].pc \notin Minting \cup {"create", "insert", "install"} /\ ~thread'[t].mint
      /\ (thread'[t].pc = "idle" => thread'[t] = Idle)
  BY <1>2, IdleType DEF Minting
<1>4. GenTypeOK' /\ DownIsEmpty' /\ RowsOK' /\ PointersOK' /\ RoutedIsServing'
  BY <1>2 DEF GInv, GenTypeOK, DownIsEmpty, RowsOK, PointersOK, RoutedIsServing
<1>5. OwnsEpoch'
  BY <1>2, <1>3, ThreadFrame DEF Owns
<1>6. LocksHeld'
  BY <1>2, <1>3, LockFrame DEF Locks, GInv, LocksHeld
<1> QED
  BY <1>4, <1>5, <1>6 DEF GInv

\* A thread that only goes from one step to the next, with the rows as they
\* are, keeps GInv if it stays in order.
LEMMA StepInv ==
  ASSUME GInv, NEW t \in Threads, NEW p \in Pc, Goto(t, p), router,
         UNCHANGED <<epochs, active, regLock, opLock, router>>,
         gens' \in [Gens -> GenRow], \A g \in Gens : gens'[g].current = gens[g].current,
         daemon' \in [Epochs -> {"none", "up", "gone"}],
         \/ thread[t].pc = "create" /\ p = "insert"
         \/ thread[t].pc = "spawn" /\ p = "promote"
         \/ thread[t].pc = "flip" /\ p = "adopt"
  PROVE  GInv'
<1>1. /\ thread' \in [Threads -> Work]
      /\ thread'[t].pc = p /\ thread'[t].gen = thread[t].gen
      /\ thread'[t].epoch = thread[t].epoch /\ thread'[t].mint = thread[t].mint
      /\ \A u \in Threads : u # t => thread'[u] = thread[u]
  BY GotoShape DEF GInv, GenTypeOK
<1>2. GenTypeOK' /\ DownIsEmpty' /\ RowsOK' /\ PointersOK' /\ RoutedIsServing'
  BY <1>1 DEF GInv, GenTypeOK, DownIsEmpty, RowsOK, PointersOK, RoutedIsServing
<1>3. Owns(t) /\ Locks(t)
  BY DEF GInv, OwnsEpoch, LocksHeld
<1>4. OwnsEpoch'
  <2>1. Owns(t)'
    BY <1>1, <1>3 DEF Owns, Minting
  <2> QED
    BY <1>1, <2>1, ThreadFrame DEF Minting
<1>5. LocksHeld'
  <2>1. Locks(t)'
    BY <1>1, <1>3 DEF Locks
  <2> QED
    BY <1>1, <2>1, LockFrame DEF GInv, LocksHeld
<1> QED
  BY <1>2, <1>4, <1>5 DEF GInv

\* Creates, Spawn and Flip keep GInv.
LEMMA AdvanceInv ==
  ASSUME GInv, NEW t \in Threads, Creates(t) \/ Spawn(t) \/ Flip(t)
  PROVE  GInv'
<1>1. {"insert", "promote", "adopt"} \subseteq Pc
  BY DEF Pc
<1>2. CASE Creates(t)
  <2>1. thread[t].gen \in Gens
    BY <1>2 DEF Creates, At, GInv, OwnsEpoch, Owns
  <2>2. gens[thread[t].gen] \in GenRow
    BY <2>1 DEF GInv, GenTypeOK
  <2> DEFINE l == IF thread[t].mint THEN "active" ELSE "ready"
  <2> DEFINE r == [gens[thread[t].gen] EXCEPT !.life = l]
  <2>3. l \in Life
    BY DEF Life
  <2> HIDE DEF l
  <2>4. r \in GenRow /\ r.current = gens[thread[t].gen].current
    BY <2>2, <2>3 DEF GenRow
  <2>5. gens' = [gens EXCEPT ![thread[t].gen] = r]
    BY <1>2 DEF Creates, l
  <2> HIDE DEF r
  <2>6. gens' \in [Gens -> GenRow] /\ \A g \in Gens : gens'[g].current = gens[g].current
    BY <2>1, <2>4, <2>5 DEF GInv, GenTypeOK
  <2> QED
    BY <1>1, <1>2, <2>6, StepInv DEF Creates, At, GInv, GenTypeOK
<1>3. CASE Spawn(t)
  <2>1. daemon' \in [Epochs -> {"none", "up", "gone"}]
    BY <1>3 DEF Spawn, Spawned, GInv, GenTypeOK
  <2> QED
    BY <1>1, <1>3, <2>1, StepInv DEF Spawn, At, GInv, GenTypeOK, rows
<1>4. CASE Flip(t)
  <2>1. gens' \in [Gens -> GenRow] /\ \A g \in Gens : gens'[g].current = gens[g].current
    BY <1>4, FlipShape DEF GInv
  <2> QED
    BY <1>1, <1>4, <2>1, StepInv DEF Flip, At, GInv, GenTypeOK
<1> QED
  BY <1>2, <1>3, <1>4

\* Inserts keeps GInv: the new epoch was nobody's.
LEMMA InsertEpochInv ==
  ASSUME GInv, NEW t \in Threads, Inserts(t)
  PROVE  GInv'
<1>1. GenTypeOK /\ Owns(t) /\ Locks(t)
  BY DEF GInv, OwnsEpoch, LocksHeld
<1>2. PICK e \in Epochs :
        /\ epochs[e] = NoRow
        /\ epochs' \in [Epochs -> EpochRow]
        /\ epochs'[e].gen = thread[t].gen /\ epochs'[e].proc = "starting"
        /\ \A x \in Epochs : x # e => epochs'[x] = epochs[x]
        /\ thread' \in [Threads -> Work] /\ thread[t].pc = "insert"
        /\ thread'[t].epoch = e /\ thread'[t].pc = "spawn"
        /\ thread'[t].gen = thread[t].gen /\ thread'[t].mint = thread[t].mint
        /\ \A u \in Threads : u # t => thread'[u] = thread[u]
  BY <1>1, InsertEpochShape
<1>3. UNCHANGED <<gens, daemon, active, regLock, opLock, router>> /\ router
  BY DEF Inserts, At
<1>4. thread[t].gen \in Gens /\ epochs[e].proc = "none"
  BY <1>1, <1>2 DEF Owns, NoRow
<1>5. GenTypeOK' /\ DownIsEmpty' /\ RowsOK'
  BY <1>1, <1>2, <1>3, <1>4, GenerationsAssumption DEF GInv, GenTypeOK, DownIsEmpty, RowsOK
<1>6. RoutedIsServing' /\ PointersOK'
  <2>1. active # e /\ \A g \in Gens : gens[g].current # e
    BY <1>4, GenerationsAssumption DEF GInv, RoutedIsServing, PointersOK
  <2>2. \A g \in Gens : gens[g].current \in Epochs \cup {NoEpoch}
    BY <1>1 DEF GenTypeOK, GenRow
  <2> QED
    BY <1>1, <1>2, <1>3, <1>4, <2>1, <2>2 DEF GInv, RoutedIsServing, PointersOK, GenTypeOK
<1>7. OwnsEpoch'
  <2>1. \A u \in Threads : thread[u].pc \in Minting => thread[u].epoch # e
    BY <1>4 DEF GInv, OwnsEpoch, Owns
  <2>2. ASSUME NEW u \in Threads PROVE Owns(u)'
    BY <1>2, <1>4, <2>1 DEF GInv, OwnsEpoch, Owns, Minting
  <2> QED
    BY <1>2, <2>1, <2>2 DEF GInv, OwnsEpoch
<1>8. LocksHeld'
  <2>1. Locks(t)'
    BY <1>1, <1>2, <1>3 DEF Locks
  <2> QED
    BY <1>2, <1>3, <2>1, LockFrame DEF GInv, LocksHeld
<1> QED
  BY <1>5, <1>6, <1>7, <1>8 DEF GInv

\* Promote keeps GInv: no other epoch of the generation serves.
LEMMA PromoteInv ==
  ASSUME GInv, NEW t \in Threads, Promote(t)
  PROVE  GInv'
<1> DEFINE e == thread[t].epoch
<1>1. GenTypeOK /\ Owns(t) /\ Locks(t) /\ router /\ thread[t].pc = "promote"
      /\ CanServe(e) /\ Serve(e) /\ UNCHANGED <<daemon, active, regLock, opLock, router>>
  BY DEF GInv, OwnsEpoch, LocksHeld, Promote, At
<1>2. e \in Epochs /\ epochs[e].gen = thread[t].gen /\ thread[t].gen \in Gens
      /\ epochs[e].proc = "starting"
  BY <1>1 DEF Owns, Minting
<1>3. /\ epochs' \in [Epochs -> EpochRow] /\ gens' \in [Gens -> GenRow]
      /\ epochs'[e].proc = "serving" /\ epochs'[e].gen = epochs[e].gen /\ epochs'[e].meta
      /\ \A x \in Epochs : x # e => epochs'[x] = epochs[x]
      /\ \A g \in Gens : gens'[g].current = IF g = epochs[e].gen THEN e ELSE gens[g].current
  <2>1. e \in Epochs /\ Serve(e) /\ GenTypeOK
    BY <1>1, <1>2
  <2> HIDE DEF e
  <2> QED
    BY <2>1, ServeShape
<1>4. PICK p \in {"install", "flip"} : Goto(t, p) /\ (p = "install" <=> thread[t].mint)
  BY <1>1 DEF Promote
<1>5. p \in Pc
  BY DEF Pc
<1>6. /\ thread' \in [Threads -> Work]
      /\ thread'[t].pc = p /\ thread'[t].gen = thread[t].gen
      /\ thread'[t].epoch = thread[t].epoch /\ thread'[t].mint = thread[t].mint
      /\ \A u \in Threads : u # t => thread'[u] = thread[u]
  BY <1>1, <1>4, <1>5, GotoShape DEF GenTypeOK
<1>7. GenTypeOK' /\ DownIsEmpty' /\ RowsOK'
  BY <1>1, <1>2, <1>3, <1>6, GenerationsAssumption DEF GInv, GenTypeOK, DownIsEmpty, RowsOK
<1>8. RoutedIsServing' /\ PointersOK'
  <2>1. active # e /\ \A g \in Gens : gens[g].current # e
    BY <1>2, GenerationsAssumption DEF GInv, RoutedIsServing, PointersOK
  <2>2. \A g \in Gens : gens[g].current \in Epochs \cup {NoEpoch}
    BY <1>1 DEF GenTypeOK, GenRow
  <2>3. \A x \in Epochs : epochs[x].gen = epochs[e].gen => epochs[x].proc # "serving"
    BY <1>1 DEF CanServe, EpochsOf
  <2> QED
    BY <1>1, <1>2, <1>3, <2>1, <2>2, <2>3 DEF GInv, RoutedIsServing, PointersOK, GenTypeOK
<1>9. OwnsEpoch'
  <2>1. \A u \in Threads : u # t /\ thread[u].pc \in Minting => thread[u].epoch # e
    BY <1>1 DEF GInv, OwnsEpoch, Minting
  <2>2. ASSUME NEW u \in Threads PROVE Owns(u)'
    BY <1>2, <1>3, <1>6, <2>1 DEF GInv, OwnsEpoch, Owns, Minting
  <2> QED
    BY <1>1, <1>6, <2>1, <2>2 DEF GInv, OwnsEpoch, Minting
<1>10. LocksHeld'
  <2>1. Locks(t)'
    BY <1>1, <1>4, <1>6 DEF Locks
  <2> QED
    BY <1>1, <1>6, <2>1, LockFrame DEF GInv, LocksHeld
<1> QED
  BY <1>7, <1>8, <1>9, <1>10 DEF GInv

\* Install keeps GInv: what it makes active serves.
LEMMA InstallInv ==
  ASSUME GInv, NEW t \in Threads, Install(t)
  PROVE  GInv'
<1> DEFINE e == thread[t].epoch
<1>1. GenTypeOK /\ Owns(t) /\ Locks(t) /\ router /\ thread[t].pc = "install" /\ UNCHANGED daemon
  BY DEF GInv, OwnsEpoch, LocksHeld, Install, At
<1>2. e \in Epochs /\ epochs[e].proc = "serving" /\ epochs[e].meta /\ thread[t].mint /\ regLock = t
  BY <1>1 DEF Owns, Minting, Locks, GInv, PointersOK
<1>3. CASE Dead(e) /\ Fails(t)
  BY <1>1, <1>3, GiveUp DEF GenTypeOK, Minting
<1>4. CASE /\ active' = e /\ regLock' = NoThread /\ Answered(t, TRUE)
           /\ UNCHANGED <<rows, router>>
  <2>1. /\ thread' \in [Threads -> Work]
        /\ \A u \in Threads : u # t => thread'[u] = thread[u]
        /\ thread'[t] = Idle \/ (thread'[t].pc = "list" /\ ~thread'[t].mint)
        /\ opLock' \in {opLock, NoThread}
    BY <1>1, <1>4, AnsweredShape DEF GenTypeOK
  <2>2. thread'[t].pc \notin Minting \cup {"create", "insert", "install"} /\ ~thread'[t].mint
        /\ (thread'[t].pc = "idle" => thread'[t] = Idle)
    BY <2>1, IdleType DEF Minting
  <2>3. GenTypeOK' /\ DownIsEmpty' /\ RowsOK' /\ PointersOK' /\ RoutedIsServing'
    BY <1>1, <1>2, <1>4, <2>1
    DEF GInv, GenTypeOK, DownIsEmpty, RowsOK, PointersOK, RoutedIsServing, rows
  <2>4. OwnsEpoch'
    BY <1>4, <2>1, <2>2, ThreadFrame DEF Owns, rows
  <2>5. LocksHeld'
    BY <1>2, <1>4, <2>1, <2>2, LockFrame DEF Locks
  <2> QED
    BY <2>3, <2>4, <2>5 DEF GInv
<1> QED
  BY <1>3, <1>4 DEF Install

\* ListActive and Adopt keep GInv.
LEMMA OperatorInv ==
  ASSUME GInv, NEW t \in Threads, ListActive(t) \/ Adopt(t)
  PROVE  GInv'
<1>1. GenTypeOK /\ Owns(t) /\ Locks(t)
  BY DEF GInv, OwnsEpoch, LocksHeld
<1>2. CASE ListActive(t)
  <2>1. UNCHANGED <<gens, epochs, daemon, active, regLock, opLock, router>> /\ router
    BY <1>2 DEF ListActive, rows, At
  <2>2. /\ thread' \in [Threads -> Work] /\ thread[t].pc = "list"
        /\ thread'[t].gen \in Gens /\ thread'[t].pc = "create"
        /\ thread'[t].mint = thread[t].mint
        /\ \A u \in Threads : u # t => thread'[u] = thread[u]
    BY <1>1, <1>2, ListActiveShape
  <2>3. GenTypeOK' /\ DownIsEmpty' /\ RowsOK' /\ PointersOK' /\ RoutedIsServing'
    BY <2>1, <2>2 DEF GInv, GenTypeOK, DownIsEmpty, RowsOK, PointersOK, RoutedIsServing
  <2>4. OwnsEpoch'
    BY <2>1, <2>2, ThreadFrame DEF Owns, Minting
  <2>5. LocksHeld'
    <3>1. Locks(t)'
      BY <1>1, <2>1, <2>2 DEF Locks
    <3> QED
      BY <2>1, <2>2, <3>1, LockFrame DEF GInv, LocksHeld
  <2> QED
    BY <2>3, <2>4, <2>5 DEF GInv
<1>3. CASE Adopt(t)
  <2>1. /\ UNCHANGED <<gens, epochs, daemon, regLock, router>> /\ router
        /\ regLock = NoThread /\ active' = thread[t].epoch /\ opLock' = NoThread
        /\ thread[t].pc = "adopt"
    BY <1>3 DEF Adopt, rows, At
  <2>2. /\ thread' \in [Threads -> Work] /\ thread'[t] = Idle
        /\ \A u \in Threads : u # t => thread'[u] = thread[u]
    <3>1. thread' = [thread EXCEPT ![t] = Idle] /\ thread \in [Threads -> Work]
      BY <1>1, <1>3 DEF Adopt, GenTypeOK
    <3> QED
      BY <3>1, IdleType, OneThread
  <2>3. thread[t].epoch \in Epochs /\ epochs[thread[t].epoch].proc = "serving"
        /\ epochs[thread[t].epoch].meta
    BY <1>1, <2>1 DEF Owns, Minting, GInv, PointersOK
  <2>4. GenTypeOK' /\ DownIsEmpty' /\ RowsOK' /\ PointersOK' /\ RoutedIsServing'
    BY <2>1, <2>2, <2>3 DEF GInv, GenTypeOK, DownIsEmpty, RowsOK, PointersOK, RoutedIsServing
  <2>5. OwnsEpoch'
    BY <2>1, <2>2, IdleType, ThreadFrame DEF Owns, Minting
  <2>6. LocksHeld'
    BY <2>1, <2>2, IdleType, LockFrame DEF Locks
  <2> QED
    BY <2>4, <2>5, <2>6 DEF GInv
<1> QED
  BY <1>2, <1>3

\* DaemonDies keeps GInv: it is about rows and memory, not about processes.
LEMMA DaemonDiesInv ==
  ASSUME GInv, NEW e \in Epochs, DaemonDies(e)
  PROVE  GInv'
<1>1. UNCHANGED <<gens, epochs, active, regLock, opLock, thread, router>>
      /\ daemon' \in [Epochs -> {"none", "up", "gone"}]
  BY DEF DaemonDies, rows, memory, GInv, GenTypeOK
<1> QED
  BY <1>1 DEF GInv, GenTypeOK, DownIsEmpty, RowsOK, OwnsEpoch, Owns, LocksHeld, Locks, PointersOK,
              RoutedIsServing

\* RouterCrash keeps GInv: the rows stay and the memory is empty.
LEMMA RouterCrashInv ==
  ASSUME GInv, RouterCrash
  PROVE  GInv'
<1>1. /\ UNCHANGED <<gens, epochs, daemon>> /\ router' = FALSE
      /\ active' = NoEpoch /\ regLock' = NoThread /\ opLock' = NoThread
      /\ thread' = [t \in Threads |-> Idle]
  BY DEF RouterCrash, rows
<1>2. \A t \in Threads : thread'[t] = Idle /\ thread'[t].pc = "idle" /\ ~thread'[t].mint
  BY <1>1, IdleType
<1>3. GenTypeOK'
  BY <1>1, IdleType DEF GInv, GenTypeOK
<1>4. OwnsEpoch' /\ LocksHeld'
  BY <1>1, <1>2 DEF OwnsEpoch, Owns, LocksHeld, Locks, Minting
<1> QED
  BY <1>1, <1>2, <1>3, <1>4 DEF GInv, DownIsEmpty, RowsOK, PointersOK, RoutedIsServing

\* RouterStart keeps GInv: whatever it adopts is the one epoch of its
\* generation that serves afterwards.
LEMMA RouterStartInv ==
  ASSUME GInv, RouterStart
  PROVE  GInv'
<1>1. /\ ~router /\ router' = TRUE /\ UNCHANGED <<regLock, opLock, thread>>
      /\ active = NoEpoch /\ regLock = NoThread /\ opLock = NoThread
      /\ \A t \in Threads : thread[t] = Idle
  BY DEF RouterStart, GInv, DownIsEmpty
<1>2. \A t \in Threads : thread'[t] = Idle /\ thread'[t].pc = "idle" /\ ~thread'[t].mint
  BY <1>1, IdleType
<1>3. OwnsEpoch' /\ LocksHeld' /\ DownIsEmpty'
  BY <1>1, <1>2 DEF OwnsEpoch, Owns, LocksHeld, Locks, Minting, DownIsEmpty
<1>4. CASE UNCHANGED <<gens, epochs, active>> /\ daemon' \in [Epochs -> {"none", "up", "gone"}]
  BY <1>1, <1>3, <1>4 DEF GInv, GenTypeOK, RowsOK, PointersOK, RoutedIsServing
<1>5. ASSUME NEW g \in Gens, NEW e \in Epochs \cup {NoEpoch}, EagerReconcile(g, e)
      PROVE  GInv'
  <2>1. GenTypeOK
    BY DEF GInv
  <2>2. /\ epochs' \in [Epochs -> EpochRow]
        /\ \A x \in Epochs :
             /\ epochs'[x].gen = epochs[x].gen
             /\ epochs[x].meta \/ (x = e /\ x \notin Leftovers(g, e)) => epochs'[x].meta
             /\ epochs'[x].proc = IF x \in Leftovers(g, e) THEN "dead"
                                  ELSE IF x = e THEN "serving" ELSE epochs[x].proc
    BY <1>5, <2>1, EagerReconcileShape
  <2>3. /\ gens' \in [Gens -> GenRow]
        /\ \A h \in Gens : gens'[h].current = IF h = g THEN e ELSE gens[h].current
    BY <1>5, <2>1, RepairShape, ZenonT(60) DEF EagerReconcile
  <2>4. active' = e /\ UNCHANGED daemon
    BY <1>5 DEF EagerReconcile
  <2>5. e # NoEpoch =>
          /\ e \in Epochs /\ epochs[e].gen = g /\ e \notin Leftovers(g, e)
          /\ \A x \in Epochs : epochs[x].gen = g /\ epochs[x].proc = "serving" => x = e
    <3> SUFFICES ASSUME e # NoEpoch
                 PROVE  /\ e \in Epochs /\ epochs[e].gen = g /\ e \notin Leftovers(g, e)
                        /\ \A x \in Epochs : epochs[x].gen = g /\ epochs[x].proc = "serving" => x = e
      OBVIOUS
    <3>1. e \in Epochs /\ e \in Adoptable(g)
      BY <1>5 DEF EagerReconcile
    <3>2. epochs[e].gen = g /\ e \notin Leftovers(g, e)
      BY <3>1 DEF Adoptable, Running, EpochsOf, Leftovers
    <3>3. epochs[e].proc = "serving" \/ CanServe(e)
      BY <3>1 DEF Adoptable
    <3> QED
      BY <3>1, <3>2, <3>3 DEF CanServe, EpochsOf, GInv, PointersOK
  <2>6. \A x \in Epochs : epochs[x].gen = NoGen => x # e /\ x \notin Leftovers(g, e)
    BY <2>5, GenerationsAssumption DEF Leftovers, EpochsOf
  <2>7. \A x \in Epochs : epochs[x].gen = NoGen => epochs'[x] = NoRow
    <3>1. ASSUME NEW x \in Epochs, epochs[x].gen = NoGen PROVE epochs'[x] = epochs[x]
      BY <1>5, <2>6, <3>1 DEF EagerReconcile
    <3> QED
      BY <3>1 DEF GInv, RowsOK
  <2>8. GenTypeOK' /\ RowsOK'
    BY <1>1, <2>1, <2>2, <2>3, <2>4, <2>7 DEF GenTypeOK, RowsOK
  <2>9. RoutedIsServing'
    BY <2>2, <2>4, <2>5 DEF RoutedIsServing
  <2>10. PointersOK'
    <3>1. \A h \in Gens : gens[h].current \in Epochs \cup {NoEpoch}
      BY <2>1 DEF GenTypeOK, GenRow
    <3>2. ASSUME NEW h \in Gens, gens'[h].current # NoEpoch
          PROVE  epochs'[gens'[h].current].gen = h /\ epochs'[gens'[h].current].proc = "serving"
      <4>1. CASE h = g
        BY <2>2, <2>3, <2>5, <3>2, <4>1
      <4>2. CASE h # g
        <5> DEFINE c == gens[h].current
        <5>1. c \in Epochs /\ epochs[c].gen = h /\ epochs[c].proc = "serving" /\ gens'[h].current = c
          BY <2>3, <3>1, <3>2, <4>2 DEF GInv, PointersOK
        <5>2. c # e /\ c \notin Leftovers(g, e)
          BY <2>5, <4>2, <5>1, GenerationsAssumption DEF Leftovers, EpochsOf
        <5> QED
          BY <2>2, <5>1, <5>2
      <4> QED
        BY <4>1, <4>2
    <3>3. ASSUME NEW x \in Epochs, epochs'[x].proc = "serving"
          PROVE  epochs'[x].meta /\ (x = e \/ epochs[x].proc = "serving")
      BY <2>2, <3>3 DEF GInv, PointersOK
    <3>4. ASSUME NEW x \in Epochs, NEW y \in Epochs, epochs'[x].gen = epochs'[y].gen,
                 epochs'[x].proc = "serving", epochs'[y].proc = "serving"
          PROVE  x = y
      <4>1. (x = e \/ epochs[x].proc = "serving") /\ (y = e \/ epochs[y].proc = "serving")
        BY <3>3, <3>4
      <4>2. epochs[x].gen = epochs[y].gen
        BY <2>2, <3>4
      <4>3. CASE x = e \/ y = e
        BY <2>5, <4>1, <4>2, <4>3, GenerationsAssumption
      <4>4. CASE x # e /\ y # e
        BY <4>1, <4>2, <4>4 DEF GInv, PointersOK
      <4> QED
        BY <4>3, <4>4
    <3> QED
      BY <3>2, <3>3, <3>4 DEF PointersOK
  <2> QED
    BY <1>3, <2>8, <2>9, <2>10 DEF GInv
<1>6. ASSUME NEW g \in Gens, AbortsAdoption(g) PROVE GInv'
  <2>1. UNCHANGED <<gens, epochs, active>> /\ daemon' \in [Epochs -> {"none", "up", "gone"}]
    BY <1>6 DEF AbortsAdoption, Adoptable, Running, EpochsOf, rows, GInv, GenTypeOK
  <2> QED
    BY <1>4, <2>1
<1>7. CASE UNCHANGED <<rows, daemon, active>>
  BY <1>4, <1>7 DEF rows, GInv, GenTypeOK
<1> QED
  BY <1>5, <1>6, <1>7 DEF RouterStart, ActiveRows

\* GInv is inductive.
LEMMA GInvStep == GInv /\ [GenNext]_genVars => GInv'
<1> SUFFICES ASSUME GInv, [GenNext]_genVars PROVE GInv'
  OBVIOUS
<1>1. CASE UNCHANGED genVars
  BY <1>1 DEF genVars, rows, memory, GInv, GenTypeOK, DownIsEmpty, RowsOK, OwnsEpoch, Owns,
              LocksHeld, Locks, PointersOK, RoutedIsServing
<1>2. ASSUME NEW t \in Threads, CallStart(t) \/ CallActivate(t) \/ ThreadStep(t) PROVE GInv'
  BY <1>2, ThreadStepCases, CallInv, RefreshInv, FindOrCreateInv, StopsInv, AdvanceInv,
     InsertEpochInv, FailingInv, PromoteInv, InstallInv, OperatorInv
<1> QED
  BY <1>1, <1>2, DaemonDiesInv, RouterCrashInv, RouterStartInv DEF GenNext

\* A set whose elements are all equal has at most one.
LEMMA AtMostOne ==
  ASSUME NEW S, \A x, y \in S : x = y
  PROVE  Cardinality(S) <= 1
<1>1. CASE S = {}
  BY <1>1, FS_EmptySet
<1>2. CASE S # {}
  <2>1. PICK x \in S : TRUE
    BY <1>2
  <2>2. S = {x}
    BY <2>1
  <2> QED
    BY <2>2, FS_Singleton
<1> QED
  BY <1>1, <1>2

\* The registry never routes a request to an epoch that was given up for
\* dead: what it holds as active serves and has its daemon on record
\* (_refresh_active_locked, _mint_install_unlocked, adopt_generation,
\* _eager_reconcile), for any threads, generations and epochs and all faults.
THEOREM RoutedServes == GenSpec => []RoutedIsServing
<1>1. GInv => RoutedIsServing
  BY DEF GInv
<1> QED
  BY <1>1, GenInitInv, GInvStep, PTL DEF GenSpec

\* The invariant gives the pointers their uniqueness as a cardinality.
LEMMA PointersFromGInv == GInv => PointersAgree
<1> SUFFICES ASSUME GInv PROVE PointersAgree
  OBVIOUS
<1>1. ASSUME NEW g \in Gens
      PROVE  Cardinality({e \in EpochsOf(g) : epochs[e].proc = "serving"}) <= 1
  BY AtMostOne DEF EpochsOf, GInv, PointersOK
<1> QED
  BY <1>1 DEF GInv, PointersOK, PointersAgree

\* The durable pointer of a generation and the states of its epochs agree,
\* through every repair, crash and compare-and-set (cas_epoch_serving,
\* reconcile_stale_epochs): retirement kills what the pointer names.
THEOREM PointersHold == GenSpec => []PointersAgree
BY PointersFromGInv, GenInitInv, GInvStep, PTL DEF GenSpec

-----------------------------------------------------------------------------
(* One active generation                                                   *)

\* Idle threads rely on nothing.
LEMMA IdleIsSafe ==
  ASSUME NEW t \in Threads, thread'[t] = Idle
  PROVE  Safe(t)'
BY IdleType DEF Safe

\* A step of one thread that leaves every lifecycle alone keeps FlipIsSafe if
\* it leaves that thread in order.
LEMMA FlipFrame ==
  ASSUME FlipIsSafe, NEW t \in Threads,
         \A g \in Gens : gens'[g].life = gens[g].life,
         \A u \in Threads : u # t => thread'[u] = thread[u],
         \/ opLock' = opLock
         \/ opLock = NoThread /\ opLock' = t
         \/ opLock = t /\ opLock' = NoThread,
         active' # NoEpoch => active' = active \/ ActiveRows # {},
         ActiveRows' = ActiveRows => Safe(t)'
  PROVE  FlipIsSafe'
<1>1. ActiveRows' = ActiveRows
  BY DEF ActiveRows
<1>2. ASSUME NEW u \in Threads, u # t PROVE Safe(u)'
  BY <1>1, <1>2, GenerationsAssumption DEF FlipIsSafe, Safe
<1> QED
  BY <1>1, <1>2 DEF FlipIsSafe

\* CallStart and CallActivate.
LEMMA CallSafe ==
  ASSUME GInv, FlipIsSafe, NEW t \in Threads, CallStart(t) \/ CallActivate(t)
  PROVE  FlipIsSafe'
<1>1. PICK k \in {"none", "start", "activate", "retire"}, p \in Pc :
         /\ p = "active"
         /\ thread' = [thread EXCEPT ![t] = [Idle EXCEPT !.kind = k, !.pc = p]]
         /\ \/ k = "start" /\ opLock' = opLock
            \/ k = "activate" /\ opLock = NoThread /\ opLock' = t
  BY DEF CallStart, CallActivate, Pc
<1>2. /\ thread'[t].kind = k /\ thread'[t].pc = "active" /\ ~thread'[t].mint
      /\ \A u \in Threads : u # t => thread'[u] = thread[u]
  BY <1>1, CalledShape DEF GInv, GenTypeOK
<1>3. Safe(t)'
  BY <1>1, <1>2 DEF Safe
<1> QED
  BY <1>1, <1>2, <1>3, FlipFrame DEF CallStart, CallActivate, rows

\* The end of active(), and a failure of the mint or of activate.
LEMMA EndSafe ==
  ASSUME GInv, FlipIsSafe, NEW t \in Threads, ActiveRows # {},
         \A g \in Gens : gens'[g].life = gens[g].life,
         \A u \in Threads : u # t => thread'[u] = thread[u],
         \/ /\ thread'[t] = Idle
            /\ \/ opLock' = IF opLock = t THEN NoThread ELSE opLock
               \/ opLock = t /\ opLock' = NoThread
         \/ /\ thread[t].kind = "activate" /\ opLock' = opLock
            /\ thread'[t].kind = "activate" /\ thread'[t].pc = "list" /\ ~thread'[t].mint
  PROVE  FlipIsSafe'
<1>1. CASE thread'[t] = Idle
  <2>1. Safe(t)'
    BY <1>1, IdleIsSafe
  <2>2. opLock' = opLock \/ (opLock = t /\ opLock' = NoThread)
    BY <1>1, IdleType
  <2> QED
    BY <2>1, <2>2, FlipFrame
<1>2. CASE /\ thread[t].kind = "activate" /\ opLock' = opLock
           /\ thread'[t].kind = "activate" /\ thread'[t].pc = "list" /\ ~thread'[t].mint
  <2>1. Safe(t)
    BY DEF FlipIsSafe
  <2>2. ActiveRows' = ActiveRows => Safe(t)'
    BY <1>2, <2>1 DEF Safe
  <2> QED
    BY <1>2, <2>2, FlipFrame
<1> QED
  BY <1>1, <1>2

\* Refresh, Install and the failures: active() has found or made an active
\* generation by then.
LEMMA AnswerSafe ==
  ASSUME GInv, FlipIsSafe, NEW t \in Threads,
         Refresh(t) \/ Install(t) \/ SpawnFails(t) \/ PromoteFails(t)
  PROVE  FlipIsSafe'
<1>1. GenTypeOK /\ thread \in [Threads -> Work] /\ Safe(t) /\ Owns(t) /\ Locks(t)
  BY DEF GInv, GenTypeOK, FlipIsSafe, OwnsEpoch, LocksHeld
<1>2. CASE Refresh(t)
  <2>1. ActiveRows # {} /\ active \in Epochs
    BY <1>1, <1>2 DEF Refresh, FlipIsSafe, GenTypeOK
  <2>2. Answered(t, TRUE) \/ Answered(t, FALSE)
    BY <1>2 DEF Refresh
  <2>3. \A g \in Gens : gens'[g].life = gens[g].life
    BY <1>1, <1>2, <2>1, RepairShape DEF Refresh
  <2> QED
    BY <1>1, <2>1, <2>2, <2>3, AnsweredShape, EndSafe
<1>3. CASE Install(t) \/ SpawnFails(t) \/ PromoteFails(t)
  <2>1. thread[t].pc \in {"spawn", "promote", "install"} /\ thread[t].epoch \in Epochs
    BY <1>1, <1>3 DEF Install, SpawnFails, PromoteFails, At, Owns, Minting
  <2>2. ActiveRows # {}
    BY <1>1, <2>1 DEF Safe, Locks
  <2>3. CASE Dead(thread[t].epoch) /\ Fails(t)
    <3>1. \A g \in Gens : gens'[g].life = gens[g].life
      BY <1>1, <2>1, <2>3, DeadShape
    <3>2. ~thread[t].mint => opLock = t
      BY <1>1, <2>1, IdleType DEF Safe
    <3>3. /\ \A u \in Threads : u # t => thread'[u] = thread[u]
          /\ \/ /\ thread'[t] = Idle
                /\ \/ opLock' = IF opLock = t THEN NoThread ELSE opLock
                   \/ ~thread[t].mint /\ opLock' = NoThread
             \/ /\ thread[t].kind = "activate" /\ opLock' = opLock /\ thread[t].mint
                /\ thread'[t].kind = "activate" /\ thread'[t].pc = "list" /\ ~thread'[t].mint
      BY <1>1, <2>3, FailsShape
    <3> QED
      BY <2>2, <3>1, <3>2, <3>3, EndSafe
  <2>4. CASE Answered(t, TRUE) /\ UNCHANGED rows
    <3>1. \A g \in Gens : gens'[g].life = gens[g].life
      BY <2>4 DEF rows
    <3> QED
      BY <1>1, <2>2, <2>4, <3>1, AnsweredShape, EndSafe
  <2> QED
    BY <1>3, <2>3, <2>4 DEF Install, SpawnFails, PromoteFails
<1> QED
  BY <1>2, <1>3

\* A mint, and activate until it flips: the steps that leave lifecycles alone.
LEMMA MoveSafe ==
  ASSUME GInv, FlipIsSafe, "reads" \notin Faults, NEW t \in Threads,
         Finds(t) \/ Inserts(t) \/ Spawn(t) \/ Promote(t) \/ ListActive(t) \/ Adopt(t)
  PROVE  FlipIsSafe'
<1>1. GenTypeOK /\ thread \in [Threads -> Work] /\ Safe(t) /\ Owns(t) /\ Locks(t)
  BY DEF GInv, GenTypeOK, FlipIsSafe, OwnsEpoch, LocksHeld
<1>2. CASE Finds(t)
  <2>1. /\ thread'[t].mint /\ thread'[t].kind = thread[t].kind /\ thread[t].pc = "active"
        /\ thread'[t].pc = IF ActiveRows = {} THEN "create" ELSE "insert"
        /\ \A u \in Threads : u # t => thread'[u] = thread[u]
    BY <1>1, <1>2, FindOrCreateShape
  <2>2. UNCHANGED <<gens, active, opLock>>
    BY <1>2 DEF Finds, rows
  <2>3. ActiveRows' = ActiveRows => Safe(t)'
    BY <1>1, <2>1, <2>2, IdleType DEF Safe
  <2> QED
    BY <2>1, <2>2, <2>3, FlipFrame
<1>3. CASE Inserts(t)
  <2>1. /\ thread[t].pc = "insert"
        /\ thread'[t].pc = "spawn" /\ thread'[t].kind = thread[t].kind
        /\ thread'[t].old = thread[t].old /\ thread'[t].mint = thread[t].mint
        /\ \A u \in Threads : u # t => thread'[u] = thread[u]
    BY <1>1, <1>3, InsertEpochShape
  <2>2. UNCHANGED <<gens, active, opLock>>
    BY <1>3 DEF Inserts
  <2>3. ActiveRows' = ActiveRows => Safe(t)'
    BY <1>1, <2>1, <2>2, IdleType DEF Safe
  <2> QED
    BY <2>1, <2>2, <2>3, FlipFrame
<1>4. CASE Spawn(t) \/ Promote(t)
  <2>1. thread[t].pc \in {"spawn", "promote"} /\ thread[t].epoch \in Epochs
    BY <1>1, <1>4 DEF Spawn, Promote, At, Owns, Minting
  <2>2. PICK p \in {"promote", "install", "flip"} :
          Goto(t, p) /\ (p = "install" => thread[t].mint) /\ (p = "flip" => ~thread[t].mint)
    BY <1>4 DEF Spawn, Promote
  <2>3. p \in Pc
    BY DEF Pc
  <2>4. /\ thread'[t].pc = p /\ thread'[t].kind = thread[t].kind
        /\ thread'[t].old = thread[t].old /\ thread'[t].mint = thread[t].mint
        /\ \A u \in Threads : u # t => thread'[u] = thread[u]
    BY <1>1, <2>2, <2>3, GotoShape
  <2>5. UNCHANGED <<active, opLock>> /\ \A g \in Gens : gens'[g].life = gens[g].life
    BY <1>1, <1>4, <2>1, ServeShape DEF Spawn, Promote, rows
  <2>6. ActiveRows' = ActiveRows => Safe(t)'
    BY <1>1, <2>1, <2>2, <2>4, <2>5, IdleType DEF Safe
  <2> QED
    BY <2>4, <2>5, <2>6, FlipFrame
<1>5. CASE ListActive(t)
  <2>1. /\ thread[t].pc = "list"
        /\ thread'[t].pc = "create" /\ thread'[t].kind = thread[t].kind
        /\ thread'[t].mint = thread[t].mint
        /\ \/ thread'[t].old \in ActiveRows
           \/ ActiveRows = {} \/ "reads" \in Faults
        /\ \A u \in Threads : u # t => thread'[u] = thread[u]
    BY <1>1, <1>5, ListActiveShape
  <2>2. UNCHANGED <<gens, active, opLock>>
    BY <1>5 DEF ListActive, rows
  <2>3. ActiveRows' = ActiveRows => Safe(t)'
    BY <1>1, <2>1, <2>2, IdleType DEF Safe, Locks
  <2> QED
    BY <2>1, <2>2, <2>3, FlipFrame
<1>6. CASE Adopt(t)
  <2>1. /\ thread' = [thread EXCEPT ![t] = Idle] /\ thread[t].pc = "adopt"
        /\ UNCHANGED gens /\ opLock' = NoThread
    BY <1>6 DEF Adopt, At, rows
  <2>2. thread'[t] = Idle /\ \A u \in Threads : u # t => thread'[u] = thread[u]
    BY <1>1, <2>1, IdleType, OneThread
  <2>3. ActiveRows # {} /\ opLock = t
    BY <1>1, <2>1, IdleType DEF Safe, Locks
  <2> QED
    BY <2>1, <2>2, <2>3, EndSafe
<1> QED
  BY <1>2, <1>3, <1>4, <1>5, <1>6

\* With a store that answers, a mint stops nowhere: at most one row is active.
LEMMA NeverStops ==
  ASSUME FlipIsSafe, "reads" \notin Faults, "writes" \notin Faults, NEW t \in Threads, Stops(t)
  PROVE  FALSE
<1>1. Cardinality(ActiveRows) > 1
  BY DEF Stops
<1>2. CASE ActiveRows = {}
  BY <1>1, <1>2, FS_EmptySet
<1>3. ASSUME NEW g \in ActiveRows PROVE FALSE
  <2>1. ActiveRows = {g}
    BY DEF FlipIsSafe
  <2> QED
    BY <1>1, <2>1, FS_Singleton
<1> QED
  BY <1>2, <1>3

\* A mint creates its generation active while none is; activate creates it
\* ready.
LEMMA CreateSafe ==
  ASSUME GInv, FlipIsSafe, NEW t \in Threads, Creates(t)
  PROVE  FlipIsSafe'
<1> DEFINE h == thread[t].gen
<1>1. /\ GenTypeOK /\ Safe(t) /\ Owns(t) /\ Locks(t)
      /\ thread[t].pc = "create" /\ gens[h].life = "none" /\ h \in Gens
  BY DEF GInv, FlipIsSafe, OwnsEpoch, LocksHeld, Creates, At, Owns
<1>2. /\ thread'[t].pc = "insert" /\ thread'[t].kind = thread[t].kind
      /\ thread'[t].old = thread[t].old /\ thread'[t].mint = thread[t].mint
      /\ \A u \in Threads : u # t => thread'[u] = thread[u]
  BY <1>1, GotoShape DEF Creates, GenTypeOK, Pc
<1>3. UNCHANGED <<active, opLock>>
  BY DEF Creates
<1>4. /\ \A g \in Gens : g # h => gens'[g] = gens[g]
      /\ gens'[h].life = IF thread[t].mint THEN "active" ELSE "ready"
  <2>1. gens \in [Gens -> GenRow] /\ gens[h] \in GenRow
    BY <1>1 DEF GenTypeOK
  <2>2. gens' = [gens EXCEPT ![h].life = IF thread[t].mint THEN "active" ELSE "ready"]
    BY DEF Creates
  <2> QED
    BY <1>1, <2>1, <2>2 DEF GenRow
<1>5. CASE thread[t].mint
  <2>1. ActiveRows' = {h}
    BY <1>1, <1>4, <1>5 DEF Safe, ActiveRows
  <2>2. ActiveRows = {} /\ regLock = t
    BY <1>1, <1>5 DEF Safe, Locks
  <2>3. ASSUME NEW u \in Threads, u # t PROVE Safe(u)'
    <3>1. Safe(u) /\ ~thread[u].mint
      BY <2>2, <2>3 DEF FlipIsSafe, GInv, LocksHeld, Locks
    <3> QED
      BY <1>2, <1>3, <2>1, <2>2, <2>3, <3>1 DEF Safe
  <2>4. Safe(t)'
    BY <1>1, <1>2, <1>3, <1>5, <2>1, IdleType DEF Safe
  <2> QED
    BY <2>1, <2>3, <2>4 DEF FlipIsSafe
<1>6. CASE ~thread[t].mint
  <2>1. ActiveRows' = ActiveRows
    BY <1>1, <1>4, <1>6 DEF ActiveRows
  <2>2. ASSUME NEW u \in Threads, u # t PROVE Safe(u)'
    BY <1>2, <1>3, <2>1, <2>2 DEF FlipIsSafe, Safe
  <2>3. Safe(t)'
    BY <1>1, <1>2, <1>3, <1>6, <2>1, IdleType DEF Safe
  <2> QED
    BY <1>3, <2>1, <2>2, <2>3 DEF FlipIsSafe
<1> QED
  BY <1>5, <1>6

\* The flip: the generation that activate lists is still the only one that
\* is active, and it is the one that drains.
LEMMA FlipSafe ==
  ASSUME GInv, FlipIsSafe, NEW t \in Threads, Flip(t)
  PROVE  FlipIsSafe'
<1> DEFINE h == thread[t].gen  o == thread[t].old
<1>1. /\ GenTypeOK /\ Safe(t) /\ Owns(t) /\ Locks(t) /\ thread[t].pc = "flip" /\ h \in Gens
      /\ UNCHANGED <<active, opLock>>
  BY DEF GInv, FlipIsSafe, OwnsEpoch, LocksHeld, Flip, At, Owns, Minting
<1>2. o \in ActiveRows /\ opLock = t /\ ~thread[t].mint
  BY <1>1, IdleType DEF Safe, Locks
<1>3. /\ thread'[t].pc = "adopt" /\ thread'[t].kind = thread[t].kind
      /\ thread'[t].mint = thread[t].mint
      /\ \A u \in Threads : u # t => thread'[u] = thread[u]
  <2>1. "adopt" \in Pc /\ thread \in [Threads -> Work] /\ Goto(t, "adopt")
    BY <1>1 DEF Pc, GenTypeOK, Flip
  <2> QED
    BY <2>1, GotoShape
<1>4. ActiveRows' = {h}
  <2>1. \A g \in Gens : gens[g].life = "active" => g = o
    BY <1>2 DEF FlipIsSafe, ActiveRows
  <2>2. \A g \in Gens :
          /\ g = h => gens'[g].life = "active"
          /\ g # h /\ g = o => gens'[g].life = "draining"
          /\ g # h /\ g # o => gens'[g].life = gens[g].life
    BY <1>1, FlipShape
  <2> QED
    BY <1>1, <2>1, <2>2 DEF ActiveRows
<1>5. ASSUME NEW u \in Threads, u # t PROVE Safe(u)'
  <2>1. Safe(u)
    BY DEF FlipIsSafe
  <2>2. thread[u].kind \in {"start", "none"}
    BY <1>2, <1>5, <2>1 DEF Safe
  <2> QED
    BY <1>1, <1>2, <1>3, <1>4, <1>5, <2>1, <2>2, IdleType DEF Safe
<1>6. Safe(t)'
  BY <1>1, <1>2, <1>3, <1>4, IdleType DEF Safe
<1> QED
  BY <1>4, <1>5, <1>6 DEF FlipIsSafe

\* FlipIsSafe holds initially.
LEMMA FlipIsSafeInit == GenInit => FlipIsSafe
<1> SUFFICES ASSUME GenInit PROVE FlipIsSafe
  OBVIOUS
<1>1. ActiveRows = {} /\ active = NoEpoch /\ \A t \in Threads : thread[t] = Idle
  BY DEF GenInit, ActiveRows
<1> QED
  BY <1>1, IdleType DEF FlipIsSafe, Safe

\* Every step keeps FlipIsSafe, if the store does not fail.
LEMMA FlipIsSafeStep ==
  ASSUME "reads" \notin Faults, "writes" \notin Faults
  PROVE  GInv /\ FlipIsSafe /\ [GenNext]_genVars => FlipIsSafe'
<1> SUFFICES ASSUME GInv, FlipIsSafe, [GenNext]_genVars PROVE FlipIsSafe'
  OBVIOUS
<1>1. CASE UNCHANGED genVars
  BY <1>1 DEF genVars, rows, memory, FlipIsSafe, Safe, ActiveRows
<1>2. ASSUME NEW t \in Threads, CallStart(t) \/ CallActivate(t) \/ ThreadStep(t) PROVE FlipIsSafe'
  BY <1>2, ThreadStepCases, CallSafe, AnswerSafe, MoveSafe, CreateSafe, FlipSafe, NeverStops
<1>3. ASSUME NEW e \in Epochs, DaemonDies(e) PROVE FlipIsSafe'
  BY <1>3 DEF DaemonDies, rows, memory, FlipIsSafe, Safe, ActiveRows
<1>4. CASE RouterCrash
  <2>1. ActiveRows' = ActiveRows /\ active' = NoEpoch /\ \A t \in Threads : thread'[t] = Idle
    BY <1>4 DEF RouterCrash, ActiveRows, rows
  <2> QED
    BY <2>1, IdleType DEF FlipIsSafe, Safe
<1>5. CASE RouterStart
  <2>1. UNCHANGED <<thread, opLock>>
    BY <1>5 DEF RouterStart
  <2>2. \A g \in Gens : gens'[g].life = gens[g].life
    BY <1>5, RepairShape DEF RouterStart, EagerReconcile, AbortsAdoption, rows, GInv
  <2>3. ActiveRows' = ActiveRows
    BY <2>2 DEF ActiveRows
  <2>4. active' # NoEpoch => ActiveRows # {}
    BY <1>5 DEF RouterStart, AbortsAdoption, FlipIsSafe
  <2> QED
    BY <2>1, <2>3, <2>4 DEF FlipIsSafe, Safe
<1> QED
  BY <1>1, <1>2, <1>3, <1>4, <1>5 DEF GenNext

\* Never two active generations: no interleaving of activate with the mints
\* of request threads, of daemons that die, of failing health checks, and of
\* router crashes and restarts at any point leaves the store in the state that
\* registry.active() and the router's constructor refuse.  The store itself
\* must answer: activate swallows a mint that fails to write its generation
\* (operator.py:141-148, registry.py:597-603) and takes a failing read for
\* "none is active" (operator.py:150-157), and either way a start that mints
\* meanwhile makes a second one.
THEOREM NeverTwoActive ==
  ASSUME "reads" \notin Faults, "writes" \notin Faults
  PROVE  GenSpec => []OneActive
<1>1. FlipIsSafe => OneActive
  BY AtMostOne DEF FlipIsSafe, OneActive
<1> QED
  BY <1>1, GenInitInv, GInvStep, FlipIsSafeInit, FlipIsSafeStep, PTL DEF GenSpec

-----------------------------------------------------------------------------
(* Nothing goes back                                                       *)

\* The body of OnlyAdvances.
Advances ==
  /\ \A e \in Epochs : /\ epochs[e].proc = "dead" => epochs'[e].proc = "dead"
                       /\ epochs[e].meta => epochs'[e].meta
  /\ \A g \in Gens : LifeRank[gens[g].life] <= LifeRank[gens'[g].life]

\* The ranks of the lifecycle states.
LEMMA Ranks ==
  /\ \A l \in Life : LifeRank[l] \in Nat
  /\ LifeRank["none"] = 0 /\ LifeRank["ready"] = 1 /\ LifeRank["active"] = 2
  /\ LifeRank["draining"] = 3
BY DEF Life, LifeRank

\* A step that leaves the lifecycles alone.
LEMMA SameLife ==
  ASSUME GInv, \A g \in Gens : gens'[g].life = gens[g].life
  PROVE  \A g \in Gens : LifeRank[gens[g].life] <= LifeRank[gens'[g].life]
BY Ranks DEF GInv, GenTypeOK, GenRow

\* Every step only advances.
LEMMA AdvancesStep == GInv /\ [GenNext]_genVars => Advances \/ UNCHANGED genVars
<1> SUFFICES ASSUME GInv, GenNext PROVE Advances
  OBVIOUS
<1>1. /\ GenTypeOK
      /\ \A g \in Gens : gens[g].life \in Life
  BY DEF GInv, GenTypeOK, GenRow
<1>2. ASSUME UNCHANGED epochs PROVE \A e \in Epochs :
               /\ epochs[e].proc = "dead" => epochs'[e].proc = "dead"
               /\ epochs[e].meta => epochs'[e].meta
  BY <1>2
<1>3. ASSUME NEW t \in Threads, CallStart(t) \/ CallActivate(t) \/ Finds(t) \/ Stops(t)
                                  \/ ListActive(t) \/ Adopt(t) \/ Spawn(t) \/ (\E e \in Epochs : DaemonDies(e))
      PROVE  Advances
  <2>1. UNCHANGED rows
    BY <1>3 DEF CallStart, CallActivate, Finds, Stops, ListActive, Adopt, Spawn, DaemonDies
  <2> QED
    BY <1>2, <2>1, SameLife DEF Advances, rows
<1>4. ASSUME NEW t \in Threads, Refresh(t) PROVE Advances
  <2>1. active \in Epochs
    BY <1>1, <1>4 DEF Refresh, GenTypeOK
  <2>2. \A g \in Gens : gens'[g].life = gens[g].life
    BY <1>1, <1>4, <2>1, RepairShape DEF Refresh
  <2> QED
    BY <1>2, <1>4, <2>2, SameLife DEF Advances, Refresh
<1>5. ASSUME NEW t \in Threads, Creates(t) PROVE Advances
  <2>1. thread[t].gen \in Gens /\ gens[thread[t].gen].life = "none"
    BY <1>5 DEF Creates, At, GInv, OwnsEpoch, Owns
  <2>2. /\ \A g \in Gens : g # thread[t].gen => gens'[g].life = gens[g].life
        /\ gens'[thread[t].gen].life \in {"active", "ready"}
    <3>1. gens' = [gens EXCEPT ![thread[t].gen].life = IF thread[t].mint THEN "active" ELSE "ready"]
      BY <1>5 DEF Creates
    <3> QED
      BY <1>1, <2>1, <3>1 DEF GenTypeOK, GenRow
  <2>3. \A g \in Gens : LifeRank[gens[g].life] <= LifeRank[gens'[g].life]
    BY <1>1, <2>1, <2>2, Ranks
  <2> QED
    BY <1>2, <1>5, <2>3 DEF Advances, Creates
<1>6. ASSUME NEW t \in Threads, Flip(t) PROVE Advances
  <2>1. \A g \in Gens :
          \/ gens'[g].life = gens[g].life
          \/ gens[g].life = "ready" /\ gens'[g].life = "active"
          \/ gens[g].life = "active" /\ gens'[g].life = "draining"
    BY <1>1, <1>6, FlipShape
  <2>2. \A g \in Gens : LifeRank[gens[g].life] <= LifeRank[gens'[g].life]
    BY <1>1, <2>1, Ranks
  <2> QED
    BY <1>2, <1>6, <2>2 DEF Advances, Flip
<1>7. ASSUME NEW t \in Threads, Inserts(t) PROVE Advances
  <2>1. PICK e \in Epochs :
          epochs[e] = NoRow /\ \A x \in Epochs : x # e => epochs'[x] = epochs[x]
    BY <1>1, <1>7, InsertEpochShape
  <2>2. epochs[e].proc # "dead" /\ ~epochs[e].meta
    BY <2>1 DEF NoRow
  <2>3. UNCHANGED gens
    BY <1>7 DEF Inserts
  <2> QED
    BY <2>1, <2>2, <2>3, SameLife DEF Advances
<1>8. ASSUME NEW e \in Epochs, Dead(e) PROVE Advances
  <2>1. /\ epochs'[e].proc = "dead" /\ epochs'[e].meta = epochs[e].meta
        /\ \A x \in Epochs : x # e => epochs'[x] = epochs[x]
        /\ \A g \in Gens : gens'[g].life = gens[g].life
    BY <1>1, <1>8, DeadShape
  <2> QED
    BY <2>1, SameLife DEF Advances
<1>9. ASSUME NEW t \in Threads, SpawnFails(t) \/ PromoteFails(t) \/ Install(t) PROVE Advances
  <2>1. thread[t].epoch \in Epochs
    BY <1>9 DEF SpawnFails, PromoteFails, Install, At, GInv, OwnsEpoch, Owns, Minting
  <2>2. Dead(thread[t].epoch) \/ UNCHANGED rows
    BY <1>9 DEF SpawnFails, PromoteFails, Install
  <2>3. UNCHANGED rows => Advances
    BY <1>2, SameLife DEF Advances, rows
  <2> QED
    BY <1>8, <2>1, <2>2, <2>3
<1>10. ASSUME NEW t \in Threads, Promote(t) PROVE Advances
  <2> DEFINE e == thread[t].epoch
  <2>1. e \in Epochs /\ epochs[e].proc = "starting" /\ Serve(e)
    BY <1>10 DEF Promote, At, GInv, OwnsEpoch, Owns, Minting
  <2> HIDE DEF e
  <2>2. /\ epochs'[e].meta
        /\ \A x \in Epochs : x # e => epochs'[x] = epochs[x]
        /\ \A g \in Gens : gens'[g].life = gens[g].life
    BY <1>1, <2>1, ServeShape
  <2>3. \A g \in Gens : LifeRank[gens[g].life] <= LifeRank[gens'[g].life]
    BY <2>2, SameLife
  <2>4. ASSUME NEW x \in Epochs
        PROVE  /\ epochs[x].proc = "dead" => epochs'[x].proc = "dead"
               /\ epochs[x].meta => epochs'[x].meta
    BY <2>1, <2>2
  <2> QED
    BY <2>3, <2>4 DEF Advances
<1>11. CASE RouterCrash \/ (\E e \in Epochs : DaemonDies(e))
  <2>1. UNCHANGED rows
    BY <1>11 DEF RouterCrash, DaemonDies
  <2> QED
    BY <1>2, <2>1, SameLife DEF Advances, rows
<1>12. ASSUME NEW g \in Gens, NEW e \in Epochs \cup {NoEpoch}, EagerReconcile(g, e) PROVE Advances
  <2>1. \A h \in Gens : gens'[h].life = gens[h].life
    BY <1>1, <1>12, RepairShape DEF EagerReconcile
  <2>2. e # NoEpoch => epochs[e].proc # "dead"
    BY <1>12 DEF EagerReconcile, Adoptable, CanServe
  <2>3. \A x \in Epochs :
          /\ epochs[x].meta => epochs'[x].meta
          /\ epochs'[x].proc = IF x \in Leftovers(g, e) THEN "dead"
                               ELSE IF x = e THEN "serving" ELSE epochs[x].proc
    BY <1>1, <1>12, EagerReconcileShape
  <2> QED
    BY <2>1, <2>2, <2>3, SameLife, GenerationsAssumption DEF Advances
<1>13. CASE RouterStart
  BY <1>2, <1>12, <1>13, SameLife DEF RouterStart, AbortsAdoption, ActiveRows, Advances, rows
<1> QED
  BY <1>3, <1>4, <1>5, <1>6, <1>7, <1>9, <1>10, <1>11, <1>13, ThreadStepCases DEF GenNext

\* A dead epoch never serves again, a lifecycle never goes back, and the
\* incarnation of a daemon is never forgotten, whatever races with what
\* (cas_epoch_serving, set_generation_lifecycle_state_atomic,
\* _eager_reconcile).
THEOREM NothingGoesBack == GenSpec => OnlyAdvances
<1>1. GInv /\ [GenNext]_genVars => [Advances]_genVars
  BY AdvancesStep
<1>2. GenSpec => [][Advances]_genVars
  BY <1>1, GenInitInv, GInvStep, PTL DEF GenSpec
<1> QED
  BY <1>2 DEF OnlyAdvances, Advances

\* The types of the registry, the rows and the threads hold throughout.
THEOREM GenerationsTyped == GenSpec => []GenTypeOK
<1>1. GInv => GenTypeOK
  BY DEF GInv
<1> QED
  BY <1>1, GenInitInv, GInvStep, PTL DEF GenSpec
=============================================================================
