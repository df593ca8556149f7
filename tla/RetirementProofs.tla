-------------------------- MODULE RetirementProofs --------------------------
(***************************************************************************)
(* Proofs about Retirement: the registry's guarantees hold while           *)
(* generations are retired, a certificate is final, no result is given up  *)
(* while its executor may run, the leader of an executor keeps its record, *)
(* and nobody else kills it while its daemon runs.                         *)
(***************************************************************************)
EXTENDS Retirement, GenerationsProofs, WellFoundedInduction, FunctionTheorems

-----------------------------------------------------------------------------
(* The inductive invariant                                                 *)

\* The steps of retire.
RetirePc == {"lock", "certify", "children", "lose", "resolve", "status", "rpc", "final",
             "reap", "oracle", "clear", "finish"}

SessRow == [stage : Stage, epoch : Epochs \cup {NoEpoch}, leader : Leader, rest : BOOLEAN,
            record : BOOLEAN, seq : Nat]

\* The stages in which a session's result is stored.
Stored == {"persisted", "cleaned", "owing", "done"}

\* A session has an epoch once it is admitted, and a number once its result
\* is stored; there is a greatest number.
SessOK ==
  /\ sess \in [Sessions -> SessRow]
  /\ \E b \in Nat : \A s \in Sessions : sess[s].seq <= b
  /\ \A s \in Sessions : /\ sess[s].stage = "none" => sess[s].epoch = NoEpoch
                         /\ sess[s].stage \in Stored => sess[s].seq > 0

\* What a thread in retire may rely on.  The epoch it reconciles is dead, and
\* so is its daemon, for good; when it gives up results every executor they
\* would come from is dead, with its whole group.
RetThread(t) ==
  /\ thread[t].pc \in RetirePc /\ thread[t].clean # NoEpoch => epochs[thread[t].clean].gen # NoGen
  /\ thread[t].pc \in {"children", "lose"} =>
       /\ thread[t].epoch \in Epochs
       /\ epochs[thread[t].epoch].proc = "dead" /\ daemon[thread[t].epoch] # "up"
  /\ thread[t].pc = "lose" =>
       \A s \in Outstanding(thread[t].epoch) : ~Alive(sess[s]) /\ ~sess[s].rest

\* What CertifiedIsFinal says of one epoch.
Final(e) == Outstanding(e) = {} /\ Owes(e) = {} /\ HighWater(e) = epochs[e].final

\* Only an epoch that has served can be certified, so no daemon of it starts.
CertOK ==
  \A e \in Epochs : epochs[e].ret = "certified" =>
    epochs[e].proc \in {"serving", "dead"} /\ Final(e)

RetInv ==
  /\ GInv /\ SessOK /\ CertOK /\ RecordsAreKept
  /\ \A t \in Threads : RetThread(t)

-----------------------------------------------------------------------------
(* What the steps of Generations leave alone                               *)

\* No thread is brought into retire.
LEMMA ThreadsLeave ==
  ASSUME GInv, GenNext
  PROVE  \A t \in Threads : thread'[t] = thread[t] \/ thread'[t].pc \notin RetirePc
<1>1. GenTypeOK /\ thread \in [Threads -> Work]
  BY DEF GInv, GenTypeOK
<1>2. {"active", "insert", "promote", "adopt", "install", "flip"} \subseteq Pc
  BY DEF Pc
<1>3. ASSUME NEW t \in Threads, \A u \in Threads : u # t => thread'[u] = thread[u],
             thread'[t] = Idle \/ thread'[t].pc \notin RetirePc
      PROVE  \A u \in Threads : thread'[u] = thread[u] \/ thread'[u].pc \notin RetirePc
  BY <1>3, IdleType DEF RetirePc
<1>4. ASSUME NEW t \in Threads, CallStart(t) \/ CallActivate(t)
      PROVE  \A u \in Threads : thread'[u] = thread[u] \/ thread'[u].pc \notin RetirePc
  <2>1. PICK k \in {"start", "activate"} :
          thread' = [thread EXCEPT ![t] = [Idle EXCEPT !.kind = k, !.pc = "active"]]
    BY <1>4 DEF CallStart, CallActivate
  <2>2. k \in {"none", "start", "activate", "retire"} /\ "active" \in Pc
    BY <1>2
  <2>3. /\ thread'[t].pc = "active"
        /\ \A u \in Threads : u # t => thread'[u] = thread[u]
    BY <1>1, <2>1, <2>2, CalledShape
  <2> QED
    BY <1>3, <2>3 DEF RetirePc
<1>5. ASSUME NEW t \in Threads, Refresh(t) \/ Install(t) \/ SpawnFails(t) \/ PromoteFails(t)
      PROVE  \A u \in Threads : thread'[u] = thread[u] \/ thread'[u].pc \notin RetirePc
  <2>1. (Answered(t, TRUE) \/ Answered(t, FALSE)) \/ Fails(t)
    BY <1>5 DEF Refresh, Install, SpawnFails, PromoteFails
  <2>2. /\ thread'[t] = Idle \/ thread'[t].pc = "list"
        /\ \A u \in Threads : u # t => thread'[u] = thread[u]
    BY <1>1, <2>1, AnsweredShape, FailsShape
  <2> QED
    BY <1>3, <2>2 DEF RetirePc
<1>11. ASSUME NEW t \in Threads, Stops(t)
       PROVE  \A u \in Threads : thread'[u] = thread[u] \/ thread'[u].pc \notin RetirePc
  <2>1. /\ thread'[t] = Idle \/ thread'[t].pc = "list"
        /\ \A u \in Threads : u # t => thread'[u] = thread[u]
    BY <1>1, <1>11, StopsShape DEF GInv
  <2> QED
    BY <1>3, <2>1 DEF RetirePc
<1>6. ASSUME NEW t \in Threads, Finds(t) \/ Inserts(t) \/ ListActive(t)
      PROVE  \A u \in Threads : thread'[u] = thread[u] \/ thread'[u].pc \notin RetirePc
  <2>1. /\ thread'[t].pc \in {"create", "insert", "spawn"}
        /\ \A u \in Threads : u # t => thread'[u] = thread[u]
    BY <1>1, <1>6, FindOrCreateShape, InsertEpochShape, ListActiveShape
  <2> QED
    BY <1>3, <2>1 DEF RetirePc
<1>7. ASSUME NEW t \in Threads, Creates(t) \/ Spawn(t) \/ Promote(t) \/ Flip(t)
      PROVE  \A u \in Threads : thread'[u] = thread[u] \/ thread'[u].pc \notin RetirePc
  <2>1. PICK p \in {"insert", "promote", "install", "flip", "adopt"} : Goto(t, p)
    BY <1>7 DEF Creates, Spawn, Promote, Flip
  <2>2. /\ thread'[t].pc = p
        /\ \A u \in Threads : u # t => thread'[u] = thread[u]
    BY <1>1, <1>2, <2>1, GotoShape
  <2> QED
    BY <1>3, <2>2 DEF RetirePc
<1>8. ASSUME NEW t \in Threads, Adopt(t)
      PROVE  \A u \in Threads : thread'[u] = thread[u] \/ thread'[u].pc \notin RetirePc
  <2>1. thread' = [thread EXCEPT ![t] = Idle]
    BY <1>8 DEF Adopt
  <2> QED
    BY <1>1, <1>3, <2>1, IdleType, OneThread
<1>9. CASE RouterStart \/ (\E e \in Epochs : DaemonDies(e))
  BY <1>9 DEF RouterStart, DaemonDies, memory
<1>10. CASE RouterCrash
  BY <1>10, IdleType DEF RouterCrash, RetirePc
<1> QED
  BY <1>4, <1>5, <1>6, <1>7, <1>8, <1>9, <1>10, <1>11, ThreadStepCases DEF GenNext

\* What the steps of Generations may do to the row of an epoch.
RowsFrame ==
  \A e \in Epochs :
    /\ epochs'[e].ret = epochs[e].ret /\ epochs'[e].final = epochs[e].final
    /\ epochs[e].gen # NoGen => epochs'[e].gen # NoGen
    /\ epochs[e].proc = "dead" => epochs'[e].proc = "dead"
    /\ epochs[e].proc = "serving" => epochs'[e].proc \in {"serving", "dead"}

\* Certificates are left to retire.
LEMMA RowsKept == ASSUME GInv, GenNext PROVE RowsFrame
<1>1. GenTypeOK
  BY DEF GInv
<1>2. ASSUME UNCHANGED epochs PROVE RowsFrame
  BY <1>2 DEF RowsFrame
<1>3. ASSUME NEW e \in Epochs, Dead(e) PROVE RowsFrame
  <2>1. /\ epochs'[e].proc = "dead" /\ epochs'[e].gen = epochs[e].gen
        /\ epochs'[e].ret = epochs[e].ret /\ epochs'[e].final = epochs[e].final
        /\ \A x \in Epochs : x # e => epochs'[x] = epochs[x]
    BY <1>1, <1>3, DeadShape
  <2> QED
    BY <2>1 DEF RowsFrame
<1>4. ASSUME NEW t \in Threads, SpawnFails(t) \/ PromoteFails(t) \/ Install(t) PROVE RowsFrame
  <2>1. thread[t].epoch \in Epochs
    BY <1>4 DEF SpawnFails, PromoteFails, Install, At, GInv, OwnsEpoch, Owns, Minting
  <2>2. Dead(thread[t].epoch) \/ UNCHANGED rows
    BY <1>4 DEF SpawnFails, PromoteFails, Install
  <2> QED
    BY <1>2, <1>3, <2>1, <2>2 DEF rows
<1>5. ASSUME NEW t \in Threads, Inserts(t) PROVE RowsFrame
  <2>1. PICK e \in Epochs :
          /\ epochs[e] = NoRow /\ epochs'[e].ret = "open" /\ epochs'[e].final = 0
          /\ \A x \in Epochs : x # e => epochs'[x] = epochs[x]
    BY <1>1, <1>5, InsertEpochShape
  <2> QED
    BY <2>1 DEF RowsFrame, NoRow
<1>6. ASSUME NEW t \in Threads, Promote(t) PROVE RowsFrame
  <2> DEFINE e == thread[t].epoch
  <2>1. e \in Epochs /\ epochs[e].proc = "starting" /\ Serve(e)
    BY <1>6 DEF Promote, At, GInv, OwnsEpoch, Owns, Minting
  <2> HIDE DEF e
  <2>2. /\ epochs'[e].proc = "serving" /\ epochs'[e].gen = epochs[e].gen
        /\ epochs'[e].ret = epochs[e].ret /\ epochs'[e].final = epochs[e].final
        /\ \A x \in Epochs : x # e => epochs'[x] = epochs[x]
    BY <1>1, <2>1, ServeShape
  <2> QED
    BY <2>1, <2>2 DEF RowsFrame
<1>7. ASSUME NEW g \in Gens, NEW e \in Epochs \cup {NoEpoch}, EagerReconcile(g, e) PROVE RowsFrame
  <2>1. e # NoEpoch => epochs[e].proc # "dead"
    BY <1>7 DEF EagerReconcile, Adoptable, CanServe
  <2>2. \A x \in Epochs :
          /\ epochs'[x].gen = epochs[x].gen /\ epochs'[x].ret = epochs[x].ret
          /\ epochs'[x].final = epochs[x].final
          /\ epochs'[x].proc = IF x \in Leftovers(g, e) THEN "dead"
                               ELSE IF x = e THEN "serving" ELSE epochs[x].proc
    BY <1>1, <1>7, EagerReconcileShape
  <2> QED
    BY <2>1, <2>2, GenerationsAssumption DEF RowsFrame
<1>8. CASE RouterStart
  BY <1>2, <1>7, <1>8 DEF RouterStart, AbortsAdoption, ActiveRows, rows
<1>9. CASE RouterCrash \/ (\E e \in Epochs : DaemonDies(e))
  BY <1>2, <1>9 DEF RouterCrash, DaemonDies, rows
<1>10. ASSUME NEW t \in Threads, CallStart(t) \/ CallActivate(t) \/ Refresh(t) \/ Finds(t)
                \/ Stops(t) \/ Creates(t) \/ Spawn(t) \/ ListActive(t) \/ Flip(t) \/ Adopt(t)
       PROVE  RowsFrame
  <2>1. UNCHANGED epochs
    BY <1>10 DEF CallStart, CallActivate, Refresh, Finds, Stops, Creates, Spawn,
                 ListActive, Flip, Adopt, rows
  <2> QED
    BY <1>2, <2>1
<1> QED
  BY <1>4, <1>5, <1>6, <1>8, <1>9, <1>10, ThreadStepCases DEF GenNext

\* A daemon starts only for an epoch that is starting.
LEMMA DaemonsKept ==
  ASSUME GInv, GenNext
  PROVE  \A e \in Epochs : daemon'[e] = "up" => daemon[e] = "up" \/ epochs[e].proc = "starting"
<1>1. daemon \in [Epochs -> {"none", "up", "gone"}]
  BY DEF GInv, GenTypeOK
<1>2. ASSUME NEW t \in Threads, Spawn(t) \/ SpawnFails(t)
      PROVE  \A e \in Epochs : daemon'[e] = "up" => daemon[e] = "up" \/ epochs[e].proc = "starting"
  <2> DEFINE d == thread[t].epoch
  <2>1. d \in Epochs /\ epochs[d].proc = "starting"
    BY <1>2 DEF Spawn, SpawnFails, At, GInv, OwnsEpoch, Owns, Minting
  <2>2. daemon' = Spawned(d) \/ daemon' = [Spawned(d) EXCEPT ![d] = "gone"]
    BY <1>2 DEF Spawn, SpawnFails
  <2> HIDE DEF d
  <2>3. \A e \in Epochs : Spawned(d)[e] = "up" => daemon[e] = "up" \/ e = d
    BY DEF Spawned
  <2>4. \A e \in Epochs : [Spawned(d) EXCEPT ![d] = "gone"][e] = "up" => daemon[e] = "up" \/ e = d
    BY DEF Spawned
  <2> QED
    BY <2>1, <2>2, <2>3, <2>4
<1>3. ASSUME NEW t \in Threads, PromoteFails(t)
      PROVE  \A e \in Epochs : daemon'[e] = "up" => daemon[e] = "up"
  BY <1>1, <1>3 DEF PromoteFails, Reaped
<1>4. ASSUME NEW d \in Epochs, DaemonDies(d)
      PROVE  \A e \in Epochs : daemon'[e] = "up" => daemon[e] = "up"
  BY <1>1, <1>4 DEF DaemonDies
<1>5. ASSUME RouterStart
      PROVE  \A e \in Epochs : daemon'[e] = "up" => daemon[e] = "up"
  BY <1>1, <1>5 DEF RouterStart, EagerReconcile, AbortsAdoption, rows
<1>6. ASSUME NEW t \in Threads, CallStart(t) \/ CallActivate(t) \/ Refresh(t) \/ Finds(t)
                \/ Stops(t) \/ Creates(t) \/ Inserts(t) \/ Promote(t) \/ Install(t)
                \/ ListActive(t) \/ Flip(t) \/ Adopt(t) \/ RouterCrash
      PROVE  UNCHANGED daemon
  BY <1>6 DEF CallStart, CallActivate, Refresh, Finds, Stops, Creates, Inserts,
              Promote, Install, ListActive, Flip, Adopt, RouterCrash
<1>7. CASE RouterCrash
  BY <1>7 DEF RouterCrash
<1> QED
  BY <1>2, <1>3, <1>4, <1>5, <1>6, <1>7, ThreadStepCases DEF GenNext


-----------------------------------------------------------------------------
(* Sessions                                                                *)

\* A set of natural numbers has a least element.
LEMMA Least ==
  ASSUME NEW S, S \subseteq Nat, S # {}
  PROVE  \E m \in S : \A n \in S : m <= n
<1>1. PICK m \in S : \A n \in S : ~(<<n, m>> \in OpToRel(<, Nat))
  BY NatLessThanWellFounded, WFMin
<1>2. ASSUME NEW n \in S, n < m PROVE FALSE
  BY <1>1, <1>2 DEF OpToRel
<1> QED
  BY <1>2

\* Max is the greatest element of a set that has a bound.
LEMMA MaxIsGreatest ==
  ASSUME NEW S, S \subseteq Nat, S # {}, NEW b \in Nat, \A n \in S : n <= b
  PROVE  Max(S) \in S /\ \A n \in S : n <= Max(S)
<1> DEFINE U == {u \in Nat : \A n \in S : n <= u}
<1>1. PICK m \in U : \A u \in U : m <= u
  <2>1. b \in U
    OBVIOUS
  <2>2. U \subseteq Nat
    OBVIOUS
  <2> HIDE DEF U
  <2> QED
    BY <2>1, <2>2, Least
<1>2. m \in S
  <2>1. SUFFICES ASSUME m \notin S PROVE FALSE
    OBVIOUS
  <2>2. \A n \in S : n <= m - 1
    BY <1>1, <2>1
  <2>3. m - 1 \in Nat
    <3>1. PICK n \in S : n <= m - 1
      BY <2>2
    <3> QED
      BY <1>1, <3>1
  <2> QED
    BY <1>1, <2>2, <2>3
<1> QED
  BY <1>1, <1>2 DEF Max

\* The number that put_terminal gives out next is positive, and no session of
\* the epoch has one above it.
LEMMA HighWaterShape ==
  ASSUME SessOK, NEW e \in Epochs
  PROVE  /\ HighWater(e) \in Nat
         /\ \A s \in SessionsOf(e) : sess[s].seq <= HighWater(e)
<1> DEFINE S == Seqs(e) \cup {0}
<1>1. PICK b \in Nat : \A s \in Sessions : sess[s].seq <= b
  BY DEF SessOK
<1>2. \A s \in Sessions : sess[s].seq \in Nat
  BY DEF SessOK, SessRow
<1>3. S \subseteq Nat /\ S # {} /\ \A n \in S : n <= b
  BY <1>1, <1>2 DEF Seqs, SessionsOf
<1>4. Max(S) \in S /\ \A n \in S : n <= Max(S)
  <2> HIDE DEF S
  <2> QED
    BY <1>1, <1>3, MaxIsGreatest
<1>5. ASSUME NEW s \in SessionsOf(e) PROVE sess[s].seq \in S
  BY DEF Seqs
<1> QED
  BY <1>3, <1>4, <1>5 DEF HighWater

\* What a step may do to the row of a session that it does not belong to:
\* its executor is killed or ends, a leader that goes on running keeps its
\* record, and what its daemon knew of it may be gone.
Weaker(r, w) ==
  /\ w \in SessRow
  /\ w.epoch = r.epoch /\ w.seq = r.seq
  /\ \/ w.stage = r.stage
     \/ w.stage = "orphan" /\ r.stage \in Recorded
     \/ w.stage = "left" /\ r.stage \in CleanedUp
  /\ Alive(w) => Alive(r)
  /\ w.rest => r.rest
  /\ w.leader = "runs" => r.leader = "runs" /\ (r.record => w.record)

SessFrame ==
  /\ sess' \in [Sessions -> SessRow]
  /\ \A s \in Sessions : Weaker(sess[s], sess'[s])

\* What kill_group leaves, and that reconcile_orphans forgets no leader that
\* it did not kill, and does nothing to one whose daemon runs.
LEMMA ReconciledShape ==
  ASSUME NEW r \in SessRow, NEW own \in BOOLEAN, NEW obeys \in BOOLEAN
  PROVE  LET w == Reconciled(r, own, obeys) IN
         /\ Weaker(r, w)
         /\ own => /\ w.leader = r.leader /\ w.rest = r.rest
                   /\ Alive(r) => w.record = r.record
<1>1. CASE r.record /\ ~(own /\ Alive(r))
  <2> PICK k \in Leader : /\ Alive(r) => k \in {"none", "killed"}
                          /\ ~Alive(r) => k = r.leader
                          /\ KillGroup(r, obeys) = [r EXCEPT !.leader = k]
    <3>1. CASE Alive(r) /\ obeys
      <4>1. KillGroup(r, obeys) = [r EXCEPT !.leader = "none"]
        BY <3>1 DEF KillGroup
      <4> QED
        BY <3>1, <4>1 DEF Leader
    <3>2. CASE Alive(r) /\ ~obeys
      <4>1. KillGroup(r, obeys) = [r EXCEPT !.leader = "killed"]
        BY <3>2 DEF KillGroup
      <4> QED
        BY <3>2, <4>1 DEF Leader
    <3>3. CASE ~Alive(r)
      <4>1. KillGroup(r, obeys) = [r EXCEPT !.leader = r.leader]
        BY <3>3 DEF KillGroup, SessRow
      <4> QED
        BY <3>3, <4>1 DEF SessRow
    <3> QED
      BY <3>1, <3>2, <3>3
  <2>1. Reconciled(r, own, obeys) = [r EXCEPT !.leader = k, !.record = FALSE]
    BY <1>1 DEF Reconciled, SessRow
  <2> QED
    BY <1>1, <2>1 DEF SessRow, Weaker, Alive
<1>2. CASE ~(r.record /\ ~(own /\ Alive(r)))
  <2>1. Reconciled(r, own, obeys) = r
    BY <1>2 DEF Reconciled
  <2> QED
    BY <2>1 DEF Weaker
<1> QED
  BY <1>1, <1>2

LEMMA RememberedShape ==
  ASSUME NEW r \in SessRow, NEW own \in BOOLEAN
  PROVE  LET w == Remembered(r, own) IN
         /\ Weaker(r, w)
         /\ w.leader = r.leader /\ w.rest = r.rest /\ w.record = r.record
<1> DEFINE at == IF r.stage \in Recorded THEN "orphan"
                 ELSE IF r.stage \in CleanedUp THEN "left" ELSE r.stage
<1>1. r = [r EXCEPT !.stage = r.stage]
  BY DEF SessRow
<1>2. at \in Stage
  BY DEF SessRow, Stage, Recorded, CleanedUp
<1>3. CASE own
  <2>1. Remembered(r, own) = r
    BY <1>3 DEF Remembered
  <2> QED
    BY <2>1 DEF Weaker
<1>4. CASE ~own
  <2>1. Remembered(r, own) = [r EXCEPT !.stage = at]
    BY <1>4 DEF Remembered
  <2>2. \/ at = r.stage
        \/ at = "orphan" /\ r.stage \in Recorded
        \/ at = "left" /\ r.stage \in CleanedUp
    OBVIOUS
  <2> HIDE DEF at
  <2> QED
    BY <1>2, <2>1, <2>2 DEF SessRow, Weaker, Alive
<1> QED
  BY <1>3, <1>4

\* What daemons that start or die do to sessions: nothing to the executor of
\* a daemon that runs.
LEMMA FollowShape ==
  ASSUME SessOK, SessionsFollow
  PROVE  /\ SessFrame
         /\ \A s \in Sessions : sess[s].epoch # NoEpoch /\ daemon'[sess[s].epoch] = "up" =>
              /\ sess'[s].leader = sess[s].leader /\ sess'[s].rest = sess[s].rest
              /\ Alive(sess[s]) => sess'[s].record = sess[s].record
<1> DEFINE mine(s) == sess[s].epoch # NoEpoch /\ daemon'[sess[s].epoch] = "up"
<1>1. PICK obeys \in SUBSET Sessions :
        \/ sess' = [s \in Sessions |-> Remembered(sess[s], mine(s))]
        \/ sess' = [s \in Sessions |->
                       Reconciled(Remembered(sess[s], mine(s)), mine(s), s \in obeys)]
  BY Zenon DEF SessionsFollow
<1>2. /\ SessFrame
      /\ \A s \in Sessions : sess[s].epoch # NoEpoch /\ daemon'[sess[s].epoch] = "up" =>
           /\ sess'[s].leader = sess[s].leader /\ sess'[s].rest = sess[s].rest
           /\ Alive(sess[s]) => sess'[s].record = sess[s].record
  <2>1. ASSUME NEW s \in Sessions
        PROVE  /\ Weaker(sess[s], sess'[s])
               /\ sess[s].epoch # NoEpoch /\ daemon'[sess[s].epoch] = "up" =>
                    /\ sess'[s].leader = sess[s].leader /\ sess'[s].rest = sess[s].rest
                    /\ Alive(sess[s]) => sess'[s].record = sess[s].record
    <3> DEFINE own == mine(s)
               obs == s \in obeys
               rem == Remembered(sess[s], own)
               rec == Reconciled(rem, own, obs)
    <3>1. sess[s] \in SessRow /\ own \in BOOLEAN /\ obs \in BOOLEAN
      BY DEF SessOK
    <3>2. sess'[s] = rem \/ sess'[s] = rec
      BY <1>1, Zenon
    <3> HIDE DEF own, obs
    <3>3. /\ Weaker(sess[s], rem)
          /\ rem.leader = sess[s].leader /\ rem.rest = sess[s].rest /\ rem.record = sess[s].record
      BY <3>1, RememberedShape
    <3> HIDE DEF rem
    <3>4. rem \in SessRow
      BY <3>3 DEF Weaker
    <3>5. /\ Weaker(rem, rec)
          /\ own => /\ rec.leader = rem.leader /\ rec.rest = rem.rest
                    /\ Alive(rem) => rec.record = rem.record
      BY <3>1, <3>4, ReconciledShape
    <3> HIDE DEF rec
    <3>6. Weaker(sess[s], rec)
      BY <3>3, <3>5 DEF Weaker, Alive, Recorded, CleanedUp
    <3>7. /\ Weaker(sess[s], sess'[s])
          /\ own => /\ sess'[s].leader = sess[s].leader /\ sess'[s].rest = sess[s].rest
                    /\ Alive(sess[s]) => sess'[s].record = sess[s].record
      BY <3>2, <3>3, <3>5, <3>6 DEF Alive
    <3> QED
      BY <3>7, Zenon DEF own
  <2>2. sess' = [s \in Sessions |-> sess'[s]]
    BY <1>1
  <2>3. sess' \in [Sessions -> SessRow]
    BY <2>1, <2>2 DEF Weaker
  <2> QED
    BY <2>1, <2>3 DEF SessFrame
<1> QED
  BY <1>2

\* The certificate of an epoch stays true while its daemon does not start,
\* and while its sessions only clean up.
LEMMA FinalKept ==
  ASSUME RetInv, SessOK', NEW e \in Epochs, epochs[e].ret = "certified",
         epochs'[e].final = epochs[e].final,
         daemon'[e] = "up" => daemon[e] = "up",
         \A s \in Sessions : sess[s].epoch = e \/ sess'[s].epoch = e =>
           /\ sess'[s].epoch = sess[s].epoch /\ sess'[s].seq = sess[s].seq
           /\ \/ sess'[s].stage = sess[s].stage \/ sess'[s].stage \in {"cleaned", "done"}
              \/ sess'[s].stage = "orphan" /\ sess[s].stage \in Recorded
              \/ sess'[s].stage = "left" /\ sess[s].stage \in CleanedUp
  PROVE  Final(e)'
<1>1. Final(e)
  BY DEF RetInv, CertOK
<1>2. SessionsOf(e)' = SessionsOf(e)
  BY DEF SessionsOf
<1>3. \A s \in SessionsOf(e) : s \in Sessions /\ sess[s].epoch = e /\ sess'[s].epoch = e
  BY <1>2 DEF SessionsOf
<1>4. Outstanding(e)' = {}
  <2>1. SUFFICES ASSUME NEW s \in SessionsOf(e), sess'[s].seq = 0,
                        sess'[s].stage \notin {"none", "admitted", "void"}
                 PROVE  FALSE
    BY <1>2 DEF Outstanding
  <2>2. sess'[s].stage \notin {"cleaned", "done"}
    BY <1>3, <2>1 DEF SessOK, Stored
  <2>3. sess[s].stage \notin {"none", "admitted", "void"} /\ sess[s].seq = 0
    BY <1>3, <2>1, <2>2 DEF Recorded, CleanedUp
  <2>4. s \in Outstanding(e)
    BY <2>1, <2>3 DEF Outstanding
  <2> QED
    BY <1>1, <2>4 DEF Final
<1>5. Owes(e)' = {}
  <2> DEFINE St == {"admitted", "row", "spawned", "running", "ending", "failed", "unsaved",
                    "owing", "stuck"}
  <2>1. SUFFICES ASSUME NEW s \in SessionsOf(e), sess'[s].stage \in St, daemon'[e] = "up",
                        e # NoEpoch
                 PROVE  FALSE
    BY <1>2, <1>3 DEF Owes, InStage, UpFor
  <2>2. sess'[s].stage = sess[s].stage
    BY <1>3, <2>1
  <2>3. s \in Owes(e)
    BY <1>3, <2>1, <2>2 DEF Owes, InStage, UpFor
  <2> QED
    BY <1>1, <2>3 DEF Final
<1>6. HighWater(e)' = HighWater(e)
  <2>1. Seqs(e)' = Seqs(e)
    BY <1>2, <1>3 DEF Seqs
  <2> QED
    BY <2>1 DEF HighWater
<1> QED
  BY <1>1, <1>4, <1>5, <1>6 DEF Final

\* The invariant but for the rows and threads of Generations: a step that
\* touches sessions only as SessFrame says.
LEMMA KeepsInv ==
  ASSUME RetInv, GInv', SessFrame,
         \A e \in Epochs :
           /\ epochs[e].gen # NoGen => epochs'[e].gen # NoGen
           /\ epochs[e].proc = "dead" => epochs'[e].proc = "dead"
           /\ epochs[e].proc = "serving" => epochs'[e].proc \in {"serving", "dead"}
           /\ daemon'[e] = "up" => daemon[e] = "up" \/ epochs[e].proc = "starting"
           /\ epochs'[e].ret = "certified" =>
                \/ epochs[e].ret = "certified" /\ epochs'[e].final = epochs[e].final
                \/ epochs'[e].proc \in {"serving", "dead"} /\ Final(e)',
         \A t \in Threads : \/ thread'[t] = thread[t] \/ thread'[t].pc \notin RetirePc
                            \/ RetThread(t)'
  PROVE  RetInv'
<1>1. SessOK'
  <2>1. PICK b \in Nat : \A s \in Sessions : sess[s].seq <= b
    BY DEF RetInv, SessOK
  <2>2. \A s \in Sessions : sess'[s].seq <= b
    BY <2>1 DEF SessFrame, Weaker
  <2> QED
    BY <2>2 DEF RetInv, SessOK, SessFrame, Weaker, Stored, Recorded
<1>2. RecordsAreKept'
  BY DEF RetInv, RecordsAreKept, SessFrame, Weaker, Recorded, CleanedUp
<1>3. ASSUME NEW e \in Epochs, epochs'[e].ret = "certified"
      PROVE  epochs'[e].proc \in {"serving", "dead"} /\ Final(e)'
  <2>1. CASE epochs[e].ret = "certified" /\ epochs'[e].final = epochs[e].final
    <3>1. epochs[e].proc \in {"serving", "dead"}
      BY <2>1 DEF RetInv, CertOK
    <3>2. daemon'[e] = "up" => daemon[e] = "up"
      BY <3>1
    <3>3. Final(e)'
      BY <1>1, <2>1, <3>2, FinalKept DEF SessFrame, Weaker
    <3> QED
      BY <3>1, <3>3
  <2> QED
    BY <1>3, <2>1
<1>4. ASSUME NEW t \in Threads PROVE RetThread(t)'
  <2>1. CASE thread'[t] = thread[t]
    <3>1. RetThread(t) /\ thread[t] \in Work
      BY DEF RetInv, GInv, GenTypeOK
    <3>2. /\ thread[t].pc \in RetirePc /\ thread[t].clean # NoEpoch
               => epochs'[thread[t].clean].gen # NoGen
          /\ thread[t].pc \in {"children", "lose"} =>
               /\ thread[t].epoch \in Epochs
               /\ epochs'[thread[t].epoch].proc = "dead" /\ daemon'[thread[t].epoch] # "up"
      BY <3>1 DEF RetThread, Work
    <3>3. ASSUME thread[t].pc = "lose", NEW s \in Outstanding(thread[t].epoch)'
          PROVE  ~Alive(sess'[s]) /\ ~sess'[s].rest
      <4>1. s \in Outstanding(thread[t].epoch) /\ s \in Sessions
        BY <2>1, <3>3 DEF Outstanding, SessionsOf, SessFrame, Weaker, Recorded, CleanedUp
      <4>2. ~Alive(sess[s]) /\ ~sess[s].rest
        BY <3>1, <3>3, <4>1 DEF RetThread
      <4> QED
        BY <4>1, <4>2 DEF SessFrame, Weaker
    <3> QED
      BY <2>1, <3>2, <3>3 DEF RetThread
  <2>2. CASE thread'[t].pc \notin RetirePc
    BY <2>2 DEF RetThread, RetirePc
  <2> QED
    BY <2>1, <2>2
<1> QED
  BY <1>1, <1>2, <1>3, <1>4 DEF RetInv, CertOK

\* The steps of the registry and of activate, with what they do to sessions.
LEMMA GenStepInv ==
  ASSUME RetInv, GenNext, SessionsFollow
  PROVE  RetInv' /\ SessFrame
<1>1. GInv /\ GInv'
  BY GInvStep DEF RetInv
<1>2. SessFrame
  BY FollowShape DEF RetInv
<1>3. RowsFrame
  BY <1>1, RowsKept
<1>4. \A e \in Epochs : daemon'[e] = "up" => daemon[e] = "up" \/ epochs[e].proc = "starting"
  BY <1>1, DaemonsKept
<1>5. \A t \in Threads : thread'[t] = thread[t] \/ thread'[t].pc \notin RetirePc
  BY <1>1, ThreadsLeave
<1>6. \A e \in Epochs : epochs'[e].ret = "certified" =>
        epochs[e].ret = "certified" /\ epochs'[e].final = epochs[e].final
  BY <1>3 DEF RowsFrame
<1> QED
  BY <1>1, <1>2, <1>3, <1>4, <1>5, <1>6, KeepsInv DEF RowsFrame


-----------------------------------------------------------------------------
(* Steps of a session                                                      *)

\* What a session's own steps may do to its row: it is admitted by an epoch
\* that is open; its executor ends; or its daemon runs and it either owes a
\* result or cleans up.
SessMove(s, w) ==
  /\ w \in SessRow /\ sess' = [sess EXCEPT ![s] = w]
  /\ w.stage = "none" => w.epoch = NoEpoch
  /\ w.stage \in Stored => w.seq > 0
  /\ w.stage \in Recorded /\ w.leader = "runs" => w.record
  /\ \/ /\ sess[s].stage = "none" /\ w.seq = 0
        /\ \E e \in Epochs : w.epoch = e /\ daemon[e] = "up" /\ epochs[e].ret = "open"
     \/ /\ w.epoch = sess[s].epoch /\ w.stage = sess[s].stage /\ w.seq = sess[s].seq
        /\ ~Alive(w) /\ w.rest = sess[s].rest
     \/ /\ UpFor(s) /\ w.epoch = sess[s].epoch
        /\ \/ s \in Owes(sess[s].epoch)
           \/ w.seq = sess[s].seq /\ w.stage \in {"cleaned", "done"}

\* A session that is in one of the stages in which it owes a result.
LEMMA Owing ==
  ASSUME NEW s \in Sessions,
         InStage(s, {"admitted", "row", "spawned", "running", "ending", "failed", "unsaved"})
  PROVE  UpFor(s) /\ s \in Owes(sess[s].epoch)
BY DEF InStage, UpFor, Owes, SessionsOf

\* Every step of a session is such a move.
LEMMA SessMoves ==
  ASSUME RetInv, NEW s \in Sessions, SessionStep(s)
  PROVE  UNCHANGED genVars /\ \E w : SessMove(s, w)
<1>1. sess[s] \in SessRow /\ sess \in [Sessions -> SessRow]
      /\ (sess[s].stage \in Stored => sess[s].seq > 0)
      /\ (sess[s].stage = "none" => sess[s].epoch = NoEpoch)
      /\ (sess[s].stage \in Recorded /\ sess[s].leader = "runs" => sess[s].record)
  BY DEF RetInv, SessOK, RecordsAreKept, Recorded
<1> DEFINE r(to) == [sess[s] EXCEPT !.stage = to]
<1>2. ASSUME NEW to \in Stage
      PROVE  /\ r(to) \in SessRow /\ r(to).stage = to /\ r(to).epoch = sess[s].epoch
             /\ r(to).seq = sess[s].seq /\ r(to).leader = sess[s].leader
             /\ r(to).record = sess[s].record
  BY <1>1 DEF SessRow
<1>3. CASE \E e \in Epochs : Admit(s, e)
  <2>1. PICK e \in Epochs : Admit(s, e)
    BY <1>3
  <2> DEFINE w == [NoSession EXCEPT !.stage = "admitted", !.epoch = e]
  <2>2. /\ w \in SessRow /\ w.stage = "admitted" /\ w.epoch = e /\ w.seq = 0
    BY DEF NoSession, SessRow, Stage, Leader, Recorded, CleanedUp
  <2>3. /\ UNCHANGED genVars /\ sess' = [sess EXCEPT ![s] = w]
        /\ sess[s].stage = "none" /\ daemon[e] = "up" /\ epochs[e].ret = "open"
    BY <2>1 DEF Admit, Quiescent
  <2> HIDE DEF w
  <2>4. SessMove(s, w)
    BY <2>2, <2>3 DEF SessMove, Stored, Recorded
  <2> QED
    BY <2>3, <2>4
<1>4. CASE CreateRow(s)
  <2> DEFINE w == r("row")
  <2>1. /\ w \in SessRow /\ w.stage = "row" /\ w.epoch = sess[s].epoch /\ w.leader = sess[s].leader
        /\ w.record = sess[s].record
    BY <1>2 DEF Stage, Recorded, CleanedUp
  <2>2. UNCHANGED genVars /\ sess' = [sess EXCEPT ![s] = w] /\ InStage(s, {"admitted"})
    BY <1>4 DEF CreateRow, Step, Same
  <2> HIDE DEF w
  <2>3. UpFor(s) /\ s \in Owes(sess[s].epoch) /\ sess[s].stage = "admitted"
    BY <2>2, Owing DEF InStage
  <2>4. SessMove(s, w)
    BY <1>1, <2>1, <2>2, <2>3 DEF SessMove, Stored, Recorded
  <2> QED
    BY <2>2, <2>4
<1>5. CASE SpawnChild(s)
  <2> DEFINE w == [r("spawned") EXCEPT !.leader = "runs", !.rest = TRUE]
  <2>1. w \in SessRow /\ w.stage = "spawned" /\ w.epoch = sess[s].epoch
    BY <1>1 DEF SessRow, Stage, Leader, Recorded, CleanedUp
  <2>2. UNCHANGED genVars /\ sess' = [sess EXCEPT ![s] = w] /\ InStage(s, {"row"})
    BY <1>5 DEF SpawnChild, Step
  <2> HIDE DEF w
  <2>3. UpFor(s) /\ s \in Owes(sess[s].epoch)
    BY <2>2, Owing DEF InStage
  <2>4. SessMove(s, w)
    BY <2>1, <2>2, <2>3 DEF SessMove, Stored, Recorded
  <2> QED
    BY <2>2, <2>4
<1>6. CASE RecordChild(s)
  <2> DEFINE w == [r("running") EXCEPT !.record = TRUE]
  <2>1. w \in SessRow /\ w.stage = "running" /\ w.epoch = sess[s].epoch /\ w.record
    BY <1>1 DEF SessRow, Stage, Recorded, CleanedUp
  <2>2. UNCHANGED genVars /\ sess' = [sess EXCEPT ![s] = w] /\ InStage(s, {"spawned"})
    BY <1>6 DEF RecordChild, Step
  <2> HIDE DEF w
  <2>3. UpFor(s) /\ s \in Owes(sess[s].epoch)
    BY <2>2, Owing DEF InStage
  <2>4. SessMove(s, w)
    BY <2>1, <2>2, <2>3 DEF SessMove, Stored, Recorded
  <2> QED
    BY <2>2, <2>4
<1>7. CASE Rollback(s)
  <2> DEFINE w == LetGo(r("void"))
  <2>1. w \in SessRow /\ w.stage = "void" /\ w.epoch = sess[s].epoch
    BY <1>1 DEF SessRow, Stage, LetGo, Leader, Recorded, CleanedUp
  <2>2. UNCHANGED genVars /\ sess' = [sess EXCEPT ![s] = w]
        /\ InStage(s, {"admitted", "row", "spawned"})
    BY <1>7 DEF Rollback, Step
  <2> HIDE DEF w
  <2>3. UpFor(s) /\ s \in Owes(sess[s].epoch)
    BY <2>2, Owing DEF InStage
  <2>4. SessMove(s, w)
    BY <2>1, <2>2, <2>3 DEF SessMove, Stored, Recorded
  <2> QED
    BY <2>2, <2>4
<1>8. CASE End(s) \/ PersistFails(s)
  <2>1. PICK to \in {"failed", "ending"} :
          UNCHANGED genVars /\ sess' = [sess EXCEPT ![s] = r(to)]
            /\ InStage(s, {"running", "ending"})
    BY <1>8 DEF End, PersistFails, Step, Same, InStage
  <2> DEFINE w == r(to)
  <2>2. /\ w \in SessRow /\ w.stage = to /\ w.epoch = sess[s].epoch /\ w.leader = sess[s].leader
        /\ w.record = sess[s].record
    BY <1>2 DEF Stage, Recorded, CleanedUp
  <2> HIDE DEF w
  <2>3. UpFor(s) /\ s \in Owes(sess[s].epoch) /\ sess[s].stage \in Recorded
    BY <2>1, Owing DEF InStage, Recorded
  <2>4. SessMove(s, w)
    BY <1>1, <2>1, <2>2, <2>3 DEF SessMove, Stored, w
  <2> QED
    BY <2>1, <2>4
<1> DEFINE T == Terminal(s)
<1>9. ASSUME UpFor(s)
      PROVE  /\ T \in SessRow /\ T.seq > 0 /\ T.stage = sess[s].stage /\ T.epoch = sess[s].epoch
             /\ T.leader = sess[s].leader /\ T.record = sess[s].record
  <2> DEFINE h == HighWater(sess[s].epoch)
  <2>1. sess[s].epoch \in Epochs
    BY <1>1, <1>9 DEF UpFor, SessRow
  <2>2. h \in Nat
    BY <2>1, HighWaterShape DEF RetInv
  <2>3. T = [sess[s] EXCEPT !.seq = IF @ = 0 THEN h + 1 ELSE @]
    BY DEF Terminal
  <2> HIDE DEF h, T
  <2>4. CASE sess[s].seq = 0
    <3>1. T = [sess[s] EXCEPT !.seq = h + 1]
      BY <2>3, <2>4
    <3> QED
      BY <1>1, <2>2, <3>1 DEF SessRow
  <2>5. CASE sess[s].seq # 0
    <3>1. T = [sess[s] EXCEPT !.seq = sess[s].seq]
      BY <2>3, <2>5
    <3> QED
      BY <1>1, <2>5, <3>1 DEF SessRow
  <2> QED
    BY <2>4, <2>5
<1> HIDE DEF T
<1>10. ASSUME NEW to \in {"persisted", "owing"}, sess' = [sess EXCEPT ![s] = [T EXCEPT !.stage = to]],
              InStage(s, {"ending", "unsaved"}), to = "persisted" => sess[s].stage = "ending"
       PROVE  \E w : SessMove(s, w)
  <2>1. UpFor(s) /\ s \in Owes(sess[s].epoch)
    BY <1>10, Owing DEF InStage
  <2> DEFINE w == [T EXCEPT !.stage = to]
  <2>2. /\ w \in SessRow /\ w.stage = to /\ w.epoch = sess[s].epoch /\ w.seq > 0
        /\ w.leader = sess[s].leader /\ w.record = sess[s].record
    BY <1>9, <2>1 DEF SessRow, Stage, Recorded, CleanedUp
  <2>3. sess' = [sess EXCEPT ![s] = w]
    BY <1>10
  <2> HIDE DEF w
  <2>4. SessMove(s, w)
    BY <1>1, <1>10, <2>1, <2>2, <2>3 DEF SessMove, Stored, Recorded
  <2> QED
    BY <2>4
<1>11. CASE Persist(s)
  BY <1>10, <1>11 DEF Persist, InStage, T
<1>12. CASE CleanUp(s)
  <2>1. PICK to \in {"cleaned", "unsaved"} :
          /\ UNCHANGED genVars
          /\ sess' = [sess EXCEPT ![s] = LetGo(r(to))]
          /\ to = "cleaned" => InStage(s, {"persisted"})
          /\ to = "unsaved" => InStage(s, {"failed"})
    BY <1>12 DEF CleanUp, Step
  <2> DEFINE w == LetGo(r(to))
  <2>2. w \in SessRow /\ w.stage = to /\ w.epoch = sess[s].epoch /\ w.seq = sess[s].seq
    BY <1>1 DEF SessRow, Stage, LetGo, Leader, Recorded, CleanedUp
  <2>3. sess' = [sess EXCEPT ![s] = w]
    BY <2>1
  <2> HIDE DEF w
  <2>4. CASE to = "cleaned"
    <3>1. UpFor(s) /\ sess[s].stage = "persisted"
      BY <2>1, <2>4 DEF InStage
    <3>2. SessMove(s, w)
      BY <1>1, <2>2, <2>3, <2>4, <3>1 DEF SessMove, Stored, Recorded
    <3> QED
      BY <2>1, <3>2
  <2>5. CASE to = "unsaved"
    <3>1. UpFor(s) /\ s \in Owes(sess[s].epoch)
      BY <2>1, <2>5, Owing DEF InStage
    <3>2. SessMove(s, w)
      BY <1>1, <2>2, <2>3, <2>5, <3>1 DEF SessMove, Stored, Recorded
    <3> QED
      BY <2>1, <3>2
  <2> QED
    BY <2>4, <2>5
<1>13. CASE FreeSlot(s)
  <2>1. CASE Step(s, {"cleaned"}, "done", Same)
    <3> DEFINE w == r("done")
    <3>1. /\ w \in SessRow /\ w.stage = "done" /\ w.epoch = sess[s].epoch /\ w.seq = sess[s].seq
          /\ w.leader = sess[s].leader /\ w.record = sess[s].record
      BY <1>2 DEF Stage, Recorded, CleanedUp
    <3>2. UNCHANGED genVars /\ sess' = [sess EXCEPT ![s] = w] /\ InStage(s, {"cleaned"})
      BY <2>1 DEF Step, Same
    <3> HIDE DEF w
    <3>3. UpFor(s) /\ sess[s].stage = "cleaned"
      BY <3>2 DEF InStage
    <3>4. SessMove(s, w)
      BY <1>1, <3>1, <3>2, <3>3 DEF SessMove, Stored, Recorded
    <3> QED
      BY <3>2, <3>4
  <2>2. CASE /\ InStage(s, {"unsaved"})
             /\ sess' = [sess EXCEPT ![s] = [Terminal(s) EXCEPT !.stage = "owing"]]
             /\ UNCHANGED <<genVars, confirmed>>
    BY <1>10, <2>2 DEF InStage, T
  <2>3. CASE Step(s, {"unsaved"}, "stuck", Same)
    <3> DEFINE w == r("stuck")
    <3>1. /\ w \in SessRow /\ w.stage = "stuck" /\ w.epoch = sess[s].epoch
          /\ w.leader = sess[s].leader /\ w.record = sess[s].record
      BY <1>2 DEF Stage, Recorded, CleanedUp
    <3>2. UNCHANGED genVars /\ sess' = [sess EXCEPT ![s] = w] /\ InStage(s, {"unsaved"})
      BY <2>3 DEF Step, Same
    <3> HIDE DEF w
    <3>3. UpFor(s) /\ s \in Owes(sess[s].epoch) /\ sess[s].stage = "unsaved"
      BY <3>2, Owing DEF InStage
    <3>4. SessMove(s, w)
      BY <1>1, <3>1, <3>2, <3>3 DEF SessMove, Stored, Recorded
    <3> QED
      BY <3>2, <3>4
  <2> QED
    BY <1>13, <2>1, <2>2, <2>3 DEF FreeSlot
<1>14. CASE ChildExits(s)
  <2> DEFINE w == [sess[s] EXCEPT !.leader = "none"]
  <2>1. /\ w \in SessRow /\ w.stage = sess[s].stage /\ w.epoch = sess[s].epoch
        /\ w.seq = sess[s].seq /\ ~Alive(w) /\ w.leader = "none" /\ w.rest = sess[s].rest
    BY <1>1 DEF SessRow, Leader, Alive
  <2>2. UNCHANGED genVars /\ sess' = [sess EXCEPT ![s] = w]
    BY <1>14 DEF ChildExits
  <2> HIDE DEF w
  <2>3. SessMove(s, w)
    BY <1>1, <2>1, <2>2 DEF SessMove
  <2> QED
    BY <2>2, <2>3
<1>15. Persist(s) \/ FreeSlot(s) => UNCHANGED genVars
  BY DEF Persist, FreeSlot, Step
<1> QED
  BY <1>3, <1>4, <1>5, <1>6, <1>7, <1>8, <1>11, <1>12, <1>13, <1>14, <1>15 DEF SessionStep

\* A step of a session preserves the invariant: a session of a certified
\* epoch only cleans up, and one of a dead daemon does nothing but end.
LEMMA SessionStepInv ==
  ASSUME RetInv, NEW s \in Sessions, SessionStep(s)
  PROVE  /\ RetInv'
         /\ sess[s].seq = 0 /\ sess'[s].seq > 0 => UpFor(s)
         /\ \A x \in Sessions : x # s => sess'[x] = sess[x]
<1>1. UNCHANGED genVars /\ \E w : SessMove(s, w)
  BY SessMoves
<1>2. PICK w : SessMove(s, w)
  BY <1>1
<1>3. UNCHANGED <<gens, epochs, daemon, active, regLock, opLock, thread, router>>
  BY <1>1 DEF genVars, rows, memory
<1>4. sess \in [Sessions -> SessRow] /\ sess[s] \in SessRow
  BY DEF RetInv, SessOK
<1>5. sess'[s] = w /\ \A x \in Sessions : x # s => sess'[x] = sess[x]
  BY <1>2, <1>4 DEF SessMove
<1>6. GInv'
  BY <1>1, GInvStep DEF RetInv
<1>7. SessOK'
  <2>1. PICK b \in Nat : \A x \in Sessions : sess[x].seq <= b
    BY DEF RetInv, SessOK
  <2>2. \A x \in Sessions : sess[x].seq \in Nat
    BY <1>4 DEF SessRow
  <2>3. w.seq \in Nat /\ w \in SessRow
    BY <1>2 DEF SessMove, SessRow
  <2>4. b + w.seq \in Nat /\ \A x \in Sessions : sess'[x].seq <= b + w.seq
    <3>1. b + w.seq \in Nat
      BY <2>3
    <3>2. ASSUME NEW x \in Sessions PROVE sess'[x].seq <= b + w.seq
      <4>1. CASE x = s
        BY <1>5, <2>3, <4>1
      <4>2. CASE x # s
        BY <1>5, <2>1, <2>2, <2>3, <4>2
      <4> QED
        BY <4>1, <4>2
    <3> QED
      BY <3>1, <3>2
  <2>5. sess' \in [Sessions -> SessRow]
    BY <1>2, <1>4 DEF SessMove
  <2>6. \A x \in Sessions : /\ sess'[x].stage = "none" => sess'[x].epoch = NoEpoch
                            /\ sess'[x].stage \in Stored => sess'[x].seq > 0
    BY <1>2, <1>5 DEF SessMove, RetInv, SessOK
  <2> QED
    BY <2>4, <2>5, <2>6 DEF SessOK
<1>8. RecordsAreKept'
  BY <1>2, <1>5 DEF SessMove, RetInv, RecordsAreKept, Recorded
<1>9. ASSUME NEW e \in Epochs, epochs'[e].ret = "certified"
      PROVE  epochs'[e].proc \in {"serving", "dead"} /\ Final(e)'
  <2>1. epochs[e].ret = "certified" /\ epochs[e].proc \in {"serving", "dead"} /\ Final(e)
    BY <1>3, <1>9 DEF RetInv, CertOK
  <2>2. ASSUME NEW x \in Sessions, sess[x].epoch = e \/ sess'[x].epoch = e
        PROVE  /\ sess'[x].epoch = sess[x].epoch /\ sess'[x].seq = sess[x].seq
               /\ sess'[x].stage = sess[x].stage \/ sess'[x].stage \in {"cleaned", "done"}
    <3>1. CASE x # s
      BY <1>5, <3>1
    <3>2. CASE x = s
      <4>1. CASE sess[s].stage = "none" /\ \E d \in Epochs : w.epoch = d /\ epochs[d].ret = "open"
        <5>1. sess[s].epoch = NoEpoch /\ w.epoch # e
          BY <2>1, <4>1 DEF RetInv, SessOK
        <5> QED
          BY <1>5, <2>2, <3>2, <5>1, GenerationsAssumption
      <4>2. CASE w.epoch = sess[s].epoch /\ w.stage = sess[s].stage /\ w.seq = sess[s].seq
        BY <1>5, <3>2, <4>2
      <4>3. CASE /\ w.epoch = sess[s].epoch
                 /\ \/ s \in Owes(sess[s].epoch)
                    \/ w.seq = sess[s].seq /\ w.stage \in {"cleaned", "done"}
        <5>1. sess[s].epoch = e
          BY <1>5, <2>2, <3>2, <4>3
        <5>2. s \notin Owes(e)
          BY <2>1 DEF Final
        <5> QED
          BY <1>5, <3>2, <4>3, <5>1, <5>2
      <4> QED
        BY <1>2, <4>1, <4>2, <4>3 DEF SessMove
    <3> QED
      BY <3>1, <3>2
  <2>3. Final(e)'
    BY <1>3, <1>7, <2>1, <2>2, FinalKept
  <2> QED
    BY <1>3, <2>1, <2>3
<1>10. ASSUME NEW t \in Threads PROVE RetThread(t)'
  <2>1. RetThread(t)
    BY DEF RetInv
  <2>2. ASSUME thread[t].pc = "lose", NEW x \in Outstanding(thread[t].epoch)'
        PROVE  ~Alive(sess'[x]) /\ ~sess'[x].rest
    <3> DEFINE d == thread[t].epoch
    <3>1. d \in Epochs /\ daemon[d] # "up"
      BY <2>1, <2>2 DEF RetThread
    <3>2. x \in Sessions /\ sess'[x].epoch = d
      BY <1>3, <2>2 DEF Outstanding, SessionsOf
    <3>3. CASE x # s
      <4>1. x \in Outstanding(d)
        BY <1>3, <1>5, <2>2, <3>2, <3>3 DEF Outstanding, SessionsOf
      <4> QED
        BY <1>5, <2>1, <2>2, <3>2, <3>3, <4>1 DEF RetThread
    <3>4. CASE x = s
      <4>1. w.epoch = d
        BY <1>5, <3>2, <3>4
      <4>2. /\ sess[s].epoch = d /\ w.stage = sess[s].stage /\ w.seq = sess[s].seq
            /\ ~Alive(w) /\ w.rest = sess[s].rest
        BY <1>2, <3>1, <4>1 DEF SessMove, UpFor
      <4>3. s \in Outstanding(d)
        BY <1>3, <1>5, <2>2, <3>4, <4>2 DEF Outstanding, SessionsOf
      <4>4. ~sess[s].rest
        BY <2>1, <2>2, <4>3 DEF RetThread
      <4> QED
        BY <1>5, <3>4, <4>2, <4>4
    <3> QED
      BY <3>3, <3>4
  <2> QED
    BY <1>3, <2>1, <2>2 DEF RetThread
<1>11. sess[s].seq = 0 /\ sess'[s].seq > 0 => UpFor(s)
  BY <1>2, <1>4, <1>5 DEF SessMove, SessRow
<1> QED
  BY <1>5, <1>6, <1>7, <1>8, <1>9, <1>10, <1>11 DEF RetInv, CertOK


-----------------------------------------------------------------------------
(* Steps of retire                                                         *)

\* What a step of retire leaves to the registry: it promotes, kills and
\* routes to no epoch, and clears pointers only.
RetFrame(t) ==
  /\ router /\ UNCHANGED <<active, regLock, router>>
  /\ opLock' \in Threads \cup {NoThread}
  /\ gens' \in [Gens -> GenRow]
  /\ \A g \in Gens : gens'[g].current \in {gens[g].current, NoEpoch}
  /\ thread' \in [Threads -> Work] /\ \A u \in Threads : u # t => thread'[u] = thread[u]
  /\ thread[t].pc \in RetirePc \cup {"idle"}
  /\ thread'[t] = Idle \/ (thread'[t].pc \in RetirePc /\ ~thread'[t].mint)
  /\ epochs' \in [Epochs -> EpochRow]
  /\ \A e \in Epochs : /\ epochs'[e].gen = epochs[e].gen /\ epochs'[e].proc = epochs[e].proc
                       /\ epochs'[e].meta = epochs[e].meta
                       /\ epochs[e].gen = NoGen => epochs'[e] = epochs[e]
  /\ daemon' \in [Epochs -> {"none", "up", "gone"}]

\* So the registry's invariant holds while generations are retired.
LEMMA RetFrameInv ==
  ASSUME GInv, NEW t \in Threads, RetFrame(t)
  PROVE  GInv'
<1>1. GenTypeOK'
  BY DEF GInv, GenTypeOK, RetFrame
<1>2. DownIsEmpty'
  BY DEF GInv, DownIsEmpty, RetFrame
<1>3. RowsOK'
  BY DEF RowsOK, GInv, RetFrame
<1>4. thread[t].pc \notin Minting /\ thread'[t].pc \notin {"create", "insert"} \cup Minting
  BY IdleType DEF RetFrame, RetirePc, Minting
<1>5. OwnsEpoch'
  <2>1. \A u \in Threads : Owns(u)'
    <3>1. Owns(t)'
      BY <1>4 DEF Owns
    <3>2. ASSUME NEW u \in Threads, u # t PROVE Owns(u)'
      BY <3>2 DEF GInv, OwnsEpoch, Owns, RetFrame
    <3> QED
      BY <3>1, <3>2
  <2> QED
    BY <1>4, <2>1 DEF GInv, OwnsEpoch, RetFrame
<1>6. LocksHeld'
  <2>1. Locks(t)'
    <3>1. ~thread'[t].mint /\ (thread'[t].pc = "idle" => thread'[t] = Idle)
          /\ thread'[t].pc # "install"
      BY <1>4, IdleType DEF RetFrame, RetirePc, Minting
    <3> QED
      BY <3>1 DEF Locks
  <2> QED
    BY <2>1 DEF GInv, LocksHeld, Locks, RetFrame
<1>7. PointersOK'
  <2>1. ASSUME NEW g \in Gens, gens'[g].current # NoEpoch
        PROVE  epochs'[gens'[g].current].gen = g /\ epochs'[gens'[g].current].proc = "serving"
    <3>1. gens'[g].current = gens[g].current /\ gens[g].current \in Epochs
      BY <2>1 DEF RetFrame, GInv, GenTypeOK, GenRow
    <3> QED
      BY <2>1, <3>1 DEF GInv, PointersOK, RetFrame
  <2> QED
    BY <2>1 DEF GInv, PointersOK, RetFrame
<1>8. RoutedIsServing'
  BY DEF GInv, GenTypeOK, RoutedIsServing, RetFrame
<1> QED
  BY <1>1, <1>2, <1>3, <1>5, <1>6, <1>7, <1>8 DEF GInv

\* Rows and threads as they are satisfy the frame's types.
LEMMA SameTypes ==
  ASSUME GInv
  PROVE  /\ gens \in [Gens -> GenRow] /\ epochs \in [Epochs -> EpochRow]
         /\ thread \in [Threads -> Work] /\ daemon \in [Epochs -> {"none", "up", "gone"}]
         /\ opLock \in Threads \cup {NoThread}
         /\ \A u \in Threads : thread[u] \in Work /\ (thread[u].pc \in RetirePc => ~thread[u].mint)
BY DEF GInv, GenTypeOK, LocksHeld, Locks, RetirePc

\* A thread of retire goes on, or is through, and keeps what it read.
Onward(t) ==
  \/ thread' = [thread EXCEPT ![t] = Idle] /\ opLock' \in {opLock, NoThread}
  \/ opLock' \in {opLock, t} /\ \E p \in RetirePc \ {"children", "lose"} : Goto(t, p)
  \/ UNCHANGED <<thread, opLock>>

\* Such a step of the thread is within the frame, if the rest of it is.
LEMMA OnwardShape ==
  ASSUME RetInv, NEW t \in Threads, thread[t].pc \in RetirePc, Onward(t)
  PROVE  /\ opLock' \in Threads \cup {NoThread}
         /\ thread' \in [Threads -> Work] /\ \A u \in Threads : u # t => thread'[u] = thread[u]
         /\ thread'[t] = Idle \/ (thread'[t].pc \in RetirePc /\ ~thread'[t].mint)
         /\ \/ thread'[t].pc \notin RetirePc \/ thread'[t] = thread[t]
            \/ /\ thread'[t].pc \notin {"children", "lose"}
               /\ thread'[t].clean = thread[t].clean /\ thread[t].pc \in RetirePc
<1>1. /\ thread \in [Threads -> Work] /\ opLock \in Threads \cup {NoThread} /\ ~thread[t].mint
  BY SameTypes DEF RetInv
<1>2. CASE thread' = [thread EXCEPT ![t] = Idle] /\ opLock' \in {opLock, NoThread}
  <2>1. /\ thread' \in [Threads -> Work] /\ thread'[t] = Idle
        /\ \A u \in Threads : u # t => thread'[u] = thread[u]
    BY <1>1, <1>2, IdleType, OneThread
  <2>2. thread'[t].pc \notin RetirePc
    BY <2>1, IdleType DEF RetirePc
  <2> QED
    BY <1>1, <1>2, <2>1, <2>2
<1>3. CASE opLock' \in {opLock, t} /\ \E p \in RetirePc \ {"children", "lose"} : Goto(t, p)
  <2>1. PICK p \in RetirePc \ {"children", "lose"} : Goto(t, p)
    BY <1>3
  <2>2. p \in Pc
    BY DEF RetirePc, Pc
  <2>3. /\ thread' \in [Threads -> Work] /\ \A u \in Threads : u # t => thread'[u] = thread[u]
        /\ thread'[t].pc = p /\ thread'[t].mint = thread[t].mint
        /\ thread'[t].clean = thread[t].clean
    BY <1>1, <2>1, <2>2, GotoShape
  <2> QED
    BY <1>1, <1>3, <2>3
<1>4. CASE UNCHANGED <<thread, opLock>>
  BY <1>1, <1>4
<1> QED
  BY <1>2, <1>3, <1>4 DEF Onward

\* Steps that read the store, move the thread and write the lifecycle, the
\* pointer or the confirmed mark.
LEMMA QuietInv ==
  ASSUME RetInv, NEW t \in Threads, router, thread[t].pc \in RetirePc, Onward(t),
         UNCHANGED <<epochs, daemon, active, regLock, router, sess>>,
         gens' \in [Gens -> GenRow],
         \A g \in Gens : gens'[g].current \in {gens[g].current, NoEpoch}
  PROVE  RetInv'
<1>1. GInv /\ SessOK
  BY DEF RetInv
<1>2. RetFrame(t)
  BY <1>1, SameTypes, OnwardShape DEF RetFrame
<1>3. GInv'
  BY <1>1, <1>2, RetFrameInv
<1>4. SessFrame
  BY <1>1 DEF SessFrame, Weaker, SessOK
<1>5. ASSUME NEW u \in Threads
      PROVE  thread'[u] = thread[u] \/ thread'[u].pc \notin RetirePc \/ RetThread(u)'
  <2>1. CASE u # t
    BY <2>1, <1>2 DEF RetFrame
  <2>2. CASE u = t /\ thread'[t].pc \in RetirePc /\ thread'[t] # thread[t]
    <3>1. thread'[t].pc \notin {"children", "lose"} /\ thread'[t].clean = thread[t].clean
      BY <2>2, OnwardShape
    <3>2. RetThread(t)
      BY DEF RetInv
    <3> QED
      BY <2>2, <3>1, <3>2 DEF RetThread
  <2> QED
    BY <2>1, <2>2
<1> QED
  BY <1>3, <1>4, <1>5, KeepsInv


\* The steps of retire that QuietInv covers.
LEMMA QuietSteps ==
  ASSUME RetInv, NEW t \in Threads,
         RetireLock(t) \/ Resolve(t) \/ CheckQuiesced(t) \/ ResolveAgain(t) \/ NothingToCertify(t)
           \/ Oracle(t) \/ ClearCurrent(t) \/ Finish(t)
  PROVE  RetInv' /\ UNCHANGED sess
<1>1. /\ gens \in [Gens -> GenRow] /\ GenTypeOK
  BY DEF RetInv, GInv, GenTypeOK
<1>2. {"certify", "status", "rpc", "reap", "clear", "finish"} \subseteq RetirePc \ {"children", "lose"}
  BY DEF RetirePc
<1>3. router /\ thread[t].pc \in RetirePc
  BY DEF RetireLock, Resolve, CheckQuiesced, ResolveAgain, NothingToCertify, Oracle, ClearCurrent,
         Finish, At, RetirePc
<1>4. UNCHANGED <<epochs, daemon, active, regLock, router, sess>>
  BY DEF RetireLock, Resolve, CheckQuiesced, ResolveAgain, NothingToCertify, Oracle, ClearCurrent,
         Finish, rows, sessVars
<1>5. Onward(t)
  <2>1. CASE RetireLock(t)
    BY <1>2, <2>1 DEF RetireLock, Onward
  <2>2. CASE Resolve(t)
    BY <1>2, <2>2 DEF Resolve, Onward
  <2>3. CASE CheckQuiesced(t)
    BY <1>2, <2>3 DEF CheckQuiesced, Blocked, Onward
  <2>4. CASE ResolveAgain(t)
    BY <1>2, <2>4 DEF ResolveAgain, Blocked, Onward
  <2>5. CASE NothingToCertify(t)
    BY <1>2, <2>5 DEF NothingToCertify, Onward
  <2>6. CASE Oracle(t)
    BY <1>2, <2>6 DEF Oracle, Blocked, Onward
  <2>7. CASE ClearCurrent(t)
    BY <1>2, <2>7 DEF ClearCurrent, Onward
  <2>8. CASE Finish(t)
    BY <1>2, <2>8 DEF Finish, Blocked, Onward
  <2> QED
    BY <2>1, <2>2, <2>3, <2>4, <2>5, <2>6, <2>7, <2>8
<1>6. /\ gens' \in [Gens -> GenRow]
      /\ \A g \in Gens : gens'[g].current \in {gens[g].current, NoEpoch}
  <2>1. CASE UNCHANGED gens
    BY <1>1, <2>1
  <2>2. CASE ClearCurrent(t)
    <3>1. gens' = [gens EXCEPT ![thread[t].gen].current = NoEpoch]
      BY <2>2 DEF ClearCurrent
    <3> PICK h : h = thread[t].gen
      OBVIOUS
    <3>2. gens' = [gens EXCEPT ![h].current = NoEpoch]
      BY <3>1
    <3> QED
      BY <1>1, <3>2 DEF GenRow
  <2>3. CASE Finish(t) /\ ~UNCHANGED gens
    <3> DEFINE h    == thread[t].gen
               next == [active |-> "draining", draining |-> "retiring", retiring |-> "retired"]
    <3>1. gens[h].life \in DOMAIN next /\ gens' = [gens EXCEPT ![h].life = next[@]]
      BY <2>3 DEF Finish
    <3>2. \A l \in DOMAIN next : next[l] \in Life
      BY DEF Life
    <3> HIDE DEF next, h
    <3>3. ASSUME NEW g \in Gens
          PROVE  gens'[g] \in GenRow /\ gens'[g].current = gens[g].current
      <4>1. gens[g] \in GenRow
        BY <1>1
      <4>2. CASE g = h
        <5>1. gens'[g] = [gens[g] EXCEPT !.life = next[gens[g].life]] /\ next[gens[g].life] \in Life
          BY <1>1, <3>1, <3>2, <4>2
        <5> QED
          BY <4>1, <5>1 DEF GenRow
      <4>3. CASE g # h
        BY <1>1, <3>1, <4>1, <4>3
      <4> QED
        BY <4>2, <4>3
    <3>4. gens' = [g \in Gens |-> gens'[g]]
      BY <1>1, <3>1
    <3> QED
      BY <3>3, <3>4
  <2> QED
    BY <2>1, <2>2, <2>3
    DEF RetireLock, Resolve, CheckQuiesced, ResolveAgain, NothingToCertify, Oracle, rows
<1> QED
  BY <1>3, <1>4, <1>5, <1>6, QuietInv

\* retire begins with a generation that has epochs of its own.
LEMMA RetireBeginInv ==
  ASSUME RetInv, NEW t \in Threads, NEW g \in Gens, RetireBegin(t, g)
  PROVE  RetInv' /\ UNCHANGED sess
<1> DEFINE todo  == {e \in EpochsOf(g) : epochs[e].ret # "certified"}
           c     == gens[g].current
           clean == IF c \in todo /\ epochs[c].proc # "dead" THEN c ELSE NoEpoch
           crash == {e \in todo : epochs[e].proc = "dead"}
           op    == clean # NoEpoch /\ epochs[clean].ret = "open"
           w     == [Idle EXCEPT !.kind = "retire", !.pc = "lock", !.gen = g, !.crash = crash,
                                 !.clean = clean, !.open = op]
<1>1. /\ router /\ thread[t].pc = "idle" /\ thread' = [thread EXCEPT ![t] = w]
      /\ UNCHANGED <<gens, epochs, daemon, active, regLock, opLock, router, sess>>
  BY DEF RetireBegin, At, rows, sessVars
<1>2. todo \subseteq Epochs /\ \A e \in todo : epochs[e].gen = g
  BY DEF EpochsOf
<1>3. clean \in Epochs \cup {NoEpoch} /\ crash \in SUBSET Epochs /\ op \in BOOLEAN
      /\ (clean # NoEpoch => epochs[clean].gen # NoGen)
  BY <1>2, GenerationsAssumption
<1> HIDE DEF clean, crash, op
<1>4. w \in Work /\ w.pc = "lock" /\ w.clean = clean /\ ~w.mint
  BY <1>3 DEF Idle, Work, Pc
<1> HIDE DEF w
<1>5. GInv /\ SessOK
  BY DEF RetInv
<1>6. /\ thread' \in [Threads -> Work] /\ thread'[t] = w
      /\ \A u \in Threads : u # t => thread'[u] = thread[u]
  BY <1>1, <1>4, <1>5, SameTypes, OneThread
<1>7. RetFrame(t)
  BY <1>1, <1>4, <1>5, <1>6, SameTypes DEF RetFrame, RetirePc
<1>8. GInv'
  BY <1>5, <1>7, RetFrameInv
<1>9. SessFrame
  BY <1>1, <1>5 DEF SessFrame, Weaker, SessOK
<1>10. RetThread(t)'
  BY <1>1, <1>3, <1>4, <1>6 DEF RetThread
<1>11. \A u \in Threads : thread'[u] = thread[u] \/ RetThread(u)'
  BY <1>6, <1>10
<1> QED
  BY <1>1, <1>8, <1>9, <1>11, KeepsInv


\* A step of retire that writes rows of epochs.
LEMMA RowStepInv ==
  ASSUME RetInv, NEW t \in Threads, RetFrame(t), UNCHANGED <<daemon, sess>>,
         \A e \in Epochs : epochs'[e].ret = "certified" =>
           \/ epochs[e].ret = "certified" /\ epochs'[e].final = epochs[e].final
           \/ epochs[e].proc \in {"serving", "dead"} /\ Final(e)',
         thread'[t].pc \notin RetirePc \/ RetThread(t)'
  PROVE  RetInv'
<1>1. GInv /\ SessOK
  BY DEF RetInv
<1>2. GInv'
  BY <1>1, RetFrameInv
<1>3. SessFrame
  BY <1>1 DEF SessFrame, Weaker, SessOK
<1>4. \A u \in Threads : \/ thread'[u] = thread[u] \/ thread'[u].pc \notin RetirePc
                         \/ RetThread(u)'
  BY DEF RetFrame
<1>5. \A e \in Epochs :
           /\ epochs[e].gen # NoGen => epochs'[e].gen # NoGen
           /\ epochs[e].proc = "dead" => epochs'[e].proc = "dead"
           /\ epochs[e].proc = "serving" => epochs'[e].proc \in {"serving", "dead"}
           /\ daemon'[e] = "up" => daemon[e] = "up" \/ epochs[e].proc = "starting"
           /\ epochs'[e].ret = "certified" =>
                \/ epochs[e].ret = "certified" /\ epochs'[e].final = epochs[e].final
                \/ epochs'[e].proc \in {"serving", "dead"} /\ Final(e)'
  BY DEF RetFrame
<1> QED
  BY <1>2, <1>3, <1>4, <1>5, KeepsInv

\* A dead epoch whose daemon is dead is taken up for reconciliation.
LEMMA CrashBeginInv ==
  ASSUME RetInv, NEW t \in Threads, CrashBegin(t)
  PROVE  RetInv' /\ UNCHANGED sess
<1>1. /\ router /\ thread[t].pc = "certify"
      /\ UNCHANGED <<gens, daemon, active, regLock, router, sess>>
  BY DEF CrashBegin, At, sessVars
<1>2. /\ gens \in [Gens -> GenRow] /\ epochs \in [Epochs -> EpochRow]
      /\ thread \in [Threads -> Work] /\ daemon \in [Epochs -> {"none", "up", "gone"}]
      /\ opLock \in Threads \cup {NoThread}
      /\ thread[t] \in Work /\ ~thread[t].mint /\ thread[t].pc \in RetirePc
  BY <1>1, SameTypes DEF RetInv, RetirePc
<1>3. PICK e \in thread[t].crash :
        \/ /\ Provable(e)
           /\ epochs' = [epochs EXCEPT ![e].ret = IF @ = "open" THEN "quiescing" ELSE @]
           /\ thread' = [thread EXCEPT ![t].epoch = e, ![t].pc = "children"]
           /\ UNCHANGED opLock
        \/ Blocked(t) /\ UNCHANGED epochs
  BY DEF CrashBegin
<1>4. e \in Epochs
  BY <1>2 DEF Work
<1>5. CASE Blocked(t) /\ UNCHANGED epochs
  <2>1. Onward(t)
    BY <1>5 DEF Blocked, Onward
  <2> QED
    BY <1>1, <1>2, <1>5, <2>1, QuietInv
<1>6. CASE /\ Provable(e)
           /\ epochs' = [epochs EXCEPT ![e].ret = IF @ = "open" THEN "quiescing" ELSE @]
           /\ thread' = [thread EXCEPT ![t].epoch = e, ![t].pc = "children"]
           /\ UNCHANGED opLock
  <2> DEFINE w == [thread[t] EXCEPT !.epoch = e, !.pc = "children"]
             p == IF epochs[e].ret = "open" THEN "quiescing" ELSE epochs[e].ret
             r == [epochs[e] EXCEPT !.ret = p]
  <2>1. /\ w \in Work /\ w.epoch = e /\ w.pc = "children" /\ w.clean = thread[t].clean
        /\ ~w.mint
    BY <1>2, <1>4 DEF Work, Pc
  <2>2. thread' = [thread EXCEPT ![t] = w]
    BY <1>6
  <2>3. epochs[e] \in EpochRow
    BY <1>2, <1>4
  <2>4. epochs' = [epochs EXCEPT ![e] = r]
    BY <1>6
  <2>5. p \in {"open", "quiescing", "certified"} /\ (p = "certified" => epochs[e].ret = "certified")
    BY <2>3 DEF EpochRow
  <2> HIDE DEF p, w
  <2>6. /\ r \in EpochRow /\ r.gen = epochs[e].gen /\ r.proc = epochs[e].proc
        /\ r.meta = epochs[e].meta /\ r.final = epochs[e].final /\ r.ret = p
    BY <2>3, <2>5 DEF EpochRow
  <2> HIDE DEF r
  <2>7. /\ epochs' \in [Epochs -> EpochRow] /\ epochs'[e] = r
        /\ \A x \in Epochs : x # e => epochs'[x] = epochs[x]
    BY <1>2, <1>4, <2>4, <2>6
  <2>8. /\ thread' \in [Threads -> Work] /\ thread'[t] = w
        /\ \A u \in Threads : u # t => thread'[u] = thread[u]
    BY <1>2, <2>1, <2>2, OneThread
  <2>9. epochs[e].proc = "dead" /\ daemon[e] # "up"
    BY <1>6 DEF Provable
  <2>10. epochs[e].gen # NoGen
    BY <1>4, <2>9 DEF RetInv, GInv, RowsOK, NoRow
  <2>11. RetFrame(t)
    BY <1>1, <1>2, <1>6, <2>1, <2>6, <2>7, <2>8, <2>10 DEF RetFrame, RetirePc
  <2>12. RetThread(t)'
    <3>1. RetThread(t) /\ thread[t].clean \in Epochs \cup {NoEpoch}
      BY <1>2 DEF RetInv, Work
    <3>2. thread[t].clean # NoEpoch => epochs'[thread[t].clean].gen # NoGen
      BY <1>2, <2>6, <2>7, <3>1 DEF RetThread
    <3> QED
      BY <1>1, <1>4, <2>1, <2>6, <2>7, <2>8, <2>9, <3>2 DEF RetThread
  <2>13. \A x \in Epochs : epochs'[x].ret = "certified" =>
           epochs[x].ret = "certified" /\ epochs'[x].final = epochs[x].final
    BY <2>5, <2>6, <2>7
  <2> QED
    BY <1>1, <2>11, <2>12, <2>13, RowStepInv
<1> QED
  BY <1>3, <1>5, <1>6

\* The certificate writes two fields of one row.
LEMMA CertifiedShape ==
  ASSUME RetInv, NEW e \in Epochs, epochs' = Certified(e), UNCHANGED <<daemon, sess>>
  PROVE  /\ epochs' \in [Epochs -> EpochRow]
         /\ epochs'[e].gen = epochs[e].gen /\ epochs'[e].proc = epochs[e].proc
         /\ epochs'[e].meta = epochs[e].meta /\ epochs'[e].ret = "certified"
         /\ \A x \in Epochs : x # e => epochs'[x] = epochs[x]
         /\ Outstanding(e) = {} /\ Owes(e) = {} => Final(e)'
<1> DEFINE h == HighWater(e)
           r == [epochs[e] EXCEPT !.ret = "certified", !.final = h]
<1>1. h \in Nat
  BY HighWaterShape DEF RetInv
<1>2. epochs' = [epochs EXCEPT ![e] = r] /\ epochs \in [Epochs -> EpochRow]
  BY DEF Certified, RetInv, GInv, GenTypeOK
<1> HIDE DEF h
<1>3. epochs[e] \in EpochRow
  BY <1>2
<1>4. /\ r \in EpochRow /\ r.gen = epochs[e].gen /\ r.proc = epochs[e].proc
      /\ r.meta = epochs[e].meta /\ r.ret = "certified" /\ r.final = h
  BY <1>1, <1>3 DEF EpochRow
<1> HIDE DEF r
<1>5. /\ epochs' \in [Epochs -> EpochRow] /\ epochs'[e] = r
      /\ \A x \in Epochs : x # e => epochs'[x] = epochs[x]
  BY <1>2, <1>4
<1>6. HighWater(e)' = HighWater(e) /\ Outstanding(e)' = Outstanding(e)
  BY DEF HighWater, Seqs, SessionsOf, Outstanding
<1>7. Owes(e)' = Owes(e)
  BY DEF Owes, InStage, UpFor, SessionsOf
<1> QED
  BY <1>4, <1>5, <1>6, <1>7 DEF Final, h

\* Crash reconciliation certifies an epoch with no results outstanding.
LEMMA CrashCertifyInv ==
  ASSUME RetInv, NEW t \in Threads, CrashCertify(t)
  PROVE  RetInv' /\ UNCHANGED sess
<1>0. thread[t].pc = "lose" /\ thread[t].epoch \in Epochs
  BY DEF CrashCertify, At, RetInv, RetThread
<1> PICK e \in Epochs : e = thread[t].epoch
  BY <1>0
<1> DEFINE w == [thread[t] EXCEPT !.crash = @ \ {e}, !.pc = "certify"]
<1>1. /\ router /\ thread[t].pc = "lose" /\ Outstanding(e) = {} /\ epochs' = Certified(e)
      /\ thread' = [thread EXCEPT ![t] = w]
      /\ UNCHANGED <<gens, daemon, active, regLock, opLock, router, sess>>
  BY DEF CrashCertify, At, sessVars
<1>2. /\ gens \in [Gens -> GenRow] /\ epochs \in [Epochs -> EpochRow]
      /\ thread \in [Threads -> Work] /\ daemon \in [Epochs -> {"none", "up", "gone"}]
      /\ opLock \in Threads \cup {NoThread}
      /\ thread[t] \in Work /\ ~thread[t].mint /\ thread[t].pc \in RetirePc
  BY <1>1, SameTypes DEF RetInv, RetirePc
<1>3. RetThread(t) /\ e \in Epochs /\ epochs[e].proc = "dead" /\ daemon[e] # "up"
  BY <1>1 DEF RetInv, RetThread
<1>4. w \in Work /\ w.pc = "certify" /\ w.clean = thread[t].clean /\ ~w.mint
  BY <1>2 DEF Work, Pc
<1> HIDE DEF w
<1>5. /\ thread' \in [Threads -> Work] /\ thread'[t] = w
      /\ \A u \in Threads : u # t => thread'[u] = thread[u]
  BY <1>1, <1>2, <1>4, OneThread
<1>6. Owes(e) = {}
  BY <1>3 DEF Owes, InStage, UpFor, SessionsOf
<1>7. /\ epochs' \in [Epochs -> EpochRow]
      /\ epochs'[e].gen = epochs[e].gen /\ epochs'[e].proc = epochs[e].proc
      /\ epochs'[e].meta = epochs[e].meta
      /\ \A x \in Epochs : x # e => epochs'[x] = epochs[x]
      /\ Final(e)'
  BY <1>1, <1>3, <1>6, CertifiedShape
<1>8. epochs[e].gen # NoGen
  BY <1>3 DEF RetInv, GInv, RowsOK, NoRow
<1>9. RetFrame(t)
  BY <1>1, <1>2, <1>4, <1>5, <1>7, <1>8 DEF RetFrame, RetirePc
<1>10. RetThread(t)'
  <2>1. thread[t].clean \in Epochs \cup {NoEpoch}
    BY <1>2 DEF Work
  <2>2. thread[t].clean # NoEpoch => epochs'[thread[t].clean].gen # NoGen
    BY <1>2, <1>3, <1>7, <2>1 DEF RetThread
  <2> QED
    BY <1>4, <1>5, <2>2 DEF RetThread
<1>11. \A x \in Epochs : epochs'[x].ret = "certified" =>
         \/ epochs[x].ret = "certified" /\ epochs'[x].final = epochs[x].final
         \/ epochs[x].proc \in {"serving", "dead"} /\ Final(x)'
  BY <1>3, <1>7
<1> QED
  BY <1>1, <1>9, <1>10, <1>11, RowStepInv


\* Closing admission takes back a certificate at most.
LEMMA CleanBeginInv ==
  ASSUME RetInv, NEW t \in Threads, CleanBegin(t)
  PROVE  RetInv' /\ UNCHANGED sess
<1> DEFINE c == thread[t].clean
           Hit(e) == (e = c /\ thread[t].open) \/ (e = active /\ Reachable(thread[t].gen))
<1>1. /\ router /\ thread[t].pc = "certify" /\ c # NoEpoch /\ Goto(t, "resolve")
      /\ UNCHANGED <<gens, daemon, active, regLock, opLock, router, sess>>
      /\ epochs' = [e \in Epochs |-> IF Hit(e) THEN [epochs[e] EXCEPT !.ret = "quiescing"]
                                     ELSE epochs[e]]
  BY DEF CleanBegin, At, sessVars
<1>2. /\ gens \in [Gens -> GenRow] /\ epochs \in [Epochs -> EpochRow]
      /\ thread \in [Threads -> Work] /\ daemon \in [Epochs -> {"none", "up", "gone"}]
      /\ opLock \in Threads \cup {NoThread}
      /\ thread[t] \in Work /\ ~thread[t].mint /\ thread[t].pc \in RetirePc
  BY <1>1, SameTypes DEF RetInv, RetirePc
<1>3. RetThread(t) /\ GInv
  BY DEF RetInv
<1>4. \A e \in Epochs : Hit(e) => epochs[e].gen # NoGen
  <2>1. epochs[c].gen # NoGen
    BY <1>1, <1>2, <1>3 DEF RetThread
  <2>2. Reachable(thread[t].gen) /\ active \in Epochs => epochs[active].gen # NoGen
    BY <1>3 DEF Reachable, GInv, RoutedIsServing, RowsOK, NoRow
  <2> QED
    BY <2>1, <2>2
<1> HIDE DEF Hit
<1>5. ASSUME NEW e \in Epochs
      PROVE  /\ epochs'[e] \in EpochRow
             /\ epochs'[e].gen = epochs[e].gen /\ epochs'[e].proc = epochs[e].proc
             /\ epochs'[e].meta = epochs[e].meta
             /\ epochs[e].gen = NoGen => epochs'[e] = epochs[e]
             /\ epochs'[e].ret = "certified" => epochs'[e] = epochs[e]
  <2>1. epochs[e] \in EpochRow
    BY <1>2
  <2>2. CASE Hit(e)
    <3>1. epochs'[e] = [epochs[e] EXCEPT !.ret = "quiescing"] /\ epochs[e].gen # NoGen
      BY <1>1, <1>4, <2>2
    <3> QED
      BY <2>1, <3>1 DEF EpochRow
  <2>3. CASE ~Hit(e)
    BY <1>1, <2>1, <2>3
  <2> QED
    BY <2>2, <2>3
<1>6. epochs' \in [Epochs -> EpochRow]
  <2>1. epochs' = [e \in Epochs |-> epochs'[e]]
    BY <1>1
  <2> QED
    BY <1>5, <2>1
<1>7. "resolve" \in Pc /\ "resolve" \in RetirePc /\ "resolve" \notin {"children", "lose"}
  BY DEF Pc, RetirePc
<1>8. /\ thread' \in [Threads -> Work] /\ \A u \in Threads : u # t => thread'[u] = thread[u]
      /\ thread'[t].pc = "resolve" /\ thread'[t].mint = thread[t].mint
      /\ thread'[t].clean = thread[t].clean
  BY <1>1, <1>2, <1>7, GotoShape
<1>9. RetFrame(t)
  BY <1>1, <1>2, <1>5, <1>6, <1>7, <1>8 DEF RetFrame
<1>10. RetThread(t)'
  <2>1. c \in Epochs /\ epochs[c].gen # NoGen
    BY <1>1, <1>2, <1>3 DEF RetThread, Work
  <2>2. epochs'[c].gen # NoGen
    BY <1>5, <2>1
  <2> QED
    BY <1>7, <1>8, <2>2 DEF RetThread
<1>11. \A e \in Epochs : epochs'[e].ret = "certified" =>
         epochs[e].ret = "certified" /\ epochs'[e].final = epochs[e].final
  BY <1>5
<1> QED
  BY <1>1, <1>9, <1>10, <1>11, RowStepInv

\* certify_epoch certifies an epoch that serves and owes nothing.
LEMMA CertifyRpcInv ==
  ASSUME RetInv, NEW t \in Threads, CertifyRpc(t)
  PROVE  RetInv' /\ UNCHANGED sess
<1> DEFINE certifies == /\ Reachable(thread[t].gen) /\ active = thread[t].clean
                        /\ Barrier(thread[t].clean)
<1>1. /\ router /\ thread[t].pc = "rpc"
      /\ epochs' = IF certifies THEN Certified(thread[t].clean) ELSE epochs
      /\ UNCHANGED <<gens, daemon, active, regLock, router, sess>>
  BY DEF CertifyRpc, At, sessVars
<1>2. /\ gens \in [Gens -> GenRow] /\ epochs \in [Epochs -> EpochRow]
      /\ thread \in [Threads -> Work] /\ daemon \in [Epochs -> {"none", "up", "gone"}]
      /\ thread[t] \in Work /\ ~thread[t].mint /\ thread[t].pc \in RetirePc
  BY <1>1, SameTypes DEF RetInv, RetirePc
<1>3. Onward(t)
  <2>1. "final" \in RetirePc \ {"children", "lose"}
    BY DEF RetirePc
  <2>2. (Goto(t, "final") /\ UNCHANGED opLock) \/ Blocked(t)
    BY DEF CertifyRpc
  <2> QED
    BY <2>1, <2>2 DEF Onward, Blocked
<1>4. CASE ~certifies
  <2>1. UNCHANGED epochs
    BY <1>1, <1>4
  <2>2. \A g \in Gens : gens'[g].current \in {gens[g].current, NoEpoch}
    BY <1>1
  <2> QED
    BY <1>1, <1>2, <1>3, <2>1, <2>2, QuietInv
<1>5. CASE certifies
  <2>1. active \in Epochs
    BY <1>5 DEF Reachable, RetInv, GInv, GenTypeOK
  <2> PICK c \in Epochs : c = active
    BY <2>1
  <2>2. /\ c = thread[t].clean /\ daemon[c] = "up" /\ Live(c) = {} /\ Owes(c) = {}
        /\ epochs' = Certified(c)
    BY <1>1, <1>5 DEF Reachable, Barrier
  <2>3. epochs[c].proc = "serving"
    BY <2>2, GenerationsAssumption DEF RetInv, GInv, RoutedIsServing
  <2>4. epochs[c].gen # NoGen
    BY <2>3 DEF RetInv, GInv, RowsOK, NoRow
  <2>5. Outstanding(c) = {}
    <3>1. SUFFICES ASSUME NEW s \in SessionsOf(c), sess[s].seq = 0,
                          sess[s].stage \notin {"none", "admitted", "void"}
                   PROVE  FALSE
      BY DEF Outstanding
    <3>2. s \in Sessions /\ sess[s].epoch = c /\ UpFor(s) /\ sess[s].stage \in Stage
      BY <2>2, GenerationsAssumption DEF SessionsOf, UpFor, RetInv, SessOK, SessRow
    <3>3. sess[s].stage \notin Stored
      BY <3>1, <3>2 DEF RetInv, SessOK
    <3>4. s \in Live(c)
      BY <3>1, <3>2, <3>3 DEF Live, InStage, Stored
    <3> QED
      BY <2>2, <3>4
  <2>6. /\ epochs' \in [Epochs -> EpochRow]
        /\ epochs'[c].gen = epochs[c].gen /\ epochs'[c].proc = epochs[c].proc
        /\ epochs'[c].meta = epochs[c].meta
        /\ \A x \in Epochs : x # c => epochs'[x] = epochs[x]
        /\ Final(c)'
    BY <1>1, <2>2, <2>5, CertifiedShape
  <2>7. /\ opLock' \in Threads \cup {NoThread}
        /\ thread' \in [Threads -> Work] /\ \A u \in Threads : u # t => thread'[u] = thread[u]
        /\ thread'[t] = Idle \/ (thread'[t].pc \in RetirePc /\ ~thread'[t].mint)
        /\ \/ thread'[t].pc \notin RetirePc \/ thread'[t] = thread[t]
           \/ /\ thread'[t].pc \notin {"children", "lose"}
              /\ thread'[t].clean = thread[t].clean
    BY <1>2, <1>3, OnwardShape
  <2>8. RetFrame(t)
    BY <1>1, <1>2, <2>4, <2>6, <2>7 DEF RetFrame
  <2>9. thread'[t].pc \notin RetirePc \/ RetThread(t)'
    BY <1>1, <2>2, <2>4, <2>6, <2>7 DEF RetThread
  <2>10. \A x \in Epochs : epochs'[x].ret = "certified" =>
           \/ epochs[x].ret = "certified" /\ epochs'[x].final = epochs[x].final
           \/ epochs[x].proc \in {"serving", "dead"} /\ Final(x)'
    BY <2>3, <2>6
  <2> QED
    BY <1>1, <2>8, <2>9, <2>10, RowStepInv
<1> QED
  BY <1>4, <1>5

\* Reaping the groups of a dead daemon's executors.  Retire goes on only when
\* each had a record, and then each has been seen gone.
LEMMA ReapChildrenInv ==
  ASSUME RetInv, NEW t \in Threads, ReapChildren(t)
  PROVE  /\ RetInv'
         /\ \A s \in Sessions : sess'[s].seq = sess[s].seq
         /\ \A s \in Sessions : UpFor(s) => sess'[s] = sess[s]
<1>1. RetThread(t) /\ GInv /\ SessOK /\ router /\ thread[t].pc = "children"
  BY DEF RetInv, ReapChildren, At
<1>2. thread[t].epoch \in Epochs
  BY <1>1 DEF RetThread
<1> PICK d \in Epochs : d = thread[t].epoch
  BY <1>2
<1>3. PICK dead \in SUBSET Outstanding(d), gone \in BOOLEAN :
        /\ sess' = [s \in Sessions |->
                      IF s \in dead
                      THEN IF gone THEN [sess[s] EXCEPT !.leader = "none", !.rest = FALSE]
                           ELSE [sess[s] EXCEPT !.leader = "none"]
                      ELSE sess[s]]
        /\ \/ gone /\ dead = Outstanding(d) /\ Goto(t, "lose") /\ UNCHANGED opLock
           \/ Blocked(t)
  <2> DEFINE recorded == {s \in Outstanding(d) : sess[s].record}
  <2>1. CASE /\ \A s \in Outstanding(d) : Reapable(s)
             /\ sess' = [s \in Sessions |-> IF s \in recorded
                                            THEN [sess[s] EXCEPT !.leader = "none", !.rest = FALSE]
                                            ELSE sess[s]]
             /\ Goto(t, "lose") /\ UNCHANGED opLock
    <3>1. recorded = Outstanding(d)
      BY <2>1 DEF Reapable
    <3> HIDE DEF recorded
    <3> QED
      BY <2>1, <3>1
  <2>2. CASE \E dead \in SUBSET recorded :
               /\ sess' = [s \in Sessions |-> IF s \in dead THEN [sess[s] EXCEPT !.leader = "none"]
                                              ELSE sess[s]]
               /\ Blocked(t)
    <3>1. recorded \subseteq Outstanding(d)
      OBVIOUS
    <3> HIDE DEF recorded
    <3> QED
      BY <2>2, <3>1
  <2> QED
    BY <2>1, <2>2 DEF ReapChildren
<1>4. UNCHANGED <<gens, epochs, daemon, active, regLock, router>>
  BY DEF ReapChildren, rows
<1>5. ASSUME NEW s \in Sessions
      PROVE  /\ Weaker(sess[s], sess'[s])
             /\ s \in dead => ~Alive(sess'[s]) /\ (gone => ~sess'[s].rest)
             /\ s \notin dead => sess'[s] = sess[s]
  <2>1. sess[s] \in SessRow
    BY <1>1 DEF SessOK
  <2>2. CASE s \notin dead
    BY <1>3, <2>1, <2>2 DEF Weaker
  <2>3. CASE s \in dead /\ gone
    <3>1. sess'[s] = [sess[s] EXCEPT !.leader = "none", !.rest = FALSE]
      BY <1>3, <2>3
    <3> QED
      BY <2>1, <2>3, <3>1 DEF SessRow, Weaker, Alive, Leader
  <2>4. CASE s \in dead /\ ~gone
    <3>1. sess'[s] = [sess[s] EXCEPT !.leader = "none"]
      BY <1>3, <2>4
    <3> QED
      BY <2>1, <2>4, <3>1 DEF SessRow, Weaker, Alive, Leader
  <2> QED
    BY <2>2, <2>3, <2>4
<1>10. /\ \A s \in Sessions : sess'[s].seq = sess[s].seq
       /\ \A s \in Sessions : UpFor(s) => sess'[s] = sess[s]
  <2>1. daemon[d] # "up"
    BY <1>1 DEF RetThread
  <2>2. \A s \in dead : ~UpFor(s)
    BY <2>1 DEF Outstanding, SessionsOf, UpFor
  <2> QED
    BY <1>5, <2>2 DEF Weaker
<1>6. SessFrame
  <2>1. sess' = [s \in Sessions |-> sess'[s]]
    BY <1>3
  <2>2. sess' \in [Sessions -> SessRow]
    BY <1>5, <2>1 DEF Weaker
  <2> QED
    BY <1>5, <2>2 DEF SessFrame
<1>7. /\ gens \in [Gens -> GenRow] /\ epochs \in [Epochs -> EpochRow]
      /\ thread \in [Threads -> Work] /\ daemon \in [Epochs -> {"none", "up", "gone"}]
      /\ opLock \in Threads \cup {NoThread} /\ ~thread[t].mint
      /\ thread[t].pc \in RetirePc
  BY <1>1, SameTypes DEF RetirePc
<1>8. CASE gone /\ dead = Outstanding(d) /\ Goto(t, "lose") /\ UNCHANGED opLock
  <2>1. "lose" \in Pc /\ "lose" \in RetirePc
    BY DEF Pc, RetirePc
  <2>2. /\ thread' \in [Threads -> Work] /\ \A u \in Threads : u # t => thread'[u] = thread[u]
        /\ thread'[t].pc = "lose" /\ thread'[t].mint = thread[t].mint
        /\ thread'[t].clean = thread[t].clean /\ thread'[t].epoch = thread[t].epoch
    BY <1>7, <1>8, <2>1, GotoShape
  <2>3. RetFrame(t)
    BY <1>1, <1>4, <1>7, <1>8, <2>1, <2>2 DEF RetFrame
  <2>4. GInv'
    BY <1>1, <2>3, RetFrameInv
  <2>5. RetThread(t)'
    <3>1. ASSUME NEW s \in Outstanding(d)' PROVE ~Alive(sess'[s]) /\ ~sess'[s].rest
      <4>1. s \in Sessions /\ s \in Outstanding(d)
        BY <1>5, <3>1 DEF Outstanding, SessionsOf, Weaker
      <4> QED
        BY <1>5, <1>8, <4>1
    <3>2. Outstanding(thread[t].epoch)' = Outstanding(d)'
      BY <2>2 DEF Outstanding, SessionsOf
    <3> QED
      BY <1>1, <1>4, <1>7, <2>1, <2>2, <3>1, <3>2 DEF RetThread
  <2>6. \A u \in Threads : thread'[u] = thread[u] \/ RetThread(u)'
    BY <2>2, <2>5
  <2>7. RetInv'
    BY <1>4, <1>6, <2>4, <2>6, KeepsInv
  <2> QED
    BY <1>10, <2>7
<1>9. CASE Blocked(t)
  <2>1. /\ thread' \in [Threads -> Work] /\ thread'[t] = Idle
        /\ \A u \in Threads : u # t => thread'[u] = thread[u]
    BY <1>7, <1>9, IdleType, OneThread DEF Blocked
  <2>2. RetFrame(t)
    BY <1>1, <1>4, <1>7, <1>9, <2>1 DEF RetFrame, Blocked
  <2>3. GInv'
    BY <1>1, <2>2, RetFrameInv
  <2>4. \A u \in Threads : thread'[u] = thread[u] \/ thread'[u].pc \notin RetirePc
    BY <2>1, IdleType DEF RetirePc
  <2>5. RetInv'
    BY <1>4, <1>6, <2>3, <2>4, KeepsInv
  <2> QED
    BY <1>10, <2>5
<1> QED
  BY <1>3, <1>8, <1>9


\* A generation_lost terminal: its executor is dead, and no certificate is
\* given for the epoch yet.
LEMMA LoseSessionInv ==
  ASSUME RetInv, NEW t \in Threads, LoseSession(t)
  PROVE  /\ RetInv'
         /\ \A s \in Sessions : \/ sess'[s] = sess[s]
                                \/ ~UpFor(s) /\ ~Alive(sess[s]) /\ ~sess[s].rest
<1>1. RetThread(t) /\ GInv /\ SessOK /\ router /\ thread[t].pc = "lose"
  BY DEF RetInv, LoseSession, At
<1>2. thread[t].epoch \in Epochs
  BY <1>1 DEF RetThread
<1> PICK d \in Epochs : d = thread[t].epoch
  BY <1>2
<1>3. PICK s \in Outstanding(d) :
        \/ sess' = [sess EXCEPT ![s] = Terminal(s)] /\ UNCHANGED <<thread, opLock>>
        \/ Blocked(t) /\ UNCHANGED sess
  BY DEF LoseSession
<1>4. UNCHANGED <<gens, epochs, daemon, active, regLock, router>>
  BY DEF LoseSession, rows
<1>5. thread[t].pc \in RetirePc
  BY <1>1 DEF RetirePc
<1>6. CASE Blocked(t) /\ UNCHANGED sess
  <2>1. Onward(t)
    BY <1>6 DEF Onward, Blocked
  <2>2. gens' \in [Gens -> GenRow] /\ \A g \in Gens : gens'[g].current \in {gens[g].current, NoEpoch}
    BY <1>1, <1>4 DEF GInv, GenTypeOK
  <2>3. RetInv'
    BY <1>1, <1>4, <1>5, <1>6, <2>1, <2>2, QuietInv
  <2> QED
    BY <1>6, <2>3
<1>7. CASE sess' = [sess EXCEPT ![s] = Terminal(s)] /\ UNCHANGED <<thread, opLock>>
  <2> DEFINE h == HighWater(d)
             w == [sess[s] EXCEPT !.seq = h + 1]
  <2>1. s \in Sessions /\ sess[s].epoch = d /\ sess[s].seq = 0 /\ ~Alive(sess[s])
        /\ ~sess[s].rest /\ sess[s].stage # "none" /\ ~UpFor(s)
    BY <1>1, <1>3 DEF Outstanding, SessionsOf, RetThread, UpFor
  <2>2. h \in Nat
    BY <1>1, HighWaterShape
  <2>3. sess' = [sess EXCEPT ![s] = w]
    BY <1>7, <2>1 DEF Terminal
  <2> HIDE DEF h
  <2>4. sess \in [Sessions -> SessRow] /\ sess[s] \in SessRow
    BY <1>1, <2>1 DEF SessOK
  <2>5. /\ w \in SessRow /\ w.stage = sess[s].stage /\ w.epoch = sess[s].epoch /\ w.seq = h + 1
        /\ ~Alive(w) /\ ~w.rest
    BY <2>1, <2>2, <2>4 DEF SessRow, Alive
  <2> HIDE DEF w
  <2>6. /\ sess' \in [Sessions -> SessRow] /\ sess'[s] = w
        /\ \A x \in Sessions : x # s => sess'[x] = sess[x]
    BY <2>1, <2>3, <2>4, <2>5
  <2>7. GInv'
    <3>1. UNCHANGED genVars
      BY <1>4, <1>7 DEF genVars, rows, memory
    <3> QED
      BY <1>1, <3>1, GInvStep
  <2>8. SessOK'
    <3>1. PICK b \in Nat : \A x \in Sessions : sess[x].seq <= b
      BY <1>1 DEF SessOK
    <3>2. \A x \in Sessions : sess[x].seq \in Nat
      BY <2>4 DEF SessRow
    <3>3. b + h + 1 \in Nat
      BY <2>2
    <3>4. ASSUME NEW x \in Sessions PROVE sess'[x].seq <= b + h + 1
      <4>1. CASE x = s
        BY <2>2, <2>5, <2>6, <4>1
      <4>2. CASE x # s
        BY <2>2, <2>6, <3>1, <3>2, <4>2
      <4> QED
        BY <4>1, <4>2
    <3>5. \A x \in Sessions : /\ sess'[x].stage = "none" => sess'[x].epoch = NoEpoch
                              /\ sess'[x].stage \in Stored => sess'[x].seq > 0
      BY <1>1, <2>1, <2>2, <2>5, <2>6 DEF SessOK
    <3> QED
      BY <2>6, <3>3, <3>4, <3>5 DEF SessOK
  <2>9. RecordsAreKept'
    BY <2>5, <2>6 DEF RetInv, RecordsAreKept, Alive
  <2>10. ASSUME NEW e \in Epochs, epochs'[e].ret = "certified"
         PROVE  epochs'[e].proc \in {"serving", "dead"} /\ Final(e)'
    <3>1. epochs[e].ret = "certified" /\ epochs[e].proc \in {"serving", "dead"} /\ Final(e)
      BY <1>4, <2>10 DEF RetInv, CertOK
    <3>2. e # d
      BY <1>3, <3>1 DEF Final
    <3>3. \A x \in Sessions : sess[x].epoch = e \/ sess'[x].epoch = e => sess'[x] = sess[x]
      BY <2>1, <2>5, <2>6, <3>2
    <3>4. Final(e)'
      BY <1>4, <2>8, <3>1, <3>3, FinalKept
    <3> QED
      BY <1>4, <3>1, <3>4
  <2>11. ASSUME NEW u \in Threads PROVE RetThread(u)'
    <3>1. RetThread(u) /\ thread'[u] = thread[u]
      BY <1>7 DEF RetInv
    <3>2. ASSUME thread[u].pc = "lose", NEW x \in Outstanding(thread[u].epoch)'
          PROVE  ~Alive(sess'[x]) /\ ~sess'[x].rest
      <4>1. x \in Sessions
        BY <3>2 DEF Outstanding, SessionsOf
      <4>2. CASE x = s
        BY <2>5, <2>6, <4>2
      <4>3. CASE x # s
        <5>1. x \in Outstanding(thread[u].epoch)
          BY <2>6, <3>1, <3>2, <4>1, <4>3 DEF Outstanding, SessionsOf
        <5> QED
          BY <2>6, <3>1, <3>2, <4>1, <4>3, <5>1 DEF RetThread
      <4> QED
        BY <4>2, <4>3
    <3> QED
      BY <1>4, <3>1, <3>2 DEF RetThread
  <2>12. RetInv'
    BY <2>7, <2>8, <2>9, <2>10, <2>11 DEF RetInv, CertOK
  <2> QED
    BY <2>1, <2>6, <2>12
<1> QED
  BY <1>3, <1>6, <1>7

\* reap_holder kills daemons that are on record.
LEMMA ReapDaemonInv ==
  ASSUME RetInv, NEW t \in Threads, ReapDaemon(t)
  PROVE  RetInv' /\ SessFrame
<1>1. GInv /\ SessOK /\ router /\ thread[t].pc \in RetirePc
  BY DEF RetInv, ReapDaemon, At, RetirePc
<1>2. UNCHANGED <<gens, epochs, active, regLock, router>> /\ SessionsFollow
  BY DEF ReapDaemon, rows
<1>3. /\ gens \in [Gens -> GenRow] /\ epochs \in [Epochs -> EpochRow]
      /\ daemon \in [Epochs -> {"none", "up", "gone"}]
  BY <1>1, SameTypes
<1>4. /\ daemon' \in [Epochs -> {"none", "up", "gone"}]
      /\ \A e \in Epochs : daemon'[e] = "up" => daemon[e] = "up"
  BY <1>3 DEF ReapDaemon
<1>5. SessFrame
  BY <1>1, <1>2, FollowShape
<1>6. Onward(t)
  <2>1. "oracle" \in RetirePc \ {"children", "lose"}
    BY DEF RetirePc
  <2> QED
    BY <2>1 DEF ReapDaemon, Blocked, Onward
<1>7. /\ opLock' \in Threads \cup {NoThread}
      /\ thread' \in [Threads -> Work] /\ \A u \in Threads : u # t => thread'[u] = thread[u]
      /\ thread'[t] = Idle \/ (thread'[t].pc \in RetirePc /\ ~thread'[t].mint)
      /\ \/ thread'[t].pc \notin RetirePc \/ thread'[t] = thread[t]
         \/ /\ thread'[t].pc \notin {"children", "lose"}
            /\ thread'[t].clean = thread[t].clean
  BY <1>1, <1>6, OnwardShape
<1>8. RetFrame(t)
  BY <1>1, <1>2, <1>3, <1>4, <1>7 DEF RetFrame
<1>9. GInv'
  BY <1>1, <1>8, RetFrameInv
<1>10. thread'[t] = thread[t] \/ thread'[t].pc \notin RetirePc \/ RetThread(t)'
  <2>1. RetThread(t)
    BY DEF RetInv
  <2> QED
    BY <1>1, <1>2, <1>7, <2>1 DEF RetThread
<1>11. \A u \in Threads : thread'[u] = thread[u] \/ thread'[u].pc \notin RetirePc \/ RetThread(u)'
  BY <1>7, <1>10
<1>12. RetInv'
  BY <1>2, <1>4, <1>5, <1>9, <1>11, KeepsInv
<1> QED
  BY <1>5, <1>12

-----------------------------------------------------------------------------
(* The theorems                                                            *)

\* The invariant holds initially.
LEMMA RetInitInv == RetInit => RetInv
<1> SUFFICES ASSUME RetInit PROVE RetInv
  OBVIOUS
<1>1. GInv
  BY GenInitInv DEF RetInit
<1>2. /\ \A t \in Threads : thread[t] = Idle
      /\ \A e \in Epochs : epochs[e] = NoRow
      /\ \A s \in Sessions : sess[s] = NoSession
  BY DEF RetInit, GenInit
<1>3. NoSession \in SessRow /\ NoSession.stage = "none" /\ NoSession.epoch = NoEpoch
      /\ NoSession.seq = 0 /\ NoSession.leader = "none"
  BY DEF NoSession, SessRow, Stage, Leader, Recorded, CleanedUp
<1>4. SessOK
  <2>1. sess \in [Sessions -> SessRow]
    BY <1>3 DEF RetInit
  <2>2. \A s \in Sessions : sess[s].seq <= 0
    BY <1>2, <1>3
  <2> QED
    BY <1>2, <1>3, <2>1, <2>2 DEF SessOK, Stored
<1>5. \A t \in Threads : thread[t].pc \notin RetirePc
  BY <1>2, IdleType DEF RetirePc
<1>6. \A t \in Threads : RetThread(t)
  BY <1>5 DEF RetThread, RetirePc
<1> QED
  BY <1>1, <1>2, <1>3, <1>4, <1>6 DEF RetInv, CertOK, RecordsAreKept, NoRow

\* The body of LostIsDead.
Loses ==
  \A s \in Sessions :
    sess[s].seq = 0 /\ sess'[s].seq > 0 /\ ~UpFor(s) => ~Alive(sess[s]) /\ ~sess[s].rest

\* Every step preserves the invariant, and gives up no living session.
LEMMA RetInvStep ==
  ASSUME RetInv, [RetNext]_retVars
  PROVE  RetInv' /\ Loses
<1>0. \A s \in Sessions : sess[s].seq \in Nat
  BY DEF RetInv, SessOK, SessRow
<1>1. CASE UNCHANGED retVars
  <2>1. UNCHANGED <<gens, epochs, daemon, active, regLock, opLock, thread, router, sess, confirmed>>
    BY <1>1 DEF retVars, genVars, sessVars, rows, memory
  <2>2. GInv'
    BY <1>1, GInvStep DEF RetInv, retVars
  <2>3. SessFrame
    BY <2>1 DEF RetInv, SessOK, SessFrame, Weaker
  <2>4. RetInv'
    BY <2>1, <2>2, <2>3, KeepsInv
  <2> QED
    BY <1>0, <2>1, <2>4 DEF Loses
<1>2. CASE GenNext /\ SessionsFollow
  BY <1>0, <1>2, GenStepInv DEF Loses, SessFrame, Weaker
<1>3. ASSUME NEW s \in Sessions, SessionStep(s) PROVE RetInv' /\ Loses
  <2>1. /\ RetInv'
        /\ sess[s].seq = 0 /\ sess'[s].seq > 0 => UpFor(s)
        /\ \A x \in Sessions : x # s => sess'[x] = sess[x]
    BY <1>3, SessionStepInv
  <2> QED
    BY <1>0, <2>1 DEF Loses
<1>4. ASSUME NEW t \in Threads, RetireStep(t) PROVE RetInv' /\ Loses
  <2>1. CASE \E g \in Gens : RetireBegin(t, g)
    BY <1>0, <2>1, RetireBeginInv DEF Loses
  <2>2. CASE RetireLock(t) \/ Resolve(t) \/ CheckQuiesced(t) \/ ResolveAgain(t)
               \/ NothingToCertify(t) \/ Oracle(t) \/ ClearCurrent(t) \/ Finish(t)
    BY <1>0, <2>2, QuietSteps DEF Loses
  <2>3. CASE CrashBegin(t)
    BY <1>0, <2>3, CrashBeginInv DEF Loses
  <2>4. CASE CrashCertify(t)
    BY <1>0, <2>4, CrashCertifyInv DEF Loses
  <2>5. CASE CleanBegin(t)
    BY <1>0, <2>5, CleanBeginInv DEF Loses
  <2>6. CASE CertifyRpc(t)
    BY <1>0, <2>6, CertifyRpcInv DEF Loses
  <2>7. CASE ReapChildren(t)
    BY <1>0, <2>7, ReapChildrenInv DEF Loses
  <2>8. CASE LoseSession(t)
    BY <1>0, <2>8, LoseSessionInv DEF Loses
  <2>9. CASE ReapDaemon(t)
    BY <1>0, <2>9, ReapDaemonInv DEF Loses, SessFrame, Weaker
  <2> QED
    BY <1>4, <2>1, <2>2, <2>3, <2>4, <2>5, <2>6, <2>7, <2>8, <2>9 DEF RetireStep
<1> QED
  BY <1>1, <1>2, <1>3, <1>4 DEF RetNext

\* The invariant holds in every reachable state.
LEMMA RetInvariance == RetSpec => []RetInv
<1>1. RetInv /\ [RetNext]_retVars => RetInv'
  BY RetInvStep
<1> QED
  BY <1>1, RetInitInv, PTL DEF RetSpec

\* A certificate is final (certify_epoch, _crash_reconcile_epoch): however
\* ends, crashes, restarts and several retires interleave, a certified epoch
\* owes no result and gives out no number above its final mark.
THEOREM CertificatesAreFinal == RetSpec => []CertifiedIsFinal
<1>1. RetInv => CertifiedIsFinal
  BY DEF RetInv, CertOK, Final, CertifiedIsFinal
<1> QED
  BY <1>1, RetInvariance, PTL

\* The leader of an executor that was put on record stays on record as long
\* as it runs and nobody sent it a SIGKILL, from the moment its daemon records
\* it until its daemon cleans up after the session: daemons that die, and
\* others that start and reconcile (reconcile_orphans, _crash_reconcile_epoch),
\* lose no record of a leader that they did not kill.  What _finish_cleanup
\* forgets, and descendants that outlive their leader, are not covered.
THEOREM LivingAreRecorded == RetSpec => []RecordsAreKept
<1>1. RetInv => RecordsAreKept
  BY DEF RetInv
<1> QED
  BY <1>1, RetInvariance, PTL

\* Crash reconciliation writes a session off only when its whole process
\* group was seen to be gone (_reap_child_groups before generation_lost).
THEOREM LostAreDead == RetSpec => LostIsDead
<1>1. RetInv /\ [RetNext]_retVars => [Loses]_retVars
  BY RetInvStep
<1>2. RetSpec => [][Loses]_retVars
  BY <1>1, RetInvariance, PTL DEF RetSpec
<1> QED
  BY <1>2 DEF LostIsDead, Loses

\* The body of LeftToTheirDaemon.
Leaves ==
  genVars' # genVars =>
    \A s \in Sessions : UpFor(s) /\ UpFor(s)' =>
      /\ sess'[s].leader = sess[s].leader /\ sess'[s].rest = sess[s].rest
      /\ Alive(sess[s]) => sess'[s].record = sess[s].record

\* No step of the router or of another daemon touches an executor.
LEMMA LeavesStep ==
  ASSUME RetInv, [RetNext]_retVars
  PROVE  Leaves
<1>1. ASSUME sess' = sess PROVE Leaves
  BY <1>1 DEF Leaves
<1>2. CASE UNCHANGED retVars
  BY <1>2 DEF Leaves, retVars
<1>3. ASSUME SessionsFollow PROVE Leaves
  <2>1. /\ SessFrame
        /\ \A s \in Sessions : sess[s].epoch # NoEpoch /\ daemon'[sess[s].epoch] = "up" =>
             /\ sess'[s].leader = sess[s].leader /\ sess'[s].rest = sess[s].rest
             /\ Alive(sess[s]) => sess'[s].record = sess[s].record
    BY <1>3, FollowShape DEF RetInv
  <2> QED
    BY <2>1 DEF Leaves, UpFor, SessFrame, Weaker
<1>4. ASSUME NEW s \in Sessions, SessionStep(s) PROVE Leaves
  BY <1>4, SessMoves DEF Leaves
<1>5. ASSUME NEW t \in Threads, RetireStep(t) PROVE Leaves
  <2>1. CASE ReapChildren(t)
    <3>1. \A s \in Sessions : UpFor(s) => sess'[s] = sess[s]
      BY <2>1, ReapChildrenInv
    <3> QED
      BY <3>1 DEF Leaves
  <2>2. CASE LoseSession(t)
    <3>1. \A s \in Sessions : sess'[s] = sess[s] \/ ~UpFor(s)
      BY <2>2, LoseSessionInv
    <3> QED
      BY <3>1 DEF Leaves
  <2>3. CASE ReapDaemon(t)
    BY <1>3, <2>3 DEF ReapDaemon
  <2>4. ASSUME \/ \E g \in Gens : RetireBegin(t, g)
               \/ RetireLock(t) \/ CrashBegin(t) \/ CrashCertify(t) \/ CleanBegin(t)
               \/ Resolve(t) \/ CheckQuiesced(t) \/ CertifyRpc(t) \/ ResolveAgain(t)
               \/ NothingToCertify(t) \/ Oracle(t) \/ ClearCurrent(t) \/ Finish(t)
        PROVE  sess' = sess
    BY <2>4 DEF RetireBegin, RetireLock, CrashBegin, CrashCertify, CleanBegin, Resolve,
                CheckQuiesced, CertifyRpc, ResolveAgain, NothingToCertify, Oracle, ClearCurrent,
                Finish, sessVars
  <2> QED
    BY <1>1, <1>5, <2>1, <2>2, <2>3, <2>4 DEF RetireStep
<1> QED
  BY <1>2, <1>3, <1>4, <1>5 DEF RetNext

\* As long as a session's daemon runs, no step of the router, of an operator's
\* retire, or of another daemon that starts kills its executor, declares its
\* group gone, or takes the record of a leader that runs (_should_reap,
\* reconcile_orphans, _crash_reconcile_epoch).
THEOREM ExecutorsAreLeft == RetSpec => LeftToTheirDaemon
<1>1. RetInv /\ [RetNext]_retVars => [Leaves]_retVars
  BY LeavesStep
<1>2. RetSpec => [][Leaves]_retVars
  BY <1>1, RetInvariance, PTL DEF RetSpec
<1> QED
  BY <1>2 DEF LeftToTheirDaemon, Leaves

\* While generations are retired, crash and are reconciled, the registry
\* still routes only to epochs that serve, and pointers still agree with
\* the rows.
THEOREM RetirementIsOrderly == RetSpec => [](RoutedIsServing /\ PointersAgree)
<1>1. RetInv => RoutedIsServing /\ PointersAgree
  BY PointersFromGInv DEF RetInv, GInv
<1> QED
  BY <1>1, RetInvariance, PTL

-----------------------------------------------------------------------------
(* Only what is over is retired                                            *)

\* What it takes: no mint of a request beside the operators, and daemons that
\* run answer /health.
OperatorsOnly == Starters = {} /\ "health" \notin Faults

\* Every epoch certified and confirmed, every daemon gone.
Settled(g) ==
  \A e \in EpochsOf(g) :
    epochs[e].ret = "certified" /\ daemon[e] # "up" /\ confirmed[e] >= epochs[e].final

\* A certified epoch whose daemon still runs serves, so the reaper finds it.
CertUp ==
  \A e \in Epochs : epochs[e].ret = "certified" /\ daemon[e] = "up" => epochs[e].proc = "serving"

\* generations_install_lock: whoever is past it holds it.
Exclusive == \A t \in Threads : thread[t].pc \notin {"idle", "lock"} => opLock = t

\* What a thread in retire knows of its generation: all it was found to
\* consist of is its own; once the reaper is through no certified epoch has a
\* daemon; and once the oracle has answered it is settled.
Retiring(t) ==
  /\ thread[t].pc \in RetirePc =>
       /\ thread[t].gen \in Gens
       /\ thread[t].clean \in EpochsOf(thread[t].gen) \cup {NoEpoch}
       /\ thread[t].crash \subseteq EpochsOf(thread[t].gen)
  /\ thread[t].pc \in {"children", "lose"} => thread[t].epoch \in thread[t].crash
  /\ thread[t].pc = "oracle" =>
       \A e \in EpochsOf(thread[t].gen) : epochs[e].ret = "certified" => daemon[e] # "up"
  /\ thread[t].pc \in {"clear", "finish"} => Settled(thread[t].gen)

OpInv ==
  /\ RetInv /\ CertUp /\ Exclusive
  /\ confirmed = [e \in Epochs |-> confirmed[e]]
  /\ \A t \in Threads : Retiring(t)

\* What retire establishes, and with one operator what stays so: its last
\* part says in addition that a generation being retired is not retired yet,
\* and that epochs are added only to one that is new or active.
OneOperator == OperatorsOnly /\ \A t, u \in Threads : t = u

LifeOK(t) ==
  /\ thread[t].pc = "insert" => gens[thread[t].gen].life \in {"active", "ready"}
  /\ thread[t].pc \in RetirePc \ {"finish"} =>
       gens[thread[t].gen].life \in {"active", "draining", "retiring"}

SettledInv ==
  /\ OpInv
  /\ \A t \in Threads : LifeOK(t)
  /\ \A g \in Gens : gens[g].life = "retired" => Settled(g)

\* No step of the registry or of activate retires a generation.
LEMMA NobodyRetires ==
  ASSUME GInv, GenNext
  PROVE  \A g \in Gens : gens'[g].life = "retired" => gens[g].life = "retired"
<1>1. GenTypeOK
  BY DEF GInv
<1>2. ASSUME \A g \in Gens : gens'[g].life = gens[g].life
      PROVE  \A g \in Gens : gens'[g].life = "retired" => gens[g].life = "retired"
  BY <1>2
<1>3. ASSUME NEW t \in Threads, Refresh(t) PROVE \A g \in Gens : gens'[g].life = gens[g].life
  <2>1. active \in Epochs
    BY <1>1, <1>3 DEF Refresh, GenTypeOK
  <2> QED
    BY <1>1, <1>3, <2>1, RepairShape DEF Refresh
<1>4. ASSUME NEW t \in Threads, Creates(t)
      PROVE  \A g \in Gens : gens'[g].life = "retired" => gens[g].life = "retired"
  <2> PICK p \in {"active", "ready"} : p = IF thread[t].mint THEN "active" ELSE "ready"
    OBVIOUS
  <2>1. gens' = [gens EXCEPT ![thread[t].gen].life = p]
    BY <1>4 DEF Creates
  <2>2. thread[t].gen \in Gens
    BY <1>4 DEF Creates, At, GInv, OwnsEpoch, Owns
  <2> QED
    BY <1>1, <2>1, <2>2 DEF GenTypeOK, GenRow
<1>5. ASSUME NEW t \in Threads, Flip(t)
      PROVE  \A g \in Gens : gens'[g].life = "retired" => gens[g].life = "retired"
  <2>1. \A g \in Gens : gens'[g].life \in {gens[g].life, "active", "draining"}
    BY <1>1, <1>5, FlipShape
  <2> QED
    BY <2>1
<1>6. ASSUME NEW t \in Threads, SpawnFails(t) \/ PromoteFails(t) \/ Install(t)
      PROVE  \A g \in Gens : gens'[g].life = gens[g].life
  <2>1. thread[t].epoch \in Epochs
    BY <1>6 DEF SpawnFails, PromoteFails, Install, At, GInv, OwnsEpoch, Owns, Minting
  <2>2. Dead(thread[t].epoch) \/ UNCHANGED gens
    BY <1>6 DEF SpawnFails, PromoteFails, Install, rows
  <2> QED
    BY <1>1, <2>1, <2>2, DeadShape
<1>7. ASSUME NEW t \in Threads, Promote(t) PROVE \A g \in Gens : gens'[g].life = gens[g].life
  <2>1. thread[t].epoch \in Epochs /\ Serve(thread[t].epoch)
    BY <1>7 DEF Promote, At, GInv, OwnsEpoch, Owns, Minting
  <2> QED
    BY <1>1, <2>1, ServeShape
<1>8. CASE RouterStart
  <2>1. ASSUME NEW g \in Gens, NEW e \in Epochs \cup {NoEpoch}, EagerReconcile(g, e)
        PROVE  \A h \in Gens : gens'[h].life = gens[h].life
    BY <1>1, <2>1, RepairShape DEF EagerReconcile
  <2> QED
    BY <1>8, <2>1 DEF RouterStart, AbortsAdoption, ActiveRows, rows
<1>9. ASSUME NEW t \in Threads, CallStart(t) \/ CallActivate(t) \/ Finds(t) \/ Stops(t)
                                  \/ Inserts(t) \/ Spawn(t) \/ ListActive(t) \/ Adopt(t)
      PROVE  UNCHANGED gens
  BY <1>9 DEF CallStart, CallActivate, Finds, Stops, Inserts, Spawn, ListActive, Adopt, rows
<1>10. ASSUME RouterCrash \/ (\E e \in Epochs : DaemonDies(e)) PROVE UNCHANGED gens
  BY <1>10 DEF RouterCrash, DaemonDies, rows
<1> QED
  BY <1>3, <1>4, <1>5, <1>6, <1>7, <1>8, <1>9, <1>10, ThreadStepCases DEF GenNext

\* While daemons that run answer, an epoch that serves goes on serving as
\* long as its daemon runs.
LEMMA ServingLasts ==
  ASSUME GInv, GenNext, "health" \notin Faults
  PROVE  \A e \in Epochs :
           epochs[e].proc = "serving" /\ daemon[e] = "up" /\ daemon'[e] = "up"
             => epochs'[e].proc = "serving"
<1> DEFINE P == \A e \in Epochs :
                  epochs[e].proc = "serving" /\ daemon[e] = "up" /\ daemon'[e] = "up"
                    => epochs'[e].proc = "serving"
<1>1. GenTypeOK
  BY DEF GInv
<1>2. ASSUME UNCHANGED epochs PROVE P
  BY <1>2
<1>3. ASSUME NEW t \in Threads, SpawnFails(t) \/ PromoteFails(t) PROVE P
  <2> PICK d : d = thread[t].epoch
    OBVIOUS
  <2>1. d \in Epochs /\ epochs[d].proc = "starting" /\ Dead(d)
    BY <1>3 DEF SpawnFails, PromoteFails, At, GInv, OwnsEpoch, Owns, Minting
  <2>2. \A x \in Epochs : x # d => epochs'[x] = epochs[x]
    BY <1>1, <2>1, DeadShape
  <2> QED
    BY <2>1, <2>2
<1>4. ASSUME NEW t \in Threads, Install(t) PROVE P
  <2> PICK d : d = thread[t].epoch
    OBVIOUS
  <2>1. d \in Epochs /\ (UNCHANGED epochs \/ (daemon[d] # "up" /\ Dead(d)))
    BY <1>4 DEF Install, At, GInv, OwnsEpoch, Owns, Minting, rows
  <2>2. Dead(d) => \A x \in Epochs : x # d => epochs'[x] = epochs[x]
    BY <1>1, <2>1, DeadShape
  <2> QED
    BY <1>2, <2>1, <2>2
<1>5. ASSUME NEW t \in Threads, Inserts(t) PROVE P
  <2>1. PICK e \in Epochs : epochs[e] = NoRow /\ \A x \in Epochs : x # e => epochs'[x] = epochs[x]
    BY <1>1, <1>5, InsertEpochShape
  <2> QED
    BY <2>1 DEF NoRow
<1>6. ASSUME NEW t \in Threads, Promote(t) PROVE P
  <2> PICK d : d = thread[t].epoch
    OBVIOUS
  <2>1. d \in Epochs /\ Serve(d)
    BY <1>6 DEF Promote, At, GInv, OwnsEpoch, Owns, Minting
  <2>2. epochs'[d].proc = "serving" /\ \A x \in Epochs : x # d => epochs'[x] = epochs[x]
    BY <1>1, <2>1, ServeShape
  <2> QED
    BY <2>2
<1>7. ASSUME NEW g \in Gens, NEW e \in Epochs \cup {NoEpoch}, EagerReconcile(g, e) PROVE P
  <2>1. \A x \in Epochs : epochs'[x].proc = IF x \in Leftovers(g, e) THEN "dead"
                                            ELSE IF x = e THEN "serving" ELSE epochs[x].proc
    BY <1>1, <1>7, EagerReconcileShape
  <2>2. e = NoEpoch => Adoptable(g) = {}
    BY <1>7 DEF EagerReconcile
  <2>3. ASSUME NEW x \in Epochs, x \in Leftovers(g, e), epochs[x].proc = "serving", daemon[x] = "up"
        PROVE  FALSE
    <3>1. e = NoEpoch /\ gens[g].current \in {x, NoEpoch} /\ x \in EpochsOf(g)
      BY <2>3 DEF Leftovers
    <3>2. x \in Adoptable(g)
      BY <2>3, <3>1 DEF Adoptable, Running
    <3> QED
      BY <2>2, <3>1, <3>2
  <2> QED
    BY <2>1, <2>3
<1>8. CASE RouterStart
  BY <1>2, <1>7, <1>8 DEF RouterStart, AbortsAdoption, ActiveRows, rows
<1>9. CASE RouterCrash \/ (\E e \in Epochs : DaemonDies(e))
  BY <1>2, <1>9 DEF RouterCrash, DaemonDies, rows
<1>10. ASSUME NEW t \in Threads, CallStart(t) \/ CallActivate(t) \/ Refresh(t) \/ Finds(t)
                \/ Stops(t) \/ Creates(t) \/ Spawn(t) \/ ListActive(t) \/ Flip(t) \/ Adopt(t)
       PROVE  UNCHANGED epochs
  BY <1>10 DEF CallStart, CallActivate, Refresh, Finds, Stops, Creates, Spawn,
               ListActive, Flip, Adopt, rows
<1> QED
  BY <1>2, <1>3, <1>4, <1>5, <1>6, <1>8, <1>9, <1>10, ThreadStepCases DEF GenNext

\* The only way a row gets its generation.
RowsStay ==
  \A e \in Epochs :
    \/ epochs'[e].gen = epochs[e].gen
    \/ /\ epochs[e].gen = NoGen
       /\ \E t \in Threads : thread[t].pc = "insert" /\ epochs'[e].gen = thread[t].gen

LEMMA RowsStayed == ASSUME GInv, GenNext PROVE RowsStay
<1>1. GenTypeOK
  BY DEF GInv
<1>2. ASSUME UNCHANGED epochs PROVE RowsStay
  BY <1>2 DEF RowsStay
<1>3. ASSUME NEW d \in Epochs, Dead(d) PROVE RowsStay
  BY <1>1, <1>3, DeadShape DEF RowsStay
<1>4. ASSUME NEW t \in Threads, SpawnFails(t) \/ PromoteFails(t) \/ Install(t) PROVE RowsStay
  <2>1. thread[t].epoch \in Epochs
    BY <1>4 DEF SpawnFails, PromoteFails, Install, At, GInv, OwnsEpoch, Owns, Minting
  <2>2. Dead(thread[t].epoch) \/ UNCHANGED epochs
    BY <1>4 DEF SpawnFails, PromoteFails, Install, rows
  <2> QED
    BY <1>2, <1>3, <2>1, <2>2
<1>5. ASSUME NEW t \in Threads, Inserts(t) PROVE RowsStay
  <2>1. PICK e \in Epochs :
          /\ epochs[e] = NoRow /\ epochs'[e].gen = thread[t].gen /\ thread[t].pc = "insert"
          /\ \A x \in Epochs : x # e => epochs'[x] = epochs[x]
    BY <1>1, <1>5, InsertEpochShape
  <2> QED
    BY <2>1 DEF RowsStay, NoRow
<1>6. ASSUME NEW t \in Threads, Promote(t) PROVE RowsStay
  <2>1. thread[t].epoch \in Epochs /\ Serve(thread[t].epoch)
    BY <1>6 DEF Promote, At, GInv, OwnsEpoch, Owns, Minting
  <2> QED
    BY <1>1, <2>1, ServeShape DEF RowsStay
<1>7. ASSUME NEW g \in Gens, NEW e \in Epochs \cup {NoEpoch}, EagerReconcile(g, e) PROVE RowsStay
  BY <1>1, <1>7, EagerReconcileShape DEF RowsStay
<1>8. CASE RouterStart
  BY <1>2, <1>7, <1>8 DEF RouterStart, AbortsAdoption, ActiveRows, rows
<1>9. CASE RouterCrash \/ (\E e \in Epochs : DaemonDies(e))
  BY <1>2, <1>9 DEF RouterCrash, DaemonDies, rows
<1>10. ASSUME NEW t \in Threads, CallStart(t) \/ CallActivate(t) \/ Refresh(t) \/ Finds(t)
                \/ Stops(t) \/ Creates(t) \/ Spawn(t) \/ ListActive(t) \/ Flip(t) \/ Adopt(t)
       PROVE  UNCHANGED epochs
  BY <1>10 DEF CallStart, CallActivate, Refresh, Finds, Stops, Creates, Spawn,
               ListActive, Flip, Adopt, rows
<1> QED
  BY <1>2, <1>4, <1>5, <1>6, <1>8, <1>9, <1>10, ThreadStepCases DEF GenNext


\* Each of these steps is taken by a thread that is neither idle nor in
\* retire, moves no other thread, and keeps the operator's lock or ends.
LEMMA StepShape ==
  ASSUME GInv, NEW t \in Threads, ThreadStep(t)
  PROVE  /\ thread[t].pc \notin RetirePc \cup {"idle"}
         /\ \A u \in Threads : u # t => thread'[u] = thread[u]
         /\ thread'[t] = Idle \/ opLock' = opLock
<1> DEFINE P == /\ thread[t].pc \notin RetirePc \cup {"idle"}
                /\ \A u \in Threads : u # t => thread'[u] = thread[u]
                /\ thread'[t] = Idle \/ opLock' = opLock
<1>1. GenTypeOK /\ thread \in [Threads -> Work]
  BY DEF GInv, GenTypeOK
<1>2. CASE Refresh(t) \/ Install(t) \/ SpawnFails(t) \/ PromoteFails(t)
  <2>1. (Answered(t, TRUE) \/ Answered(t, FALSE)) \/ Fails(t)
    BY <1>2 DEF Refresh, Install, SpawnFails, PromoteFails
  <2>2. /\ \A u \in Threads : u # t => thread'[u] = thread[u]
        /\ thread'[t] = Idle \/ opLock' = opLock
    BY <1>1, <2>1, AnsweredShape, FailsShape
  <2>3. thread[t].pc \in {"active", "install", "spawn", "promote"}
    BY <1>2 DEF Refresh, Install, SpawnFails, PromoteFails, At
  <2> QED
    BY <2>2, <2>3 DEF RetirePc
<1>3. CASE Finds(t) \/ Inserts(t) \/ ListActive(t)
  <2>1. \A u \in Threads : u # t => thread'[u] = thread[u]
    BY <1>1, <1>3, FindOrCreateShape, InsertEpochShape, ListActiveShape
  <2>2. opLock' = opLock /\ thread[t].pc \in {"active", "insert", "list"}
    BY <1>3 DEF Finds, Inserts, ListActive, At
  <2> QED
    BY <2>1, <2>2 DEF RetirePc
<1>4. CASE Creates(t) \/ Spawn(t) \/ Promote(t) \/ Flip(t)
  <2>1. PICK p \in {"insert", "promote", "install", "flip", "adopt"} : Goto(t, p)
    BY <1>4 DEF Creates, Spawn, Promote, Flip
  <2>2. p \in Pc
    BY DEF Pc
  <2>3. \A u \in Threads : u # t => thread'[u] = thread[u]
    BY <1>1, <2>1, <2>2, GotoShape
  <2>4. opLock' = opLock /\ thread[t].pc \in {"create", "spawn", "promote", "flip"}
    BY <1>4 DEF Creates, Spawn, Promote, Flip, At
  <2> QED
    BY <2>3, <2>4 DEF RetirePc
<1>5. CASE Adopt(t)
  <2>1. thread' = [thread EXCEPT ![t] = Idle] /\ thread[t].pc = "adopt"
    BY <1>5 DEF Adopt, At
  <2> QED
    BY <1>1, <2>1, IdleType, OneThread DEF RetirePc
<1>6. CASE Stops(t)
  <2>1. /\ \A u \in Threads : u # t => thread'[u] = thread[u]
        /\ thread'[t] = Idle \/ opLock' = opLock
        /\ thread[t].pc \in {"active", "create", "insert"}
    BY <1>1, <1>6, StopsShape
  <2> QED
    BY <2>1 DEF RetirePc
<1> QED
  BY <1>2, <1>3, <1>4, <1>5, <1>6, ThreadStepCases

\* The lock stays with whoever works.
LEMMA GenExclusive ==
  ASSUME GInv, Exclusive, OperatorsOnly, GenNext
  PROVE  Exclusive'
<1>1. CASE UNCHANGED <<thread, opLock>>
  BY <1>1 DEF Exclusive
<1>2. ASSUME NEW t \in Threads, CallActivate(t) PROVE Exclusive'
  <2>1. /\ opLock = NoThread /\ opLock' = t
        /\ thread' = [thread EXCEPT ![t] = [Idle EXCEPT !.kind = "activate", !.pc = "active"]]
    BY <1>2 DEF CallActivate
  <2>2. \A u \in Threads : u # t => thread'[u] = thread[u]
    BY <2>1 DEF GInv, GenTypeOK
  <2> QED
    BY <2>1, <2>2, GenerationsAssumption DEF Exclusive
<1>3. ASSUME NEW t \in Threads, ThreadStep(t) PROVE Exclusive'
  <2>1. /\ thread[t].pc \notin RetirePc \cup {"idle"}
        /\ \A u \in Threads : u # t => thread'[u] = thread[u]
        /\ thread'[t] = Idle \/ opLock' = opLock
    BY <1>3, StepShape
  <2>2. opLock = t
    BY <2>1 DEF Exclusive, RetirePc
  <2>3. \A u \in Threads : u # t => thread'[u].pc \in {"idle", "lock"}
    BY <2>1, <2>2 DEF Exclusive
  <2> QED
    BY <2>1, <2>2, <2>3, IdleType DEF Exclusive
<1>4. CASE RouterCrash
  BY <1>4, IdleType DEF RouterCrash, Exclusive
<1>5. CASE RouterStart \/ \E e \in Epochs : DaemonDies(e)
  BY <1>1, <1>5 DEF RouterStart, DaemonDies, memory
<1> QED
  BY <1>2, <1>3, <1>4, <1>5 DEF GenNext, CallStart, OperatorsOnly

\* While a thread retires a generation nothing happens beside it than that a
\* daemon dies.
LEMMA OneAtATime ==
  ASSUME GInv, Exclusive, OperatorsOnly, GenNext, NEW t \in Threads,
         thread'[t].pc \in RetirePc \ {"lock"}
  PROVE  UNCHANGED <<gens, epochs, thread>>
<1>1. thread'[t] = thread[t] /\ opLock = t /\ thread[t].pc \in RetirePc \ {"lock"}
  BY ThreadsLeave DEF Exclusive, RetirePc
<1>2. thread[t] # Idle
  BY <1>1, IdleType DEF RetirePc
<1>3. ASSUME NEW u \in Threads, CallStart(u) \/ CallActivate(u) PROVE FALSE
  BY <1>1, <1>3, GenerationsAssumption DEF CallStart, CallActivate, OperatorsOnly
<1>4. ASSUME NEW u \in Threads, ThreadStep(u) PROVE FALSE
  <2>1. thread[u].pc \notin RetirePc \cup {"idle"}
    BY <1>4, StepShape
  <2>2. opLock = u
    BY <2>1 DEF Exclusive, RetirePc
  <2> QED
    BY <1>1, <2>1, <2>2
<1>5. ~RouterCrash /\ ~RouterStart
  BY <1>1, <1>2 DEF RouterCrash, RouterStart, GInv, DownIsEmpty
<1>6. CASE \E e \in Epochs : DaemonDies(e)
  BY <1>6 DEF DaemonDies, rows, memory
<1> QED
  BY <1>3, <1>4, <1>5, <1>6 DEF GenNext

\* A settled generation stays settled as long as none of its epochs is
\* touched and none is added.
LEMMA StaysSettled ==
  ASSUME CertOK, NEW g, Settled(g),
         \A e \in Epochs :
           /\ epochs'[e].gen = g => epochs[e].gen = g
           /\ epochs[e].gen = g => /\ epochs'[e].ret = epochs[e].ret
                                   /\ epochs'[e].final = epochs[e].final
                                   /\ confirmed'[e] = confirmed[e]
                                   /\ daemon'[e] = "up" => daemon[e] = "up" \/ epochs[e].proc = "starting"
  PROVE  Settled(g)'
<1>1. SUFFICES ASSUME NEW e \in Epochs, epochs'[e].gen = g
               PROVE  /\ epochs'[e].ret = "certified" /\ daemon'[e] # "up"
                      /\ confirmed'[e] >= epochs'[e].final
  BY DEF Settled, EpochsOf
<1>2. epochs[e].gen = g /\ epochs[e].ret = "certified" /\ daemon[e] # "up"
      /\ confirmed[e] >= epochs[e].final
  BY <1>1 DEF Settled, EpochsOf
<1>3. epochs[e].proc # "starting"
  BY <1>2 DEF CertOK
<1> QED
  BY <1>1, <1>2, <1>3

\* A thread that a step leaves where it was, with its rows, knows no less.
LEMMA StillRetiring ==
  ASSUME OpInv, NEW t \in Threads, UNCHANGED <<epochs, thread, confirmed>>,
         \A e \in Epochs : daemon'[e] = "up" => daemon[e] = "up" \/ epochs[e].proc = "starting"
  PROVE  Retiring(t)'
<1> PICK g : g = thread[t].gen
  OBVIOUS
<1>1. Retiring(t) /\ CertOK
  BY DEF OpInv, RetInv
<1>2. EpochsOf(g)' = EpochsOf(g)
  BY DEF EpochsOf
<1>3. ASSUME thread[t].pc = "oracle", NEW e \in EpochsOf(g), epochs[e].ret = "certified"
      PROVE  daemon'[e] # "up"
  <2>1. e \in Epochs /\ daemon[e] # "up"
    BY <1>1, <1>3 DEF Retiring, EpochsOf
  <2>2. epochs[e].proc # "starting"
    BY <1>1, <1>3, <2>1 DEF CertOK
  <2> QED
    BY <2>1, <2>2
<1>4. thread[t].pc \in {"clear", "finish"} => Settled(g)'
  <2>1. ASSUME Settled(g) PROVE Settled(g)'
    BY <1>1, <2>1, StaysSettled
  <2> QED
    BY <1>1, <2>1 DEF Retiring
<1> QED
  BY <1>1, <1>2, <1>3, <1>4 DEF Retiring

\* The steps of the registry and of activate.
LEMMA GenStepOp ==
  ASSUME OpInv, OperatorsOnly, GenNext, SessionsFollow
  PROVE  OpInv'
<1>1. RetInv /\ GInv /\ RetInv' /\ Exclusive'
  BY GenStepInv, GenExclusive DEF OpInv, RetInv
<1>2. RowsFrame /\ RowsStay
  BY <1>1, RowsKept, RowsStayed
<1>3. \A e \in Epochs : daemon'[e] = "up" => daemon[e] = "up" \/ epochs[e].proc = "starting"
  BY <1>1, DaemonsKept
<1>4. UNCHANGED confirmed
  BY DEF SessionsFollow
<1>5. CertUp'
  <2>1. SUFFICES ASSUME NEW e \in Epochs, epochs'[e].ret = "certified", daemon'[e] = "up"
                 PROVE  epochs'[e].proc = "serving"
    BY DEF CertUp
  <2>2. epochs[e].ret = "certified"
    BY <1>2, <2>1 DEF RowsFrame
  <2>3. epochs[e].proc # "starting"
    BY <1>1, <2>2 DEF RetInv, CertOK
  <2>4. daemon[e] = "up" /\ epochs[e].proc = "serving"
    BY <1>3, <2>1, <2>2, <2>3 DEF OpInv, CertUp
  <2> QED
    BY <1>1, <2>1, <2>4, ServingLasts DEF OperatorsOnly
<1>6. ASSUME NEW t \in Threads PROVE Retiring(t)'
  <2>1. CASE thread'[t].pc \notin RetirePc
    BY <2>1 DEF Retiring, RetirePc
  <2>2. CASE thread'[t].pc \in RetirePc \ {"lock"}
    <3>1. UNCHANGED <<gens, epochs, thread>>
      BY <1>1, <2>2, OneAtATime DEF OpInv
    <3> QED
      BY <1>3, <1>4, <3>1, StillRetiring
  <2>3. CASE thread'[t].pc = "lock"
    <3>1. thread'[t] = thread[t] /\ Retiring(t)
      BY <1>1, <2>3, ThreadsLeave DEF RetirePc, OpInv
    <3>2. \A e \in EpochsOf(thread[t].gen) : epochs'[e].gen = thread[t].gen
      BY <1>2, <2>3, <3>1, GenerationsAssumption DEF RowsStay, EpochsOf, Retiring, RetirePc
    <3>3. EpochsOf(thread[t].gen) \subseteq EpochsOf(thread[t].gen)'
      BY <3>1, <3>2 DEF EpochsOf
    <3> QED
      BY <2>3, <3>1, <3>3 DEF Retiring, RetirePc
  <2> QED
    BY <2>1, <2>2, <2>3
<1>7. confirmed' = [e \in Epochs |-> confirmed'[e]]
  BY <1>4 DEF OpInv
<1> QED
  BY <1>1, <1>5, <1>6, <1>7 DEF OpInv

\* Steps of a session and stutters touch nothing of this.
LEMMA SameOp ==
  ASSUME OpInv, UNCHANGED <<gens, epochs, daemon, thread, opLock, confirmed>>, RetInv'
  PROVE  OpInv'
<1>1. \A t \in Threads : Retiring(t)'
  BY StillRetiring
<1> QED
  BY <1>1 DEF OpInv, CertUp, Exclusive

\* What a step of retire leaves alone: the epochs and the lifecycle of every
\* other generation, and whose epoch is whose.
OwnStep(t) ==
  /\ \A e \in Epochs :
       /\ epochs'[e].gen = epochs[e].gen
       /\ epochs[e].gen # thread[t].gen => /\ epochs'[e].ret = epochs[e].ret
                                           /\ epochs'[e].final = epochs[e].final
                                           /\ confirmed'[e] = confirmed[e]
       /\ daemon'[e] = "up" => daemon[e] = "up"
       /\ epochs'[e].ret = "certified" /\ daemon'[e] = "up" => epochs'[e].proc = "serving"
  /\ confirmed' = [e \in Epochs |-> confirmed'[e]]
  /\ \A g \in Gens : g # thread[t].gen => gens'[g].life = gens[g].life

\* What the step knows when it moves on: the thread keeps its generation, and
\* it takes up "oracle", "clear" and "finish" when their time has come.
MovesOn(t) ==
  LET g == thread[t].gen  w == thread'[t] IN
  /\ w.gen = g /\ w.clean = thread[t].clean /\ w.crash \subseteq thread[t].crash
  /\ w.pc \in {"children", "lose"} => w.epoch \in w.crash
  /\ w.pc \in RetirePc \ {"finish"} =>
       thread[t].pc # "finish" /\ gens'[g].life = gens[g].life
  /\ w.pc = "oracle" =>
       \A e \in Epochs : epochs[e].gen = g /\ epochs'[e].ret = "certified" => daemon'[e] # "up"
  /\ w.pc \in {"clear", "finish"} =>
       \A e \in Epochs : epochs[e].gen = g =>
         epochs'[e].ret = "certified" /\ daemon'[e] # "up" /\ confirmed'[e] >= epochs'[e].final

\* A step of retire: the thread is through, or goes on with the operator's
\* lock; it changes the lifecycle last, and then nothing else.
GoodStep(t) ==
  /\ thread[t].pc \in RetirePc
  /\ \A u \in Threads : u # t => thread'[u] = thread[u]
  /\ OwnStep(t)
  /\ \/ thread'[t] = Idle /\ (thread[t].pc = "lock" => opLock' = opLock)
     \/ /\ thread'[t].pc \in RetirePc /\ MovesOn(t)
        /\ opLock \in {t, NoThread} /\ opLock' = t
  /\ thread[t].pc # "finish" => gens'[thread[t].gen].life = gens[thread[t].gen].life
  /\ thread[t].pc \in {"lock", "finish"} => UNCHANGED <<epochs, daemon, confirmed>>

\* Such a step keeps what the operators rely on.
LEMMA GoodStepOp ==
  ASSUME OpInv, RetInv', NEW t \in Threads, GoodStep(t)
  PROVE  OpInv'
<1>1. Retiring(t) /\ NoThread \notin Threads /\ Idle.pc = "idle"
  BY GenerationsAssumption, IdleType DEF OpInv
<1> PICK g : g = thread[t].gen
  OBVIOUS
<1>2. g \in Gens
  BY <1>1 DEF Retiring, GoodStep
<1>3. \A h : EpochsOf(h)' = EpochsOf(h)
  BY DEF GoodStep, OwnStep, EpochsOf
<1>4. CertUp' /\ confirmed' = [e \in Epochs |-> confirmed'[e]]
  BY DEF CertUp, GoodStep, OwnStep
<1>5. \A u \in Threads : u # t => thread[u].pc \in {"idle", "lock"} \/ thread[t].pc = "lock"
  BY DEF OpInv, Exclusive, GoodStep, RetirePc
<1>6. Exclusive'
  <2>1. CASE thread'[t] = Idle /\ (thread[t].pc = "lock" => opLock' = opLock)
    BY <1>1, <1>5, <2>1 DEF Exclusive, OpInv, GoodStep
  <2>2. CASE opLock \in {t, NoThread} /\ opLock' = t
    BY <1>1, <2>2 DEF Exclusive, OpInv, GoodStep
  <2> QED
    BY <2>1, <2>2 DEF GoodStep
<1>7. Retiring(t)'
  <2>1. CASE thread'[t] = Idle
    BY <1>1, <2>1 DEF Retiring, RetirePc
  <2>2. CASE thread'[t].pc \in RetirePc /\ MovesOn(t)
    <3>1. /\ thread'[t].gen = g
          /\ thread'[t].clean \in EpochsOf(g) \cup {NoEpoch} /\ thread'[t].crash \subseteq EpochsOf(g)
          /\ thread'[t].pc \in {"children", "lose"} => thread'[t].epoch \in thread'[t].crash
      BY <1>1, <2>2 DEF MovesOn, Retiring, GoodStep
    <3>2. thread'[t].pc = "oracle" =>
            \A e \in EpochsOf(g) : epochs'[e].ret = "certified" => daemon'[e] # "up"
      BY <2>2 DEF MovesOn, EpochsOf
    <3>3. thread'[t].pc \in {"clear", "finish"} => Settled(g)'
      <4>1. thread'[t].pc \in {"clear", "finish"} =>
              \A e \in EpochsOf(g) : /\ epochs'[e].ret = "certified" /\ daemon'[e] # "up"
                                     /\ confirmed'[e] >= epochs'[e].final
        BY <2>2 DEF MovesOn, EpochsOf
      <4> QED
        BY <1>3, <4>1 DEF Settled
    <3> QED
      BY <1>2, <1>3, <2>2, <3>1, <3>2, <3>3 DEF Retiring
  <2> QED
    BY <2>1, <2>2 DEF GoodStep
<1>8. ASSUME NEW u \in Threads, u # t PROVE Retiring(u)'
  <2>1. thread'[u] = thread[u] /\ Retiring(u)
    BY <1>8 DEF GoodStep, OpInv
  <2>2. CASE thread[u].pc \in {"idle", "lock"}
    BY <1>3, <2>1, <2>2 DEF Retiring, RetirePc
  <2>3. CASE thread[u].pc \notin {"idle", "lock"}
    <3>1. thread[t].pc = "lock" /\ opLock = u
      BY <1>5, <1>8, <2>3 DEF OpInv, Exclusive
    <3>2. UNCHANGED <<epochs, daemon, confirmed>>
      BY <3>1 DEF GoodStep
    <3> QED
      BY <1>3, <2>1, <3>2 DEF Retiring, Settled
  <2> QED
    BY <2>2, <2>3
<1>9. \A u \in Threads : Retiring(u)'
  BY <1>7, <1>8
<1> QED
  BY <1>4, <1>6, <1>9 DEF OpInv

\* With one operator it keeps retired generations settled, and retires only
\* one that is.
LEMMA GoodStepSettles ==
  ASSUME SettledInv, OneOperator, OpInv', NEW t \in Threads, GoodStep(t)
  PROVE  SettledInv'
<1>1. /\ Retiring(t) /\ LifeOK(t) /\ CertOK /\ thread[t].pc \in RetirePc
      /\ \A u \in Threads : u = t
  BY DEF SettledInv, OpInv, RetInv, OneOperator, GoodStep
<1> PICK g : g = thread[t].gen
  OBVIOUS
<1>2. g \in Gens /\ (thread[t].pc # "finish" => gens[g].life \in {"active", "draining", "retiring"})
  BY <1>1 DEF Retiring, LifeOK
<1>3. ASSUME NEW h \in Gens, gens'[h].life = "retired" PROVE Settled(h)'
  <2>1. CASE h # g
    <3>1. Settled(h)
      BY <1>3, <2>1 DEF OwnStep, GoodStep, SettledInv
    <3>2. \A e \in Epochs :
           /\ epochs'[e].gen = h => epochs[e].gen = h
           /\ epochs[e].gen = h => /\ epochs'[e].ret = epochs[e].ret
                                   /\ epochs'[e].final = epochs[e].final
                                   /\ confirmed'[e] = confirmed[e]
                                   /\ daemon'[e] = "up" => daemon[e] = "up" \/ epochs[e].proc = "starting"
      BY <2>1 DEF OwnStep, GoodStep
    <3> QED
      BY <1>1, <3>1, <3>2, StaysSettled
  <2>2. CASE h = g
    <3>1. thread[t].pc = "finish"
      BY <1>2, <1>3, <2>2 DEF GoodStep
    <3>2. Settled(g) /\ UNCHANGED <<epochs, daemon, confirmed>>
      BY <1>1, <3>1 DEF Retiring, GoodStep
    <3>3. Settled(g)'
      BY <3>2 DEF Settled, EpochsOf
    <3> QED
      BY <2>2, <3>3
  <2> QED
    BY <2>1, <2>2
<1>4. LifeOK(t)'
  <2>1. CASE thread'[t] = Idle
    BY <2>1, IdleType DEF LifeOK, RetirePc
  <2>2. CASE thread'[t].pc \in RetirePc /\ MovesOn(t)
    <3>1. thread'[t].pc # "insert" /\ thread'[t].gen = g
      BY <2>2 DEF MovesOn, RetirePc
    <3>2. thread'[t].pc \in RetirePc \ {"finish"} => gens'[g].life \in {"active", "draining", "retiring"}
      BY <1>2, <2>2 DEF MovesOn
    <3> QED
      BY <3>1, <3>2 DEF LifeOK
  <2> QED
    BY <2>1, <2>2 DEF GoodStep
<1>5. \A u \in Threads : LifeOK(u)'
  BY <1>1, <1>4
<1> QED
  BY <1>3, <1>5 DEF SettledInv

\* A thread that goes to a step that needs nothing, or is blocked, with rows
\* that are its own.
LEMMA PlainMove ==
  ASSUME OpInv, NEW t \in Threads, thread[t].pc \in RetirePc \ {"lock", "finish"}, OwnStep(t),
         gens'[thread[t].gen].life = gens[thread[t].gen].life,
         \/ Blocked(t)
         \/ /\ UNCHANGED opLock
            /\ \E p \in RetirePc \ {"children", "lose", "oracle", "clear", "finish"} : Goto(t, p)
  PROVE  GoodStep(t)
<1>1. thread \in [Threads -> Work] /\ opLock = t
  BY DEF OpInv, RetInv, GInv, GenTypeOK, Exclusive, RetirePc
<1>2. CASE Blocked(t)
  BY <1>1, <1>2 DEF Blocked, GoodStep
<1>3. CASE /\ UNCHANGED opLock
           /\ \E p \in RetirePc \ {"children", "lose", "oracle", "clear", "finish"} : Goto(t, p)
  <2>1. PICK p \in RetirePc \ {"children", "lose", "oracle", "clear", "finish"} : Goto(t, p)
    BY <1>3
  <2>2. p \in Pc
    BY DEF RetirePc, Pc
  <2>3. /\ thread'[t].pc = p /\ thread'[t].gen = thread[t].gen
        /\ thread'[t].clean = thread[t].clean /\ thread'[t].crash = thread[t].crash
        /\ \A u \in Threads : u # t => thread'[u] = thread[u]
    BY <1>1, <2>1, <2>2, GotoShape
  <2>4. thread'[t].pc \in RetirePc /\ MovesOn(t)
    BY <2>3 DEF MovesOn
  <2> QED
    BY <1>1, <1>3, <2>3, <2>4 DEF GoodStep
<1> QED
  BY <1>2, <1>3

\* The lock is taken, or the call is over.
LEMMA LockGood ==
  ASSUME OpInv, NEW t \in Threads, RetireLock(t)
  PROVE  GoodStep(t)
<1>1. /\ UNCHANGED <<gens, epochs, daemon, confirmed>> /\ thread[t].pc = "lock"
      /\ thread \in [Threads -> Work] /\ {"lock", "certify"} \subseteq RetirePc /\ "certify" \in Pc
  BY DEF RetireLock, At, RetirePc, Pc, rows, sessVars, OpInv, RetInv, GInv, GenTypeOK
<1>2. OwnStep(t)
  BY <1>1 DEF OwnStep, OpInv, CertUp
<1>3. CASE opLock = NoThread /\ opLock' = t /\ Goto(t, "certify")
  <2>1. /\ thread'[t].pc = "certify" /\ thread'[t].gen = thread[t].gen
        /\ thread'[t].clean = thread[t].clean /\ thread'[t].crash = thread[t].crash
        /\ \A u \in Threads : u # t => thread'[u] = thread[u]
    BY <1>1, <1>3, GotoShape
  <2>2. MovesOn(t)
    BY <1>1, <2>1 DEF MovesOn
  <2> QED
    BY <1>1, <1>2, <1>3, <2>1, <2>2 DEF GoodStep
<1>4. CASE thread' = [thread EXCEPT ![t] = Idle] /\ UNCHANGED opLock
  BY <1>1, <1>2, <1>4 DEF GoodStep
<1> QED
  BY <1>3, <1>4 DEF RetireLock

\* Steps that read, or that write sessions only.
LEMMA ReadGood ==
  ASSUME OpInv, NEW t \in Threads,
         CheckQuiesced(t) \/ NothingToCertify(t) \/ ReapChildren(t) \/ LoseSession(t)
  PROVE  GoodStep(t)
<1>1. /\ UNCHANGED <<gens, epochs, daemon, confirmed>> /\ thread[t].pc \in RetirePc \ {"lock", "finish"}
      /\ thread \in [Threads -> Work] /\ Retiring(t) /\ opLock = t
  BY DEF CheckQuiesced, NothingToCertify, ReapChildren, LoseSession, Exclusive,
         At, RetirePc, rows, sessVars, OpInv, RetInv, GInv, GenTypeOK
<1>2. OwnStep(t)
  BY <1>1 DEF OwnStep, OpInv, CertUp
<1>3. CASE Blocked(t)
  BY <1>1, <1>2, <1>3, PlainMove
<1>4. CASE CheckQuiesced(t) \/ NothingToCertify(t)
  <2>1. {"rpc", "reap"} \subseteq RetirePc \ {"children", "lose", "oracle", "clear", "finish"}
    BY DEF RetirePc
  <2>2. \/ Blocked(t)
        \/ /\ UNCHANGED opLock
           /\ \E p \in RetirePc \ {"children", "lose", "oracle", "clear", "finish"} : Goto(t, p)
    BY <1>4, <2>1 DEF CheckQuiesced, NothingToCertify
  <2> QED
    BY <1>1, <1>2, <2>2, PlainMove
<1>5. CASE ReapChildren(t) /\ Goto(t, "lose") /\ UNCHANGED opLock
  <2>1. thread[t].epoch \in thread[t].crash /\ "lose" \in Pc /\ "lose" \in RetirePc
    BY <1>1, <1>5 DEF Retiring, ReapChildren, At, Pc, RetirePc
  <2>2. /\ thread'[t].pc = "lose" /\ thread'[t].gen = thread[t].gen
        /\ thread'[t].clean = thread[t].clean /\ thread'[t].crash = thread[t].crash
        /\ thread'[t].epoch = thread[t].epoch
        /\ \A u \in Threads : u # t => thread'[u] = thread[u]
    BY <1>1, <1>5, <2>1, GotoShape
  <2>3. thread'[t].pc \in RetirePc /\ MovesOn(t)
    BY <1>1, <2>1, <2>2 DEF MovesOn
  <2> QED
    BY <1>1, <1>2, <1>5, <2>2, <2>3 DEF GoodStep
<1>6. CASE LoseSession(t) /\ UNCHANGED <<thread, opLock>>
  <2>1. thread[t].pc = "lose" /\ thread[t].epoch \in thread[t].crash
    BY <1>1, <1>6 DEF Retiring, LoseSession, At
  <2>2. thread'[t].pc \in RetirePc /\ MovesOn(t)
    BY <1>1, <1>6, <2>1 DEF MovesOn
  <2> QED
    BY <1>1, <1>2, <1>6, <2>2 DEF GoodStep
<1> QED
  BY <1>3, <1>4, <1>5, <1>6 DEF ReapChildren, LoseSession

\* The last two steps: the generation is settled already.
LEMMA LastGood ==
  ASSUME OpInv, NEW t \in Threads, ClearCurrent(t) \/ Finish(t)
  PROVE  GoodStep(t)
<1>1. /\ UNCHANGED <<epochs, daemon, confirmed>> /\ thread[t].pc \in {"clear", "finish"}
      /\ thread \in [Threads -> Work] /\ GenTypeOK /\ opLock = t
  BY DEF ClearCurrent, Finish, At, rows, sessVars, OpInv, RetInv, GInv, GenTypeOK, Exclusive
<1>2. /\ thread[t].pc \in RetirePc /\ "finish" \in RetirePc /\ "finish" \in Pc
      /\ thread[t].gen \in Gens /\ Settled(thread[t].gen)
  BY <1>1 DEF RetirePc, Pc, OpInv, Retiring
<1>3. ASSUME thread'[t].pc = "finish", thread'[t].gen = thread[t].gen,
             thread'[t].clean = thread[t].clean, thread'[t].crash = thread[t].crash
      PROVE  thread'[t].pc \in RetirePc /\ MovesOn(t)
  <2>1. \A e \in Epochs : epochs[e].gen = thread[t].gen =>
          epochs'[e].ret = "certified" /\ daemon'[e] # "up" /\ confirmed'[e] >= epochs'[e].final
    BY <1>1, <1>2 DEF Settled, EpochsOf
  <2> QED
    BY <1>2, <1>3, <2>1 DEF MovesOn
<1>4. ASSUME \A g \in Gens : g # thread[t].gen => gens'[g].life = gens[g].life PROVE OwnStep(t)
  BY <1>1, <1>4 DEF OwnStep, OpInv, CertUp
<1>5. CASE ClearCurrent(t)
  <2>1. \A g \in Gens : gens'[g].life = gens[g].life
    <3>1. gens' = [gens EXCEPT ![thread[t].gen].current = NoEpoch] /\ NoEpoch \in Epochs \cup {NoEpoch}
      BY <1>5 DEF ClearCurrent
    <3> QED
      BY <1>1, <3>1, RepairShape
  <2>2. /\ thread'[t].pc = "finish" /\ thread'[t].gen = thread[t].gen
        /\ thread'[t].clean = thread[t].clean /\ thread'[t].crash = thread[t].crash
        /\ \A u \in Threads : u # t => thread'[u] = thread[u]
    BY <1>1, <1>2, <1>5, GotoShape DEF ClearCurrent
  <2>3. OwnStep(t) /\ thread'[t].pc \in RetirePc /\ MovesOn(t)
    BY <1>3, <1>4, <2>1, <2>2
  <2>4. opLock' = opLock
    BY <1>5 DEF ClearCurrent
  <2> QED
    BY <1>1, <1>2, <2>1, <2>2, <2>3, <2>4 DEF GoodStep
<1>6. CASE Finish(t)
  <2>1. \A g \in Gens : g # thread[t].gen => gens'[g].life = gens[g].life
    BY <1>1, <1>6 DEF Finish, GenTypeOK
  <2>2. OwnStep(t) /\ thread[t].pc = "finish"
    BY <1>4, <1>6, <2>1 DEF Finish, At
  <2>3. CASE UNCHANGED <<thread, opLock>>
    <3>1. thread'[t].pc \in RetirePc /\ MovesOn(t)
      BY <1>3, <2>2, <2>3
    <3> QED
      BY <1>1, <1>2, <2>2, <2>3, <3>1 DEF GoodStep
  <2>4. CASE Blocked(t)
    BY <1>1, <1>2, <2>2, <2>4 DEF GoodStep, Blocked
  <2> QED
    BY <1>6, <2>3, <2>4 DEF Finish
<1> QED
  BY <1>5, <1>6

\* Steps that certify, close admission or confirm: on epochs of the thread's
\* own generation.
LEMMA CrashBeginGood ==
  ASSUME OpInv, NEW t \in Threads, CrashBegin(t)
  PROVE  GoodStep(t)
<1>1. /\ UNCHANGED <<gens, daemon, confirmed>> /\ thread[t].pc = "certify"
      /\ thread[t].pc \in RetirePc \ {"lock", "finish"} /\ thread[t] \in Work
      /\ thread \in [Threads -> Work] /\ epochs \in [Epochs -> EpochRow] /\ Retiring(t)
      /\ opLock = t
  BY DEF CrashBegin, At, RetirePc, sessVars, OpInv, RetInv, GInv, GenTypeOK, Exclusive
<1>2. PICK e \in thread[t].crash :
        \/ /\ Provable(e)
           /\ epochs' = [epochs EXCEPT ![e].ret = IF @ = "open" THEN "quiescing" ELSE @]
           /\ thread' = [thread EXCEPT ![t].epoch = e, ![t].pc = "children"]
           /\ UNCHANGED opLock
        \/ Blocked(t) /\ UNCHANGED epochs
  BY DEF CrashBegin
<1>3. e \in Epochs /\ epochs[e].gen = thread[t].gen
  BY <1>1, <1>2 DEF Retiring, EpochsOf
<1>4. CASE Blocked(t) /\ UNCHANGED epochs
  <2>1. OwnStep(t)
    BY <1>1, <1>4 DEF OwnStep, OpInv, CertUp
  <2> QED
    BY <1>1, <1>4, <2>1, PlainMove
<1>5. CASE /\ Provable(e)
           /\ epochs' = [epochs EXCEPT ![e].ret = IF @ = "open" THEN "quiescing" ELSE @]
           /\ thread' = [thread EXCEPT ![t].epoch = e, ![t].pc = "children"]
           /\ UNCHANGED opLock
  <2> DEFINE w == [thread[t] EXCEPT !.epoch = e, !.pc = "children"]
  <2>1. /\ w.pc = "children" /\ w.epoch = e /\ w.gen = thread[t].gen
        /\ w.clean = thread[t].clean /\ w.crash = thread[t].crash
    BY <1>1 DEF Work
  <2>2. thread' = [thread EXCEPT ![t] = w]
    BY <1>5
  <2> HIDE DEF w
  <2>3. thread'[t] = w /\ \A u \in Threads : u # t => thread'[u] = thread[u]
    BY <1>1, <2>2
  <2>4. thread'[t].pc \in RetirePc /\ MovesOn(t)
    BY <1>1, <1>2, <2>1, <2>3 DEF MovesOn, RetirePc
  <2> PICK q : q = IF epochs[e].ret = "open" THEN "quiescing" ELSE epochs[e].ret
    OBVIOUS
  <2>5. epochs' = [epochs EXCEPT ![e] = [epochs[e] EXCEPT !.ret = q]]
    BY <1>5
  <2>6. \A x \in Epochs : x # e => epochs'[x] = epochs[x]
    BY <1>1, <2>5
  <2>7. epochs'[e].gen = epochs[e].gen /\ epochs'[e].ret = q
    BY <1>1, <1>3, <2>5 DEF EpochRow
  <2>8. daemon[e] # "up"
    BY <1>5 DEF Provable
  <2>9. OwnStep(t)
    BY <1>1, <1>3, <2>6, <2>7, <2>8 DEF OwnStep, OpInv, CertUp
  <2> QED
    BY <1>1, <1>5, <2>3, <2>4, <2>9 DEF GoodStep
<1> QED
  BY <1>2, <1>4, <1>5

\* The certificate of crash reconciliation.
LEMMA CrashCertifyGood ==
  ASSUME OpInv, NEW t \in Threads, CrashCertify(t)
  PROVE  GoodStep(t)
<1> PICK e : e = thread[t].epoch
  OBVIOUS
<1>1. /\ UNCHANGED <<gens, daemon, confirmed, sess, opLock>> /\ opLock = t
      /\ thread[t].pc = "lose" /\ epochs' = Certified(e)
      /\ thread[t].pc \in RetirePc \ {"lock", "finish"} /\ thread[t] \in Work
      /\ thread \in [Threads -> Work] /\ Retiring(t) /\ RetThread(t) /\ RetInv
      /\ thread' = [thread EXCEPT ![t].crash = @ \ {e}, ![t].pc = "certify"]
  BY DEF CrashCertify, At, RetirePc, sessVars, OpInv, RetInv, GInv, GenTypeOK, Exclusive
<1>2. e \in Epochs /\ epochs[e].gen = thread[t].gen /\ daemon[e] # "up"
  BY <1>1 DEF Retiring, EpochsOf, RetThread
<1>3. epochs'[e].gen = epochs[e].gen /\ \A x \in Epochs : x # e => epochs'[x] = epochs[x]
  BY <1>1, <1>2, CertifiedShape
<1>4. OwnStep(t)
  BY <1>1, <1>2, <1>3 DEF OwnStep, OpInv, CertUp
<1> DEFINE w == [thread[t] EXCEPT !.crash = @ \ {e}, !.pc = "certify"]
<1>5. /\ w.pc = "certify" /\ w.gen = thread[t].gen
      /\ w.clean = thread[t].clean /\ w.crash \subseteq thread[t].crash
  BY <1>1 DEF Work
<1>6. thread' = [thread EXCEPT ![t] = w]
  BY <1>1
<1> HIDE DEF w
<1>7. thread'[t] = w /\ \A u \in Threads : u # t => thread'[u] = thread[u]
  BY <1>1, <1>6
<1>8. thread'[t].pc \in RetirePc /\ MovesOn(t)
  BY <1>1, <1>5, <1>7 DEF MovesOn, RetirePc
<1> QED
  BY <1>1, <1>4, <1>7, <1>8 DEF GoodStep

\* Closing admission, on the clean epoch and on the one that is reached.
LEMMA CleanBeginGood ==
  ASSUME OpInv, NEW t \in Threads, CleanBegin(t)
  PROVE  GoodStep(t)
<1> DEFINE Hit(e) == (e = thread[t].clean /\ thread[t].open) \/ (e = active /\ Reachable(thread[t].gen))
<1>1. /\ UNCHANGED <<gens, daemon, confirmed, opLock>> /\ Goto(t, "resolve")
      /\ thread[t].pc \in RetirePc \ {"lock", "finish"} /\ Retiring(t)
      /\ epochs \in [Epochs -> EpochRow]
      /\ epochs' = [e \in Epochs |-> IF Hit(e) THEN [epochs[e] EXCEPT !.ret = "quiescing"]
                                     ELSE epochs[e]]
  BY DEF CleanBegin, At, RetirePc, sessVars, OpInv, RetInv, GInv, GenTypeOK
<1>2. \A e \in Epochs : Hit(e) => epochs[e].gen = thread[t].gen
  BY <1>1, GenerationsAssumption DEF Retiring, RetirePc, EpochsOf, Reachable
<1> HIDE DEF Hit
<1>3. ASSUME NEW e \in Epochs
      PROVE  /\ epochs'[e].gen = epochs[e].gen
             /\ epochs[e].gen # thread[t].gen => epochs'[e] = epochs[e]
             /\ epochs'[e].ret = "certified" => epochs'[e] = epochs[e]
  <2>1. CASE Hit(e)
    <3>1. epochs'[e] = [epochs[e] EXCEPT !.ret = "quiescing"] /\ epochs[e] \in EpochRow
      BY <1>1, <2>1
    <3> QED
      BY <1>2, <2>1, <3>1 DEF EpochRow
  <2>2. CASE ~Hit(e)
    BY <1>1, <2>2
  <2> QED
    BY <2>1, <2>2
<1>4. OwnStep(t)
  BY <1>1, <1>3 DEF OwnStep, OpInv, CertUp
<1>5. "resolve" \in RetirePc \ {"children", "lose", "oracle", "clear", "finish"}
  BY DEF RetirePc
<1> QED
  BY <1>1, <1>4, <1>5, PlainMove

\* The certificate of the daemon.
LEMMA CertifyRpcGood ==
  ASSUME OpInv, NEW t \in Threads, CertifyRpc(t)
  PROVE  GoodStep(t)
<1> PICK c : c = thread[t].clean
  OBVIOUS
<1>1. /\ UNCHANGED <<gens, daemon, confirmed, sess>> /\ RetInv
      /\ thread[t].pc \in RetirePc \ {"lock", "finish"} /\ Retiring(t)
      /\ (Goto(t, "final") /\ UNCHANGED opLock) \/ Blocked(t)
      /\ \/ UNCHANGED epochs
         \/ Reachable(thread[t].gen) /\ active = c /\ epochs' = Certified(c)
  BY DEF CertifyRpc, At, RetirePc, sessVars, OpInv
<1>2. OwnStep(t)
  <2>1. CASE UNCHANGED epochs
    BY <1>1, <2>1 DEF OwnStep, OpInv, CertUp
  <2>2. CASE Reachable(thread[t].gen) /\ active = c /\ epochs' = Certified(c)
    <3>1. c \in Epochs /\ epochs[c].gen = thread[t].gen /\ epochs[c].proc = "serving"
      BY <1>1, <2>2 DEF Reachable, RetInv, GInv, GenTypeOK, RoutedIsServing
    <3>2. /\ epochs'[c].gen = epochs[c].gen /\ epochs'[c].proc = epochs[c].proc
          /\ \A x \in Epochs : x # c => epochs'[x] = epochs[x]
      BY <1>1, <2>2, <3>1, CertifiedShape
    <3> QED
      BY <1>1, <3>1, <3>2 DEF OwnStep, OpInv, CertUp
  <2> QED
    BY <1>1, <2>1, <2>2
<1>3. "final" \in RetirePc \ {"children", "lose", "oracle", "clear", "finish"}
  BY DEF RetirePc
<1> QED
  BY <1>1, <1>2, <1>3, PlainMove

\* Confirming the clean epoch.
LEMMA ResolveGood ==
  ASSUME OpInv, NEW t \in Threads, Resolve(t) \/ ResolveAgain(t)
  PROVE  GoodStep(t)
<1> PICK c : c = thread[t].clean
  OBVIOUS
<1> PICK n : n = Resolved(c)
  OBVIOUS
<1>1. /\ UNCHANGED <<gens, epochs, daemon>>
      /\ thread[t].pc \in RetirePc \ {"lock", "finish"} /\ Retiring(t)
      /\ \/ (Goto(t, "status") \/ Goto(t, "reap")) /\ UNCHANGED opLock
         \/ Blocked(t)
      /\ confirmed' = [confirmed EXCEPT ![c] = n]
      /\ confirmed = [e \in Epochs |-> confirmed[e]]
  BY DEF Resolve, ResolveAgain, At, RetirePc, rows, OpInv
<1>2. c \in Epochs => epochs[c].gen = thread[t].gen
  BY <1>1, GenerationsAssumption DEF Retiring, RetirePc, EpochsOf
<1>3. /\ \A e \in Epochs : e # c => confirmed'[e] = confirmed[e]
      /\ confirmed' = [e \in Epochs |-> confirmed'[e]]
  BY <1>1
<1>4. OwnStep(t)
  BY <1>1, <1>2, <1>3 DEF OwnStep, OpInv, CertUp
<1>5. {"status", "reap"} \subseteq RetirePc \ {"children", "lose", "oracle", "clear", "finish"}
  BY DEF RetirePc
<1> QED
  BY <1>1, <1>4, <1>5, PlainMove

\* The reaper kills every daemon that is on record, so every certified one.
LEMMA ReapDaemonGood ==
  ASSUME OpInv, NEW t \in Threads, ReapDaemon(t)
  PROVE  GoodStep(t)
<1> PICK g : g = thread[t].gen
  OBVIOUS
<1>1. /\ UNCHANGED <<gens, epochs, confirmed>> /\ thread[t].pc = "reap"
      /\ thread[t].pc \in RetirePc \ {"lock", "finish"} /\ Retiring(t) /\ thread \in [Threads -> Work]
      /\ GInv
      /\ \/ /\ daemon' = [e \in Epochs |-> IF e \in OnRecord(g) /\ daemon[e] = "up" THEN "gone"
                                           ELSE daemon[e]]
            /\ Goto(t, "oracle") /\ UNCHANGED opLock
         \/ UNCHANGED daemon /\ Blocked(t)
      /\ opLock = t
  BY DEF ReapDaemon, SessionsFollow, At, RetirePc, rows, OpInv, RetInv, GInv, GenTypeOK, Exclusive
<1>2. \A e \in Epochs : daemon'[e] = "up" => daemon[e] = "up"
  BY <1>1
<1>3. OwnStep(t)
  BY <1>1, <1>2 DEF OwnStep, OpInv, CertUp
<1>4. CASE /\ daemon' = [e \in Epochs |-> IF e \in OnRecord(g) /\ daemon[e] = "up" THEN "gone"
                                          ELSE daemon[e]]
           /\ Goto(t, "oracle") /\ UNCHANGED opLock
  <2>1. ASSUME NEW e \in Epochs, epochs[e].gen = g, epochs[e].ret = "certified"
        PROVE  daemon'[e] # "up"
    <3>1. daemon[e] = "up" => epochs[e].proc = "serving" /\ epochs[e].meta
      BY <1>1, <2>1 DEF OpInv, CertUp, GInv, PointersOK
    <3>2. daemon[e] = "up" => e \in OnRecord(g)
      BY <2>1, <3>1 DEF OnRecord, EpochsOf
    <3> QED
      BY <1>4, <3>2
  <2>2. "oracle" \in Pc /\ "oracle" \in RetirePc
    BY DEF Pc, RetirePc
  <2>3. /\ thread'[t].pc = "oracle" /\ thread'[t].gen = g
        /\ thread'[t].clean = thread[t].clean /\ thread'[t].crash = thread[t].crash
        /\ \A u \in Threads : u # t => thread'[u] = thread[u]
    BY <1>1, <1>4, <2>2, GotoShape
  <2>4. thread'[t].pc \in RetirePc /\ MovesOn(t)
    BY <1>1, <2>1, <2>2, <2>3 DEF MovesOn
  <2> QED
    BY <1>1, <1>3, <1>4, <2>3, <2>4 DEF GoodStep
<1>5. CASE Blocked(t)
  BY <1>1, <1>3, <1>5, PlainMove
<1> QED
  BY <1>1, <1>4, <1>5

\* The oracle clears a generation that is settled.
LEMMA OracleGood ==
  ASSUME OpInv, NEW t \in Threads, Oracle(t)
  PROVE  GoodStep(t)
<1> PICK g : g = thread[t].gen
  OBVIOUS
<1>1. /\ UNCHANGED <<gens, epochs, daemon>> /\ thread[t].pc = "oracle"
      /\ thread[t].pc \in RetirePc \ {"lock", "finish"} /\ Retiring(t) /\ thread \in [Threads -> Work]
      /\ confirmed' = [e \in Epochs |-> IF e \in EpochsOf(g) THEN Resolved(e) ELSE confirmed[e]]
      /\ \/ OracleClear(g) /\ Goto(t, "clear") /\ UNCHANGED opLock
         \/ Blocked(t)
      /\ opLock = t
  BY DEF Oracle, At, RetirePc, rows, OpInv, RetInv, GInv, GenTypeOK, Exclusive
<1>2. /\ \A e \in Epochs : epochs[e].gen # g => confirmed'[e] = confirmed[e]
      /\ confirmed' = [e \in Epochs |-> confirmed'[e]]
  BY <1>1 DEF EpochsOf
<1>3. OwnStep(t)
  BY <1>1, <1>2 DEF OwnStep, OpInv, CertUp
<1>4. CASE OracleClear(g) /\ Goto(t, "clear") /\ UNCHANGED opLock
  <2>1. \A e \in Epochs : epochs[e].gen = g =>
          epochs'[e].ret = "certified" /\ daemon'[e] # "up" /\ confirmed'[e] >= epochs'[e].final
    BY <1>1, <1>4 DEF OracleClear, EpochsOf, Retiring
  <2>2. "clear" \in Pc /\ "clear" \in RetirePc
    BY DEF Pc, RetirePc
  <2>3. /\ thread'[t].pc = "clear" /\ thread'[t].gen = g
        /\ thread'[t].clean = thread[t].clean /\ thread'[t].crash = thread[t].crash
        /\ \A u \in Threads : u # t => thread'[u] = thread[u]
    BY <1>1, <1>4, <2>2, GotoShape
  <2>4. thread'[t].pc \in RetirePc /\ MovesOn(t)
    BY <1>1, <2>1, <2>2, <2>3 DEF MovesOn
  <2> QED
    BY <1>1, <1>3, <1>4, <2>3, <2>4 DEF GoodStep
<1>5. CASE Blocked(t)
  BY <1>1, <1>3, <1>5, PlainMove
<1> QED
  BY <1>1, <1>4, <1>5

\* Every step of retire but the first is of this kind.
LEMMA RetireSteps ==
  ASSUME OpInv, NEW t \in Threads, RetireStep(t), ~\E g \in Gens : RetireBegin(t, g)
  PROVE  GoodStep(t)
<1>1. CASE RetireLock(t)
  BY <1>1, LockGood
<1>2. CASE CheckQuiesced(t) \/ NothingToCertify(t) \/ ReapChildren(t) \/ LoseSession(t)
  BY <1>2, ReadGood
<1>3. CASE ClearCurrent(t) \/ Finish(t)
  BY <1>3, LastGood
<1>4. CASE CrashBegin(t)
  BY <1>4, CrashBeginGood
<1>5. CASE CrashCertify(t)
  BY <1>5, CrashCertifyGood
<1>6. CASE CleanBegin(t)
  BY <1>6, CleanBeginGood
<1>7. CASE CertifyRpc(t)
  BY <1>7, CertifyRpcGood
<1>8. CASE Resolve(t) \/ ResolveAgain(t)
  BY <1>8, ResolveGood
<1>9. CASE ReapDaemon(t)
  BY <1>9, ReapDaemonGood
<1>10. CASE Oracle(t)
  BY <1>10, OracleGood
<1> QED
  BY <1>1, <1>2, <1>3, <1>4, <1>5, <1>6, <1>7, <1>8, <1>9, <1>10 DEF RetireStep

\* retire begins with what it reads of a generation that is not retired.
LEMMA RetireBeginShape ==
  ASSUME RetInv, NEW t \in Threads, NEW g \in Gens, RetireBegin(t, g)
  PROVE  /\ UNCHANGED <<gens, epochs, daemon, confirmed, opLock>>
         /\ gens[g].life \in {"active", "draining", "retiring"}
         /\ \A u \in Threads : u # t => thread'[u] = thread[u]
         /\ thread'[t].pc = "lock" /\ thread'[t].gen = g
         /\ thread'[t].clean \in EpochsOf(g) \cup {NoEpoch} /\ thread'[t].crash \subseteq EpochsOf(g)
<1> DEFINE todo  == {e \in EpochsOf(g) : epochs[e].ret # "certified"}
           c     == gens[g].current
           clean == IF c \in todo /\ epochs[c].proc # "dead" THEN c ELSE NoEpoch
           crash == {e \in todo : epochs[e].proc = "dead"}
           op    == clean # NoEpoch /\ epochs[clean].ret = "open"
           w     == [Idle EXCEPT !.kind = "retire", !.pc = "lock", !.gen = g, !.crash = crash,
                                 !.clean = clean, !.open = op]
<1>1. /\ UNCHANGED <<gens, epochs, daemon, confirmed, opLock>> /\ thread' = [thread EXCEPT ![t] = w]
      /\ gens[g].life \in {"active", "draining", "retiring"}
      /\ thread \in [Threads -> Work]
  BY DEF RetireBegin, rows, sessVars, RetInv, GInv, GenTypeOK
<1>2. clean \in EpochsOf(g) \cup {NoEpoch} /\ crash \subseteq EpochsOf(g)
  OBVIOUS
<1> HIDE DEF clean, crash, op
<1>3. w.pc = "lock" /\ w.gen = g /\ w.clean = clean /\ w.crash = crash
  BY DEF Idle
<1> HIDE DEF w
<1>4. thread'[t] = w /\ \A u \in Threads : u # t => thread'[u] = thread[u]
  BY <1>1
<1> QED
  BY <1>1, <1>2, <1>3, <1>4

LEMMA RetireBeginOp ==
  ASSUME OpInv, RetInv', NEW t \in Threads, NEW g \in Gens, RetireBegin(t, g)
  PROVE  OpInv'
<1>1. /\ UNCHANGED <<gens, epochs, daemon, confirmed, opLock>>
      /\ \A u \in Threads : u # t => thread'[u] = thread[u]
      /\ thread'[t].pc = "lock" /\ thread'[t].gen = g
      /\ thread'[t].clean \in EpochsOf(g) \cup {NoEpoch} /\ thread'[t].crash \subseteq EpochsOf(g)
  BY RetireBeginShape DEF OpInv
<1>2. \A h : EpochsOf(h)' = EpochsOf(h)
  BY <1>1 DEF EpochsOf
<1>3. Retiring(t)'
  BY <1>1, <1>2 DEF Retiring
<1>4. ASSUME NEW u \in Threads, u # t PROVE Retiring(u)'
  BY <1>1, <1>2, <1>4 DEF Retiring, OpInv, Settled
<1>5. Exclusive' /\ CertUp' /\ \A u \in Threads : Retiring(u)'
  BY <1>1, <1>3, <1>4 DEF Exclusive, CertUp, OpInv
<1> QED
  BY <1>1, <1>5 DEF OpInv

\* A session's own steps touch nothing of this.
LEMMA SessionsApart ==
  ASSUME RetInv, NEW s \in Sessions, SessionStep(s)
  PROVE  UNCHANGED <<gens, epochs, daemon, thread, opLock, confirmed>>
<1>1. UNCHANGED genVars
  BY SessMoves
<1>2. UNCHANGED confirmed
  BY DEF SessionStep, Admit, CreateRow, SpawnChild, RecordChild, Rollback, End, Persist,
         PersistFails, CleanUp, FreeSlot, ChildExits, Step
<1> QED
  BY <1>1, <1>2 DEF genVars, rows, memory

\* Every step preserves what operators rely on.
LEMMA OpStep ==
  ASSUME OpInv, OperatorsOnly, [RetNext]_retVars
  PROVE  OpInv'
<1>1. RetInv'
  BY RetInvStep DEF OpInv
<1>2. CASE UNCHANGED retVars
  <2>1. UNCHANGED <<gens, epochs, daemon, thread, opLock, confirmed>>
    BY <1>2 DEF retVars, genVars, sessVars, rows, memory
  <2> QED
    BY <1>1, <2>1, SameOp
<1>3. CASE GenNext /\ SessionsFollow
  BY <1>3, GenStepOp
<1>4. ASSUME NEW s \in Sessions, SessionStep(s) PROVE OpInv'
  <2>1. UNCHANGED <<gens, epochs, daemon, thread, opLock, confirmed>>
    BY <1>4, SessionsApart DEF OpInv
  <2> QED
    BY <1>1, <2>1, SameOp
<1>5. ASSUME NEW t \in Threads, RetireStep(t) PROVE OpInv'
  <2>1. CASE \E g \in Gens : RetireBegin(t, g)
    BY <1>1, <2>1, RetireBeginOp
  <2>2. CASE ~\E g \in Gens : RetireBegin(t, g)
    <3>1. GoodStep(t)
      BY <1>5, <2>2, RetireSteps
    <3> QED
      BY <1>1, <3>1, GoodStepOp
  <2> QED
    BY <2>1, <2>2
<1> QED
  BY <1>2, <1>3, <1>4, <1>5 DEF RetNext

LEMMA OpInit == RetInit => OpInv
<1> SUFFICES ASSUME RetInit PROVE OpInv
  OBVIOUS
<1>1. /\ \A t \in Threads : thread[t] = Idle
      /\ \A e \in Epochs : epochs[e] = NoRow
      /\ confirmed = [e \in Epochs |-> 0]
  BY DEF RetInit, GenInit
<1>2. \A t \in Threads : thread[t].pc = "idle"
  BY <1>1, IdleType
<1>3. \A t \in Threads : Retiring(t)
  BY <1>2 DEF Retiring, RetirePc
<1>4. CertUp /\ Exclusive
  BY <1>1, <1>2 DEF CertUp, Exclusive, NoRow
<1> QED
  BY <1>1, <1>3, <1>4, RetInitInv DEF OpInv

\* What RetiredIsSettled asks of a generation.
Over(g) ==
  /\ Running(g) = {}
  /\ \A e \in EpochsOf(g) :
       epochs[e].ret = "certified" /\ Outstanding(e) = {} /\ confirmed[e] >= HighWater(e)

LEMMA SettledIsOver == ASSUME CertOK, NEW g, Settled(g) PROVE Over(g)
<1>1. Running(g) = {}
  BY DEF Running, Settled, EpochsOf
<1>2. ASSUME NEW e \in EpochsOf(g)
      PROVE  /\ epochs[e].ret = "certified" /\ Outstanding(e) = {}
             /\ confirmed[e] >= HighWater(e)
  <2>1. e \in Epochs /\ epochs[e].ret = "certified" /\ confirmed[e] >= epochs[e].final
    BY <1>2 DEF Settled, EpochsOf
  <2>2. Outstanding(e) = {} /\ HighWater(e) = epochs[e].final
    BY <2>1 DEF CertOK, Final
  <2> QED
    BY <2>1, <2>2
<1> QED
  BY <1>1, <1>2 DEF Over

\* A step that retires a generation finds it over.
Retires == \A g \in Gens : gens[g].life # "retired" /\ gens'[g].life = "retired" => Over(g)

LEMMA RetiresStep ==
  ASSUME OpInv, [RetNext]_retVars
  PROVE  Retires
<1>1. CertOK /\ GInv
  BY DEF OpInv, RetInv
<1>2. CASE UNCHANGED gens
  BY <1>2 DEF Retires
<1>3. CASE GenNext
  BY <1>1, <1>3, NobodyRetires DEF Retires
<1>4. ASSUME NEW s \in Sessions, SessionStep(s) PROVE Retires
  BY <1>2, <1>4, SessionsApart DEF OpInv
<1>5. ASSUME NEW t \in Threads, RetireStep(t) PROVE Retires
  <2>1. CASE \E g \in Gens : RetireBegin(t, g)
    BY <1>2, <2>1, RetireBeginShape DEF OpInv
  <2>2. CASE ~\E g \in Gens : RetireBegin(t, g)
    <3>1. GoodStep(t) /\ Retiring(t)
      BY <1>5, <2>2, RetireSteps DEF OpInv
    <3>2. ASSUME NEW g \in Gens, gens[g].life # "retired", gens'[g].life = "retired"
          PROVE  Over(g)
      <4>1. g = thread[t].gen /\ thread[t].pc = "finish"
        BY <3>1, <3>2 DEF GoodStep, OwnStep
      <4>2. Settled(g)
        BY <3>1, <4>1 DEF Retiring
      <4> QED
        BY <1>1, <4>2, SettledIsOver
    <3> QED
      BY <3>2 DEF Retires
  <2> QED
    BY <2>1, <2>2
<1>6. UNCHANGED retVars => UNCHANGED gens
  BY DEF retVars, genVars, rows
<1> QED
  BY <1>2, <1>3, <1>4, <1>5, <1>6 DEF RetNext

\* However many operators call retire and activate at once, and however
\* daemons and the router crash and writes fail: a generation is retired only
\* in a state in which it is over (retire up to set_generation_state, under
\* generations_install_lock): all of it certified and confirmed, no result
\* missing, no daemon left - as long as no request mints beside them and
\* daemons that run answer.
THEOREM OnlyTheSettledRetire ==
  ASSUME OperatorsOnly
  PROVE  RetSpec =>
           [][\A g \in Gens : gens[g].life # "retired" /\ gens'[g].life = "retired" => Over(g)]_retVars
<1>1. OpInv /\ [RetNext]_retVars => OpInv'
  BY OpStep
<1>2. OpInv /\ [RetNext]_retVars => [Retires]_retVars
  BY RetiresStep
<1>3. RetSpec => [][Retires]_retVars
  BY <1>1, <1>2, OpInit, PTL DEF RetSpec
<1> QED
  BY <1>3 DEF Retires

\* With one operator: an epoch is inserted only into a generation that is new
\* or active, and what is retired meanwhile is not retired by anyone else.
LEMMA LifeStaysOK ==
  ASSUME SettledInv, OneOperator, GenNext, NEW t \in Threads
  PROVE  LifeOK(t)'
<1>1. /\ GInv /\ GenTypeOK /\ Exclusive /\ LifeOK(t) /\ OperatorsOnly
      /\ \A u \in Threads : u = t
  BY DEF SettledInv, OpInv, RetInv, GInv, OneOperator
<1>2. {"active", "insert", "promote", "adopt", "install", "flip"} \subseteq Pc
      /\ thread \in [Threads -> Work]
  BY <1>1 DEF Pc, GenTypeOK
<1>3. ASSUME thread'[t] = Idle \/ thread'[t].pc \notin RetirePc \cup {"insert"} PROVE LifeOK(t)'
  BY <1>3, IdleType DEF RetirePc, LifeOK
<1>4. ASSUME thread'[t].pc = "insert", gens'[thread'[t].gen].life \in {"active", "ready"}
      PROVE  LifeOK(t)'
  BY <1>4 DEF RetirePc, LifeOK
<1>5. ASSUME UNCHANGED <<gens, thread>> PROVE LifeOK(t)'
  BY <1>1, <1>5 DEF LifeOK
<1>6. CASE CallStart(t) \/ CallActivate(t)
  <2>1. PICK k \in {"start", "activate"} :
          thread' = [thread EXCEPT ![t] = [Idle EXCEPT !.kind = k, !.pc = "active"]]
    BY <1>6 DEF CallStart, CallActivate
  <2>2. k \in {"none", "start", "activate", "retire"} /\ "active" \in Pc
    BY <1>2
  <2>3. thread'[t].pc = "active"
    BY <1>2, <2>1, <2>2, CalledShape
  <2> QED
    BY <1>3, <2>3 DEF RetirePc
<1>7. CASE Refresh(t) \/ Install(t) \/ SpawnFails(t) \/ PromoteFails(t)
  <2>1. (Answered(t, TRUE) \/ Answered(t, FALSE)) \/ Fails(t)
    BY <1>7 DEF Refresh, Install, SpawnFails, PromoteFails
  <2>2. thread'[t] = Idle \/ thread'[t].pc = "list"
    BY <1>2, <2>1, AnsweredShape, FailsShape
  <2> QED
    BY <1>3, <2>2 DEF RetirePc
<1>8. CASE Finds(t)
  <2>1. PICK g \in Gens :
          /\ IF ActiveRows = {} THEN gens[g].life = "none" ELSE g \in ActiveRows
          /\ thread' = [thread EXCEPT ![t].mint = TRUE, ![t].gen = g,
                                      ![t].pc = IF ActiveRows = {} THEN "create" ELSE "insert"]
    BY <1>8 DEF Finds
  <2> PICK p : p = IF ActiveRows = {} THEN "create" ELSE "insert"
    OBVIOUS
  <2>2. thread'[t].gen = g
    <3>1. thread' = [thread EXCEPT ![t].mint = TRUE, ![t].gen = g, ![t].pc = p]
      BY <2>1, Zenon
    <3> QED
      BY <1>2, <3>1 DEF Work
  <2>3. thread'[t].pc = IF ActiveRows = {} THEN "create" ELSE "insert"
    BY <1>1, <1>8, FindOrCreateShape
  <2>4. UNCHANGED gens
    BY <1>8 DEF Finds, rows
  <2>5. CASE ActiveRows = {}
    BY <1>3, <2>3, <2>5 DEF RetirePc
  <2>6. CASE ActiveRows # {}
    BY <1>4, <2>1, <2>2, <2>3, <2>4, <2>6 DEF ActiveRows
  <2> QED
    BY <2>5, <2>6
<1>9. CASE Creates(t)
  <2> PICK p \in {"active", "ready"} : p = IF thread[t].mint THEN "active" ELSE "ready"
    OBVIOUS
  <2>1. gens' = [gens EXCEPT ![thread[t].gen].life = p] /\ Goto(t, "insert")
    BY <1>9 DEF Creates
  <2>2. thread[t].gen \in Gens
    BY <1>1, <1>9 DEF Creates, At, GInv, OwnsEpoch, Owns
  <2>3. thread'[t].gen = thread[t].gen /\ thread'[t].pc = "insert"
    BY <1>2, <2>1, GotoShape
  <2>4. gens'[thread[t].gen].life = p
    BY <1>1, <2>1, <2>2 DEF GenTypeOK, GenRow
  <2> QED
    BY <1>4, <2>3, <2>4
<1>10. CASE Inserts(t) \/ ListActive(t)
  <2>1. thread'[t].pc \in {"create", "spawn"}
    BY <1>1, <1>10, InsertEpochShape, ListActiveShape
  <2> QED
    BY <1>3, <2>1 DEF RetirePc
<1>11. CASE Spawn(t) \/ Promote(t) \/ Flip(t)
  <2>1. PICK p \in {"promote", "install", "flip", "adopt"} : Goto(t, p)
    BY <1>11 DEF Spawn, Promote, Flip
  <2>2. thread'[t].pc = p
    BY <1>2, <2>1, GotoShape
  <2> QED
    BY <1>3, <2>2 DEF RetirePc
<1>15. CASE Stops(t)
  <2>1. thread'[t] = Idle \/ thread'[t].pc = "list"
    BY <1>1, <1>15, StopsShape
  <2> QED
    BY <1>3, <2>1 DEF RetirePc
<1>12. CASE Adopt(t) \/ RouterCrash
  <2>1. thread'[t] = Idle
    BY <1>2, <1>12 DEF Adopt, RouterCrash
  <2> QED
    BY <1>3, <2>1
<1>13. CASE RouterStart
  <2>1. thread'[t] = Idle
    BY <1>1, <1>13 DEF RouterStart, GInv, DownIsEmpty
  <2> QED
    BY <1>3, <2>1
<1>14. CASE \E e \in Epochs : DaemonDies(e)
  <2>1. UNCHANGED <<gens, thread>>
    BY <1>14 DEF DaemonDies, rows, memory
  <2> QED
    BY <1>5, <2>1
<1> QED
  BY <1>1, <1>6, <1>7, <1>8, <1>9, <1>10, <1>11, <1>12, <1>13, <1>14, <1>15, ThreadStepCases
  DEF GenNext

LEMMA GenStepSettles ==
  ASSUME SettledInv, OneOperator, GenNext, SessionsFollow
  PROVE  SettledInv'
<1>1. OpInv /\ OpInv' /\ GInv
  BY GenStepOp DEF SettledInv, OneOperator, OpInv, RetInv
<1>2. RowsFrame /\ RowsStay /\ CertOK
  BY <1>1, RowsKept, RowsStayed DEF OpInv, RetInv
<1>3. \A e \in Epochs : daemon'[e] = "up" => daemon[e] = "up" \/ epochs[e].proc = "starting"
  BY <1>1, DaemonsKept
<1>4. UNCHANGED confirmed
  BY DEF SessionsFollow
<1>5. ASSUME NEW g \in Gens, gens'[g].life = "retired" PROVE Settled(g)'
  <2>1. gens[g].life = "retired"
    BY <1>1, <1>5, NobodyRetires
  <2>2. Settled(g)
    BY <2>1 DEF SettledInv
  <2>3. ASSUME NEW e \in Epochs, epochs'[e].gen = g PROVE epochs[e].gen = g
    <3>1. ASSUME NEW t \in Threads, thread[t].pc = "insert", thread[t].gen = g PROVE FALSE
      BY <2>1, <3>1 DEF SettledInv, LifeOK
    <3> QED
      BY <1>2, <2>3, <3>1 DEF RowsStay
  <2> QED
    BY <1>2, <1>3, <1>4, <2>2, <2>3, StaysSettled DEF RowsFrame
<1> QED
  BY <1>1, <1>5, LifeStaysOK DEF SettledInv

\* Steps of a session and stutters.
LEMMA SameSettled ==
  ASSUME SettledInv, OpInv', UNCHANGED <<gens, epochs, daemon, thread, confirmed>>
  PROVE  SettledInv'
<1>1. ASSUME NEW g \in Gens, gens[g].life = "retired" PROVE Settled(g)'
  BY <1>1, StaysSettled DEF SettledInv, OpInv, RetInv
<1> QED
  BY <1>1 DEF SettledInv, LifeOK

\* Every step preserves the invariant.
LEMMA SettledStep ==
  ASSUME SettledInv, OneOperator, [RetNext]_retVars
  PROVE  SettledInv'
<1>1. OpInv /\ OpInv' /\ RetInv
  BY OpStep DEF SettledInv, OneOperator, OpInv
<1>2. CASE UNCHANGED retVars
  <2>1. UNCHANGED <<gens, epochs, daemon, thread, confirmed>>
    BY <1>2 DEF retVars, genVars, sessVars, rows, memory
  <2> QED
    BY <1>1, <2>1, SameSettled
<1>3. CASE GenNext /\ SessionsFollow
  BY <1>3, GenStepSettles
<1>4. ASSUME NEW s \in Sessions, SessionStep(s) PROVE SettledInv'
  BY <1>1, <1>4, SessionsApart, SameSettled
<1>5. ASSUME NEW t \in Threads, RetireStep(t) PROVE SettledInv'
  <2>1. ASSUME NEW g \in Gens, RetireBegin(t, g) PROVE SettledInv'
    <3>1. /\ UNCHANGED <<gens, epochs, daemon, confirmed>>
          /\ gens[g].life \in {"active", "draining", "retiring"}
          /\ thread'[t].pc = "lock" /\ thread'[t].gen = g
      BY <1>1, <2>1, RetireBeginShape
    <3>2. \A u \in Threads : LifeOK(u)'
      BY <3>1 DEF LifeOK, OneOperator
    <3>3. ASSUME NEW h \in Gens, gens[h].life = "retired" PROVE Settled(h)'
      BY <1>1, <3>1, <3>3, StaysSettled DEF SettledInv, OpInv, RetInv
    <3> QED
      BY <1>1, <3>1, <3>2, <3>3 DEF SettledInv
  <2>2. CASE ~\E g \in Gens : RetireBegin(t, g)
    BY <1>1, <1>5, <2>2, RetireSteps, GoodStepSettles
  <2> QED
    BY <2>1, <2>2
<1> QED
  BY <1>2, <1>3, <1>4, <1>5 DEF RetNext

LEMMA SettledInit == RetInit => SettledInv
<1> SUFFICES ASSUME RetInit PROVE SettledInv
  OBVIOUS
<1>1. /\ \A t \in Threads : thread[t] = Idle
      /\ \A g \in Gens : gens[g].life = "none"
  BY DEF RetInit, GenInit
<1>2. \A t \in Threads : thread[t].pc = "idle"
  BY <1>1, IdleType
<1>3. \A t \in Threads : LifeOK(t)
  BY <1>2 DEF LifeOK, RetirePc
<1> QED
  BY <1>1, <1>3, OpInit DEF SettledInv

\* A generation that retire has retired stays over (retire, the oracle and
\* reap_holder): no daemon of it runs, every session that got a row has its
\* result, and all of it is certified and confirmed - with one operator at a
\* time, no mint of a request beside it and daemons that answer, however
\* daemons and the router crash and writes fail.
THEOREM RetiredAreSettled == ASSUME OneOperator PROVE RetSpec => []RetiredIsSettled
<1>1. SettledInv /\ [RetNext]_retVars => SettledInv'
  BY SettledStep
<1>2. SettledInv => RetiredIsSettled
  BY SettledIsOver DEF SettledInv, OpInv, RetInv, RetiredIsSettled, Over
<1> QED
  BY <1>1, <1>2, SettledInit, PTL DEF RetSpec
=============================================================================
