--------------------------- MODULE StartPathProofs ---------------------------
(***************************************************************************)
(* Proofs about StartPath, for any keys, session ids, epochs and threads.  *)
(* IInv is shown inductive, one lemma per conjunct and one step per action;*)
(* the safety properties, the action property and the implementation of    *)
(* StartOnce follow from it.                                               *)
(***************************************************************************)
EXTENDS StartPath, TLAPS

\* The initial states satisfy the inductive invariant.
LEMMA InitIInv == Init => IInv
  BY StartPathAssumption, NullAssumption
  DEF Init, IInv, TypeOK, HandlerInv, HandlerOK, DaemonInv, LedgerInv, AnswerInv, Idle,
      NoRequest, HandlerPc, DaemonPc, DirState, At, Minted

-----------------------------------------------------------------------------
(* Rows and threads                                                        *)

\* commit and fail change the state of a row and nothing else of it.
LEMMA DecidedRow ==
  ASSUME NEW r \in Row
  PROVE  /\ Committed(r) \in Row /\ Committed(r).key = r.key /\ Committed(r).fp = r.fp
         /\ Committed(r).state = "started" /\ Committed(r).epoch = r.epoch
         /\ Failed(r) \in Row /\ Failed(r).key = r.key /\ Failed(r).fp = r.fp
         /\ Failed(r).state = "failed" /\ Failed(r).epoch = r.epoch
  BY DEF Row, Committed, Failed

\* assign_generation changes the epoch of a row and nothing else of it.
LEMMA AssignedRow ==
  ASSUME NEW r \in Row, NEW e \in Epochs
  PROVE  /\ Assigned(r, e) \in Row /\ Assigned(r, e).key = r.key /\ Assigned(r, e).fp = r.fp
         /\ Assigned(r, e).state = r.state /\ Assigned(r, e).epoch = e
  BY DEF Row, Assigned

\* A reservation is an undecided row without an epoch.
LEMMA NewRowIsRow ==
  ASSUME NEW k \in AllKeys, NEW fp \in Fingerprint(k)
  PROVE  /\ NewRow(k, fp) \in Row /\ NewRow(k, fp).key = k
         /\ NewRow(k, fp).state = "starting" /\ NewRow(k, fp).epoch = NoEpoch
  BY DEF NewRow, Row, Fingerprint

\* A thread that drives a start holds an undecided row.
LEMMA Driving ==
  ASSUME TypeOK, HandlerInv, NEW h \in Handlers, handler[h].pc # "idle"
  PROVE  /\ handler[h].sid \in Sids /\ handler[h].sid \in Minted
         /\ starts[handler[h].sid] \in Row /\ starts[handler[h].sid].state = "starting"
         /\ \A g \in Handlers : g # h => handler[g].sid # handler[h].sid
  BY DEF TypeOK, HandlerInv, HandlerOK, Minted, At

\* A step of thread h that leaves the rows and requests of the others alone
\* preserves HandlerInv if it leaves h itself in order.
LEMMA HandlerFrame ==
  ASSUME HandlerInv, NEW h \in Handlers, handler[h].pc # "idle", HandlerOK(h)',
         handler'[h].sid \in {handler[h].sid, NoRow},
         \A g \in Handlers : g # h => handler'[g] = handler[g],
         \A s \in Sids : s # handler[h].sid => starts'[s] = starts[s] /\ daemon'[s] = daemon[s]
  PROVE  HandlerInv'
<1>1. ASSUME NEW g \in Handlers, g # h PROVE HandlerOK(g)'
  BY <1>1 DEF HandlerInv, HandlerOK, Minted, At
<1>2. ASSUME NEW f \in Handlers, NEW g \in Handlers,
             handler'[f].pc # "idle", handler'[f].sid = handler'[g].sid
      PROVE  f = g
  <2>1. handler'[f].sid \in Sids
    BY <1>1, <1>2 DEF HandlerOK, Minted
  <2> QED
    BY <1>2, <2>1, NullAssumption DEF HandlerInv, At
<1> QED
  BY <1>1, <1>2 DEF HandlerInv, At

-----------------------------------------------------------------------------
(* IInv is inductive                                                       *)

\* Every step preserves the types.
LEMMA TypeStep == IInv /\ [Next]_vars => TypeOK'
<1> SUFFICES ASSUME TypeOK, HandlerInv, DaemonInv, LedgerInv, AnswerInv, [Next]_vars
             PROVE  TypeOK'
  BY DEF IInv
<1>1. ASSUME NEW h \in Handlers, NEW k \in AllKeys, NEW fp \in Fingerprint(k),
              ReserveFresh(h, k, fp)
       PROVE  TypeOK'
  <2>1. starts' \in [Sids -> Row \cup {NoRow}]
    BY <1>1, NewRowIsRow DEF ReserveFresh, TypeOK
  <2>2. handler' \in [Handlers -> [pc : HandlerPc, sid : Sids \cup {NoRow},
                                   epoch : Epochs \cup {NoEpoch}]]
    BY <1>1 DEF ReserveFresh, TypeOK, HandlerPc, Minted
  <2> QED
    BY <1>1, <2>1, <2>2 DEF ReserveFresh, DaemonSide, TypeOK
<1>2. ASSUME NEW h \in Handlers, NEW k \in AllKeys, NEW fp \in Fingerprint(k),
              ReserveReplay(h, k, fp)
       PROVE  TypeOK'
  <2>1. PICK s \in Holders(k, fp) : Told(s, ReplayStatus(starts[s]))
    BY <1>2 DEF ReserveReplay
  <2>2. s \in Sids /\ starts[s] \in Row
    BY <2>1 DEF TypeOK, Holders, Minted
  <2>3. answers' \subseteq [key : AllKeys, status : {"started", "starting", "failed"}, sid : Sids]
    BY <2>1, <2>2 DEF TypeOK, Told, ReplayStatus, Row
  <2> QED
    BY <1>2, <2>3 DEF ReserveReplay, DaemonSide, TypeOK
<1>3. ASSUME NEW h \in Handlers, PickGeneration(h) PROVE TypeOK'
  BY <1>3 DEF PickGeneration, TypeOK, HandlerPc, DaemonPc, DirState, Idle, DaemonSide, RouterSide
<1>4. ASSUME NEW h \in Handlers, AssignGeneration(h) PROVE TypeOK'
  <2>1. handler[h].epoch \in Epochs
    BY <1>4 DEF AssignGeneration, HandlerInv, HandlerOK, At
  <2>2. starts[handler[h].sid] \in Row
    BY <1>4, Driving DEF AssignGeneration, At
  <2>3. starts' \in [Sids -> Row \cup {NoRow}]
    BY <1>4, <2>1, <2>2, AssignedRow DEF AssignGeneration, TypeOK
  <2>4. handler' \in [Handlers -> [pc : HandlerPc, sid : Sids \cup {NoRow},
                                   epoch : Epochs \cup {NoEpoch}]]
    BY <1>4 DEF AssignGeneration, Goto, TypeOK, HandlerPc
  <2> QED
    BY <1>4, <2>3, <2>4 DEF AssignGeneration, DaemonSide, TypeOK
<1>5. ASSUME NEW h \in Handlers, AssignFails(h) PROVE TypeOK'
  BY <1>5, ZenonT(60) DEF AssignFails, Goto, TypeOK, HandlerPc, DaemonPc, DirState, Idle, DaemonSide, RouterSide
<1>6. ASSUME NEW h \in Handlers, Forward(h) PROVE TypeOK'
  <2>1. handler' \in [Handlers -> [pc : HandlerPc, sid : Sids \cup {NoRow},
                                   epoch : Epochs \cup {NoEpoch}]]
    BY <1>6 DEF Forward, Goto, TypeOK, HandlerPc
  <2>2. daemon' \in [Sids -> [pc : DaemonPc, epoch : Epochs \cup {NoEpoch}]]
    BY <1>6 DEF Forward, Up, TypeOK, DaemonPc
  <2> QED
    BY <1>6, <2>1, <2>2 DEF Forward, TypeOK
<1>7. ASSUME NEW h \in Handlers, ForwardConnectError(h) PROVE TypeOK'
  BY <1>7, ZenonT(60) DEF ForwardConnectError, Goto, TypeOK, HandlerPc, DaemonPc, DirState, Idle, DaemonSide, RouterSide
<1>8. ASSUME NEW h \in Handlers, ForwardResponseError(h) PROVE TypeOK'
  BY <1>8 DEF ForwardResponseError, HangUp, TypeOK, HandlerPc, DaemonPc, DirState, Idle, DaemonSide, RouterSide
<1>9. ASSUME NEW h \in Handlers, ReplyArrives(h) PROVE TypeOK'
  <2>1. PICK pc \in {"committing", "failing"} : Goto(h, pc)
    BY <1>9 DEF ReplyArrives
  <2>2. handler' \in [Handlers -> [pc : HandlerPc, sid : Sids \cup {NoRow},
                                   epoch : Epochs \cup {NoEpoch}]]
    BY <2>1, ZenonT(60) DEF Goto, TypeOK, HandlerPc
  <2> QED
    BY <1>9, <2>2 DEF ReplyArrives, DaemonSide, TypeOK
<1>10. ASSUME NEW h \in Handlers, Commit(h) PROVE TypeOK'
  <2>1. handler[h].sid \in Sids /\ starts[handler[h].sid] \in Row
    BY <1>10, Driving DEF Commit, At
  <2>2. starts' \in [Sids -> Row \cup {NoRow}]
    BY <1>10, <2>1, DecidedRow DEF Commit, TypeOK
  <2>3. answers' \subseteq [key : AllKeys, status : {"started", "starting", "failed"}, sid : Sids]
    BY <1>10, <2>1 DEF Commit, Told, TypeOK, Row
  <2>4. handler' \in [Handlers -> [pc : HandlerPc, sid : Sids \cup {NoRow},
                                   epoch : Epochs \cup {NoEpoch}]]
    BY <1>10 DEF Commit, HangUp, TypeOK, HandlerPc, Idle
  <2> QED
    BY <1>10, <2>2, <2>3, <2>4 DEF Commit, DaemonSide, TypeOK
<1>11. ASSUME NEW h \in Handlers, CommitFails(h) PROVE TypeOK'
  BY <1>11 DEF CommitFails, HangUp, TypeOK, HandlerPc, DaemonPc, DirState, Idle, DaemonSide, RouterSide
<1>12. ASSUME NEW h \in Handlers, Fail(h) PROVE TypeOK'
  <2>1. handler[h].sid \in Sids /\ starts[handler[h].sid] \in Row
    BY <1>12, Driving DEF Fail, At
  <2>2. starts' \in [Sids -> Row \cup {NoRow}]
    BY <1>12, <2>1, DecidedRow DEF Fail, TypeOK
  <2>3. answers' \subseteq [key : AllKeys, status : {"started", "starting", "failed"}, sid : Sids]
    BY <1>12, <2>1 DEF Fail, Told, TypeOK, Row
  <2>4. handler' \in [Handlers -> [pc : HandlerPc, sid : Sids \cup {NoRow},
                                   epoch : Epochs \cup {NoEpoch}]]
    BY <1>12 DEF Fail, HangUp, TypeOK, HandlerPc, Idle
  <2> QED
    BY <1>12, <2>2, <2>3, <2>4 DEF Fail, DaemonSide, TypeOK
<1>13. ASSUME NEW h \in Handlers, FailSwallowed(h) PROVE TypeOK'
  <2>1. handler[h].sid \in Sids /\ starts[handler[h].sid] \in Row
    BY <1>13, Driving DEF FailSwallowed, At
  <2>2. starts' \in [Sids -> Row \cup {NoRow}]
    BY <1>13, <2>1, DecidedRow DEF FailSwallowed, TypeOK
  <2>3. answers' \subseteq [key : AllKeys, status : {"started", "starting", "failed"}, sid : Sids]
    BY <1>13, <2>1 DEF FailSwallowed, Told, TypeOK, Row
  <2>4. handler' \in [Handlers -> [pc : HandlerPc, sid : Sids \cup {NoRow},
                                   epoch : Epochs \cup {NoEpoch}]]
    BY <1>13 DEF FailSwallowed, HangUp, TypeOK, HandlerPc, Idle
  <2> QED
    BY <1>13, <2>2, <2>3, <2>4 DEF FailSwallowed, DaemonSide, TypeOK
<1>14. ASSUME RouterCrash PROVE TypeOK'
  BY <1>14 DEF RouterCrash, TypeOK, HandlerPc, DaemonPc, DirState, Idle, DaemonSide, RouterSide
<1>15. ASSUME NEW s \in Sids, DaemonReject(s) PROVE TypeOK'
  BY <1>15 DEF DaemonReject, DGoto, D, Up, TypeOK, HandlerPc, DaemonPc, DirState, Idle, DaemonSide, RouterSide
<1>16. ASSUME NEW s \in Sids, TakeOldSession(s) PROVE TypeOK'
  BY <1>16 DEF TakeOldSession, DGoto, D, Up, TypeOK, HandlerPc, DaemonPc, DirState, Idle, DaemonSide, RouterSide
<1>17. ASSUME NEW s \in Sids, StopOldSession(s) PROVE TypeOK'
  <2>1. worker' \in [Sids -> {"none", "running", "over"}]
    BY <1>17 DEF StopOldSession, Ended, TypeOK
  <2>2. daemon' \in [Sids -> [pc : DaemonPc, epoch : Epochs \cup {NoEpoch}]]
    <3>1. DGoto(s, "admitting")
      BY <1>17 DEF StopOldSession
    <3> QED
      BY <3>1 DEF DGoto, TypeOK, DaemonPc
  <2> QED
    BY <1>17, <2>1, <2>2 DEF StopOldSession, RouterSide, TypeOK
<1>18. ASSUME NEW s \in Sids, InsertSession(s) PROVE TypeOK'
  BY <1>18 DEF InsertSession, DGoto, D, Up, TypeOK, HandlerPc, DaemonPc, DirState, Idle, DaemonSide, RouterSide
<1>19. ASSUME NEW s \in Sids, CreateSession(s) PROVE TypeOK'
  BY <1>19 DEF CreateSession, DGoto, D, Up, TypeOK, HandlerPc, DaemonPc, DirState, Idle, DaemonSide, RouterSide
<1>20. ASSUME NEW s \in Sids, WriteOwner(s) PROVE TypeOK'
  BY <1>20 DEF WriteOwner, DGoto, D, Up, TypeOK, HandlerPc, DaemonPc, DirState, Idle, DaemonSide, RouterSide
<1>21. ASSUME NEW s \in Sids, Launch(s) PROVE TypeOK'
  BY <1>21 DEF Launch, DGoto, D, Up, TypeOK, HandlerPc, DaemonPc, DirState, Idle, DaemonSide, RouterSide
<1>22. ASSUME NEW s \in Sids, SpawnFails(s) PROVE TypeOK'
  <2>1. dir' \in [Sids -> DirState] /\ worker' \in [Sids -> {"none", "running", "over"}]
    BY <1>22, ZenonT(60) DEF SpawnFails, TornDown, TypeOK, DirState
  <2>2. daemon' \in [Sids -> [pc : DaemonPc, epoch : Epochs \cup {NoEpoch}]]
    BY <1>22, SMTT(40) DEF SpawnFails, DGoto, TypeOK, DaemonPc
  <2> QED
    BY <1>22, <2>1, <2>2 DEF SpawnFails, RouterSide, TypeOK
<1>23. ASSUME NEW s \in Sids, Rollback(s) PROVE TypeOK'
  <2>1. DGoto(s, "err")
    BY <1>23 DEF Rollback
  <2>2. daemon' \in [Sids -> [pc : DaemonPc, epoch : Epochs \cup {NoEpoch}]]
    BY <2>1 DEF DGoto, TypeOK, DaemonPc
  <2>3. sessions' \subseteq Sids /\ live' \in [Epochs -> SUBSET Sids]
    BY <1>23 DEF Rollback, TypeOK
  <2> QED
    BY <1>23, <2>2, <2>3 DEF Rollback, RouterSide, TypeOK
<1>24. ASSUME NEW s \in Sids, WorkerExits(s) PROVE TypeOK'
  BY <1>24 DEF WorkerExits, TypeOK, HandlerPc, DaemonPc, DirState, Idle, DaemonSide, RouterSide
<1>25. ASSUME NEW e \in Epochs, DaemonCrash(e) PROVE TypeOK'
  BY <1>25 DEF DaemonCrash, Up, TypeOK, HandlerPc, DaemonPc, DirState, Idle, DaemonSide, RouterSide
<1>26. ASSUME NEW e \in Epochs, Activate(e) PROVE TypeOK'
  BY <1>26 DEF Activate, Up, TypeOK, HandlerPc, DaemonPc, DirState, Idle, DaemonSide, RouterSide
<1>27. CASE UNCHANGED vars
  BY <1>27 DEF vars, TypeOK, At, Minted
<1> QED
  BY <1>1, <1>2, <1>3, <1>4, <1>5, <1>6, <1>7, <1>8, <1>9, <1>10, <1>11, <1>12, <1>13,
     <1>14, <1>15, <1>16, <1>17, <1>18, <1>19, <1>20, <1>21, <1>22, <1>23, <1>24, <1>25,
     <1>26, <1>27
  DEF Next, Call, HandlerStep, DaemonStep, AllKeys, RestartKeys, Minted

\* Every step preserves HandlerInv.
LEMMA HandlerInvStep == IInv /\ [Next]_vars => HandlerInv'
<1> SUFFICES ASSUME TypeOK, HandlerInv, DaemonInv, LedgerInv, AnswerInv, [Next]_vars
             PROVE  HandlerInv'
  BY DEF IInv
<1>1. ASSUME NEW h \in Handlers, NEW k \in AllKeys, NEW fp \in Fingerprint(k),
              ReserveFresh(h, k, fp)
       PROVE  HandlerInv'
  <2>1. PICK s \in Sids \ Minted :
          /\ starts' = [starts EXCEPT ![s] = NewRow(k, fp)]
          /\ handler' = [handler EXCEPT ![h] = [pc |-> "reserved", sid |-> s,
                                                epoch |-> NoEpoch]]
    BY <1>1 DEF ReserveFresh
  <2>2. /\ handler'[h] = [pc |-> "reserved", sid |-> s, epoch |-> NoEpoch]
        /\ \A g \in Handlers : g # h => handler'[g] = handler[g]
        /\ starts'[s] = NewRow(k, fp)
        /\ \A t \in Sids : t # s => starts'[t] = starts[t]
        /\ daemon' = daemon
    BY <1>1, <2>1 DEF ReserveFresh, DaemonSide, TypeOK
  <2>3. daemon[s].pc = "none"
    BY <2>1 DEF DaemonInv
  <2>4. HandlerOK(h)'
    BY <2>2, <2>3, NewRowIsRow, NullAssumption DEF HandlerOK, Minted
  <2>5. ASSUME NEW g \in Handlers, g # h PROVE HandlerOK(g)'
    BY <2>1, <2>2, <2>5 DEF HandlerInv, HandlerOK, Minted
  <2>6. \A g \in Handlers : g # h => handler[g].sid # s \/ handler[g].pc = "idle"
    BY <2>1 DEF HandlerInv, HandlerOK
  <2>7. ASSUME NEW f \in Handlers, NEW g \in Handlers,
               handler'[f].pc # "idle", handler'[f].sid = handler'[g].sid
        PROVE  f = g
    <3>1. handler'[f].sid \in Sids
      BY <2>4, <2>5, <2>7 DEF HandlerOK, Minted
    <3>2. \A x \in Handlers : handler[x].pc = "idle" => handler[x].sid = NoRow
      BY DEF HandlerInv, HandlerOK
    <3> QED
      BY <2>2, <2>6, <2>7, <3>1, <3>2, NullAssumption DEF HandlerInv, At
  <2> QED
    BY <2>4, <2>5, <2>7 DEF HandlerInv, At
<1>2. ASSUME NEW h \in Handlers, NEW k \in AllKeys, NEW fp \in Fingerprint(k),
              ReserveReplay(h, k, fp)
       PROVE  HandlerInv'
  BY <1>2 DEF ReserveReplay, DaemonSide, HandlerInv, HandlerOK, At, Minted
<1>3. ASSUME NEW h \in Handlers, PickGeneration(h) PROVE HandlerInv'
  <2>1. \A g \in Handlers : g # h => handler'[g] = handler[g]
    BY <1>3 DEF PickGeneration, TypeOK
  <2>2. /\ handler'[h].pc = IF active = NoEpoch THEN "failing" ELSE "picked"
        /\ handler'[h].sid = handler[h].sid /\ handler'[h].epoch = active
    BY <1>3 DEF PickGeneration, TypeOK
  <2>3. HandlerOK(h)'
    BY <1>3, <2>2 DEF PickGeneration, DaemonSide, HandlerInv, HandlerOK, At, Minted, TypeOK
  <2> QED
    BY <1>3, <2>1, <2>2, <2>3, HandlerFrame DEF PickGeneration, DaemonSide, At
<1>4. ASSUME NEW h \in Handlers, AssignGeneration(h) PROVE HandlerInv'
  <2> DEFINE s == handler[h].sid
             e == handler[h].epoch
  <2>1. e \in Epochs /\ daemon[s].pc = "none"
    BY <1>4 DEF AssignGeneration, HandlerInv, HandlerOK, At
  <2>2. s \in Sids /\ starts[s] \in Row /\ starts[s].state = "starting"
    BY <1>4, Driving DEF AssignGeneration, At
  <2>3. /\ starts'[s] = Assigned(starts[s], e) /\ daemon' = daemon
        /\ \A t \in Sids : t # s => starts'[t] = starts[t]
    BY <1>4, <2>2 DEF AssignGeneration, DaemonSide, TypeOK
  <2>4. /\ handler'[h].pc = "assigned" /\ handler'[h].sid = s /\ handler'[h].epoch = e
        /\ \A g \in Handlers : g # h => handler'[g] = handler[g]
    BY <1>4 DEF AssignGeneration, Goto, TypeOK
  <2>5. starts'[s] \in Row /\ starts'[s].state = "starting" /\ starts'[s].epoch = e
    BY <2>1, <2>2, <2>3, AssignedRow
  <2>6. HandlerOK(h)'
    BY <2>1, <2>2, <2>3, <2>4, <2>5, NullAssumption DEF HandlerOK, Minted
  <2> QED
    BY <1>4, <2>3, <2>4, <2>6, HandlerFrame DEF AssignGeneration, At
<1>5. ASSUME NEW h \in Handlers, AssignFails(h) PROVE HandlerInv'
  <2>1. /\ handler'[h].pc = "failing" /\ handler'[h].sid = handler[h].sid
        /\ handler'[h].epoch = handler[h].epoch
        /\ \A g \in Handlers : g # h => handler'[g] = handler[g]
    BY <1>5 DEF AssignFails, Goto, TypeOK
  <2>2. HandlerOK(h)'
    BY <1>5, <2>1 DEF AssignFails, DaemonSide, HandlerInv, HandlerOK, At, Minted
  <2> QED
    BY <1>5, <2>1, <2>2, HandlerFrame DEF AssignFails, DaemonSide, At
<1>6. ASSUME NEW h \in Handlers, Forward(h) PROVE HandlerInv'
  <2>1. /\ handler'[h].pc = "sent" /\ handler'[h].sid = handler[h].sid
        /\ handler'[h].epoch = handler[h].epoch
        /\ \A g \in Handlers : g # h => handler'[g] = handler[g]
    BY <1>6 DEF Forward, Goto, TypeOK
  <2>2. /\ starts' = starts
        /\ \A s \in Sids : s # handler[h].sid => daemon'[s] = daemon[s]
    BY <1>6 DEF Forward, TypeOK
  <2>3. HandlerOK(h)'
    BY <1>6, <2>1, <2>2 DEF Forward, HandlerInv, HandlerOK, At, Minted
  <2> QED
    BY <1>6, <2>1, <2>2, <2>3, HandlerFrame DEF Forward, At
<1>7. ASSUME NEW h \in Handlers, ForwardConnectError(h) PROVE HandlerInv'
  <2>1. /\ handler'[h].pc = "failing" /\ handler'[h].sid = handler[h].sid
        /\ handler'[h].epoch = handler[h].epoch
        /\ \A g \in Handlers : g # h => handler'[g] = handler[g]
    BY <1>7 DEF ForwardConnectError, Goto, TypeOK
  <2>2. HandlerOK(h)'
    BY <1>7, <2>1 DEF ForwardConnectError, DaemonSide, HandlerInv, HandlerOK, At, Minted
  <2> QED
    BY <1>7, <2>1, <2>2, HandlerFrame DEF ForwardConnectError, DaemonSide, At
<1>8. ASSUME NEW h \in Handlers, ForwardResponseError(h) PROVE HandlerInv'
  <2>1. /\ handler'[h] = Idle
        /\ \A g \in Handlers : g # h => handler'[g] = handler[g]
    BY <1>8 DEF ForwardResponseError, HangUp, TypeOK
  <2>2. daemon' = daemon /\ \A s \in Sids : s # handler[h].sid => starts'[s] = starts[s]
    BY <1>8 DEF ForwardResponseError, DaemonSide, TypeOK
  <2> QED
    BY <1>8, <2>1, <2>2, HandlerFrame DEF ForwardResponseError, HandlerOK, Idle, At
<1>9. ASSUME NEW h \in Handlers, ReplyArrives(h) PROVE HandlerInv'
  <2>1. PICK pc \in {"committing", "failing"} :
          /\ Goto(h, pc)
          /\ daemon[handler[h].sid].pc = IF pc = "committing" THEN "ok" ELSE "err"
    BY <1>9 DEF ReplyArrives, ReplyIsSuccess
  <2>2. /\ handler'[h].pc = pc /\ handler'[h].sid = handler[h].sid
        /\ handler'[h].epoch = handler[h].epoch
        /\ \A g \in Handlers : g # h => handler'[g] = handler[g]
    BY <2>1 DEF Goto, TypeOK
  <2>3. HandlerOK(h)'
    BY <1>9, <2>1, <2>2 DEF ReplyArrives, DaemonSide, HandlerInv, HandlerOK, At, Minted
  <2> QED
    BY <1>9, <2>2, <2>3, HandlerFrame DEF ReplyArrives, DaemonSide, At
<1>10. ASSUME NEW h \in Handlers, Commit(h) PROVE HandlerInv'
  <2>1. /\ handler'[h] = Idle
        /\ \A g \in Handlers : g # h => handler'[g] = handler[g]
    BY <1>10 DEF Commit, HangUp, TypeOK
  <2>2. daemon' = daemon /\ \A s \in Sids : s # handler[h].sid => starts'[s] = starts[s]
    BY <1>10 DEF Commit, DaemonSide, TypeOK
  <2> QED
    BY <1>10, <2>1, <2>2, HandlerFrame DEF Commit, HandlerOK, Idle, At
<1>11. ASSUME NEW h \in Handlers, CommitFails(h) PROVE HandlerInv'
  <2>1. /\ handler'[h] = Idle
        /\ \A g \in Handlers : g # h => handler'[g] = handler[g]
    BY <1>11 DEF CommitFails, HangUp, TypeOK
  <2>2. daemon' = daemon /\ \A s \in Sids : s # handler[h].sid => starts'[s] = starts[s]
    BY <1>11 DEF CommitFails, DaemonSide, TypeOK
  <2> QED
    BY <1>11, <2>1, <2>2, HandlerFrame DEF CommitFails, HandlerOK, Idle, At
<1>12. ASSUME NEW h \in Handlers, Fail(h) PROVE HandlerInv'
  <2>1. /\ handler'[h] = Idle
        /\ \A g \in Handlers : g # h => handler'[g] = handler[g]
    BY <1>12 DEF Fail, HangUp, TypeOK
  <2>2. daemon' = daemon /\ \A s \in Sids : s # handler[h].sid => starts'[s] = starts[s]
    BY <1>12 DEF Fail, DaemonSide, TypeOK
  <2> QED
    BY <1>12, <2>1, <2>2, HandlerFrame DEF Fail, HandlerOK, Idle, At
<1>13. ASSUME NEW h \in Handlers, FailSwallowed(h) PROVE HandlerInv'
  <2>1. /\ handler'[h] = Idle
        /\ \A g \in Handlers : g # h => handler'[g] = handler[g]
    BY <1>13 DEF FailSwallowed, HangUp, TypeOK
  <2>2. daemon' = daemon /\ \A s \in Sids : s # handler[h].sid => starts'[s] = starts[s]
    BY <1>13 DEF FailSwallowed, DaemonSide, TypeOK
  <2> QED
    BY <1>13, <2>1, <2>2, HandlerFrame DEF FailSwallowed, HandlerOK, Idle, At
<1>14. ASSUME RouterCrash PROVE HandlerInv'
  BY <1>14 DEF RouterCrash, Idle, HandlerInv, HandlerOK, At
<1>15. ASSUME NEW s \in Sids, DaemonReject(s) PROVE HandlerInv'
  BY <1>15 DEF DaemonReject, D, DGoto, TypeOK, RouterSide, HandlerInv, HandlerOK, At, Minted
<1>16. ASSUME NEW s \in Sids, TakeOldSession(s) PROVE HandlerInv'
  BY <1>16 DEF TakeOldSession, D, DGoto, TypeOK, RouterSide, HandlerInv, HandlerOK, At, Minted
<1>17. ASSUME NEW s \in Sids, StopOldSession(s) PROVE HandlerInv'
  BY <1>17 DEF StopOldSession, D, DGoto, TypeOK, RouterSide, HandlerInv, HandlerOK, At, Minted
<1>18. ASSUME NEW s \in Sids, InsertSession(s) PROVE HandlerInv'
  BY <1>18 DEF InsertSession, D, DGoto, TypeOK, RouterSide, HandlerInv, HandlerOK, At, Minted
<1>19. ASSUME NEW s \in Sids, CreateSession(s) PROVE HandlerInv'
  BY <1>19 DEF CreateSession, D, DGoto, TypeOK, RouterSide, HandlerInv, HandlerOK, At, Minted
<1>20. ASSUME NEW s \in Sids, WriteOwner(s) PROVE HandlerInv'
  BY <1>20 DEF WriteOwner, D, DGoto, TypeOK, RouterSide, HandlerInv, HandlerOK, At, Minted
<1>21. ASSUME NEW s \in Sids, Launch(s) PROVE HandlerInv'
  BY <1>21 DEF Launch, D, DGoto, TypeOK, RouterSide, HandlerInv, HandlerOK, At, Minted
<1>22. ASSUME NEW s \in Sids, SpawnFails(s) PROVE HandlerInv'
  BY <1>22 DEF SpawnFails, D, DGoto, TypeOK, RouterSide, HandlerInv, HandlerOK, At, Minted
<1>23. ASSUME NEW s \in Sids, Rollback(s) PROVE HandlerInv'
  BY <1>23 DEF Rollback, D, DGoto, TypeOK, RouterSide, HandlerInv, HandlerOK, At, Minted
<1>24. ASSUME NEW s \in Sids, WorkerExits(s) PROVE HandlerInv'
  BY <1>24 DEF WorkerExits, RouterSide, HandlerInv, HandlerOK, At, Minted
<1>25. ASSUME NEW e \in Epochs, DaemonCrash(e) PROVE HandlerInv'
  BY <1>25 DEF DaemonCrash, RouterSide, HandlerInv, HandlerOK, At, Minted
<1>26. ASSUME NEW e \in Epochs, Activate(e) PROVE HandlerInv'
  BY <1>26 DEF Activate, RouterSide, HandlerInv, HandlerOK, At, Minted
<1>27. CASE UNCHANGED vars
  BY <1>27 DEF vars, HandlerInv, At, Minted, HandlerOK
<1> QED
  BY <1>1, <1>2, <1>3, <1>4, <1>5, <1>6, <1>7, <1>8, <1>9, <1>10, <1>11, <1>12, <1>13,
     <1>14, <1>15, <1>16, <1>17, <1>18, <1>19, <1>20, <1>21, <1>22, <1>23, <1>24, <1>25,
     <1>26, <1>27
  DEF Next, Call, HandlerStep, DaemonStep, AllKeys, RestartKeys, Minted

\* Every step preserves DaemonInv.
LEMMA DaemonInvStep == IInv /\ [Next]_vars => DaemonInv'
<1> SUFFICES ASSUME TypeOK, HandlerInv, DaemonInv, LedgerInv, AnswerInv, [Next]_vars
             PROVE  DaemonInv'
  BY DEF IInv
<1>1. ASSUME NEW h \in Handlers, NEW k \in AllKeys, NEW fp \in Fingerprint(k),
              ReserveFresh(h, k, fp)
       PROVE  DaemonInv'
  <2>1. PICK s \in Sids \ Minted : starts' = [starts EXCEPT ![s] = NewRow(k, fp)]
    BY <1>1 DEF ReserveFresh
  <2>2. \A t \in Minted : starts'[t] = starts[t]
    BY <2>1 DEF Minted, TypeOK
  <2> QED
    BY <1>1, <2>2 DEF ReserveFresh, DaemonSide, DaemonInv, Minted
<1>2. ASSUME NEW h \in Handlers, NEW k \in AllKeys, NEW fp \in Fingerprint(k),
              ReserveReplay(h, k, fp)
       PROVE  DaemonInv'
  BY <1>2 DEF ReserveReplay, DaemonSide, DaemonInv, Minted
<1>3. ASSUME NEW h \in Handlers, PickGeneration(h) PROVE DaemonInv'
  BY <1>3 DEF PickGeneration, DaemonSide, DaemonInv, Minted
<1>4. ASSUME NEW h \in Handlers, AssignGeneration(h) PROVE DaemonInv'
  <2>1. daemon[handler[h].sid].pc = "none"
    BY <1>4 DEF AssignGeneration, HandlerInv, HandlerOK, At
  <2>2. \A t \in Sids : t # handler[h].sid => starts'[t] = starts[t]
    BY <1>4 DEF AssignGeneration, TypeOK
  <2> QED
    BY <1>4, <2>1, <2>2 DEF AssignGeneration, DaemonSide, DaemonInv, Minted
<1>5. ASSUME NEW h \in Handlers, AssignFails(h) PROVE DaemonInv'
  BY <1>5 DEF AssignFails, DaemonSide, DaemonInv, Minted
<1>6. ASSUME NEW h \in Handlers, Forward(h) PROVE DaemonInv'
  <2> DEFINE s == handler[h].sid
  <2>1. /\ s \in Minted /\ starts[s].epoch = handler[h].epoch /\ handler[h].epoch \in Epochs
        /\ daemon[s].pc = "none"
    BY <1>6 DEF Forward, HandlerInv, HandlerOK, At
  <2>2. /\ daemon'[s] = [pc |-> "arrived", epoch |-> handler[h].epoch]
        /\ \A t \in Sids : t # s => daemon'[t] = daemon[t]
    BY <1>6, <2>1 DEF Forward, TypeOK, Minted
  <2> QED
    BY <1>6, <2>1, <2>2 DEF Forward, DaemonInv, Minted
<1>7. ASSUME NEW h \in Handlers, ForwardConnectError(h) PROVE DaemonInv'
  BY <1>7 DEF ForwardConnectError, DaemonSide, DaemonInv, Minted
<1>8. ASSUME NEW h \in Handlers, ForwardResponseError(h) PROVE DaemonInv'
  BY <1>8 DEF ForwardResponseError, DaemonSide, DaemonInv, Minted
<1>9. ASSUME NEW h \in Handlers, ReplyArrives(h) PROVE DaemonInv'
  BY <1>9 DEF ReplyArrives, DaemonSide, DaemonInv, Minted
<1>10. ASSUME NEW h \in Handlers, Commit(h) PROVE DaemonInv'
  <2>1. starts[handler[h].sid] \in Row /\ handler[h].sid \in Sids
    BY <1>10, Driving DEF Commit, At
  <2>2. \A t \in Sids : starts[t] # NoRow => starts'[t] # NoRow /\ starts'[t].epoch = starts[t].epoch
    BY <1>10, <2>1, DecidedRow, NullAssumption DEF Commit, TypeOK
  <2> QED
    BY <1>10, <2>2 DEF Commit, DaemonSide, DaemonInv, Minted
<1>11. ASSUME NEW h \in Handlers, CommitFails(h) PROVE DaemonInv'
  BY <1>11 DEF CommitFails, DaemonSide, DaemonInv, Minted
<1>12. ASSUME NEW h \in Handlers, Fail(h) PROVE DaemonInv'
  <2>1. starts[handler[h].sid] \in Row /\ handler[h].sid \in Sids
    BY <1>12, Driving DEF Fail, At
  <2>2. \A t \in Sids : starts[t] # NoRow => starts'[t] # NoRow /\ starts'[t].epoch = starts[t].epoch
    BY <1>12, <2>1, DecidedRow, NullAssumption DEF Fail, TypeOK
  <2> QED
    BY <1>12, <2>2 DEF Fail, DaemonSide, DaemonInv, Minted
<1>13. ASSUME NEW h \in Handlers, FailSwallowed(h) PROVE DaemonInv'
  BY <1>13 DEF FailSwallowed, DaemonSide, DaemonInv, Minted
<1>14. ASSUME RouterCrash PROVE DaemonInv'
  BY <1>14 DEF RouterCrash, DaemonSide, DaemonInv, Minted
<1>15. ASSUME NEW s \in Sids, DaemonReject(s) PROVE DaemonInv'
  BY <1>15 DEF DaemonReject, D, DGoto, Up, RouterSide, DaemonInv, TypeOK, Minted
<1>16. ASSUME NEW s \in Sids, TakeOldSession(s) PROVE DaemonInv'
  BY <1>16 DEF TakeOldSession, D, DGoto, Up, RouterSide, DaemonInv, TypeOK, Minted
<1>17. ASSUME NEW s \in Sids, StopOldSession(s) PROVE DaemonInv'
  BY <1>17 DEF StopOldSession, Ended, D, DGoto, Up, RouterSide, DaemonInv, TypeOK, Minted
<1>18. ASSUME NEW s \in Sids, InsertSession(s) PROVE DaemonInv'
  BY <1>18 DEF InsertSession, D, DGoto, Up, RouterSide, DaemonInv, TypeOK, Minted
<1>19. ASSUME NEW s \in Sids, CreateSession(s) PROVE DaemonInv'
  BY <1>19 DEF CreateSession, CanCreate, D, DGoto, Up, RouterSide, DaemonInv, TypeOK, Minted
<1>20. ASSUME NEW s \in Sids, WriteOwner(s) PROVE DaemonInv'
  BY <1>20 DEF WriteOwner, D, DGoto, Up, RouterSide, DaemonInv, TypeOK, Minted
<1>21. ASSUME NEW s \in Sids, Launch(s) PROVE DaemonInv'
  BY <1>21 DEF Launch, D, DGoto, Up, RouterSide, DaemonInv, TypeOK, Minted
<1>22. ASSUME NEW s \in Sids, SpawnFails(s) PROVE DaemonInv'
  BY <1>22 DEF SpawnFails, TornDown, D, DGoto, Up, RouterSide, DaemonInv, TypeOK, Minted
<1>23. ASSUME NEW s \in Sids, Rollback(s) PROVE DaemonInv'
  BY <1>23 DEF Rollback, D, DGoto, Up, RouterSide, DaemonInv, TypeOK, Minted
<1>24. ASSUME NEW s \in Sids, WorkerExits(s) PROVE DaemonInv'
  BY <1>24 DEF WorkerExits, RouterSide, DaemonInv, TypeOK, Minted
<1>25. ASSUME NEW e \in Epochs, DaemonCrash(e) PROVE DaemonInv'
  BY <1>25 DEF DaemonCrash, RouterSide, DaemonInv, TypeOK, Minted
<1>26. ASSUME NEW e \in Epochs, Activate(e) PROVE DaemonInv'
  BY <1>26 DEF Activate, RouterSide, DaemonInv, TypeOK, Minted
<1>27. CASE UNCHANGED vars
  BY <1>27 DEF vars, DaemonInv, At, Minted
<1> QED
  BY <1>1, <1>2, <1>3, <1>4, <1>5, <1>6, <1>7, <1>8, <1>9, <1>10, <1>11, <1>12, <1>13,
     <1>14, <1>15, <1>16, <1>17, <1>18, <1>19, <1>20, <1>21, <1>22, <1>23, <1>24, <1>25,
     <1>26, <1>27
  DEF Next, Call, HandlerStep, DaemonStep, AllKeys, RestartKeys, Minted

\* Every step preserves LedgerInv.
LEMMA LedgerInvStep == IInv /\ [Next]_vars => LedgerInv'
<1> SUFFICES ASSUME TypeOK, HandlerInv, DaemonInv, LedgerInv, AnswerInv, [Next]_vars
             PROVE  LedgerInv'
  BY DEF IInv
<1>1. ASSUME NEW h \in Handlers, NEW k \in AllKeys, NEW fp \in Fingerprint(k),
              ReserveFresh(h, k, fp)
       PROVE  LedgerInv'
  <2>1. PICK s \in Sids \ Minted : starts' = [starts EXCEPT ![s] = NewRow(k, fp)]
    BY <1>1 DEF ReserveFresh
  <2>2. \A t \in Sids : starts'[t] = IF t = s THEN NewRow(k, fp) ELSE starts[t]
    BY <2>1 DEF TypeOK
  <2>3. \A t \in Minted : starts[t].key # k
    BY <1>1 DEF ReserveFresh, Holders
  <2> QED
    BY <1>1, <2>2, <2>3, NewRowIsRow DEF ReserveFresh, DaemonSide, LedgerInv, Minted
<1>2. ASSUME NEW h \in Handlers, NEW k \in AllKeys, NEW fp \in Fingerprint(k),
              ReserveReplay(h, k, fp)
       PROVE  LedgerInv'
  BY <1>2 DEF ReserveReplay, DaemonSide, LedgerInv, DaemonInv, Minted
<1>3. ASSUME NEW h \in Handlers, PickGeneration(h) PROVE LedgerInv'
  BY <1>3 DEF PickGeneration, DaemonSide, LedgerInv, DaemonInv, Minted
<1>4. ASSUME NEW h \in Handlers, AssignGeneration(h) PROVE LedgerInv'
  <2> DEFINE s == handler[h].sid
  <2>1. s \in Minted /\ starts[s] \in Row /\ handler[h].epoch \in Epochs
    BY <1>4, Driving DEF AssignGeneration, HandlerInv, HandlerOK, At
  <2>2. \A t \in Sids : starts'[t] = IF t = s THEN Assigned(starts[s], handler[h].epoch) ELSE starts[t]
    BY <1>4 DEF AssignGeneration, TypeOK
  <2>3. \A t \in Sids : starts'[t] # NoRow =>
          t \in Minted /\ starts'[t].state = starts[t].state /\ starts'[t].key = starts[t].key
    BY <2>1, <2>2, AssignedRow DEF Minted
  <2> QED
    BY <1>4, <2>3 DEF AssignGeneration, DaemonSide, LedgerInv, Minted
<1>5. ASSUME NEW h \in Handlers, AssignFails(h) PROVE LedgerInv'
  BY <1>5 DEF AssignFails, DaemonSide, LedgerInv, DaemonInv, Minted
<1>6. ASSUME NEW h \in Handlers, Forward(h) PROVE LedgerInv'
  <2> DEFINE s == handler[h].sid
  <2>1. s \in Minted /\ starts[s].state = "starting"
    BY <1>6, Driving DEF Forward, At
  <2>2. \A t \in Sids : t # s => daemon'[t] = daemon[t]
    BY <1>6 DEF Forward, TypeOK
  <2> QED
    BY <1>6, <2>1, <2>2 DEF Forward, LedgerInv, Minted
<1>7. ASSUME NEW h \in Handlers, ForwardConnectError(h) PROVE LedgerInv'
  BY <1>7 DEF ForwardConnectError, DaemonSide, LedgerInv, DaemonInv, Minted
<1>8. ASSUME NEW h \in Handlers, ForwardResponseError(h) PROVE LedgerInv'
  BY <1>8 DEF ForwardResponseError, DaemonSide, LedgerInv, DaemonInv, Minted
<1>9. ASSUME NEW h \in Handlers, ReplyArrives(h) PROVE LedgerInv'
  BY <1>9 DEF ReplyArrives, DaemonSide, LedgerInv, DaemonInv, Minted
<1>10. ASSUME NEW h \in Handlers, Commit(h) PROVE LedgerInv'
  <2> DEFINE s == handler[h].sid
  <2>1. s \in Minted /\ starts[s] \in Row
    BY <1>10, Driving DEF Commit, At
  <2>2. \A t \in Sids : starts'[t] = IF t = s THEN Committed(starts[s]) ELSE starts[t]
    BY <1>10 DEF Commit, TypeOK
  <2>3. \A t \in Sids : starts'[t] # NoRow =>
          /\ t \in Minted /\ starts'[t].key = starts[t].key
          /\ starts'[t].state = IF t = s THEN "started" ELSE starts[t].state
    BY <2>1, <2>2, DecidedRow DEF Minted
  <2>4. daemon[s].pc = "ok"
    BY <1>10 DEF Commit, HandlerInv, HandlerOK, At
  <2> QED
    BY <1>10, <2>3, <2>4 DEF Commit, DaemonSide, LedgerInv, Minted
<1>11. ASSUME NEW h \in Handlers, CommitFails(h) PROVE LedgerInv'
  BY <1>11 DEF CommitFails, DaemonSide, LedgerInv, DaemonInv, Minted
<1>12. ASSUME NEW h \in Handlers, Fail(h) PROVE LedgerInv'
  <2> DEFINE s == handler[h].sid
  <2>1. s \in Minted /\ starts[s] \in Row
    BY <1>12, Driving DEF Fail, At
  <2>2. \A t \in Sids : starts'[t] = IF t = s THEN Failed(starts[s]) ELSE starts[t]
    BY <1>12 DEF Fail, TypeOK
  <2>3. \A t \in Sids : starts'[t] # NoRow =>
          /\ t \in Minted /\ starts'[t].key = starts[t].key
          /\ starts'[t].state = IF t = s THEN "failed" ELSE starts[t].state
    BY <2>1, <2>2, DecidedRow DEF Minted
  <2>4. daemon[s].pc \in {"none", "err"} /\ s \notin sessions
    BY <1>12 DEF Fail, CanFail, HandlerInv, HandlerOK, At
  <2> QED
    BY <1>12, <2>3, <2>4 DEF Fail, DaemonSide, LedgerInv, Minted
<1>13. ASSUME NEW h \in Handlers, FailSwallowed(h) PROVE LedgerInv'
  BY <1>13 DEF FailSwallowed, DaemonSide, LedgerInv, DaemonInv, Minted
<1>14. ASSUME RouterCrash PROVE LedgerInv'
  BY <1>14 DEF RouterCrash, DaemonSide, LedgerInv, DaemonInv, Minted
<1>15. ASSUME NEW s \in Sids, DaemonReject(s) PROVE LedgerInv'
  BY <1>15 DEF DaemonReject, D, DGoto, Up, RouterSide, LedgerInv, DaemonInv, TypeOK, Minted
<1>16. ASSUME NEW s \in Sids, TakeOldSession(s) PROVE LedgerInv'
  BY <1>16 DEF TakeOldSession, D, DGoto, Up, RouterSide, LedgerInv, DaemonInv, TypeOK, Minted
<1>17. ASSUME NEW s \in Sids, StopOldSession(s) PROVE LedgerInv'
  BY <1>17 DEF StopOldSession, Ended, D, DGoto, Up, RouterSide, LedgerInv, DaemonInv, TypeOK, Minted
<1>18. ASSUME NEW s \in Sids, InsertSession(s) PROVE LedgerInv'
  BY <1>18 DEF InsertSession, D, DGoto, Up, RouterSide, LedgerInv, DaemonInv, TypeOK, Minted
<1>19. ASSUME NEW s \in Sids, CreateSession(s) PROVE LedgerInv'
  BY <1>19 DEF CreateSession, CanCreate, D, DGoto, Up, RouterSide, LedgerInv, DaemonInv, TypeOK, Minted
<1>20. ASSUME NEW s \in Sids, WriteOwner(s) PROVE LedgerInv'
  BY <1>20 DEF WriteOwner, D, DGoto, Up, RouterSide, LedgerInv, DaemonInv, TypeOK, Minted
<1>21. ASSUME NEW s \in Sids, Launch(s) PROVE LedgerInv'
  BY <1>21 DEF Launch, D, DGoto, Up, RouterSide, LedgerInv, DaemonInv, TypeOK, Minted
<1>22. ASSUME NEW s \in Sids, SpawnFails(s) PROVE LedgerInv'
  BY <1>22 DEF SpawnFails, TornDown, D, DGoto, Up, RouterSide, LedgerInv, DaemonInv, TypeOK, Minted
<1>23. ASSUME NEW s \in Sids, Rollback(s) PROVE LedgerInv'
  BY <1>23 DEF Rollback, D, DGoto, Up, RouterSide, LedgerInv, DaemonInv, TypeOK, Minted
<1>24. ASSUME NEW s \in Sids, WorkerExits(s) PROVE LedgerInv'
  BY <1>24 DEF WorkerExits, RouterSide, LedgerInv, DaemonInv, TypeOK, Minted
<1>25. ASSUME NEW e \in Epochs, DaemonCrash(e) PROVE LedgerInv'
  BY <1>25 DEF DaemonCrash, RouterSide, LedgerInv, DaemonInv, TypeOK, Minted
<1>26. ASSUME NEW e \in Epochs, Activate(e) PROVE LedgerInv'
  BY <1>26 DEF Activate, RouterSide, LedgerInv, DaemonInv, TypeOK, Minted
<1>27. CASE UNCHANGED vars
  BY <1>27 DEF vars, LedgerInv, At, Minted
<1> QED
  BY <1>1, <1>2, <1>3, <1>4, <1>5, <1>6, <1>7, <1>8, <1>9, <1>10, <1>11, <1>12, <1>13,
     <1>14, <1>15, <1>16, <1>17, <1>18, <1>19, <1>20, <1>21, <1>22, <1>23, <1>24, <1>25,
     <1>26, <1>27
  DEF Next, Call, HandlerStep, DaemonStep, AllKeys, RestartKeys, Minted

\* Every step preserves AnswerInv.
LEMMA AnswerInvStep == IInv /\ [Next]_vars => AnswerInv'
<1> SUFFICES ASSUME TypeOK, HandlerInv, DaemonInv, LedgerInv, AnswerInv, [Next]_vars
             PROVE  AnswerInv'
  BY DEF IInv
<1>1. ASSUME NEW h \in Handlers, NEW k \in AllKeys, NEW fp \in Fingerprint(k),
              ReserveFresh(h, k, fp)
       PROVE  AnswerInv'
  <2>1. PICK s \in Sids \ Minted :
          /\ starts' = [starts EXCEPT ![s] = NewRow(k, fp)]
          /\ handler' = [handler EXCEPT ![h] = [pc |-> "reserved", sid |-> s,
                                                epoch |-> NoEpoch]]
    BY <1>1 DEF ReserveFresh
  <2>2. /\ \A t \in Minted : t # s /\ starts'[t] = starts[t]
        /\ \A g \in Handlers : handler'[g] = handler[g] \/ handler'[g].sid = s
    BY <2>1 DEF Minted, TypeOK
  <2> QED
    BY <1>1, <2>1, <2>2 DEF ReserveFresh, DaemonSide, AnswerInv, At, Minted
<1>2. ASSUME NEW h \in Handlers, NEW k \in AllKeys, NEW fp \in Fingerprint(k),
              ReserveReplay(h, k, fp)
       PROVE  AnswerInv'
  <2>1. PICK s \in Holders(k, fp) : Told(s, ReplayStatus(starts[s]))
    BY <1>2 DEF ReserveReplay
  <2>2. s \in Minted
    BY <2>1 DEF Holders
  <2>3. starts[s].state = "failed" => /\ daemon[s].pc \in {"none", "err"}
                                      /\ \A g \in Handlers : At(g, "idle") \/ handler[g].sid # s
    BY <2>2 DEF LedgerInv, HandlerInv, HandlerOK, At
  <2>4. answers' = answers \cup {[key |-> starts[s].key, status |-> starts[s].state, sid |-> s]}
    BY <2>1 DEF Told, ReplayStatus
  <2> QED
    BY <1>2, <2>2, <2>3, <2>4 DEF ReserveReplay, DaemonSide, AnswerInv, At, Minted
<1>3. ASSUME NEW h \in Handlers, PickGeneration(h) PROVE AnswerInv'
  <2>1. \A g \in Handlers : handler'[g].sid = handler[g].sid \/ handler'[g].pc = "idle"
    BY <1>3 DEF PickGeneration, TypeOK
  <2>2. \A g \in Handlers : handler[g].pc = "idle" => handler'[g].pc = "idle"
    BY <1>3 DEF PickGeneration, TypeOK, At
  <2> QED
    BY <1>3, <2>1, <2>2 DEF PickGeneration, DaemonSide, AnswerInv, At, Minted
<1>4. ASSUME NEW h \in Handlers, AssignGeneration(h) PROVE AnswerInv'
  <2> DEFINE s == handler[h].sid
  <2>1. s \in Minted /\ starts[s] \in Row /\ handler[h].epoch \in Epochs
    BY <1>4, Driving DEF AssignGeneration, HandlerInv, HandlerOK, At
  <2>2. \A t \in Sids : starts'[t] = IF t = s THEN Assigned(starts[s], handler[h].epoch) ELSE starts[t]
    BY <1>4 DEF AssignGeneration, TypeOK
  <2>3. \A t \in Minted : /\ starts'[t] # NoRow /\ starts'[t].key = starts[t].key
                          /\ starts'[t].state = starts[t].state
    BY <2>1, <2>2, AssignedRow, NullAssumption DEF Minted
  <2>4. \A g \in Handlers : /\ handler'[g].sid = handler[g].sid
                            /\ handler[g].pc = "idle" => handler'[g].pc = "idle"
    BY <1>4 DEF AssignGeneration, Goto, At, TypeOK
  <2> QED
    BY <1>4, <2>3, <2>4 DEF AssignGeneration, DaemonSide, AnswerInv, At, Minted
<1>5. ASSUME NEW h \in Handlers, AssignFails(h) PROVE AnswerInv'
  <2>1. \A g \in Handlers : handler'[g].sid = handler[g].sid \/ handler'[g].pc = "idle"
    BY <1>5 DEF AssignFails, Goto, TypeOK
  <2>2. \A g \in Handlers : handler[g].pc = "idle" => handler'[g].pc = "idle"
    BY <1>5 DEF AssignFails, Goto, TypeOK, At
  <2> QED
    BY <1>5, <2>1, <2>2 DEF AssignFails, DaemonSide, AnswerInv, At, Minted
<1>6. ASSUME NEW h \in Handlers, Forward(h) PROVE AnswerInv'
  <2> DEFINE s == handler[h].sid
  <2>1. \A t \in Sids : t # s => daemon'[t] = daemon[t]
    BY <1>6 DEF Forward, TypeOK
  <2>2. \A g \in Handlers : /\ handler'[g].sid = handler[g].sid
                            /\ handler[g].pc = "idle" => handler'[g].pc = "idle"
    BY <1>6 DEF Forward, Goto, At, TypeOK
  <2>3. \A a \in answers : a.status = "failed" => a.sid # s
    BY <1>6 DEF Forward, AnswerInv, At
  <2> QED
    BY <1>6, <2>1, <2>2, <2>3 DEF Forward, AnswerInv, At, Minted
<1>7. ASSUME NEW h \in Handlers, ForwardConnectError(h) PROVE AnswerInv'
  <2>1. \A g \in Handlers : handler'[g].sid = handler[g].sid \/ handler'[g].pc = "idle"
    BY <1>7 DEF ForwardConnectError, Goto, TypeOK
  <2>2. \A g \in Handlers : handler[g].pc = "idle" => handler'[g].pc = "idle"
    BY <1>7 DEF ForwardConnectError, Goto, TypeOK, At
  <2> QED
    BY <1>7, <2>1, <2>2 DEF ForwardConnectError, DaemonSide, AnswerInv, At, Minted
<1>8. ASSUME NEW h \in Handlers, ForwardResponseError(h) PROVE AnswerInv'
  <2>1. \A g \in Handlers : handler'[g].sid = handler[g].sid \/ handler'[g].pc = "idle"
    BY <1>8 DEF ForwardResponseError, HangUp, Idle, TypeOK
  <2>2. \A g \in Handlers : handler[g].pc = "idle" => handler'[g].pc = "idle"
    BY <1>8 DEF ForwardResponseError, HangUp, Idle, TypeOK, At
  <2> QED
    BY <1>8, <2>1, <2>2 DEF ForwardResponseError, DaemonSide, AnswerInv, At, Minted
<1>9. ASSUME NEW h \in Handlers, ReplyArrives(h) PROVE AnswerInv'
  <2>1. \A g \in Handlers : handler'[g].sid = handler[g].sid \/ handler'[g].pc = "idle"
    BY <1>9 DEF ReplyArrives, Goto, TypeOK
  <2>2. \A g \in Handlers : handler[g].pc = "idle" => handler'[g].pc = "idle"
    BY <1>9 DEF ReplyArrives, Goto, TypeOK, At
  <2> QED
    BY <1>9, <2>1, <2>2 DEF ReplyArrives, DaemonSide, AnswerInv, At, Minted
<1>10. ASSUME NEW h \in Handlers, Commit(h) PROVE AnswerInv'
  <2> DEFINE s == handler[h].sid
  <2>1. /\ s \in Minted /\ starts[s] \in Row /\ starts[s].state = "starting"
        /\ \A g \in Handlers : g # h => handler[g].sid # s
    BY <1>10, Driving DEF Commit, At
  <2>2. \A t \in Sids : starts'[t] = IF t = s THEN Committed(starts[s]) ELSE starts[t]
    BY <1>10 DEF Commit, TypeOK
  <2>3. \A t \in Minted : /\ starts'[t] # NoRow /\ starts'[t].key = starts[t].key
                          /\ t # s => starts'[t] = starts[t]
    BY <2>1, <2>2, DecidedRow, NullAssumption DEF Minted
  <2>4. handler'[h].pc = "idle" /\ \A g \in Handlers : g # h => handler'[g] = handler[g]
    BY <1>10 DEF Commit, HangUp, Idle, TypeOK
  <2>5. starts'[s].state = "started"
    BY <1>10, <2>1, <2>2, DecidedRow DEF Commit, HandlerInv, HandlerOK, At, Minted
  <2>6. answers' = answers \cup {[key |-> starts[s].key, status |-> "started", sid |-> s]}
    BY <1>10 DEF Commit, Told
  <2>7. \A a \in answers : a.status = "started" => a.sid # s
    BY <2>1 DEF AnswerInv
  <2> SUFFICES ASSUME NEW a \in answers'
               PROVE  /\ a.sid \in Minted' /\ starts'[a.sid].key = a.key
                      /\ a.status = "started" => starts'[a.sid].state = "started"
                      /\ a.status = "failed" =>
                           /\ daemon'[a.sid].pc \in {"none", "err"}
                           /\ \A g \in Handlers : handler'[g].pc = "idle" \/ handler'[g].sid # a.sid
    BY DEF AnswerInv, At
  <2>8. CASE a \in answers
    BY <1>10, <2>3, <2>4, <2>7, <2>8 DEF Commit, DaemonSide, AnswerInv, At, Minted
  <2>9. CASE a = [key |-> starts[s].key, status |-> "started", sid |-> s]
    BY <1>10, <2>1, <2>3, <2>4, <2>5, <2>9 DEF Commit, DaemonSide, Minted
  <2> QED
    BY <2>6, <2>8, <2>9
<1>11. ASSUME NEW h \in Handlers, CommitFails(h) PROVE AnswerInv'
  <2>1. \A g \in Handlers : handler'[g].sid = handler[g].sid \/ handler'[g].pc = "idle"
    BY <1>11 DEF CommitFails, HangUp, Idle, TypeOK
  <2>2. \A g \in Handlers : handler[g].pc = "idle" => handler'[g].pc = "idle"
    BY <1>11 DEF CommitFails, HangUp, Idle, TypeOK, At
  <2> QED
    BY <1>11, <2>1, <2>2 DEF CommitFails, DaemonSide, AnswerInv, At, Minted
<1>12. ASSUME NEW h \in Handlers, Fail(h) PROVE AnswerInv'
  <2> DEFINE s == handler[h].sid
  <2>1. /\ s \in Minted /\ starts[s] \in Row /\ starts[s].state = "starting"
        /\ \A g \in Handlers : g # h => handler[g].sid # s
    BY <1>12, Driving DEF Fail, At
  <2>2. \A t \in Sids : starts'[t] = IF t = s THEN Failed(starts[s]) ELSE starts[t]
    BY <1>12 DEF Fail, TypeOK
  <2>3. \A t \in Minted : /\ starts'[t] # NoRow /\ starts'[t].key = starts[t].key
                          /\ t # s => starts'[t] = starts[t]
    BY <2>1, <2>2, DecidedRow, NullAssumption DEF Minted
  <2>4. handler'[h].pc = "idle" /\ \A g \in Handlers : g # h => handler'[g] = handler[g]
    BY <1>12 DEF Fail, HangUp, Idle, TypeOK
  <2>5. daemon[s].pc \in {"none", "err"}
    BY <1>12, <2>1, <2>2, DecidedRow DEF Fail, HandlerInv, HandlerOK, At, Minted
  <2>6. answers' = answers \cup {[key |-> starts[s].key, status |-> "failed", sid |-> s]}
    BY <1>12 DEF Fail, Told
  <2>7. \A a \in answers : a.status = "started" => a.sid # s
    BY <2>1 DEF AnswerInv
  <2> SUFFICES ASSUME NEW a \in answers'
               PROVE  /\ a.sid \in Minted' /\ starts'[a.sid].key = a.key
                      /\ a.status = "started" => starts'[a.sid].state = "started"
                      /\ a.status = "failed" =>
                           /\ daemon'[a.sid].pc \in {"none", "err"}
                           /\ \A g \in Handlers : handler'[g].pc = "idle" \/ handler'[g].sid # a.sid
    BY DEF AnswerInv, At
  <2>8. CASE a \in answers
    BY <1>12, <2>3, <2>4, <2>7, <2>8 DEF Fail, DaemonSide, AnswerInv, At, Minted
  <2>9. CASE a = [key |-> starts[s].key, status |-> "failed", sid |-> s]
    BY <1>12, <2>1, <2>3, <2>4, <2>5, <2>9 DEF Fail, DaemonSide, Minted
  <2> QED
    BY <2>6, <2>8, <2>9
<1>13. ASSUME NEW h \in Handlers, FailSwallowed(h) PROVE AnswerInv'
  <2> DEFINE s == handler[h].sid
  <2>1. /\ s \in Minted /\ starts[s] \in Row /\ starts[s].state = "starting"
        /\ \A g \in Handlers : g # h => handler[g].sid # s
    BY <1>13, Driving DEF FailSwallowed, At
  <2>2. \A t \in Sids : starts'[t] = IF t = s THEN starts[s] ELSE starts[t]
    BY <1>13 DEF FailSwallowed, TypeOK
  <2>3. \A t \in Minted : /\ starts'[t] # NoRow /\ starts'[t].key = starts[t].key
                          /\ t # s => starts'[t] = starts[t]
    BY <2>1, <2>2, DecidedRow, NullAssumption DEF Minted
  <2>4. handler'[h].pc = "idle" /\ \A g \in Handlers : g # h => handler'[g] = handler[g]
    BY <1>13 DEF FailSwallowed, HangUp, Idle, TypeOK
  <2>5. daemon[s].pc \in {"none", "err"}
    BY <1>13, <2>1, <2>2, DecidedRow DEF FailSwallowed, HandlerInv, HandlerOK, At, Minted
  <2>6. answers' = answers \cup {[key |-> starts[s].key, status |-> "failed", sid |-> s]}
    BY <1>13 DEF FailSwallowed, Told
  <2>7. \A a \in answers : a.status = "started" => a.sid # s
    BY <2>1 DEF AnswerInv
  <2> SUFFICES ASSUME NEW a \in answers'
               PROVE  /\ a.sid \in Minted' /\ starts'[a.sid].key = a.key
                      /\ a.status = "started" => starts'[a.sid].state = "started"
                      /\ a.status = "failed" =>
                           /\ daemon'[a.sid].pc \in {"none", "err"}
                           /\ \A g \in Handlers : handler'[g].pc = "idle" \/ handler'[g].sid # a.sid
    BY DEF AnswerInv, At
  <2>8. CASE a \in answers
    BY <1>13, <2>3, <2>4, <2>7, <2>8 DEF FailSwallowed, DaemonSide, AnswerInv, At, Minted
  <2>9. CASE a = [key |-> starts[s].key, status |-> "failed", sid |-> s]
    BY <1>13, <2>1, <2>3, <2>4, <2>5, <2>9 DEF FailSwallowed, DaemonSide, Minted
  <2> QED
    BY <2>6, <2>8, <2>9
<1>14. ASSUME RouterCrash PROVE AnswerInv'
  BY <1>14 DEF RouterCrash, DaemonSide, Idle, AnswerInv, At, Minted
<1>15. ASSUME NEW s \in Sids, DaemonReject(s) PROVE AnswerInv'
  BY <1>15 DEF DaemonReject, D, DGoto, TypeOK, RouterSide, AnswerInv, At, Minted
<1>16. ASSUME NEW s \in Sids, TakeOldSession(s) PROVE AnswerInv'
  BY <1>16 DEF TakeOldSession, D, DGoto, TypeOK, RouterSide, AnswerInv, At, Minted
<1>17. ASSUME NEW s \in Sids, StopOldSession(s) PROVE AnswerInv'
  BY <1>17 DEF StopOldSession, D, DGoto, TypeOK, RouterSide, AnswerInv, At, Minted
<1>18. ASSUME NEW s \in Sids, InsertSession(s) PROVE AnswerInv'
  BY <1>18 DEF InsertSession, D, DGoto, TypeOK, RouterSide, AnswerInv, At, Minted
<1>19. ASSUME NEW s \in Sids, CreateSession(s) PROVE AnswerInv'
  BY <1>19 DEF CreateSession, D, DGoto, TypeOK, RouterSide, AnswerInv, At, Minted
<1>20. ASSUME NEW s \in Sids, WriteOwner(s) PROVE AnswerInv'
  BY <1>20 DEF WriteOwner, D, DGoto, TypeOK, RouterSide, AnswerInv, At, Minted
<1>21. ASSUME NEW s \in Sids, Launch(s) PROVE AnswerInv'
  BY <1>21 DEF Launch, D, DGoto, TypeOK, RouterSide, AnswerInv, At, Minted
<1>22. ASSUME NEW s \in Sids, SpawnFails(s) PROVE AnswerInv'
  BY <1>22 DEF SpawnFails, D, DGoto, TypeOK, RouterSide, AnswerInv, At, Minted
<1>23. ASSUME NEW s \in Sids, Rollback(s) PROVE AnswerInv'
  BY <1>23 DEF Rollback, D, DGoto, TypeOK, RouterSide, AnswerInv, At, Minted
<1>24. ASSUME NEW s \in Sids, WorkerExits(s) PROVE AnswerInv'
  BY <1>24 DEF WorkerExits, RouterSide, AnswerInv, At, Minted
<1>25. ASSUME NEW e \in Epochs, DaemonCrash(e) PROVE AnswerInv'
  BY <1>25 DEF DaemonCrash, RouterSide, AnswerInv, At, Minted
<1>26. ASSUME NEW e \in Epochs, Activate(e) PROVE AnswerInv'
  BY <1>26 DEF Activate, RouterSide, AnswerInv, At, Minted
<1>27. CASE UNCHANGED vars
  BY <1>27 DEF vars, AnswerInv, At, Minted
<1> QED
  BY <1>1, <1>2, <1>3, <1>4, <1>5, <1>6, <1>7, <1>8, <1>9, <1>10, <1>11, <1>12, <1>13,
     <1>14, <1>15, <1>16, <1>17, <1>18, <1>19, <1>20, <1>21, <1>22, <1>23, <1>24, <1>25,
     <1>26, <1>27
  DEF Next, Call, HandlerStep, DaemonStep, AllKeys, RestartKeys, Minted

-----------------------------------------------------------------------------
(* The theorems                                                            *)

\* IInv holds in every reachable state, for every value of the constants.
THEOREM Invariance == Spec => []IInv
<1>1. IInv /\ [Next]_vars => IInv'
  BY TypeStep, HandlerInvStep, DaemonInvStep, LedgerInvStep, AnswerInvStep DEF IInv
<1> QED
  BY InitIInv, <1>1, PTL DEF Spec

\* Every variable keeps its type: no handler or request ever reaches a
\* position, and no row a state, that its readers do not know.
THEOREM TypeCorrectness == Spec => []TypeOK
<1>1. IInv => TypeOK
  BY DEF IInv
<1> QED
  BY <1>1, Invariance, PTL

\* A key never gets two workers (StartLedger.reserve, StartPath._replay).
THEOREM StartsOnce == Spec => []OneWorkerPerKey
<1>1. IInv => OneWorkerPerKey
  BY DEF IInv, TypeOK, DaemonInv, LedgerInv, OneWorkerPerKey, Minted
<1> QED
  BY <1>1, Invariance, PTL

\* A start that is recorded or was reported as failed has no worker running
\* and no session row (StartLedger.fail, Store.create_session, _spawn).
THEOREM FailureIsTrue ==
  Spec => [](FailedHasNoWorker /\ FailedHasNoSession /\ FailedAnswerHasNoWorker)
<1>1. IInv => FailedHasNoWorker
  BY DEF IInv, TypeOK, DaemonInv, LedgerInv, FailedHasNoWorker, Minted
<1>2. IInv => FailedHasNoSession
  BY DEF IInv, LedgerInv, FailedHasNoSession
<1>3. IInv => FailedAnswerHasNoWorker
  BY DEF IInv, TypeOK, DaemonInv, AnswerInv, FailedAnswerHasNoWorker, Minted
<1> QED
  BY <1>1, <1>2, <1>3, Invariance, PTL

\* A caller that was told "started" has a worker that was launched and a
\* session row (StartLedger.commit, StartPath._replay).
THEOREM StartedIsBacked == Spec => []StartedAnswerIsBacked
<1>1. IInv => StartedAnswerIsBacked
  BY DEF IInv, LedgerInv, DaemonInv, AnswerInv, StartedAnswerIsBacked, Minted
<1> QED
  BY <1>1, Invariance, PTL

\* Callers of one key are told one story (StartLedger.reserve,
\* StartPath._replay).
THEOREM AnswersAreTrue == Spec => []AnswersAgree
<1>1. IInv => AnswersAgree
  <2> SUFFICES ASSUME IInv, NEW a \in answers, NEW b \in answers, a.key = b.key
               PROVE  a.sid = b.sid /\ ~(a.status = "started" /\ b.status = "failed")
    BY DEF AnswersAgree
  <2>1. a.sid \in Minted /\ b.sid \in Minted /\ a.sid = b.sid
    BY DEF IInv, AnswerInv, LedgerInv
  <2>2. a.status = "started" => daemon[a.sid].pc = "ok"
    BY <2>1 DEF IInv, AnswerInv, LedgerInv
  <2>3. b.status = "failed" => daemon[b.sid].pc # "ok"
    BY <2>1 DEF IInv, AnswerInv
  <2> QED
    BY <2>1, <2>2, <2>3
<1> QED
  BY <1>1, Invariance, PTL

\* What a step does to the ledger: nothing, or one of its four transactions on
\* the row of a thread.
LEMMA LedgerSteps ==
  ASSUME IInv, [Next]_vars, NEW s \in Sids, starts'[s] # starts[s]
  PROVE  \/ /\ starts[s] = NoRow
            /\ \E h \in Handlers, k \in AllKeys : \E fp \in Fingerprint(k) :
                 ReserveFresh(h, k, fp) /\ starts'[s] = NewRow(k, fp)
         \/ \E h \in Handlers : AssignGeneration(h) /\ s = handler[h].sid
         \/ \E h \in Handlers : Commit(h) /\ s = handler[h].sid
         \/ \E h \in Handlers : Fail(h) /\ s = handler[h].sid
<1>1. ASSUME NEW h \in Handlers, NEW k \in AllKeys, NEW fp \in Fingerprint(k), ReserveFresh(h, k, fp)
      PROVE  starts[s] = NoRow /\ starts'[s] = NewRow(k, fp)
  BY <1>1 DEF ReserveFresh, IInv, TypeOK, Minted
<1>2. ASSUME NEW h \in Handlers, AssignGeneration(h) \/ Commit(h) \/ Fail(h)
      PROVE  s = handler[h].sid
  BY <1>2 DEF AssignGeneration, Commit, Fail, IInv, TypeOK
<1>3. ASSUME NEW h \in Handlers,
             \/ PickGeneration(h) \/ AssignFails(h) \/ Forward(h) \/ ForwardConnectError(h)
             \/ ForwardResponseError(h) \/ ReplyArrives(h) \/ CommitFails(h) \/ FailSwallowed(h)
      PROVE  FALSE
  BY <1>3 DEF PickGeneration, AssignFails, Forward, ForwardConnectError, ForwardResponseError,
              ReplyArrives, CommitFails, FailSwallowed
<1>4. ASSUME NEW h \in Handlers, NEW k \in AllKeys, NEW fp \in Fingerprint(k), ReserveReplay(h, k, fp)
      PROVE  FALSE
  BY <1>4 DEF ReserveReplay
<1>5. ASSUME NEW t \in Sids, DaemonStep(t) \/ WorkerExits(t) PROVE FALSE
  BY <1>5 DEF DaemonStep, DaemonReject, TakeOldSession, StopOldSession, InsertSession,
              CreateSession, WriteOwner, Launch, SpawnFails, Rollback, WorkerExits, RouterSide
<1>6. ASSUME RouterCrash \/ UNCHANGED vars \/ \E e \in Epochs : DaemonCrash(e) \/ Activate(e)
      PROVE  FALSE
  BY <1>6 DEF RouterCrash, DaemonCrash, Activate, RouterSide, vars
<1> QED
  BY <1>1, <1>2, <1>3, <1>4, <1>5, <1>6
  DEF Next, Call, HandlerStep, AllKeys, RestartKeys, Minted

\* A row stays, keeps its key and request, its epoch once assigned and its
\* verdict once given (StartLedger).
THEOREM RowsAreStable == Spec => RowsOnlyAdvance
<1> DEFINE Stable(s) ==
       starts[s] # NoRow =>
         /\ starts'[s] # NoRow
         /\ starts'[s].key = starts[s].key /\ starts'[s].fp = starts[s].fp
         /\ starts[s].epoch # NoEpoch => starts'[s].epoch = starts[s].epoch
         /\ starts[s].state # "starting" => starts'[s].state = starts[s].state
<1>1. ASSUME IInv, [Next]_vars, NEW s \in Sids PROVE Stable(s)
  <2> SUFFICES ASSUME starts[s] # NoRow, starts'[s] # starts[s] PROVE Stable(s)
    OBVIOUS
  <2>1. starts[s] \in Row
    BY <1>1 DEF IInv, TypeOK
  <2>2. ASSUME NEW h \in Handlers, AssignGeneration(h), s = handler[h].sid PROVE Stable(s)
    <3>1. handler[h].epoch \in Epochs /\ starts[s].epoch = NoEpoch
      BY <1>1, <2>2 DEF AssignGeneration, At, IInv, HandlerInv, HandlerOK
    <3>2. starts'[s] = Assigned(starts[s], handler[h].epoch)
      BY <1>1, <2>2 DEF AssignGeneration, IInv, TypeOK
    <3> QED
      BY <2>1, <3>1, <3>2, AssignedRow, NullAssumption
  <2>3. ASSUME NEW h \in Handlers, Commit(h) \/ Fail(h), s = handler[h].sid PROVE Stable(s)
    <3>1. starts[s].state = "starting"
      BY <1>1, <2>3 DEF Commit, Fail, At, IInv, HandlerInv, HandlerOK
    <3>2. starts'[s] \in {Committed(starts[s]), Failed(starts[s])}
      BY <1>1, <2>3 DEF Commit, Fail, IInv, TypeOK
    <3> QED
      BY <2>1, <3>1, <3>2, DecidedRow, NullAssumption
  <2> QED
    BY <1>1, <2>2, <2>3, LedgerSteps
<1>2. IInv /\ [Next]_vars => [\A s \in Sids : Stable(s)]_vars
  BY <1>1
<1> QED
  BY <1>2, Invariance, PTL DEF Spec, RowsOnlyAdvance

-----------------------------------------------------------------------------
(* StartPath implements StartOnce                                          *)

\* The initial states are initial states of StartOnce.
LEMMA AbstractInit == Init => Abstract!Init
  BY DEF Init, Abstract!Init, KeyOf, Outcome

\* What StartOnce sees of a step that writes one row.
LEMMA AbstractRow ==
  ASSUME NEW s \in Sids, starts'[s] \in Row, \A t \in Sids : t # s => starts'[t] = starts[t]
  PROVE  /\ KeyOf' = [KeyOf EXCEPT ![s] = starts'[s].key]
         /\ Outcome' = [Outcome EXCEPT ![s] = IF starts'[s].state = "starting" THEN "pending"
                                              ELSE starts'[s].state]
<1>1. starts'[s] # NoRow
  BY NullAssumption
<1>2. KeyOf' = [KeyOf EXCEPT ![s] = starts'[s].key]
  BY <1>1 DEF KeyOf
<1>3. Outcome' = [Outcome EXCEPT ![s] = IF starts'[s].state = "starting" THEN "pending"
                                        ELSE starts'[s].state]
  BY <1>1 DEF Outcome
<1> QED
  BY <1>2, <1>3

\* A step that changes the ledger is a step of StartOnce, or one that
\* StartOnce does not see (the assignment of an epoch).
LEMMA AbstractLedgerStep ==
  ASSUME IInv, [Next]_vars, starts' # starts, IInv'
  PROVE  [Abstract!Next]_<<KeyOf, Outcome, worker>>
<1>1. PICK s \in Sids : starts'[s] # starts[s]
  BY DEF IInv, TypeOK
<1>2. ASSUME NEW h \in Handlers, NEW k \in AllKeys, NEW fp \in Fingerprint(k),
             ReserveFresh(h, k, fp), starts[s] = NoRow, starts'[s] = NewRow(k, fp)
      PROVE  Abstract!Claim(s, k)
  <2>1. worker' = worker /\ \A t \in Sids : t # s => starts'[t] = starts[t]
    BY <1>1, <1>2 DEF ReserveFresh, DaemonSide, IInv, TypeOK
  <2>2. \A t \in Sids : KeyOf[t] # k
    BY <1>2, NullAssumption DEF ReserveFresh, Holders, KeyOf, Minted
  <2>3. KeyOf' = [KeyOf EXCEPT ![s] = k] /\ Outcome' = [Outcome EXCEPT ![s] = "pending"]
    BY <1>2, <2>1, NewRowIsRow, AbstractRow
  <2> QED
    BY <1>2, <2>1, <2>2, <2>3 DEF Abstract!Claim, Outcome
<1>3. ASSUME NEW h \in Handlers, AssignGeneration(h), s = handler[h].sid
      PROVE  UNCHANGED <<KeyOf, Outcome, worker>>
  <2>1. worker' = worker /\ \A t \in Sids : t # s => starts'[t] = starts[t]
    BY <1>3 DEF AssignGeneration, DaemonSide, IInv, TypeOK
  <2>2. starts[s] \in Row /\ handler[h].epoch \in Epochs
    BY <1>3, Driving DEF AssignGeneration, At, IInv, HandlerInv, HandlerOK
  <2>3. starts'[s] = Assigned(starts[s], handler[h].epoch)
    BY <1>3 DEF AssignGeneration, IInv, TypeOK
  <2> QED
    BY <2>1, <2>2, <2>3, AssignedRow, NullAssumption DEF KeyOf, Outcome
<1>4. ASSUME NEW h \in Handlers, Commit(h), s = handler[h].sid PROVE Abstract!Succeed(s)
  <2>1. worker' = worker /\ \A t \in Sids : t # s => starts'[t] = starts[t]
    BY <1>4 DEF Commit, DaemonSide, IInv, TypeOK
  <2>2. starts[s] \in Row /\ starts[s].state = "starting" /\ worker[s] # "none"
    BY <1>4, Driving DEF Commit, At, IInv, HandlerInv, HandlerOK, DaemonInv
  <2>3. starts'[s] = Committed(starts[s])
    BY <1>4 DEF Commit, IInv, TypeOK
  <2>4. KeyOf' = KeyOf /\ Outcome' = [Outcome EXCEPT ![s] = "started"]
    <3>1. starts'[s] \in Row /\ starts'[s].key = starts[s].key /\ starts'[s].state = "started"
      BY <2>2, <2>3, DecidedRow
    <3>2. KeyOf[s] = starts[s].key /\ KeyOf = [t \in Sids |-> KeyOf[t]]
      BY <2>2, NullAssumption DEF KeyOf
    <3> QED
      BY <2>1, <3>1, <3>2, AbstractRow
  <2> QED
    BY <2>1, <2>2, <2>4, NullAssumption DEF Abstract!Succeed, Outcome
<1>5. ASSUME NEW h \in Handlers, Fail(h), s = handler[h].sid PROVE Abstract!Fail(s)
  <2>1. worker' = worker /\ \A t \in Sids : t # s => starts'[t] = starts[t]
    BY <1>5 DEF Fail, DaemonSide, IInv, TypeOK
  <2>2. starts[s] \in Row /\ starts[s].state = "starting"
    BY <1>5, Driving DEF Fail, At, IInv
  <2>3. starts'[s] = Failed(starts[s])
    BY <1>5 DEF Fail, IInv, TypeOK
  <2>4. worker[s] # "running"
    BY <1>5 DEF Fail, At, IInv, HandlerInv, HandlerOK, DaemonInv
  <2>5. KeyOf' = KeyOf /\ Outcome' = [Outcome EXCEPT ![s] = "failed"]
    <3>1. starts'[s] \in Row /\ starts'[s].key = starts[s].key /\ starts'[s].state = "failed"
      BY <2>2, <2>3, DecidedRow
    <3>2. KeyOf[s] = starts[s].key /\ KeyOf = [t \in Sids |-> KeyOf[t]]
      BY <2>2, NullAssumption DEF KeyOf
    <3> QED
      BY <2>1, <3>1, <3>2, AbstractRow
  <2> QED
    BY <2>1, <2>2, <2>4, <2>5, NullAssumption DEF Abstract!Fail, Outcome
<1> QED
  BY <1>1, <1>2, <1>3, <1>4, <1>5, LedgerSteps DEF Abstract!Next

\* A step that leaves the ledger alone starts a worker, ends some, or is one
\* that StartOnce does not see.
LEMMA AbstractWorkerStep ==
  ASSUME IInv, [Next]_vars, starts' = starts
  PROVE  [Abstract!Next]_<<KeyOf, Outcome, worker>>
<1>1. KeyOf' = KeyOf /\ Outcome' = Outcome
  BY DEF KeyOf, Outcome
<1>2. ASSUME NEW s \in Sids, daemon[s].pc = "owned" PROVE Outcome[s] = "pending" /\ worker[s] = "none"
  BY <1>2 DEF IInv, TypeOK, Row, DaemonInv, LedgerInv, Outcome, Minted
<1>3. ASSUME NEW s \in Sids, Launch(s) PROVE Abstract!Run(s, "running")
  BY <1>1, <1>2, <1>3 DEF Launch, D, Abstract!Run
<1>4. ASSUME NEW s \in Sids, SpawnFails(s), worker' # worker PROVE Abstract!Run(s, "over")
  BY <1>1, <1>2, <1>4 DEF SpawnFails, TornDown, D, Abstract!Run
<1>5. ASSUME NEW s \in Sids, StopOldSession(s), worker' # worker PROVE Abstract!Over({Old(s)})
  <2>1. worker' = [worker EXCEPT ![Old(s)] = Ended(worker[Old(s)])]
    BY <1>5 DEF StopOldSession
  <2>2. Old(s) \in Sids /\ worker[Old(s)] = "running"
    BY <1>5, <2>1 DEF Ended, IInv, TypeOK
  <2> QED
    BY <1>1, <2>1, <2>2 DEF Ended, IInv, TypeOK, Abstract!Over
<1>6. ASSUME NEW s \in Sids, WorkerExits(s) PROVE Abstract!Over({s})
  BY <1>1, <1>6 DEF WorkerExits, IInv, TypeOK, Abstract!Over
<1>7. ASSUME NEW e \in Epochs, DaemonCrash(e) PROVE \E S \in SUBSET Sids : Abstract!Over(S)
  <2>1. PICK dead \in SUBSET {s \in Sids : daemon[s].epoch = e /\ worker[s] = "running"} :
          worker' = [s \in Sids |-> IF s \in dead THEN "over" ELSE worker[s]]
    BY <1>7 DEF DaemonCrash
  <2> QED
    BY <1>1, <2>1 DEF Abstract!Over
<1>8. ASSUME worker' # worker
      PROVE  \/ \E s \in Sids : Launch(s) \/ SpawnFails(s) \/ StopOldSession(s) \/ WorkerExits(s)
             \/ \E e \in Epochs : DaemonCrash(e)
  <2>1. ASSUME NEW h \in Handlers, Call(h) \/ HandlerStep(h) PROVE FALSE
    BY <1>8, <2>1 DEF Call, HandlerStep, ReserveFresh, ReserveReplay, PickGeneration,
       AssignGeneration, AssignFails, Forward, ForwardConnectError, ForwardResponseError,
       ReplyArrives, Commit, CommitFails, Fail, FailSwallowed, DaemonSide
  <2>2. ASSUME NEW s \in Sids, \/ DaemonReject(s) \/ TakeOldSession(s) \/ InsertSession(s)
                               \/ CreateSession(s) \/ WriteOwner(s) \/ Rollback(s)
        PROVE  FALSE
    BY <1>8, <2>2 DEF DaemonReject, TakeOldSession, InsertSession, CreateSession, WriteOwner, Rollback
  <2>3. ASSUME RouterCrash \/ UNCHANGED vars \/ \E e \in Epochs : Activate(e) PROVE FALSE
    BY <1>8, <2>3 DEF RouterCrash, Activate, DaemonSide, vars
  <2> QED
    BY <2>1, <2>2, <2>3 DEF Next, DaemonStep
<1>9. ASSUME worker' # worker
      PROVE  \/ \E s \in Sids : Abstract!Run(s, "running") \/ Abstract!Run(s, "over")
             \/ \E S \in SUBSET Sids : Abstract!Over(S)
  <2>1. ASSUME NEW s \in Sids, StopOldSession(s) PROVE \E S \in SUBSET Sids : Abstract!Over(S)
    <3>1. Old(s) \in Sids
      BY <1>9, <2>1 DEF StopOldSession, IInv, TypeOK
    <3> QED
      BY <1>5, <1>9, <2>1, <3>1
  <2>2. ASSUME NEW s \in Sids, WorkerExits(s) PROVE \E S \in SUBSET Sids : Abstract!Over(S)
    BY <1>6, <2>2
  <2> QED
    BY <1>3, <1>4, <1>7, <1>8, <1>9, <2>1, <2>2
<1> QED
  BY <1>1, <1>9 DEF Abstract!Next

\* The start path implements StartOnce, with faults, restarts and retries.
THEOREM Implementation == Spec => ImplementsStartOnce
<1>1. IInv /\ IInv' /\ [Next]_vars => [Abstract!Next]_<<KeyOf, Outcome, worker>>
  BY AbstractLedgerStep, AbstractWorkerStep
<1> QED
  BY <1>1, AbstractInit, Invariance, PTL DEF Spec, ImplementsStartOnce, Abstract!Spec, Abstract!vars
=============================================================================
