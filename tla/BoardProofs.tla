---------------------------- MODULE BoardProofs ----------------------------
(***************************************************************************)
(* Proofs about Board, for any number of sessions, daemons, events and     *)
(* faults: nothing happens behind the back of a client that follows its    *)
(* cursor, and an end that is told of has its result in the store.         *)
(***************************************************************************)
EXTENDS Board, EventRingProofs

-----------------------------------------------------------------------------
(* What the operations of the ring do, as far as a cursor can tell         *)

PollType == [st : {"none", "awake", "asleep", "late"}, scope : SUBSET Sessions, after : Nat]

\* The thread of the wait may be woken, and looks for the same.
PollKept == poll'.scope = poll.scope /\ poll'.after = poll.after
            /\ (poll'.st = "none" <=> poll.st = "none")

\* One more event of s; whatever it evicts is marked.
Added(s, last) ==
  LET e == Len(log) + 1 IN
  /\ log' \in Seq(Event) /\ Len(log') = e /\ e <= MaxSeq
  /\ DOMAIN log' = DOMAIN log \cup {e} /\ e \notin DOMAIN log
  /\ \A n \in DOMAIN log : log'[n] = log[n]
  /\ log'[e].sid = s /\ log'[e].last = last /\ ~log'[e].gone
  /\ kept' \subseteq kept \cup {e}
  /\ high' \in [Sessions -> Nat]
  /\ \A s2 \in Sessions : high[s2] <= high'[s2]
  /\ \A n \in (kept \cup {e}) \ kept' : n <= high'[log'[n].sid]
  /\ cached' \subseteq Sessions
  /\ poll' \in PollType /\ PollKept

\* The marks after an eviction are above those before and above what was lost.
LEMMA HighCovers ==
  ASSUME RingTypeOK, NEW lg \in Seq(Event), NEW lost \in SUBSET DOMAIN lg
  PROVE  /\ \A s \in Sessions : high[s] <= HighAfter(lg, lost)[s]
         /\ \A n \in lost : n <= HighAfter(lg, lost)[lg[n].sid]
<1>1. ASSUME NEW s \in Sessions
      PROVE  \A n \in {high[s]} \cup {m \in lost : lg[m].sid = s} :
               n <= Max({high[s]} \cup {m \in lost : lg[m].sid = s})
  <2> DEFINE S == {high[s]} \cup {m \in lost : lg[m].sid = s}
             b == high[s] + Len(lg)
  <2>1. high[s] \in Nat /\ Len(lg) \in Nat /\ lost \subseteq 1..Len(lg)
    BY LogShape DEF RingTypeOK
  <2>2. S \subseteq Nat /\ S # {} /\ b \in Nat /\ \A n \in S : n <= b
    BY <2>1
  <2> HIDE DEF S, b
  <2>3. \A n \in S : n <= Max(S)
    BY <2>2, MaxIsGreatest
  <2> QED
    BY <2>3 DEF S
<1>2. \A n \in lost : lg[n].sid \in Sessions
  <2>1. \A n \in DOMAIN lg : lg[n] \in Event
    BY LogShape
  <2> QED
    BY <2>1 DEF Event
<1> QED
  BY <1>1, <1>2 DEF HighAfter

\* publish of a note or of an end.
LEMMA AddedShape ==
  ASSUME RingTypeOK, NEW s \in Sessions, NEW last \in BOOLEAN, Publish(s, 0, FALSE, last, 0)
  PROVE  Added(s, last)
<1>1. PICK o \in {OwnerOf[s]} \cup IF s \in Unreadable \ cached THEN {NoOwner} ELSE {} :
        /\ Put(s, o, 0, FALSE, last, 0)
        /\ cached' = IF o = NoOwner THEN cached ELSE cached \cup {s}
  BY DEF Publish
<1>2. o \in Owners \cup {NoOwner} /\ cached' \subseteq Sessions
  BY <1>1, RingAssumption DEF RingTypeOK
<1> DEFINE e   == Len(log) + 1
           r   == [sid |-> s, owner |-> o, dec |-> 0, open |-> FALSE, last |-> last,
                   gone |-> FALSE]
           lg0 == Append(log, r)
           lg1 == Resolve(lg0, 0)
           k2  == Evict(lg1, kept \cup {e})
<1>3. /\ log' = lg1 /\ kept' = k2 /\ high' = HighAfter(lg1, (kept \cup {e}) \ k2) /\ NotifyAll
      /\ e <= MaxSeq
  BY <1>1 DEF Put
<1>4. log \in Seq(Event) /\ kept \subseteq DOMAIN log
  BY DEF RingTypeOK
<1>5. Len(log) \in Nat /\ DOMAIN log = 1..Len(log) /\ e \in Nat /\ e \notin DOMAIN log
  BY <1>4, LogShape
<1>6. r \in Event /\ r.sid = s /\ r.last = last /\ ~r.gone
  BY <1>2 DEF Event
<1> HIDE DEF r
<1>7. /\ lg0 \in Seq(Event) /\ Len(lg0) = e /\ DOMAIN lg0 = DOMAIN log \cup {e} /\ lg0[e] = r
      /\ \A n \in DOMAIN log : lg0[n] = log[n]
  <2>1. lg0 \in Seq(Event) /\ Len(lg0) = e
    BY <1>4, <1>5, <1>6
  <2>2. DOMAIN lg0 = 1..e
    BY <2>1, LogShape
  <2> QED
    BY <1>4, <1>5, <1>6, <2>1, <2>2
<1> HIDE DEF e, lg0
<1>8. /\ lg1 \in Seq(Event) /\ DOMAIN lg1 = DOMAIN lg0 /\ Len(lg1) = Len(lg0)
      /\ \A n \in DOMAIN lg0 : lg1[n] = lg0[n]
  BY <1>7, ResolveShape
<1> HIDE DEF lg1
<1>9. kept \cup {e} \in SUBSET DOMAIN lg1
  BY <1>4, <1>7, <1>8
<1>10. k2 \subseteq kept \cup {e}
  BY <1>8, <1>9, EvictShape
<1> HIDE DEF k2
<1>11. (kept \cup {e}) \ k2 \in SUBSET DOMAIN lg1
  BY <1>9
<1>12. /\ high' \in [Sessions -> Nat]
       /\ \A s2 \in Sessions : high[s2] <= high'[s2]
       /\ \A n \in (kept \cup {e}) \ kept' : n <= high'[log'[n].sid]
  BY <1>3, <1>8, <1>11, HighShape, HighCovers
<1>13. poll' \in PollType /\ PollKept
  BY <1>3 DEF NotifyAll, PollType, PollKept, RingTypeOK
<1> QED
  BY <1>2, <1>3, <1>5, <1>6, <1>7, <1>8, <1>10, <1>12, <1>13 DEF e, Added

\* Sessions are forgotten: their events go, and no other session loses one.
Forgotten(S) ==
  /\ log' \in Seq(Event) /\ DOMAIN log' = DOMAIN log /\ Len(log') = Len(log)
  /\ \A n \in DOMAIN log : /\ log'[n].sid = log[n].sid /\ log'[n].last = log[n].last
                           /\ log'[n].gone <=> log[n].gone \/ log[n].sid \in S
  /\ kept' = {n \in kept : log[n].sid \notin S}
  /\ high' \in [Sessions -> Nat] /\ \A s \in Sessions \ S : high'[s] = high[s]
  /\ cached' \subseteq Sessions
  /\ decision' \in [Sessions -> Nat]
  /\ poll' \in PollType /\ PollKept

\* forget_session for each of them.
LEMMA ForgottenShape ==
  ASSUME RingTypeOK, NEW S \in SUBSET Sessions, Forget(S)
  PROVE  Forgotten(S)
<1>1. /\ log \in Seq(Event) /\ kept \in SUBSET DOMAIN log
      /\ decision \in [Sessions -> Nat] /\ high \in [Sessions -> Nat] /\ cached \subseteq Sessions
  BY DEF RingTypeOK
<1>2. Len(log) \in Nat /\ DOMAIN log = 1..Len(log) /\ \A n \in DOMAIN log : log[n] \in Event
  BY <1>1, LogShape
<1>3. /\ kept' = {n \in kept : log[n].sid \notin S}
      /\ high' = [s \in Sessions |-> IF s \in S THEN 0 ELSE high[s]]
      /\ decision' = [s \in Sessions |-> IF s \in S THEN 0 ELSE decision[s]]
      /\ cached' = cached \ S
      /\ log' = [n \in DOMAIN log |-> IF log[n].sid \in S THEN [log[n] EXCEPT !.gone = TRUE]
                                      ELSE log[n]]
      /\ IF S = {} THEN poll' = poll ELSE NotifyAll
  BY DEF Forget
<1>4. ASSUME NEW n \in DOMAIN log
      PROVE  /\ log'[n] \in Event /\ log'[n].sid = log[n].sid /\ log'[n].last = log[n].last
             /\ log'[n].gone <=> log[n].gone \/ log[n].sid \in S
  <2>1. CASE log[n].sid \in S
    <3>1. log'[n] = [log[n] EXCEPT !.gone = TRUE] /\ log[n] \in Event
      BY <1>2, <1>3, <2>1
    <3> QED
      BY <2>1, <3>1 DEF Event
  <2>2. CASE log[n].sid \notin S
    BY <1>2, <1>3, <2>2
  <2> QED
    BY <2>1, <2>2
<1>5. log' \in Seq(Event) /\ DOMAIN log' = DOMAIN log /\ Len(log') = Len(log)
  <2>1. log' \in [1..Len(log) -> Event]
    BY <1>2, <1>3, <1>4
  <2> QED
    BY <1>2, <2>1
<1>6. poll' \in PollType /\ PollKept
  BY <1>3 DEF NotifyAll, PollType, PollKept, RingTypeOK
<1>7. /\ high' \in [Sessions -> Nat] /\ \A s \in Sessions \ S : high'[s] = high[s]
      /\ decision' \in [Sessions -> Nat] /\ cached' \subseteq Sessions
  BY <1>1, <1>3
<1> QED
  BY <1>3, <1>4, <1>5, <1>6, <1>7 DEF Forgotten

-----------------------------------------------------------------------------
(* The inductive invariant                                                 *)

WaitPcs  == {"active", "now", "start", "loop", "again", "forward", "daemon"}
PlacedPcs == {"start", "loop", "again", "forward", "daemon"}

ClientType ==
  [pc : Pcs, gen : 0..MaxEpochs, dirty : BOOLEAN, whole : BOOLEAN,
   cur : Cursor, new : Cursor, scope : SUBSET Mine, snap : SUBSET (1..MaxSeq),
   seen : SUBSET (1..MaxSeq), passed : SUBSET (1..MaxSeq), view : SUBSET Mine]

\* Whatever was evicted is behind the mark of its session.
Marked == \A n \in DOMAIN log \ kept : ~log[n].gone => n <= high[log[n].sid]

\* Only a session that started has events.
Spoken == \A n \in DOMAIN log : life[log[n].sid] # "new"

\* The result is in the store before the end is told.
Backed ==
  /\ \A n \in DOMAIN log : log[n].last => log[n].sid \in Mine /\ rows[log[n].sid] # "none"
  /\ \A s \in Mine : life[s] = "ending" => rows[s] # "none"

\* Up to position p the client knows all of its sessions' events, or has them
\* in x, or went past them.
Past(p, x) ==
  p.epoch = daemon.epoch =>
    /\ p.seq <= Len(log)
    /\ \A n \in DOMAIN log : n <= p.seq /\ log[n].sid \in Mine /\ ~log[n].gone
                             => n \in client.seen \cup client.passed \cup x

\* Nothing tells the client to read the board again.
Trusted == Decodes(client.cur) /\ ~client.dirty

\* The positions of the client are of daemons that were spawned.
OldEpochs ==
  /\ client.gen <= daemon.epoch /\ router.active <= daemon.epoch
  /\ client.cur.pos.epoch <= daemon.epoch /\ client.new.pos.epoch <= daemon.epoch

\* What the position of the client's request is worth.
NewKnown ==
  /\ client.pc \in WaitPcs /\ Trusted => Past(client.new.pos, {})
  /\ client.pc = "archive" => Past(client.new.pos, client.snap)
  /\ client.pc = "snapshot" /\ client.new.pos.epoch = daemon.epoch
       => client.new.pos.seq <= Len(log)
  /\ client.pc \in {"idle", "topology", "status"} => client.new.pos = NoPos

\* And that of its cursor.
Known == (Trusted => Past(client.cur.pos, {})) /\ NewKnown

\* A wait that has a position has it for the generation it asks.
Placed == client.pc \in PlacedPcs => client.new.pos.epoch = client.gen

\* The daemon's thread looks for what the router asked.
Armed ==
  client.pc = "daemon" /\ poll.st # "none"
  => poll.scope = client.scope /\ poll.after = client.new.pos.seq

\* The archive's position goes with what the client has seen of the archive.
Fresh ==
  ~client.dirty =>
    /\ client.cur.arch.set /\ client.cur.arch.seq <= boardSeq
    /\ client.cur.arch.seq = boardSeq => client.view = OnBoard
    /\ client.pc \in WaitPcs => client.new.arch = client.cur.arch

RingPart   == RingTypeOK /\ Len(log) <= MaxSeq /\ Marked
ResultPart == /\ rows \in [Mine -> {"none", "on", "acked", "expired"}]
              /\ life \in [Sessions -> {"new", "live", "ending", "ended", "forgotten", "lost"}]
              /\ Spoken /\ Backed
RestPart   == /\ boardSeq \in Nat /\ faults \in 0..MaxFaults
              /\ daemon \in [epoch : 0..MaxEpochs, up : BOOLEAN]
              /\ router \in [epoch : Nat, topo : Nat, active : 0..MaxEpochs]
ClientPart == client \in ClientType /\ OldEpochs /\ Known /\ Placed /\ Armed /\ Fresh

\* The router only goes on.
Ordered(c) == c.re <= router.epoch /\ (c.re = router.epoch => c.topo <= router.topo)

\* A cursor of this topology without a position: no daemon, or a split board.
Unsplit(c) == Decodes(c) /\ c.pos.epoch = 0 => c.split \/ router.active = 0

\* Why a cursor that is trusted has a position, but for a split board: it is
\* what the wait needs that starts from now.
CursorPart ==
  /\ Ordered(client.cur) /\ Ordered(client.new)
  /\ ~client.dirty => Unsplit(client.cur)
  /\ client.pc = "archive" /\ client.whole => Unsplit(client.new)
  /\ client.pc \in {"status", "snapshot"} => client.gen # 0
  /\ client.pc = "snapshot" => client.new.pos.epoch = client.gen
  /\ client.pc \in WaitPcs => /\ client.new.re = client.cur.re
                              /\ client.new.topo = client.cur.topo
                              /\ client.new.split = client.cur.split
  /\ client.pc \in {"active", "now"} => client.new.pos = client.cur.pos
  /\ client.pc \in PlacedPcs \cup {"now"} => client.gen = router.active /\ client.gen # 0
  /\ client.pc = "now" => client.new.pos.epoch = 0
  /\ daemon.up => daemon.epoch # 0

\* What the steps keep of the ring, the results and the client's knowledge,
\* and the inductive invariant.
BInv == RingPart /\ ResultPart /\ RestPart /\ ClientPart

-----------------------------------------------------------------------------
(* How positions and cursors survive                                       *)

\* The log goes on: nothing that the ring had forgotten comes back.
LogKept ==
  /\ log' \in Seq(Event) /\ DOMAIN log \subseteq DOMAIN log' /\ Len(log) <= Len(log')
  /\ \A n \in DOMAIN log : log'[n].sid = log[n].sid /\ (log[n].gone => log'[n].gone)
  /\ \A n \in DOMAIN log' \ DOMAIN log : n > Len(log)

\* Publishing, forgetting and leaving it alone are such steps.
LEMMA LogGoesOn ==
  ASSUME RingTypeOK,
         \/ \E s \in Sessions, last \in BOOLEAN : Added(s, last)
         \/ \E S \in SUBSET Sessions : Forgotten(S)
         \/ UNCHANGED log
  PROVE  LogKept
<1>1. log \in Seq(Event) /\ Len(log) \in Nat /\ DOMAIN log = 1..Len(log)
  BY LogShape DEF RingTypeOK
<1>2. CASE \E s \in Sessions, last \in BOOLEAN : Added(s, last)
  BY <1>1, <1>2 DEF Added, LogKept
<1>3. CASE \E S \in SUBSET Sessions : Forgotten(S)
  BY <1>1, <1>3 DEF Forgotten, LogKept
<1>4. CASE UNCHANGED log
  BY <1>1, <1>4 DEF LogKept
<1> QED
  BY <1>2, <1>3, <1>4

\* A position stays known while the log goes on.
LEMMA PastStays ==
  ASSUME RingTypeOK, LogKept, daemon'.epoch = daemon.epoch,
         NEW p, NEW x, NEW y, Past(p, x), p.epoch = daemon.epoch => p.seq \in Nat,
         client.seen \cup client.passed \cup x \subseteq client'.seen \cup client'.passed \cup y
  PROVE  Past(p, y)'
<1>1. Len(log) \in Nat /\ DOMAIN log = 1..Len(log) /\ Len(log') \in Nat /\ DOMAIN log' = 1..Len(log')
  BY LogShape DEF RingTypeOK, LogKept
<1>2. SUFFICES ASSUME p.epoch = daemon.epoch
               PROVE  /\ p.seq <= Len(log')
                      /\ \A n \in DOMAIN log' :
                           n <= p.seq /\ log'[n].sid \in Mine /\ ~log'[n].gone
                           => n \in client'.seen \cup client'.passed \cup y
  BY DEF Past, Mine
<1>3. p.seq <= Len(log')
  BY <1>1, <1>2 DEF Past, LogKept
<1>4. ASSUME NEW n \in DOMAIN log', n <= p.seq, log'[n].sid \in Mine, ~log'[n].gone
      PROVE  n \in client'.seen \cup client'.passed \cup y
  <2>1. n \in DOMAIN log
    BY <1>1, <1>2, <1>4 DEF Past, LogKept
  <2>2. log[n].sid \in Mine /\ ~log[n].gone
    BY <1>4, <2>1 DEF LogKept
  <2> QED
    BY <1>2, <1>4, <2>1, <2>2 DEF Past
<1> QED
  BY <1>3, <1>4

\* The client's own cursor stays worth what it was.
LEMMA CurStays ==
  ASSUME RingTypeOK, client \in ClientType, LogKept, daemon'.epoch = daemon.epoch,
         Past(client.cur.pos, {}), client'.cur.pos = client.cur.pos,
         client.seen \subseteq client'.seen, client.passed \subseteq client'.passed
  PROVE  Past(client.cur.pos, {})'
<1>1. PICK p : p = client.cur.pos
  OBVIOUS
<1>2. p.seq \in Nat
  BY <1>1 DEF ClientType, Cursor
<1>3. Past(p, {})'
  BY <1>1, <1>2, PastStays
<1> QED
  BY <1>1, <1>3 DEF Past

\* A step of the world: the client is not concerned, and its daemon stays.
LEMMA WorldKeepsClient ==
  ASSUME RingPart, ClientPart, RestPart, LogKept, UNCHANGED <<client, router>>,
         daemon'.epoch = daemon.epoch,
         PollKept \/ poll'.st = "none",
         \/ UNCHANGED <<rows, boardSeq>>
         \/ boardSeq' = boardSeq + 1
  PROVE  ClientPart'
<1>1. client \in ClientType /\ RingTypeOK
  BY DEF ClientPart, RingPart
<1>2. OldEpochs' /\ Placed' /\ (client \in ClientType)'
  BY DEF ClientPart, OldEpochs, Placed, ClientType, Mine
<1>3. Armed'
  BY DEF ClientPart, Armed, PollKept
<1>4. Fresh'
  <2>1. SUFFICES ASSUME ~client.dirty PROVE Fresh'
    BY DEF Fresh
  <2>2. client.cur.arch.seq \in Nat /\ boardSeq \in Nat
    BY <1>1 DEF ClientType, Cursor, RestPart
  <2>3. Fresh
    BY DEF ClientPart
  <2>4. CASE UNCHANGED <<rows, boardSeq>>
    BY <2>3, <2>4 DEF Fresh, OnBoard, Mine
  <2>5. CASE boardSeq' = boardSeq + 1
    BY <2>1, <2>2, <2>3, <2>5 DEF Fresh
  <2> QED
    BY <2>4, <2>5
<1>5. Known'
  <2>1. Known /\ UNCHANGED client
    BY DEF ClientPart
  <2>2. (Trusted => Past(client.cur.pos, {}))'
    BY <1>1, <2>1, CurStays DEF Known, Trusted, Decodes
  <2>3. PICK p, x : p = client.new.pos /\ x = client.snap
    OBVIOUS
  <2>4. p.seq \in Nat
    BY <1>1, <2>3 DEF ClientType, Cursor
  <2>5. Past(p, {}) => Past(p, {})'
    BY <1>1, <2>1, <2>4, PastStays
  <2>6. Past(p, x) => Past(p, x)'
    BY <1>1, <2>1, <2>4, PastStays
  <2>7. (client.pc \in WaitPcs /\ Trusted => Past(client.new.pos, {}))'
    BY <2>1, <2>3, <2>5 DEF Known, NewKnown, Past, Trusted, Decodes
  <2>8. client.pc = "archive" => Past(client.new.pos, client.snap)'
    BY <2>1, <2>3, <2>6 DEF Known, NewKnown, Past
  <2>9. p.seq <= Len(log) => p.seq <= Len(log')
    BY <1>1, <2>4, LogShape DEF RingTypeOK, LogKept
  <2> QED
    BY <2>1, <2>2, <2>3, <2>7, <2>8, <2>9 DEF Known, NewKnown
<1> QED
  BY <1>2, <1>3, <1>4, <1>5 DEF ClientPart

\* An event more, and who it may come from.
LEMMA RingAdded ==
  ASSUME RingPart, ResultPart, NEW s \in Sessions, NEW last \in BOOLEAN, Added(s, last),
         UNCHANGED <<decision, rows>>, life[s] # "new",
         \A s2 \in Sessions : life'[s2] = life[s2] \/ (s2 = s /\ life'[s2] = "ended"),
         last => s \in Mine /\ rows[s] # "none",
         life' \in [Sessions -> {"new", "live", "ending", "ended", "forgotten", "lost"}]
  PROVE  RingPart' /\ ResultPart'
<1> DEFINE e == Len(log) + 1
<1>1. /\ log' \in Seq(Event) /\ Len(log') <= MaxSeq
      /\ DOMAIN log' = DOMAIN log \cup {e} /\ e \notin DOMAIN log
      /\ \A n \in DOMAIN log : log'[n] = log[n]
      /\ log'[e].sid = s /\ log'[e].last = last /\ ~log'[e].gone
      /\ kept' \subseteq kept \cup {e}
      /\ high' \in [Sessions -> Nat]
      /\ \A s2 \in Sessions : high[s2] <= high'[s2]
      /\ \A n \in (kept \cup {e}) \ kept' : n <= high'[log'[n].sid]
      /\ cached' \subseteq Sessions
      /\ poll' \in PollType
  BY DEF Added
<1>2. RingTypeOK /\ log \in Seq(Event) /\ \A n \in DOMAIN log : log[n] \in Event /\ n \in Nat
  BY LogShape DEF RingPart, RingTypeOK
<1> HIDE DEF e
<1>3. RingTypeOK'
  BY <1>1, <1>2 DEF RingTypeOK, PollType
<1>4. Marked'
  <2>1. SUFFICES ASSUME NEW n \in DOMAIN log', n \notin kept', ~log'[n].gone
                 PROVE  n <= high'[log'[n].sid]
    BY DEF Marked
  <2>2. CASE n \in kept \cup {e}
    BY <1>1, <2>1, <2>2
  <2>3. CASE n \notin kept \cup {e}
    <3>1. n \in DOMAIN log /\ n \notin kept /\ log'[n] = log[n] /\ log[n].sid \in Sessions /\ n \in Nat
      BY <1>1, <1>2, <2>3 DEF Event
    <3>2. n <= high[log[n].sid]
      BY <2>1, <3>1 DEF RingPart, Marked
    <3>3. high[log[n].sid] \in Nat /\ high'[log[n].sid] \in Nat
      BY <1>1, <1>2, <3>1 DEF RingTypeOK
    <3> QED
      BY <1>1, <3>1, <3>2, <3>3
  <2> QED
    BY <2>2, <2>3
<1>5. Spoken'
  <2>1. \A n \in DOMAIN log : log[n].sid \in Sessions
    BY <1>2 DEF Event
  <2> QED
    BY <1>1, <2>1 DEF ResultPart, Spoken
<1>6. Backed'
  <2>1. \A n \in DOMAIN log' : log'[n].last => log'[n].sid \in Mine /\ rows[log'[n].sid] # "none"
    BY <1>1 DEF ResultPart, Backed
  <2>2. \A s2 \in Mine : life'[s2] = "ending" => life[s2] = "ending"
    BY DEF Mine
  <2> QED
    BY <2>1, <2>2 DEF ResultPart, Backed, Mine
<1> QED
  BY <1>1, <1>3, <1>4, <1>5, <1>6 DEF RingPart, ResultPart, Mine

\* Nothing happens to the ring but that its thread may wake, sleep or be new.
LEMMA RingAlone ==
  ASSUME RingPart, ResultPart, UNCHANGED <<log, kept, high, cached, decision>>, poll' \in PollType,
         rows' \in [Mine -> {"none", "on", "acked", "expired"}],
         \A s \in Mine : rows[s] # "none" => rows'[s] # "none",
         life' \in [Sessions -> {"new", "live", "ending", "ended", "forgotten", "lost"}],
         \A s \in Sessions : life[s] # "new" => life'[s] # "new",
         \A s \in Mine : life'[s] = "ending" => life[s] = "ending" \/ rows'[s] # "none"
  PROVE  RingPart' /\ ResultPart'
<1>1. RingTypeOK' /\ Marked'
  BY DEF RingPart, RingTypeOK, PollType, Marked
<1>2. \A n \in DOMAIN log : log[n].sid \in Sessions
  BY LogShape DEF RingPart, RingTypeOK, Event
<1>3. Spoken'
  BY <1>2 DEF ResultPart, Spoken
<1>4. Backed'
  BY DEF ResultPart, Backed, Mine
<1> QED
  BY <1>1, <1>3, <1>4 DEF RingPart, ResultPart, Mine

\* The sweep forgets sessions that ended.
LEMMA SweepKeeps ==
  ASSUME RingPart, ResultPart, Sweep, UNCHANGED rows
  PROVE  RingPart' /\ ResultPart' /\ LogKept /\ PollKept
<1>1. PICK S \in SUBSET {s \in Sessions : life[s] = "ended"} :
        /\ Forget(S)
        /\ life' = [s \in Sessions |-> IF s \in S THEN "forgotten" ELSE life[s]]
  BY DEF Sweep
<1>2. S \in SUBSET Sessions /\ RingTypeOK
  BY DEF RingPart
<1>3. Forgotten(S)
  BY <1>1, <1>2, ForgottenShape
<1>4. /\ log' \in Seq(Event) /\ DOMAIN log' = DOMAIN log /\ Len(log') = Len(log)
      /\ \A n \in DOMAIN log : /\ log'[n].sid = log[n].sid /\ log'[n].last = log[n].last
                               /\ log'[n].gone <=> log[n].gone \/ log[n].sid \in S
      /\ kept' = {n \in kept : log[n].sid \notin S}
      /\ high' \in [Sessions -> Nat] /\ \A s \in Sessions \ S : high'[s] = high[s]
      /\ cached' \subseteq Sessions
      /\ decision' \in [Sessions -> Nat]
      /\ poll' \in PollType /\ PollKept
  BY <1>3 DEF Forgotten
<1>5. \A n \in DOMAIN log : log[n].sid \in Sessions
  BY <1>2, LogShape DEF RingTypeOK, Event
<1>6. RingTypeOK'
  BY <1>2, <1>4 DEF RingTypeOK, PollType
<1>7. Marked'
  BY <1>4, <1>5 DEF RingPart, Marked
<1>8. life' \in [Sessions -> {"new", "live", "ending", "ended", "forgotten", "lost"}]
      /\ \A s \in Sessions : /\ life[s] # "new" => life'[s] # "new"
                             /\ life'[s] = "ending" => life[s] = "ending"
  BY <1>1 DEF ResultPart
<1>9. Spoken' /\ Backed'
  <2>1. Spoken'
    BY <1>4, <1>5, <1>8, SMTT(40) DEF ResultPart, Spoken
  <2>2. \A n \in DOMAIN log' : log'[n].last => log'[n].sid \in Mine /\ rows[log'[n].sid] # "none"
    BY <1>4 DEF ResultPart, Backed
  <2>3. \A s \in Mine : life'[s] = "ending" => rows[s] # "none"
    BY <1>8 DEF ResultPart, Backed, Mine
  <2> QED
    BY <2>1, <2>2, <2>3 DEF Backed, Mine
<1>10. LogKept
  BY <1>2, <1>3, LogGoesOn
<1> QED
  BY <1>4, <1>6, <1>7, <1>8, <1>9, <1>10 DEF RingPart, ResultPart, Mine

-----------------------------------------------------------------------------
(* The steps of the world                                                  *)

\* A step that leaves the ring and the client alone: sessions go on, results
\* come and go, the daemon dies.
LEMMA WorldStep ==
  ASSUME BInv, UNCHANGED <<log, kept, high, cached, decision, client, router>>,
         poll' = poll \/ poll' = Calm,
         daemon' = daemon \/ daemon' = [daemon EXCEPT !.up = FALSE],
         faults' \in 0..MaxFaults,
         \/ UNCHANGED <<rows, boardSeq>>
         \/ boardSeq' = boardSeq + 1,
         rows' \in [Mine -> {"none", "on", "acked", "expired"}],
         \A s \in Mine : rows[s] # "none" => rows'[s] # "none",
         life' \in [Sessions -> {"new", "live", "ending", "ended", "forgotten", "lost"}],
         \A s \in Sessions : life[s] # "new" => life'[s] # "new",
         \A s \in Mine : life'[s] = "ending" => life[s] = "ending" \/ rows'[s] # "none"
  PROVE  BInv'
<1>1. RingPart /\ ResultPart /\ RestPart /\ ClientPart /\ RingTypeOK
  BY DEF BInv, RingPart
<1>2. poll' \in PollType /\ (PollKept \/ poll'.st = "none")
  BY <1>1 DEF RingTypeOK, PollType, PollKept, Calm
<1>3. RingPart' /\ ResultPart'
  BY <1>1, <1>2, RingAlone
<1>4. LogKept
  BY <1>1, LogGoesOn
<1>5. daemon'.epoch = daemon.epoch /\ daemon' \in [epoch : 0..MaxEpochs, up : BOOLEAN]
  BY <1>1 DEF RestPart
<1>6. RestPart'
  BY <1>1, <1>5 DEF RestPart
<1>7. ClientPart'
  BY <1>1, <1>2, <1>4, <1>5, WorldKeepsClient
<1> QED
  BY <1>3, <1>6, <1>7 DEF BInv

\* Sessions start, end and are lost; results are put, acknowledged and expire.
LEMMA ResultSteps ==
  ASSUME BInv,
         \/ Prune \/ DaemonDies
         \/ \E s \in Sessions : Start(s)
         \/ \E s \in Mine : Persist(s) \/ PutLost(s) \/ Ack(s)
  PROVE  BInv'
<1>1. /\ rows \in [Mine -> {"none", "on", "acked", "expired"}]
      /\ life \in [Sessions -> {"new", "live", "ending", "ended", "forgotten", "lost"}]
      /\ faults \in 0..MaxFaults /\ MaxFaults \in Nat
  BY BoardAssumption DEF BInv, ResultPart, RestPart
<1>2. CASE Prune
  <2>1. PICK S \in (SUBSET OnBoard) \ {{}} : Mark(S, "expired")
    BY <1>2 DEF Prune
  <2> QED
    BY <1>1, <1>2, <2>1, WorldStep DEF Prune, Mark, ringVars, Fine
<1>3. CASE DaemonDies
  <2>1. /\ UNCHANGED <<log, kept, high, cached, decision, client, router, rows, boardSeq>>
        /\ poll' = Calm /\ daemon' = [daemon EXCEPT !.up = FALSE]
    BY <1>3 DEF DaemonDies
  <2>2. faults' \in 0..MaxFaults
    BY <1>1, <1>3 DEF DaemonDies, Fault
  <2>3. /\ life' \in [Sessions -> {"new", "live", "ending", "ended", "forgotten", "lost"}]
        /\ \A s \in Sessions : /\ life[s] # "new" => life'[s] # "new"
                               /\ life'[s] # "ending"
    BY <1>1, <1>3 DEF DaemonDies
  <2>4. \A s \in Mine : life'[s] # "ending"
    BY <2>3 DEF Mine
  <2> QED
    BY <1>1, <2>1, <2>2, <2>3, <2>4, WorldStep
<1>4. ASSUME NEW s \in Sessions, Start(s) PROVE BInv'
  BY <1>1, <1>4, WorldStep DEF Start, ringVars, Fine
<1>5. ASSUME NEW s \in Mine, Persist(s) PROVE BInv'
  <2>1. /\ life' = [life EXCEPT ![s] = "ending"] /\ life[s] = "live"
        /\ rows' = [x \in Mine |-> IF x \in {s} THEN "on" ELSE rows[x]]
        /\ boardSeq' = boardSeq + 1
        /\ UNCHANGED <<log, kept, high, cached, decision, poll, daemon, router, client, faults>>
    BY <1>5 DEF Persist, Mark, Live, ringVars, Fine
  <2>2. /\ rows' \in [Mine -> {"none", "on", "acked", "expired"}] /\ rows'[s] # "none"
        /\ \A x \in Mine : rows[x] # "none" => rows'[x] # "none"
    BY <1>1, <2>1
  <2>3. /\ life' \in [Sessions -> {"new", "live", "ending", "ended", "forgotten", "lost"}]
        /\ \A x \in Sessions : life[x] # "new" => life'[x] # "new"
        /\ \A x \in Mine : x # s => life'[x] = life[x]
    BY <1>1, <2>1 DEF Mine
  <2> QED
    BY <1>1, <2>1, <2>2, <2>3, WorldStep
<1>6. ASSUME NEW s \in Mine, PutLost(s) PROVE BInv'
  BY <1>1, <1>6, WorldStep DEF PutLost, Mark, ringVars, Fine
<1>7. ASSUME NEW s \in Mine, Ack(s) PROVE BInv'
  BY <1>1, <1>7, WorldStep DEF Ack, Mark, ringVars, Fine
<1> QED
  BY <1>2, <1>3, <1>4, <1>5, <1>6, <1>7

\* Sessions publish: notes, and their end.
LEMMA PublishSteps ==
  ASSUME BInv,
         \/ \E s \in Sessions : Wakes(s)
         \/ \E s \in Mine : TellsEnd(s)
  PROVE  BInv'
<1>1. RingPart /\ ResultPart /\ RestPart /\ ClientPart /\ RingTypeOK
      /\ life \in [Sessions -> {"new", "live", "ending", "ended", "forgotten", "lost"}]
  BY DEF BInv, RingPart, ResultPart
<1>2. PICK s \in Sessions, last \in BOOLEAN :
        /\ Publish(s, 0, FALSE, last, 0) /\ life[s] # "new"
        /\ last => s \in Mine /\ rows[s] # "none"
        /\ UNCHANGED <<decision, rows, boardSeq, daemon, router, client, faults>>
        /\ life' \in [Sessions -> {"new", "live", "ending", "ended", "forgotten", "lost"}]
        /\ \A s2 \in Sessions : life'[s2] = life[s2] \/ (s2 = s /\ life'[s2] = "ended")
  <2>1. CASE \E s \in Sessions : Wakes(s)
    BY <1>1, <2>1 DEF Wakes, Live, PublishNote, Fine
  <2>2. CASE \E s \in Mine : TellsEnd(s)
    <3>1. PICK s \in Mine : TellsEnd(s)
      BY <2>2
    <3>2. /\ Publish(s, 0, FALSE, TRUE, 0) /\ life[s] = "ending" /\ s \in Sessions
          /\ UNCHANGED <<decision, rows, boardSeq, daemon, router, client, faults>>
          /\ life' = [life EXCEPT ![s] = "ended"]
      BY <3>1 DEF TellsEnd, Fine, Mine
    <3>3. rows[s] # "none"
      BY <1>1, <3>2 DEF ResultPart, Backed
    <3> QED
      BY <1>1, <3>2, <3>3
  <2> QED
    BY <2>1, <2>2
<1>3. Added(s, last)
  BY <1>1, <1>2, AddedShape
<1>4. RingPart' /\ ResultPart'
  BY <1>1, <1>2, <1>3, RingAdded
<1>5. LogKept /\ PollKept
  BY <1>1, <1>3, LogGoesOn DEF Added
<1>6. RestPart'
  BY <1>1, <1>2 DEF RestPart
<1>7. ClientPart'
  BY <1>1, <1>2, <1>5, WorldKeepsClient
<1> QED
  BY <1>4, <1>6, <1>7 DEF BInv

-----------------------------------------------------------------------------
(* How a request of the client goes on and ends                            *)

\* The shape of cursors and of what is left of a request.
LEMMA OverShape ==
  ASSUME NEW c \in ClientType
  PROVE  /\ Over(c) \in ClientType /\ Over(c).pc = "idle" /\ Over(c).gen = 0
         /\ Over(c).new.pos = NoPos
         /\ Over(c).cur = c.cur /\ Over(c).dirty = c.dirty /\ Over(c).view = c.view
         /\ Over(c).seen = c.seen /\ Over(c).passed = c.passed
<1>1. NoCursor \in Cursor /\ NoCursor.pos = NoPos /\ 0 \in 0..MaxEpochs /\ "idle" \in Pcs
  BY BoardAssumption DEF NoCursor, Cursor, NoPos, NoArch, Pcs
<1> QED
  BY <1>1 DEF Over, ClientType

\* A request ends with the cursor of c.
LEMMA Ends ==
  ASSUME RestPart, LogKept, UNCHANGED <<daemon, rows, boardSeq>>, router'.active <= daemon.epoch,
         NEW c \in ClientType, client' = Over(c),
         c.cur.pos.epoch <= daemon.epoch, Trusted' => Past(c.cur.pos, {})',
         ~c.dirty => /\ c.cur.arch.set /\ c.cur.arch.seq <= boardSeq
                     /\ c.cur.arch.seq = boardSeq => c.view = OnBoard
  PROVE  ClientPart'
<1>1. /\ client' \in ClientType /\ client'.pc = "idle" /\ client'.gen = 0
      /\ client'.new.pos = NoPos
      /\ client'.cur = c.cur /\ client'.dirty = c.dirty /\ client'.view = c.view
  BY OverShape
<1>2. OldEpochs'
  <2>1. NoPos.epoch = 0 /\ daemon.epoch \in Nat
    BY BoardAssumption DEF NoPos, RestPart
  <2> QED
    BY <1>1, <2>1 DEF OldEpochs
<1>3. Known'
  BY <1>1 DEF Known, NewKnown, Past, WaitPcs
<1>4. Placed' /\ Armed'
  BY <1>1 DEF Placed, Armed, PlacedPcs
<1>5. Fresh'
  BY <1>1 DEF Fresh, WaitPcs, OnBoard, Mine
<1> QED
  BY <1>1, <1>2, <1>3, <1>4, <1>5 DEF ClientPart, ClientType, Mine

\* A request ends without a new cursor: a marker or an error.
LEMMA EndsSame ==
  ASSUME BInv, LogKept, UNCHANGED <<daemon, rows, boardSeq>>, router'.active <= daemon.epoch,
         Raises \/ Resync, Decodes(client.cur)' => Decodes(client.cur)
  PROVE  ClientPart'
<1>1. RestPart /\ client \in ClientType /\ OldEpochs /\ Known /\ Fresh /\ RingTypeOK
  BY DEF BInv, ClientPart, RingPart
<1>2. PICK c \in ClientType : /\ client' = Over(c) /\ c.cur = client.cur /\ c.view = client.view
                              /\ c.seen = client.seen /\ c.passed = client.passed
                              /\ client.dirty => c.dirty
  <2>1. CASE Raises
    BY <1>1, <2>1 DEF Raises
  <2>2. CASE Resync
    <3>1. /\ [client EXCEPT !.dirty = TRUE] \in ClientType
          /\ client' = Over([client EXCEPT !.dirty = TRUE])
          /\ [client EXCEPT !.dirty = TRUE].dirty
          /\ [client EXCEPT !.dirty = TRUE].cur = client.cur
          /\ [client EXCEPT !.dirty = TRUE].view = client.view
          /\ [client EXCEPT !.dirty = TRUE].seen = client.seen
          /\ [client EXCEPT !.dirty = TRUE].passed = client.passed
      BY <1>1, <2>2 DEF ClientType, Resync
    <3> QED
      BY <3>1
  <2> QED
    BY <2>1, <2>2
<1>3. /\ client'.cur = client.cur /\ client'.seen = client.seen /\ client'.passed = client.passed
      /\ client.dirty => client'.dirty
  BY <1>2, OverShape
<1>4. ASSUME Trusted' PROVE Past(client.cur.pos, {})'
  <2>1. Trusted
    BY <1>3, <1>4 DEF Trusted, Decodes
  <2> QED
    BY <1>1, <1>3, <2>1, CurStays DEF Known
<1>5. Trusted' => Past(c.cur.pos, {})'
  BY <1>2, <1>3, <1>4 DEF Past
<1> QED
  BY <1>1, <1>2, <1>5, Ends DEF OldEpochs, Fresh

\* The request goes on and the client's cursor and knowledge stay.
GoesOn ==
  /\ client' \in ClientType
  /\ client'.cur = client.cur /\ client'.seen = client.seen /\ client'.passed = client.passed
  /\ client'.view = client.view /\ client'.dirty = client.dirty

\* It goes on with what is known of its new position.
LEMMA GoneOn ==
  ASSUME BInv, LogKept, UNCHANGED <<daemon, router, rows, boardSeq>>, GoesOn,
         client'.gen <= daemon.epoch, client'.new.pos.epoch <= daemon.epoch,
         NewKnown', Placed', Armed',
         ~client.dirty /\ client'.pc \in WaitPcs => client'.new.arch = client.cur.arch
  PROVE  ClientPart'
<1>1. RestPart /\ client \in ClientType /\ OldEpochs /\ Known /\ Fresh /\ RingTypeOK
  BY DEF BInv, ClientPart, RingPart
<1>2. OldEpochs'
  BY <1>1 DEF GoesOn, OldEpochs
<1>3. Trusted' => Past(client.cur.pos, {})'
  BY <1>1, CurStays DEF GoesOn, Known, Trusted, Decodes
<1>4. Known'
  BY <1>3 DEF Known
<1>5. Fresh'
  BY <1>1 DEF GoesOn, Fresh, OnBoard, Mine
<1> QED
  BY <1>2, <1>4, <1>5 DEF GoesOn, ClientPart, ClientType, Mine

\* A wait goes on with the position that it has.
LEMMA WaitsOn ==
  ASSUME BInv, LogKept, UNCHANGED <<daemon, router, rows, boardSeq>>, GoesOn,
         client.pc \in PlacedPcs, client'.pc \in PlacedPcs, client'.gen = client.gen,
         client'.new.pos = client.new.pos, client'.scope = client.scope,
         ~client.dirty => client'.new.arch = client.new.arch,
         client'.pc = "daemon" =>
           poll'.st = "none" \/ (poll'.scope = client.scope /\ poll'.after = client.new.pos.seq)
  PROVE  ClientPart'
<1>1. client \in ClientType /\ OldEpochs /\ Known /\ Placed /\ Fresh /\ RingTypeOK
  BY DEF BInv, ClientPart, RingPart
<1>2. client.pc \in WaitPcs /\ client'.pc \in WaitPcs
  BY DEF PlacedPcs, WaitPcs
<1>3. PICK p : p = client.new.pos
  OBVIOUS
<1>4. p.seq \in Nat
  BY <1>1, <1>3 DEF ClientType, Cursor
<1>5. Trusted => Past(p, {})
  BY <1>1, <1>2, <1>3 DEF Known, NewKnown
<1>6. Trusted' => Past(p, {})'
  BY <1>1, <1>4, <1>5, PastStays DEF GoesOn, Trusted, Decodes
<1>7. NewKnown'
  <2>1. client'.pc \notin {"archive", "snapshot", "idle", "topology", "status"}
    BY DEF PlacedPcs
  <2> QED
    BY <1>3, <1>6, <2>1 DEF NewKnown, Past
<1>8. Placed' /\ Armed'
  BY <1>1 DEF Placed, Armed
<1> QED
  BY <1>1, <1>2, <1>7, <1>8, GoneOn DEF OldEpochs, Fresh

\* The steps of a request leave the rest of the world alone.
LEMMA StillThere ==
  ASSUME BInv, UNCHANGED <<log, kept, high, cached, decision, life, rows>>,
         UNCHANGED <<boardSeq, daemon, router>>, poll' \in PollType, Fine \/ Fault
  PROVE  RingPart' /\ ResultPart' /\ RestPart' /\ LogKept
<1>1. RingPart /\ ResultPart /\ RestPart /\ RingTypeOK
  BY DEF BInv, RingPart
<1>2. /\ rows \in [Mine -> {"none", "on", "acked", "expired"}]
      /\ life \in [Sessions -> {"new", "live", "ending", "ended", "forgotten", "lost"}]
  BY <1>1 DEF ResultPart
<1>3. RingPart' /\ ResultPart'
  BY <1>1, <1>2, RingAlone
<1>4. RestPart'
  BY <1>1, BoardAssumption DEF RestPart, Fine, Fault
<1>5. LogKept
  BY <1>1, LogGoesOn
<1> QED
  BY <1>3, <1>4, <1>5

\* The thread of the wait as it is, and as the types have it.
LEMMA PollTyped == ASSUME BInv PROVE poll \in PollType /\ Calm \in PollType
BY DEF BInv, RingPart, RingTypeOK, PollType, Calm

-----------------------------------------------------------------------------
(* The steps of the client                                                 *)

\* The condition's thread sleeps, or its time is over.
LEMMA PollSteps ==
  ASSUME BInv, Sleeps \/ TimesOut
  PROVE  BInv'
<1>1. /\ UNCHANGED <<log, kept, high, cached, decision, life, rows>>
      /\ UNCHANGED <<boardSeq, daemon, router>> /\ UNCHANGED <<client, router>> /\ Fine
  BY DEF Sleeps, Sleep, TimesOut, Others
<1>2. poll' \in PollType /\ PollKept
  BY PollTyped DEF Sleeps, Sleep, TimesOut, PollType, PollKept
<1>3. RingPart' /\ ResultPart' /\ RestPart' /\ LogKept
  BY <1>1, <1>2, StillThere
<1>4. ClientPart'
  BY <1>1, <1>2, <1>3, WorldKeepsClient DEF BInv
<1> QED
  BY <1>3, <1>4 DEF BInv

\* A request ends without a cursor.
LEMMA EndSteps ==
  ASSUME BInv, UNCHANGED <<log, kept, high, cached, decision, life, rows>>,
         UNCHANGED <<boardSeq, daemon, router>>, poll' \in PollType, Fine \/ Fault,
         Raises \/ Resync
  PROVE  BInv'
<1>1. RingPart' /\ ResultPart' /\ RestPart' /\ LogKept
  BY StillThere
<1>2. router'.active <= daemon.epoch /\ (Decodes(client.cur)' => Decodes(client.cur))
  <2>1. client'.cur = client.cur
    <3>1. client \in ClientType /\ [client EXCEPT !.dirty = TRUE] \in ClientType
          /\ [client EXCEPT !.dirty = TRUE].cur = client.cur
      BY DEF BInv, ClientPart, ClientType
    <3> QED
      BY <3>1, OverShape DEF Raises, Resync
  <2> QED
    BY <2>1 DEF BInv, ClientPart, OldEpochs, Decodes
<1>3. ClientPart'
  BY <1>1, <1>2, EndsSame
<1> QED
  BY <1>1, <1>3 DEF BInv

\* The board is read: the handles and the topology.
LEMMA BoardBegins ==
  ASSUME BInv, ReadBoard \/ ReadTopology
  PROVE  BInv'
<1>1. /\ UNCHANGED <<log, kept, high, cached, decision, life, rows>>
      /\ UNCHANGED <<boardSeq, daemon, router>> /\ poll' = poll /\ Fine
  BY DEF ReadBoard, ReadTopology, Others, ringVars
<1>2. RingPart' /\ ResultPart' /\ RestPart' /\ LogKept
  BY <1>1, PollTyped, StillThere
<1>3. client \in ClientType /\ OldEpochs /\ Known /\ RestPart
  BY DEF BInv, ClientPart
<1>4. /\ GoesOn /\ client'.gen <= daemon.epoch /\ client'.new.pos = NoPos
      /\ client'.pc \in {"topology", "archive", "status"}
  <2>1. CASE ReadBoard
    <3>1. client' = [client EXCEPT !.pc = "topology", !.gen = router.active, !.whole = TRUE,
                                   !.snap = {}] /\ client.pc = "idle"
      BY <2>1 DEF ReadBoard, At
    <3>2. client.new.pos = NoPos
      BY <1>3, <3>1 DEF Known, NewKnown
    <3>3. router.active \in 0..MaxEpochs /\ router.active <= daemon.epoch
      BY <1>3 DEF RestPart, OldEpochs
    <3> QED
      BY <1>3, <3>1, <3>2, <3>3 DEF GoesOn, ClientType, Pcs
  <2>2. CASE ReadTopology
    <3>1. PICK k : k = [NoCursor EXCEPT !.re = router.epoch, !.topo = router.topo,
                                        !.split = client.gen # router.active]
      OBVIOUS
    <3>2. k \in Cursor /\ k.pos = NoPos
      <4>1. k = [re |-> router.epoch, topo |-> router.topo, pos |-> NoPos, arch |-> NoArch,
                 split |-> client.gen # router.active]
        BY <3>1 DEF NoCursor
      <4>2. /\ NoPos \in [epoch : 0..MaxEpochs, seq : Nat]
            /\ NoArch \in [set : BOOLEAN, seq : Nat]
        BY BoardAssumption DEF NoPos, NoArch
      <4> QED
        BY <1>3, <4>1, <4>2 DEF RestPart, Cursor
    <3>3. PICK q \in {"archive", "status"} : client' = [client EXCEPT !.new = k, !.pc = q]
      <4>1. client' = [client EXCEPT !.new = k, !.pc = IF client.gen = 0 THEN "archive" ELSE "status"]
        BY <2>2, <3>1, Zenon DEF ReadTopology, Work
      <4>2. (IF client.gen = 0 THEN "archive" ELSE "status") \in {"archive", "status"}
        OBVIOUS
      <4> QED
        BY <4>1, <4>2, Zenon
    <3>4. client' \in ClientType
      BY <1>3, <3>2, <3>3 DEF ClientType, Pcs
    <3>5. /\ client'.new = k /\ client'.gen = client.gen /\ client'.pc = q
          /\ client'.cur = client.cur /\ client'.seen = client.seen
          /\ client'.passed = client.passed
          /\ client'.view = client.view /\ client'.dirty = client.dirty
      BY <1>3, <3>3 DEF ClientType
    <3> QED
      BY <1>3, <3>2, <3>4, <3>5 DEF GoesOn, OldEpochs
  <2> QED
    BY <2>1, <2>2
<1>5. NoPos.epoch = 0 /\ NoPos.seq = 0 /\ daemon.epoch \in Nat
  BY <1>3, BoardAssumption DEF NoPos, RestPart
<1>6. Past(NoPos, client.snap)'
  <2>1. log' \in Seq(Event) /\ DOMAIN log' = 1..Len(log') /\ Len(log') \in Nat
    BY <1>2, LogShape DEF RingPart, RingTypeOK
  <2> QED
    BY <1>5, <2>1 DEF Past
<1>7. NewKnown' /\ Placed' /\ Armed' /\ client'.pc \notin WaitPcs
  <2>1. client'.pc = "archive" => Past(client.new.pos, client.snap)'
    BY <1>4, <1>6 DEF Past
  <2> QED
    BY <1>4, <2>1 DEF NewKnown, Placed, Armed, WaitPcs, PlacedPcs
<1>8. ClientPart'
  BY <1>1, <1>2, <1>4, <1>5, <1>7, GoneOn
<1> QED
  BY <1>2, <1>8 DEF BInv

PosType == [epoch : 0..MaxEpochs, seq : Nat]

\* The request goes on with position v.
Moved(v, q) ==
  /\ GoesOn /\ client'.pc = q /\ client'.new.pos = v /\ client'.new.arch = client.new.arch
  /\ client'.gen = client.gen /\ client'.scope = client.scope /\ client'.snap = client.snap

\* The records of Cursor and client after such a step.
LEMMA MovedShape ==
  ASSUME client \in ClientType, NEW v \in PosType, NEW q \in Pcs,
         \/ client' = [client EXCEPT !.new.pos = v, !.pc = q]
         \/ client' = [client EXCEPT !.whole = FALSE, !.new.pos = v, !.pc = q]
  PROVE  Moved(v, q)
<1>1. PICK k : k = [client.new EXCEPT !.pos = v]
  OBVIOUS
<1>2. k \in Cursor /\ k.pos = v /\ k.arch = client.new.arch
  BY <1>1 DEF ClientType, Cursor, PosType
<1>3. \/ client' = [client EXCEPT !.new = k, !.pc = q]
      \/ client' = [client EXCEPT !.whole = FALSE, !.new = k, !.pc = q]
  BY <1>1
<1>4. client' \in ClientType /\ client'.pc = q /\ client'.new = k
  BY <1>2, <1>3 DEF ClientType
<1>5. /\ client'.cur = client.cur /\ client'.seen = client.seen
      /\ client'.passed = client.passed /\ client'.view = client.view
      /\ client'.dirty = client.dirty
      /\ client'.gen = client.gen /\ client'.scope = client.scope
      /\ client'.snap = client.snap
  BY <1>3 DEF ClientType
<1> QED
  BY <1>2, <1>4, <1>5 DEF Moved, GoesOn

\* The cursor of the daemon's reply: everything that is published so far is
\* at or before it.
LEMMA StatusStep ==
  ASSUME BInv, Status
  PROVE  BInv'
<1>1. /\ Sweep /\ UNCHANGED <<rows, boardSeq, daemon, router>> /\ Fine
      /\ client.pc = "status" /\ client.gen = daemon.epoch
  BY DEF Status, Others, At, Reached
<1>2. RingPart /\ ResultPart /\ RestPart /\ client \in ClientType /\ OldEpochs /\ RingTypeOK
  BY DEF BInv, ClientPart, RingPart
<1>3. RingPart' /\ ResultPart' /\ LogKept
  BY <1>1, <1>2, SweepKeeps
<1>4. RestPart'
  BY <1>1, <1>2 DEF RestPart, Fine
<1>5. PICK v : v = [epoch |-> client.gen, seq |-> LatestSeq]
  OBVIOUS
<1>6. /\ v \in PosType /\ v.epoch = client.gen /\ v.seq = Len(log) /\ Len(log) \in Nat
  <2>1. client.gen \in 0..MaxEpochs /\ Len(log) \in Nat
    BY <1>2, LogShape DEF ClientType, RingTypeOK
  <2> QED
    BY <1>5, <2>1 DEF PosType, LatestSeq
<1>7. Moved(v, "snapshot")
  <2>1. client' = [client EXCEPT !.new.pos = v, !.pc = "snapshot"]
    BY <1>5 DEF Status
  <2>2. "snapshot" \in Pcs
    BY DEF Pcs
  <2> QED
    BY <1>2, <1>6, <2>1, <2>2, MovedShape
<1>8. NewKnown' /\ Placed' /\ Armed' /\ client'.pc \notin WaitPcs
  BY <1>3, <1>6, <1>7 DEF Moved, NewKnown, Placed, Armed, WaitPcs, PlacedPcs, LogKept
<1>9. ClientPart'
  BY <1>1, <1>2, <1>3, <1>6, <1>7, <1>8, GoneOn DEF Moved, OldEpochs
<1> QED
  BY <1>3, <1>4, <1>9 DEF BInv

\* The snapshots, taken after the cursor, show all that is before it.
LEMMA SnapshotStep ==
  ASSUME BInv, Snapshot
  PROVE  BInv'
<1>1. /\ UNCHANGED <<log, kept, high, cached, decision, life, rows>>
      /\ UNCHANGED <<boardSeq, daemon, router>> /\ poll' = poll /\ Fine
      /\ client' = [client EXCEPT !.snap = DOMAIN log, !.pc = "archive"]
      /\ client.pc = "snapshot"
  BY DEF Snapshot, Others, ringVars, At
<1>2. RingPart' /\ ResultPart' /\ RestPart' /\ LogKept
  BY <1>1, PollTyped, StillThere
<1>3. client \in ClientType /\ OldEpochs /\ Known /\ RestPart
  BY DEF BInv, ClientPart
<1>4. DOMAIN log \subseteq 1..MaxSeq
  BY RingAssumption, LogShape DEF BInv, RingPart, RingTypeOK
<1>5. /\ GoesOn /\ client'.gen = client.gen /\ client'.new = client.new
      /\ client'.pc = "archive" /\ client'.snap = DOMAIN log
  BY <1>1, <1>3, <1>4 DEF ClientType, GoesOn, Pcs
<1>6. Past(client.new.pos, client.snap)'
  BY <1>1, <1>3, <1>5 DEF Past, Known, NewKnown
<1>7. NewKnown' /\ Placed' /\ Armed' /\ client'.pc \notin WaitPcs
  BY <1>5, <1>6 DEF NewKnown, Placed, Armed, WaitPcs, PlacedPcs
<1>8. ClientPart'
  BY <1>1, <1>2, <1>3, <1>5, <1>7, GoneOn DEF OldEpochs
<1> QED
  BY <1>2, <1>8 DEF BInv

\* Without a reply the board has no position for this daemon.
LEMMA FailedSteps ==
  ASSUME BInv, StatusFails \/ SnapshotFails
  PROVE  BInv'
<1>1. /\ UNCHANGED <<log, kept, high, cached, decision, life, rows>>
      /\ UNCHANGED <<boardSeq, daemon, router>> /\ poll' = poll /\ (Fine \/ Fault)
  BY DEF StatusFails, SnapshotFails, Unreached, Others, ringVars
<1>2. RingPart' /\ ResultPart' /\ RestPart' /\ LogKept
  BY <1>1, PollTyped, StillThere
<1>3. client \in ClientType /\ OldEpochs /\ Known /\ RestPart
  BY DEF BInv, ClientPart
<1>4. NoPos \in PosType /\ NoPos.epoch = 0 /\ NoPos.seq = 0
  BY BoardAssumption DEF NoPos, PosType
<1>5. /\ GoesOn /\ client'.gen = client.gen /\ client'.new.pos = NoPos /\ client'.pc = "archive"
  <2>1. CASE StatusFails
    <3>1. client' = [client EXCEPT !.whole = FALSE, !.pc = "archive"] /\ client.pc = "status"
      BY <2>1 DEF StatusFails, Unreached, At
    <3>2. client.new.pos = NoPos
      BY <1>3, <3>1 DEF Known, NewKnown
    <3> QED
      BY <1>3, <3>1, <3>2 DEF ClientType, GoesOn, Pcs
  <2>2. CASE SnapshotFails
    <3>1. client' = [client EXCEPT !.whole = FALSE, !.new.pos = NoPos, !.pc = "archive"]
          /\ "archive" \in Pcs
      BY <2>2 DEF SnapshotFails, Pcs
    <3>2. Moved(NoPos, "archive")
      BY <1>3, <1>4, <3>1, MovedShape
    <3> QED
      BY <3>2 DEF Moved
  <2> QED
    BY <2>1, <2>2
<1>6. Past(client.new.pos, client.snap)'
  <2>1. log' \in Seq(Event) /\ DOMAIN log' = 1..Len(log') /\ Len(log') \in Nat
    BY <1>2, LogShape DEF RingPart, RingTypeOK
  <2> QED
    BY <1>4, <1>5, <2>1 DEF Past
<1>7. NewKnown' /\ Placed' /\ Armed' /\ client'.pc \notin WaitPcs
  BY <1>5, <1>6 DEF NewKnown, Placed, Armed, WaitPcs, PlacedPcs
<1>8. 0 <= daemon.epoch
  BY <1>3, BoardAssumption DEF RestPart
<1>9. ClientPart'
  BY <1>1, <1>2, <1>3, <1>4, <1>5, <1>7, <1>8, GoneOn DEF OldEpochs
<1> QED
  BY <1>2, <1>9 DEF BInv

\* The board is given to the client: what its position stands for is shown
\* with it, and so are the results, of the moment of board_seq.
LEMMA ArchiveStep ==
  ASSUME BInv, ReadArchive
  PROVE  BInv'
<1>1. /\ UNCHANGED <<log, kept, high, cached, decision, life, rows>>
      /\ UNCHANGED <<boardSeq, daemon, router>> /\ poll' = poll /\ (Fine \/ Fault)
      /\ client.pc = "archive"
  BY DEF ReadArchive, Others, ringVars, At
<1>2. RingPart' /\ ResultPart' /\ RestPart' /\ LogKept
  BY <1>1, PollTyped, StillThere
<1>3. client \in ClientType /\ OldEpochs /\ Known /\ RestPart /\ RingTypeOK
  BY DEF BInv, ClientPart, RingPart
<1>4. PICK k : k = [client.new EXCEPT !.arch = [set |-> TRUE, seq |-> boardSeq]]
  OBVIOUS
<1>5. k \in Cursor /\ k.pos = client.new.pos /\ k.arch.set /\ k.arch.seq = boardSeq
  <2>1. PICK a : a = [set |-> TRUE, seq |-> boardSeq]
    OBVIOUS
  <2>2. a \in [set : BOOLEAN, seq : Nat] /\ a.set /\ a.seq = boardSeq
    BY <1>3, <2>1 DEF RestPart
  <2>3. k = [client.new EXCEPT !.arch = a]
    BY <1>4, <2>1
  <2> QED
    BY <1>3, <2>2, <2>3 DEF ClientType, Cursor
<1>6. OnBoard \subseteq Mine
  BY DEF OnBoard
<1>7. PICK c \in ClientType :
        /\ client' = Over(c) /\ c.cur.pos = client.new.pos
        /\ c.seen = client.seen \cup client.snap /\ c.passed = client.passed
        /\ ~c.dirty => c.cur.arch.set /\ c.cur.arch.seq = boardSeq /\ c.view = OnBoard
  <2>1. CASE client' = Over([client EXCEPT !.dirty = ~client.whole, !.view = OnBoard,
                               !.seen = @ \cup client.snap,
                               !.cur = [client.new EXCEPT !.arch = [set |-> TRUE, seq |-> boardSeq]]])
    <3>1. PICK c : c = [client EXCEPT !.dirty = ~client.whole, !.view = OnBoard,
                                       !.seen = client.seen \cup client.snap, !.cur = k]
      OBVIOUS
    <3>2. client' = Over(c)
      BY <1>4, <2>1, <3>1
    <3>3. /\ c \in ClientType /\ c.cur = k /\ c.view = OnBoard
          /\ c.seen = client.seen \cup client.snap /\ c.passed = client.passed
      BY <1>3, <1>5, <1>6, <3>1 DEF ClientType
    <3> QED
      BY <1>5, <3>2, <3>3
  <2>2. CASE client' = Over([client EXCEPT !.dirty = TRUE, !.cur = client.new,
                               !.seen = @ \cup client.snap])
    <3>1. PICK c : c = [client EXCEPT !.dirty = TRUE, !.cur = client.new,
                                       !.seen = client.seen \cup client.snap]
      OBVIOUS
    <3>2. client' = Over(c)
      BY <2>2, <3>1
    <3>3. /\ c \in ClientType /\ c.cur = client.new /\ c.dirty
          /\ c.seen = client.seen \cup client.snap /\ c.passed = client.passed
      BY <1>3, <3>1 DEF ClientType
    <3> QED
      BY <3>2, <3>3
  <2> QED
    BY <2>1, <2>2 DEF ReadArchive
<1>8. client'.seen = c.seen /\ client'.passed = c.passed
  BY <1>7, OverShape
<1>9. Past(c.cur.pos, {})'
  <2>1. PICK p, x : p = client.new.pos /\ x = client.snap
    OBVIOUS
  <2>2. p.seq \in Nat
    BY <1>3, <2>1 DEF ClientType, Cursor
  <2>3. Past(p, x)
    BY <1>1, <1>3, <2>1 DEF Known, NewKnown
  <2>4. Past(p, {})'
    BY <1>1, <1>2, <1>3, <1>7, <1>8, <2>1, <2>2, <2>3, PastStays
  <2> QED
    BY <1>7, <2>1, <2>4
<1>10. /\ c.cur.pos.epoch <= daemon.epoch /\ router'.active <= daemon.epoch
       /\ ~c.dirty => /\ c.cur.arch.set /\ c.cur.arch.seq <= boardSeq
                      /\ c.cur.arch.seq = boardSeq => c.view = OnBoard
  BY <1>1, <1>3, <1>7 DEF OldEpochs, RestPart
<1>11. ClientPart'
  BY <1>1, <1>2, <1>3, <1>7, <1>9, <1>10, Ends
<1> QED
  BY <1>2, <1>11 DEF BInv

\* A wait begins: with the client's cursor and the sessions of this moment.
LEMMA WaitStep ==
  ASSUME BInv, Wait
  PROVE  BInv'
<1>1. /\ UNCHANGED <<log, kept, high, cached, decision, life, rows>>
      /\ UNCHANGED <<boardSeq, daemon, router>> /\ poll' = poll /\ Fine
  BY DEF Wait, Others, ringVars
<1>2. poll' \in PollType
  BY <1>1, PollTyped
<1>3. CASE Raises \/ Resync
  BY <1>1, <1>2, <1>3, EndSteps
<1>4. CASE client' = [client EXCEPT !.new = client.cur, !.scope = Ledger, !.pc = "active"]
  <2>1. RingPart' /\ ResultPart' /\ RestPart' /\ LogKept
    BY <1>1, <1>2, StillThere
  <2>2. client \in ClientType /\ OldEpochs /\ Known /\ RingTypeOK
    BY DEF BInv, ClientPart, RingPart
  <2>3. Ledger \subseteq Mine /\ "active" \in Pcs
    BY DEF Ledger, Pcs
  <2>4. /\ GoesOn /\ client'.pc = "active" /\ client'.new = client.cur
        /\ client'.gen = client.gen
    BY <1>4, <2>2, <2>3 DEF GoesOn, ClientType
  <2>5. Trusted' => Past(client.cur.pos, {})'
    BY <1>1, <2>1, <2>2, <2>4, CurStays DEF GoesOn, Known, Trusted, Decodes
  <2>6. NewKnown' /\ Placed' /\ Armed'
    <3>1. client'.new.pos = client'.cur.pos
      BY <2>4 DEF GoesOn
    <3>2. NewKnown'
      BY <2>4, <2>5, <3>1 DEF NewKnown, Past
    <3> QED
      BY <2>4, <3>2 DEF Placed, Armed, PlacedPcs
  <2>7. ClientPart'
    BY <1>1, <2>1, <2>2, <2>4, <2>6, GoneOn DEF OldEpochs
  <2> QED
    BY <2>1, <2>7 DEF BInv
<1> QED
  BY <1>3, <1>4 DEF Wait

\* A new daemon: its ring is empty, and no position of the client is of it.
LEMMA MintedWorld ==
  ASSUME BInv, Minted, UNCHANGED <<rows, boardSeq>>, Fine
  PROVE  /\ RingPart' /\ ResultPart' /\ RestPart'
         /\ daemon'.epoch = daemon.epoch + 1 /\ router'.active = daemon.epoch + 1
         /\ poll'.st = "none"
<1>1. RingPart /\ ResultPart /\ RestPart
  BY DEF BInv
<1>2. /\ daemon' = [epoch |-> daemon.epoch + 1, up |-> TRUE] /\ daemon.epoch < MaxEpochs
      /\ router' = [router EXCEPT !.topo = @ + 1, !.active = daemon.epoch + 1]
      /\ life' = [s \in Sessions |-> IF life[s] \in {"live", "ending"} THEN "lost" ELSE life[s]]
      /\ log' = <<>> /\ kept' = {} /\ high' = [s \in Sessions |-> 0] /\ cached' = {}
      /\ decision' = [s \in Sessions |-> 0] /\ poll' = Calm
  BY DEF Minted
<1>3. RingPart'
  <2>1. <<>> \in Seq(Event) /\ DOMAIN <<>> = {} /\ Len(<<>>) = 0
    OBVIOUS
  <2>2. poll' \in PollType
    BY <1>2 DEF PollType, Calm
  <2> QED
    BY <1>2, <2>1, <2>2, RingAssumption DEF RingPart, RingTypeOK, Marked, PollType
<1>4. ResultPart'
  <2>1. /\ life' \in [Sessions -> {"new", "live", "ending", "ended", "forgotten", "lost"}]
        /\ \A s \in Sessions : life'[s] # "ending"
    BY <1>1, <1>2 DEF ResultPart
  <2>2. \A s \in Mine : life'[s] # "ending"
    BY <2>1 DEF Mine
  <2>3. Spoken' /\ Backed'
    BY <1>2, <2>2 DEF Spoken, Backed, Mine
  <2> QED
    BY <1>1, <2>1, <2>3 DEF ResultPart, Mine
<1>5. RestPart'
  <2>1. daemon.epoch + 1 \in 0..MaxEpochs
    BY <1>1, <1>2, BoardAssumption DEF RestPart
  <2>2. daemon' \in [epoch : 0..MaxEpochs, up : BOOLEAN]
    BY <1>2, <2>1
  <2>3. router' \in [epoch : Nat, topo : Nat, active : 0..MaxEpochs]
    <3>1. PICK e, u : e = daemon.epoch + 1 /\ u = router.topo + 1
      OBVIOUS
    <3>2. router' = [router EXCEPT !.topo = u, !.active = e]
      BY <1>2, <3>1
    <3>3. router \in [epoch : Nat, topo : Nat, active : 0..MaxEpochs] /\ u \in Nat
          /\ e \in 0..MaxEpochs
      BY <1>1, <2>1, <3>1 DEF RestPart
    <3> QED
      BY <3>2, <3>3
  <2> QED
    BY <1>1, <2>2, <2>3 DEF RestPart, Fine
<1>6. daemon'.epoch = daemon.epoch + 1 /\ router'.active = daemon.epoch + 1 /\ poll'.st = "none"
  BY <1>1, <1>2 DEF RestPart, Calm
<1> QED
  BY <1>3, <1>4, <1>5, <1>6

\* What the client had is of an older daemon.
LEMMA NewDaemon ==
  ASSUME BInv, daemon'.epoch = daemon.epoch + 1, router'.active = daemon.epoch + 1,
         UNCHANGED <<rows, boardSeq>>, poll'.st = "none",
         client' \in ClientType, client'.cur = client.cur, client'.view = client.view,
         client'.new.pos.epoch <= daemon.epoch, client'.gen <= daemon.epoch + 1, Placed',
         client'.pc \in {"idle", "topology", "status"} => client'.new.pos = NoPos,
         ~client'.dirty => /\ ~client.dirty
                           /\ client'.pc \in WaitPcs => client'.new.arch = client.cur.arch
  PROVE  ClientPart'
<1>1. OldEpochs /\ Fresh /\ daemon.epoch \in Nat /\ client \in ClientType
  BY BoardAssumption DEF BInv, ClientPart, RestPart
<1>2. client.cur.pos.epoch \in Nat /\ client'.new.pos.epoch \in Nat
  BY <1>1, BoardAssumption DEF ClientType, Cursor
<1>3. OldEpochs'
  BY <1>1, <1>2 DEF OldEpochs
<1>4. client'.cur.pos.epoch # daemon'.epoch /\ client'.new.pos.epoch # daemon'.epoch
  BY <1>1, <1>2 DEF OldEpochs
<1>5. Known'
  BY <1>4 DEF Known, NewKnown, Past
<1>6. Armed' /\ Fresh'
  BY <1>1 DEF Armed, Fresh, OnBoard, Mine
<1> QED
  BY <1>3, <1>5, <1>6 DEF ClientPart, ClientType, Mine

\* A start finds no daemon and another one is spawned.
LEMMA MintStep ==
  ASSUME BInv, Mint
  PROVE  BInv'
<1>1. Minted /\ UNCHANGED <<rows, boardSeq>> /\ Fine
      /\ client' = [client EXCEPT !.seen = {}, !.snap = {}, !.passed = {}]
  BY DEF Mint
<1>2. /\ RingPart' /\ ResultPart' /\ RestPart'
      /\ daemon'.epoch = daemon.epoch + 1 /\ router'.active = daemon.epoch + 1
      /\ poll'.st = "none"
  BY <1>1, MintedWorld
<1>3. client \in ClientType /\ OldEpochs /\ Known /\ Placed /\ Fresh /\ daemon.epoch \in Nat
  BY BoardAssumption DEF BInv, ClientPart, RestPart
<1>4. /\ client' \in ClientType /\ client'.cur = client.cur /\ client'.view = client.view
      /\ client'.new = client.new /\ client'.gen = client.gen /\ client'.pc = client.pc
      /\ client'.dirty = client.dirty
  BY <1>1, <1>3 DEF ClientType
<1>5. client.gen \in Nat /\ client.gen <= daemon.epoch + 1
  BY <1>3, BoardAssumption DEF ClientType, OldEpochs
<1>6. Placed'
  BY <1>3, <1>4 DEF Placed
<1>7. ClientPart'
  BY <1>1, <1>2, <1>3, <1>4, <1>5, <1>6, NewDaemon DEF OldEpochs, Known, NewKnown, Fresh
<1> QED
  BY <1>2, <1>7 DEF BInv

\* The wait gets to the active daemon: an installed one, or one that it spawns.
LEMMA WaitActiveStep ==
  ASSUME BInv, WaitActive
  PROVE  BInv'
<1>1. client \in ClientType /\ OldEpochs /\ Known /\ Placed /\ Fresh /\ RestPart /\ RingTypeOK
      /\ daemon.epoch \in Nat /\ client.pc = "active" /\ Fine /\ UNCHANGED <<rows, boardSeq>>
  BY BoardAssumption DEF BInv, ClientPart, RestPart, RingPart, WaitActive, At
<1>2. ASSUME UNCHANGED <<ringVars, life, daemon, router>>, Raises \/ Resync
      PROVE  BInv'
  BY <1>1, <1>2, PollTyped, EndSteps DEF ringVars
<1>3. ASSUME NEW e \in Nat, NEW to, to = Positioned(client.new.pos, e), to # "expired"
      PROVE  /\ to \in {"now", "start"} /\ to \in Pcs
             /\ to = "now" => client.new.pos.epoch = 0
             /\ to = "start" => client.new.pos.epoch = e
  BY <1>3 DEF Positioned, Pcs
<1>4. ASSUME Serving, UNCHANGED <<ringVars, life, daemon, router>>,
             NEW to, to = Positioned(client.new.pos, router.active), to # "expired",
             client' = [client EXCEPT !.gen = router.active, !.pc = to]
      PROVE  BInv'
  <2>1. router.active = daemon.epoch /\ router.active \in 0..MaxEpochs
    BY <1>1, <1>4 DEF Serving, RestPart
  <2>2. /\ to \in {"now", "start"} /\ to \in Pcs
        /\ to = "now" => client.new.pos.epoch = 0
        /\ to = "start" => client.new.pos.epoch = daemon.epoch
    BY <1>1, <1>3, <1>4, <2>1
  <2>3. RingPart' /\ ResultPart' /\ RestPart' /\ LogKept
    BY <1>1, <1>4, PollTyped, StillThere DEF ringVars
  <2>4. /\ GoesOn /\ client'.new = client.new /\ client'.gen = daemon.epoch /\ client'.pc = to
    BY <1>1, <1>4, <2>1, <2>2 DEF GoesOn, ClientType
  <2>5. Trusted => Past(client.new.pos, {})
    BY <1>1 DEF Known, NewKnown, WaitPcs
  <2>6. NewKnown'
    <3>1. Trusted' => Past(client.new.pos, {})'
      BY <1>4, <2>4, <2>5 DEF Past, ringVars, GoesOn, Trusted, Decodes
    <3> QED
      BY <2>2, <2>4, <3>1 DEF NewKnown
  <2>7. Placed' /\ Armed'
    BY <2>2, <2>4 DEF Placed, Armed, PlacedPcs
  <2>8. ClientPart'
    BY <1>1, <1>4, <2>3, <2>4, <2>6, <2>7, GoneOn DEF OldEpochs, Fresh, WaitPcs
  <2> QED
    BY <2>3, <2>8 DEF BInv
<1>5. ASSUME Minted,
             NEW next, next = [client EXCEPT !.seen = {}, !.snap = {}, !.passed = {}],
             NEW to, to = Positioned(client.new.pos, daemon.epoch + 1),
             client' = IF to = "expired" THEN Over([next EXCEPT !.dirty = TRUE])
                       ELSE [next EXCEPT !.gen = daemon.epoch + 1, !.pc = to]
      PROVE  BInv'
  <2>1. /\ RingPart' /\ ResultPart' /\ RestPart'
        /\ daemon'.epoch = daemon.epoch + 1 /\ router'.active = daemon.epoch + 1
        /\ poll'.st = "none" /\ daemon.epoch < MaxEpochs
    BY <1>1, <1>5, MintedWorld DEF Minted
  <2>2. CASE to = "expired"
    <3>1. PICK c : c = [next EXCEPT !.dirty = TRUE]
      OBVIOUS
    <3>2. c \in ClientType /\ c.cur = client.cur /\ c.view = client.view /\ c.dirty
      BY <1>1, <1>5, <3>1 DEF ClientType
    <3>3. client' = Over(c)
      BY <1>5, <2>2, <3>1
    <3>4. /\ client' \in ClientType /\ client'.pc = "idle" /\ client'.gen = 0
          /\ client'.new.pos = NoPos /\ client'.cur = client.cur /\ client'.view = client.view
          /\ client'.dirty
      BY <3>2, <3>3, OverShape
    <3>5. NoPos.epoch = 0 /\ 0 <= daemon.epoch /\ 0 <= daemon.epoch + 1
      BY <1>1 DEF NoPos
    <3>6. Placed'
      BY <3>4 DEF Placed, PlacedPcs
    <3>7. ClientPart'
      BY <1>1, <2>1, <3>4, <3>5, <3>6, NewDaemon
    <3> QED
      BY <2>1, <3>7 DEF BInv
  <2>3. CASE to # "expired"
    <3>1. client.new.pos.epoch <= daemon.epoch /\ client.new.pos.epoch \in Nat
      BY <1>1, BoardAssumption DEF OldEpochs, ClientType, Cursor
    <3>2. to = "now" /\ "now" \in Pcs
      BY <1>1, <1>5, <2>3, <3>1 DEF Positioned, Pcs
    <3>3. client' = [next EXCEPT !.gen = daemon.epoch + 1, !.pc = "now"]
      BY <1>5, <2>3, <3>2
    <3>4. daemon.epoch + 1 \in 0..MaxEpochs
      BY <1>1, <2>1, BoardAssumption
    <3>5. /\ client' \in ClientType /\ client'.cur = client.cur /\ client'.view = client.view
          /\ client'.new = client.new /\ client'.gen = daemon.epoch + 1 /\ client'.pc = "now"
          /\ client'.dirty = client.dirty
      BY <1>1, <1>5, <3>2, <3>3, <3>4, ZenonT(60) DEF ClientType
    <3>6. Placed'
      BY <3>5 DEF Placed, PlacedPcs
    <3>7. daemon.epoch + 1 <= daemon.epoch + 1
      BY <1>1
    <3>8. ~client'.dirty => /\ ~client.dirty
                            /\ client'.pc \in WaitPcs => client'.new.arch = client.cur.arch
      BY <1>1, <3>5 DEF Fresh, WaitPcs
    <3>9. ClientPart'
      BY <1>1, <2>1, <3>1, <3>5, <3>6, <3>7, <3>8, NewDaemon
    <3> QED
      BY <2>1, <3>9 DEF BInv
  <2> QED
    BY <2>2, <2>3
<1> QED
  BY <1>2, <1>4, <1>5 DEF WaitActive

\* Without a position the wait takes the one of this moment.
LEMMA WaitNowStep ==
  ASSUME BInv, CursorPart, WaitNow
  PROVE  BInv'
<1>1. UNCHANGED <<rows, boardSeq, daemon, router>> /\ Fine /\ client.pc = "now"
  BY DEF WaitNow, Others, At
<1>2. RingPart /\ ResultPart /\ RestPart /\ client \in ClientType /\ OldEpochs /\ RingTypeOK
      /\ Known /\ Fresh
  BY DEF BInv, ClientPart, RingPart
<1>3. CASE Raises /\ UNCHANGED <<ringVars, life>>
  BY <1>1, <1>3, PollTyped, EndSteps DEF ringVars
<1>4. ASSUME Reached, Sweep, NEW v, v = [epoch |-> client.gen, seq |-> LatestSeq],
             client' = [client EXCEPT !.new.pos = v, !.passed = @ \cup Behind, !.pc = "start"]
      PROVE  BInv'
  <2>1. RingPart' /\ ResultPart' /\ LogKept
    BY <1>1, <1>2, <1>4, SweepKeeps
  <2>2. RestPart'
    BY <1>1, <1>2 DEF RestPart, Fine
  <2>3. /\ v \in PosType /\ v.epoch = client.gen /\ v.seq = Len(log)
        /\ Len(log) \in Nat /\ client.gen = daemon.epoch
    <3>1. client.gen \in 0..MaxEpochs /\ Len(log) \in Nat
      BY <1>2, LogShape DEF ClientType, RingTypeOK
    <3> QED
      BY <1>4, <3>1 DEF PosType, LatestSeq, Reached
  <2>4. PICK k, b : k = [client.new EXCEPT !.pos = v] /\ b = Behind
    OBVIOUS
  <2>5. k \in Cursor /\ k.pos = v /\ k.arch = client.new.arch
    BY <1>2, <2>3, <2>4 DEF ClientType, Cursor, PosType
  <2>6. b \subseteq 1..MaxSeq
    BY <1>2, <2>4, RingAssumption, LogShape DEF Behind, RingPart, RingTypeOK
  <2>7. client' = [client EXCEPT !.new = k, !.passed = client.passed \cup b, !.pc = "start"]
    BY <1>4, <2>4
  <2>8. /\ client' \in ClientType /\ client'.pc = "start" /\ client'.new = k
        /\ client'.cur = client.cur /\ client'.seen = client.seen
        /\ client'.passed = client.passed \cup b
        /\ client'.view = client.view /\ client'.dirty = client.dirty
        /\ client'.gen = client.gen
    BY <1>2, <2>5, <2>6, <2>7 DEF ClientType, Pcs
  <2>9. ASSUME Trusted' PROVE Past(v, {})'
    <3>1. Trusted
      BY <1>1, <2>8, <2>9 DEF Trusted, Decodes
    <3>2. client.new.split
      BY <1>1, <3>1 DEF CursorPart, Trusted, Unsplit, WaitPcs
    <3>3. b = {n \in DOMAIN log : log[n].sid \in Ledger}
      BY <2>4, <3>2 DEF Behind
    <3>4. \A n \in DOMAIN log : log[n].sid \in Mine => n \in b
      BY <1>2, <3>3 DEF ResultPart, Spoken, Ledger
    <3>5. /\ DOMAIN log' = DOMAIN log /\ Len(log') = Len(log)
          /\ \A n \in DOMAIN log : log'[n].sid = log[n].sid
      <4>1. PICK S \in SUBSET Sessions : Forget(S)
        BY <1>4 DEF Sweep
      <4>2. Forgotten(S)
        BY <1>2, <4>1, ForgottenShape
      <4> QED
        BY <4>2 DEF Forgotten
    <3> QED
      BY <1>1, <2>3, <2>8, <3>4, <3>5 DEF Past, Mine
  <2>10. ASSUME Trusted' PROVE Past(client.cur.pos, {})'
    <3>1. Trusted
      BY <1>1, <2>8, <2>10 DEF Trusted, Decodes
    <3> QED
      BY <1>1, <1>2, <2>1, <2>8, <3>1, CurStays DEF Known
  <2>11. Known' /\ Placed' /\ Armed'
    <3>1. (Trusted => Past(client.new.pos, {}))' /\ (Trusted => Past(client.cur.pos, {}))'
      BY <2>5, <2>8, <2>9, <2>10 DEF Past
    <3> QED
      BY <2>3, <2>5, <2>8, <3>1 DEF Known, NewKnown, Placed, Armed
  <2>12. OldEpochs'
    BY <1>1, <1>2, <2>3, <2>5, <2>8 DEF OldEpochs
  <2>13. Fresh'
    BY <1>1, <1>2, <2>5, <2>8 DEF Fresh, WaitPcs, OnBoard, Mine
  <2>14. ClientPart'
    BY <2>8, <2>11, <2>12, <2>13 DEF ClientPart, ClientType, Mine
  <2> QED
    BY <2>1, <2>2, <2>14 DEF BInv
<1> QED
  BY <1>3, <1>4 DEF WaitNow

\* A wait goes from one of its steps to the next one.
LEMMA WorkSteps ==
  ASSUME BInv, UNCHANGED <<log, kept, high, cached, decision, life, rows>>,
         UNCHANGED <<boardSeq, daemon, router>>, poll' \in PollType, Fine \/ Fault,
         client.pc \in PlacedPcs, NEW k \in Cursor, NEW q \in PlacedPcs, Work(k, q),
         k.pos = client.new.pos, ~client.dirty => k.arch = client.new.arch,
         q = "daemon" =>
           poll'.st = "none" \/ (poll'.scope = client.scope /\ poll'.after = client.new.pos.seq)
  PROVE  BInv'
<1>1. RingPart' /\ ResultPart' /\ RestPart' /\ LogKept
  BY StillThere
<1>2. client \in ClientType /\ q \in Pcs
  BY DEF BInv, ClientPart, PlacedPcs, Pcs
<1>3. /\ GoesOn /\ client'.new = k /\ client'.pc = q /\ client'.gen = client.gen
      /\ client'.scope = client.scope
  BY <1>2 DEF Work, GoesOn, ClientType
<1>4. ClientPart'
  BY <1>1, <1>3, WaitsOn
<1> QED
  BY <1>1, <1>4 DEF BInv

\* The reply of a wait.
LEMMA GivesStep ==
  ASSUME BInv, UNCHANGED <<log, kept, high, cached, decision, life, rows>>,
         UNCHANGED <<boardSeq, daemon, router>>, poll' \in PollType, Fine \/ Fault,
         NEW d \in BOOLEAN, NEW k \in Cursor, NEW x \in SUBSET DOMAIN log,
         Gives([dirty |-> d, seen |-> x, cur |-> k]),
         k.pos.epoch <= daemon.epoch,
         ~client.dirty => d \/ k.arch = client.cur.arch,
         k.re = client.cur.re, k.topo = client.cur.topo,
         Trusted => Past(k.pos, x \cup Outside(x))
  PROVE  BInv'
<1>1. RingPart' /\ ResultPart' /\ RestPart' /\ LogKept
  BY StillThere
<1>2. client \in ClientType /\ OldEpochs /\ Fresh /\ RestPart /\ RingTypeOK /\ Len(log) <= MaxSeq
  BY DEF BInv, ClientPart, RingPart
<1>3. DOMAIN log \subseteq 1..MaxSeq
  BY <1>2, RingAssumption, LogShape DEF RingTypeOK
<1>4. PICK o : o = Outside(x)
  OBVIOUS
<1>5. o \subseteq 1..MaxSeq
  BY <1>3, <1>4 DEF Outside
<1>6. PICK c : c = [client EXCEPT !.dirty = client.dirty \/ d, !.cur = k,
                                  !.seen = client.seen \cup x, !.passed = client.passed \cup o]
  OBVIOUS
<1>7. client' = Over(c)
  BY <1>4, <1>6 DEF Gives
<1>8. /\ c \in ClientType /\ c.cur = k /\ c.view = client.view
      /\ c.seen = client.seen \cup x /\ c.passed = client.passed \cup o
  BY <1>2, <1>3, <1>5, <1>6 DEF ClientType
<1>9. c.dirty <=> client.dirty \/ d
  BY <1>2, <1>6 DEF ClientType
<1>10. client'.seen = c.seen /\ client'.passed = c.passed /\ client'.cur = k
       /\ client'.dirty = c.dirty
  BY <1>7, <1>8, OverShape
<1>11. ASSUME Trusted' PROVE Past(c.cur.pos, {})'
  <2>0. Trusted
    BY <1>9, <1>10, <1>11 DEF Trusted, Decodes
  <2>1. PICK p, y : p = k.pos /\ y = x \cup o
    OBVIOUS
  <2>2. p.seq \in Nat
    BY <2>1 DEF Cursor
  <2>3. Past(p, y)
    BY <1>4, <2>0, <2>1
  <2>4. Past(p, {})'
    BY <1>1, <1>2, <1>8, <1>10, <2>1, <2>2, <2>3, PastStays
  <2> QED
    BY <1>8, <2>1, <2>4
<1>12. /\ c.cur.pos.epoch <= daemon.epoch /\ router'.active <= daemon.epoch
       /\ ~c.dirty => /\ c.cur.arch.set /\ c.cur.arch.seq <= boardSeq
                      /\ c.cur.arch.seq = boardSeq => c.view = OnBoard
  BY <1>2, <1>8, <1>9 DEF OldEpochs, Fresh
<1>13. ClientPart'
  BY <1>1, <1>2, <1>7, <1>8, <1>11, <1>12, Ends
<1> QED
  BY <1>1, <1>13 DEF BInv

\* The archive's position of the wait.
LEMMA WaitStartStep ==
  ASSUME BInv, WaitStart
  PROVE  BInv'
<1>1. /\ UNCHANGED <<log, kept, high, cached, decision, life, rows>>
      /\ UNCHANGED <<boardSeq, daemon, router>> /\ poll' \in PollType /\ (Fine \/ Fault)
      /\ client.pc \in PlacedPcs
  BY PollTyped DEF WaitStart, Others, ringVars, At, PlacedPcs
<1>2. client \in ClientType /\ Fresh /\ boardSeq \in Nat
  BY DEF BInv, ClientPart, RestPart
<1>3. client.new \in Cursor /\ client.pc \in WaitPcs
  BY <1>1, <1>2 DEF ClientType, PlacedPcs, WaitPcs
<1>4. "loop" \in PlacedPcs /\ "forward" \in PlacedPcs
  BY DEF PlacedPcs
<1>5. CASE Work(client.new, "loop") \/ Work(client.new, "forward")
  BY <1>1, <1>3, <1>4, <1>5, WorkSteps
<1>6. CASE /\ ~client.new.arch.set
           /\ Work([client.new EXCEPT !.arch = [set |-> TRUE, seq |-> boardSeq]], "loop")
  <2>1. PICK a : a = [set |-> TRUE, seq |-> boardSeq]
    OBVIOUS
  <2>2. a \in [set : BOOLEAN, seq : Nat]
    BY <1>2, <2>1
  <2>3. PICK k : k = [client.new EXCEPT !.arch = a]
    OBVIOUS
  <2>4. k \in Cursor /\ k.pos = client.new.pos
    BY <1>3, <2>2, <2>3 DEF Cursor
  <2>5. client.dirty
    BY <1>2, <1>3, <1>6 DEF Fresh
  <2>6. Work(k, "loop")
    BY <1>6, <2>1, <2>3
  <2> QED
    BY <1>1, <1>4, <2>4, <2>5, <2>6, WorkSteps
<1> QED
  BY <1>5, <1>6 DEF WaitStart

\* A turn that tells of a change of the results, or nothing in the whole window.
LEMMA WaitLoopSteps ==
  ASSUME BInv, CursorPart, WaitLoop \/ WindowOver
  PROVE  BInv'
<1>1. /\ UNCHANGED <<log, kept, high, cached, decision, life, rows>>
      /\ UNCHANGED <<boardSeq, daemon, router>> /\ poll' \in PollType /\ (Fine \/ Fault)
      /\ client.pc \in PlacedPcs
  BY PollTyped DEF WaitLoop, WindowOver, Others, ringVars, At, PlacedPcs
<1>2. client \in ClientType /\ Fresh /\ boardSeq \in Nat /\ Known /\ OldEpochs
  BY DEF BInv, ClientPart, RestPart
<1>3. client.new \in Cursor /\ client.pc \in WaitPcs
  BY <1>1, <1>2 DEF ClientType, PlacedPcs, WaitPcs
<1> DEFINE x == {}
<1>4. /\ x \in SUBSET DOMAIN log /\ (Trusted => Past(client.new.pos, x \cup Outside(x)))
      /\ client.new.pos.epoch <= daemon.epoch
      /\ client.new.re = client.cur.re /\ client.new.topo = client.cur.topo
  BY <1>2, <1>3 DEF Known, NewKnown, OldEpochs, Past, CursorPart
<1> HIDE DEF x
<1>5. CASE Work(client.new, "forward")
  <2>1. "forward" \in PlacedPcs
    BY DEF PlacedPcs
  <2> QED
    BY <1>1, <1>3, <1>5, <2>1, WorkSteps
<1>6. CASE Gives([dirty |-> TRUE, seen |-> {},
                  cur |-> [client.new EXCEPT !.arch.seq = boardSeq]])
  <2>1. PICK a : a = [client.new.arch EXCEPT !.seq = boardSeq]
    OBVIOUS
  <2>2. a \in [set : BOOLEAN, seq : Nat]
    BY <1>2, <1>3, <2>1 DEF Cursor
  <2>3. PICK k : k = [client.new EXCEPT !.arch = a]
    OBVIOUS
  <2>4. /\ k \in Cursor /\ k.pos = client.new.pos
        /\ k.re = client.new.re /\ k.topo = client.new.topo
    BY <1>3, <2>2, <2>3 DEF Cursor
  <2>5. Gives([dirty |-> TRUE, seen |-> x, cur |-> k])
    BY <1>6, <2>1, <2>3 DEF x
  <2>6. k.pos.epoch <= daemon.epoch /\ (Trusted => Past(k.pos, x \cup Outside(x)))
    BY <1>4, <2>4
  <2> QED
    BY <1>1, <1>4, <2>4, <2>5, <2>6, GivesStep
<1>7. CASE Gives([dirty |-> FALSE, seen |-> {}, cur |-> client.new])
  <2>1. ~client.dirty => client.new.arch = client.cur.arch
    BY <1>2, <1>3 DEF Fresh
  <2>2. Gives([dirty |-> FALSE, seen |-> x, cur |-> client.new])
    BY <1>7 DEF x
  <2> QED
    BY <1>1, <1>3, <1>4, <2>1, <2>2, GivesStep
<1> QED
  BY <1>5, <1>6, <1>7 DEF WaitLoop, WindowOver

\* The wait goes to the daemon, or the daemon is out of reach.
LEMMA ForwardSteps ==
  ASSUME BInv, Forward \/ WaitBroken
  PROVE  BInv'
<1>1. /\ UNCHANGED <<log, kept, high, cached, decision, life, rows>>
      /\ UNCHANGED <<boardSeq, daemon, router>> /\ (Fine \/ Fault)
      /\ client.pc \in PlacedPcs
  BY DEF Forward, WaitBroken, Others, ringVars, At, PlacedPcs
<1>2. client \in ClientType
  BY DEF BInv, ClientPart
<1>3. client.new \in Cursor /\ client.scope \in SUBSET Sessions /\ client.new.pos.seq \in Nat
  BY <1>2 DEF ClientType, Cursor, Mine
<1>4. "again" \in PlacedPcs /\ "daemon" \in PlacedPcs
  BY DEF PlacedPcs
<1>5. CASE Back /\ UNCHANGED poll
  <2>1. poll' \in PollType
    BY <1>5, PollTyped
  <2>2. Work(client.new, "again") \/ Raises
    BY <1>5 DEF Back
  <2>3. CASE Raises
    BY <1>1, <2>1, <2>3, EndSteps
  <2>4. CASE Work(client.new, "again")
    BY <1>1, <1>3, <1>4, <2>1, <2>4, WorkSteps
  <2> QED
    BY <2>2, <2>3, <2>4
<1>6. CASE Arm(client.scope, client.new.pos.seq) /\ Work(client.new, "daemon")
  <2>1. poll' \in PollType /\ poll'.scope = client.scope /\ poll'.after = client.new.pos.seq
    BY <1>3, <1>6 DEF Arm, PollType
  <2> QED
    BY <1>1, <1>3, <1>4, <1>6, <2>1, WorkSteps
<1> QED
  BY <1>5, <1>6 DEF Forward, WaitBroken, ringVars

\* The first event after the cursor: everything before it is known, or was of
\* a session outside the wait.
LEMMA Delivered ==
  ASSUME BInv, client.pc = "daemon", poll.st # "none", client.new.pos.epoch = daemon.epoch,
         NEW r, r = Look(poll.after, poll.scope), r.what = "event"
  PROVE  /\ r.seq \in DOMAIN log
         /\ Trusted =>
              \A n \in DOMAIN log :
                n <= r.seq /\ log[n].sid \in Mine /\ ~log[n].gone
                => n \in client.seen \cup client.passed \cup {r.seq} \cup Outside({r.seq})
<1>1. /\ client \in ClientType /\ Known /\ Armed /\ RingTypeOK /\ Marked /\ Spoken
  BY DEF BInv, ClientPart, RingPart, ResultPart
<1>2. PICK a, S : a = client.new.pos.seq /\ S = client.scope
  OBVIOUS
<1>3. a \in Nat /\ S \subseteq Mine /\ poll.after = a /\ poll.scope = S
  BY <1>1, <1>2 DEF ClientType, Cursor, Armed
<1>4. DOMAIN log \subseteq Nat /\ kept \subseteq DOMAIN log
  BY <1>1, LogShape DEF RingTypeOK
<1>5. ~Expired(a, S) /\ FirstAfter(a, S) # {} /\ r.seq = Min(FirstAfter(a, S))
  BY <1>3 DEF Look
<1>6. r.seq \in FirstAfter(a, S) /\ \A n \in FirstAfter(a, S) : r.seq <= n
  <2>1. FirstAfter(a, S) \subseteq Nat
    BY <1>4 DEF FirstAfter
  <2> QED
    BY <1>5, <2>1, MinIsLeast
<1>7. r.seq \in DOMAIN log /\ r.seq \in Nat
  BY <1>4, <1>6 DEF FirstAfter
<1>8. Trusted => Past(client.new.pos, {})
  BY <1>1 DEF Known, NewKnown, WaitPcs
<1>9. ASSUME Trusted, NEW n \in DOMAIN log, n <= r.seq, log[n].sid \in Mine,
             ~log[n].gone
      PROVE  n \in client.seen \cup client.passed \cup {r.seq} \cup Outside({r.seq})
  <2>1. n \in Nat /\ log[n].sid \in Sessions
    BY <1>4, <1>9 DEF Mine
  <2>2. CASE n <= a
    <3>1. n \in client.seen \cup client.passed \cup {}
      BY <1>2, <1>8, <1>9, <2>2 DEF Past
    <3> QED
      BY <3>1
  <2>3. CASE n > a /\ n < r.seq /\ log[n].sid \in S
    <3>1. n \notin kept
      BY <1>6, <1>7, <2>1, <2>3 DEF FirstAfter
    <3>2. n <= high[log[n].sid]
      <4>1. n \in DOMAIN log \ kept
        BY <1>9, <3>1
      <4> QED
        BY <1>1, <1>9, <4>1, Zenon DEF Marked
    <3>3. high[log[n].sid] \in Nat
      BY <1>1, <2>1 DEF RingTypeOK
    <3> QED
      BY <1>3, <1>5, <2>1, <2>3, <3>2, <3>3 DEF Expired
  <2>4. CASE n > a /\ n < r.seq /\ log[n].sid \notin S
    BY <1>1, <1>2, <1>9, <2>4 DEF Outside, Ledger, Spoken
  <2> QED
    BY <1>3, <1>7, <1>9, <2>1, <2>2, <2>3, <2>4
<1> QED
  BY <1>7, <1>9

\* The daemon's answer.
LEMMA DeliverStep ==
  ASSUME BInv, CursorPart, Deliver
  PROVE  BInv'
<1>1. /\ UNCHANGED <<log, kept, high, cached, decision, life, rows>>
      /\ UNCHANGED <<boardSeq, daemon, router>> /\ poll' \in PollType /\ Fine
      /\ client.pc = "daemon" /\ poll.st # "none" /\ poll' = Calm
  BY PollTyped DEF Deliver, Others, At
<1>2. client \in ClientType /\ Fresh /\ Known /\ Placed /\ OldEpochs /\ RingTypeOK
  BY DEF BInv, ClientPart, RingPart
<1>3. client.new \in Cursor /\ client.pc \in WaitPcs /\ client.pc \in PlacedPcs
      /\ client.new.pos.epoch = daemon.epoch
      /\ client.new.re = client.cur.re /\ client.new.topo = client.cur.topo
  BY <1>1, <1>2 DEF ClientType, WaitPcs, PlacedPcs, Placed, Deliver, Reached, CursorPart
<1>4. ~client.dirty => client.new.arch = client.cur.arch
  BY <1>2, <1>3 DEF Fresh
<1>5. CASE Resync
  BY <1>1, <1>5, EndSteps
<1>6. CASE Work(client.new, "again")
  <2>1. "again" \in PlacedPcs /\ "again" # "daemon"
    BY DEF PlacedPcs
  <2> QED
    BY <1>1, <1>3, <1>6, <2>1, WorkSteps
<1>7. CASE Gives([dirty |-> FALSE, seen |-> {}, cur |-> client.new])
  <2> DEFINE x == {}
  <2>1. /\ x \in SUBSET DOMAIN log /\ (Trusted => Past(client.new.pos, x \cup Outside(x)))
        /\ client.new.pos.epoch <= daemon.epoch
    BY <1>2, <1>3 DEF Known, NewKnown, OldEpochs, Past
  <2>2. Gives([dirty |-> FALSE, seen |-> x, cur |-> client.new])
    BY <1>7
  <2> HIDE DEF x
  <2> QED
    BY <1>1, <1>3, <1>4, <2>1, <2>2, GivesStep
<1>8. ASSUME NEW r, r = Look(poll.after, poll.scope), r.what = "event",
             Gives([dirty |-> FALSE, seen |-> {r.seq}, cur |-> [client.new EXCEPT !.pos.seq = r.seq]])
      PROVE  BInv'
  <2>1. /\ r.seq \in DOMAIN log
        /\ Trusted =>
             \A n \in DOMAIN log :
               n <= r.seq /\ log[n].sid \in Mine /\ ~log[n].gone
               => n \in client.seen \cup client.passed \cup {r.seq} \cup Outside({r.seq})
    BY <1>1, <1>3, <1>8, Delivered
  <2>2. r.seq \in Nat /\ r.seq <= Len(log)
    BY <1>2, <2>1, LogShape DEF RingTypeOK
  <2>3. PICK v : v = [client.new.pos EXCEPT !.seq = r.seq]
    OBVIOUS
  <2>4. /\ v \in [epoch : 0..MaxEpochs, seq : Nat]
        /\ v.epoch = client.new.pos.epoch /\ v.seq = r.seq
    BY <1>3, <2>2, <2>3 DEF Cursor
  <2>6. PICK k : k = [client.new EXCEPT !.pos = v]
    OBVIOUS
  <2>7. /\ k \in Cursor /\ k.pos = v /\ k.arch = client.new.arch
        /\ k.re = client.new.re /\ k.topo = client.new.topo
    BY <1>3, <2>4, <2>6 DEF Cursor
  <2>8. PICK x \in SUBSET DOMAIN log : x = {r.seq}
    BY <2>1
  <2>9. Gives([dirty |-> FALSE, seen |-> x, cur |-> k])
    BY <1>8, <2>3, <2>6, <2>8
  <2>10. ASSUME Trusted PROVE Past(k.pos, x \cup Outside(x))
    <3>1. PICK o : o = Outside(x)
      OBVIOUS
    <3>2. \A n \in DOMAIN log :
            n <= v.seq /\ log[n].sid \in Mine /\ ~log[n].gone
            => n \in client.seen \cup client.passed \cup (x \cup o)
      BY <2>1, <2>4, <2>8, <2>10, <3>1
    <3>3. Past(v, x \cup o)
      BY <2>2, <2>4, <3>2 DEF Past
    <3> QED
      BY <2>7, <3>1, <3>3
  <2>11. k.pos.epoch <= daemon.epoch
    BY <1>2, <2>4, <2>7 DEF OldEpochs
  <2> QED
    BY <1>1, <1>3, <1>4, <2>7, <2>8, <2>9, <2>10, <2>11, GivesStep
<1>9. PICK r : r = Look(poll.after, poll.scope)
  OBVIOUS
<1>10. r.what \in {"expired", "event", "nothing"}
  BY <1>9 DEF Look
<1>11. CASE r.what = "expired"
  BY <1>5, <1>9, <1>11 DEF Deliver
<1>12. CASE r.what = "event"
  BY <1>8, <1>9, <1>12 DEF Deliver
<1>13. CASE r.what = "nothing"
  BY <1>6, <1>7, <1>9, <1>13 DEF Deliver
<1> QED
  BY <1>10, <1>11, <1>12, <1>13

\* The new router knows the old daemon or none; the request is over.
LEMMA RouterStep ==
  ASSUME BInv, CursorPart, RouterRestarts
  PROVE  BInv'
<1>1. RingPart /\ ResultPart /\ RestPart /\ RingTypeOK /\ OldEpochs
      /\ rows \in [Mine -> {"none", "on", "acked", "expired"}]
      /\ life \in [Sessions -> {"new", "live", "ending", "ended", "forgotten", "lost"}]
  BY DEF BInv, RingPart, ResultPart, ClientPart
<1>2. PICK a \in {0, daemon.epoch} : router' = [epoch |-> router.epoch + 1, topo |-> 1, active |-> a]
  BY DEF RouterRestarts
<1>3. /\ UNCHANGED <<log, kept, high, cached, decision, rows, boardSeq, life, daemon>>
      /\ poll' = Calm /\ Fault /\ Raises
  BY DEF RouterRestarts, Raises
<1>4. poll' \in PollType
  BY <1>3, PollTyped
<1>5. RingPart' /\ ResultPart'
  BY <1>1, <1>3, <1>4, RingAlone
<1>6. RestPart' /\ router'.active <= daemon.epoch
  <2>1. a \in 0..MaxEpochs /\ a <= daemon.epoch /\ router.epoch + 1 \in Nat
    BY <1>1, <1>2, BoardAssumption DEF RestPart
  <2>2. faults' \in 0..MaxFaults
    BY <1>1, <1>3, BoardAssumption DEF RestPart, Fault
  <2> QED
    BY <1>1, <1>2, <1>3, <2>1, <2>2 DEF RestPart
<1>7. LogKept
  BY <1>1, <1>3, LogGoesOn
<1>8. Decodes(client.cur)' => Decodes(client.cur)
  <2>1. /\ client'.cur = client.cur /\ client.cur.re <= router.epoch
        /\ client.cur.re \in Nat /\ router.epoch \in Nat /\ router'.epoch = router.epoch + 1
    BY <1>1, <1>2, <1>3, OverShape
    DEF BInv, ClientPart, CursorPart, Ordered, Raises, ClientType, Cursor, RestPart
  <2> QED
    BY <2>1 DEF Decodes
<1>9. ClientPart'
  BY <1>3, <1>6, <1>7, <1>8, EndsSame
<1> QED
  BY <1>5, <1>6, <1>9 DEF BInv

-----------------------------------------------------------------------------
(* Cursors without a position                                              *)

\* What happens to others than the router and its client.
LEMMA CursorWorld ==
  ASSUME CursorPart, UNCHANGED <<client, router>>, daemon'.up => daemon.up,
         daemon'.epoch = daemon.epoch
  PROVE  CursorPart'
BY DEF CursorPart, Ordered, Unsplit, Decodes

\* A request ends with the cursor of c.
LEMMA CursorEnds ==
  ASSUME RestPart', daemon'.up => daemon'.epoch # 0, NEW c \in ClientType, client' = Over(c),
         Ordered(c.cur)', ~c.dirty => Unsplit(c.cur)'
  PROVE  CursorPart'
<1>1. /\ client'.pc = "idle" /\ client'.new = NoCursor
      /\ client'.cur = c.cur /\ client'.dirty = c.dirty
  BY OverShape DEF Over, ClientType
<1>2. Ordered(NoCursor)'
  BY DEF Ordered, NoCursor, RestPart
<1>3. Ordered(client.new)' /\ Ordered(client.cur)' /\ (~client'.dirty => Unsplit(client.cur)')
  BY <1>1, <1>2 DEF Ordered, Unsplit, Decodes
<1> QED
  BY <1>1, <1>3 DEF CursorPart, WaitPcs, PlacedPcs

\* It ends without a new one, while the router stays or is replaced.
LEMMA CursorSame ==
  ASSUME BInv, CursorPart, RestPart', UNCHANGED daemon, Raises \/ Resync,
         UNCHANGED router \/ (router'.epoch = router.epoch + 1)
  PROVE  CursorPart'
<1>1. client \in ClientType /\ RestPart
  BY DEF BInv, ClientPart
<1>2. PICK c \in ClientType : /\ client' = Over(c) /\ c.cur = client.cur
                              /\ client.dirty => c.dirty
  <2>1. /\ [client EXCEPT !.dirty = TRUE] \in ClientType
        /\ [client EXCEPT !.dirty = TRUE].cur = client.cur
        /\ [client EXCEPT !.dirty = TRUE].dirty
    BY <1>1 DEF ClientType
  <2> QED
    BY <1>1, <2>1 DEF Raises, Resync
<1>3. client.cur.re \in Nat /\ router.epoch \in Nat
  BY <1>1 DEF ClientType, Cursor, RestPart
<1>4. Ordered(c.cur)' /\ (~c.dirty => Unsplit(c.cur)')
  BY <1>2, <1>3 DEF CursorPart, Ordered, Unsplit, Decodes
<1> QED
  BY <1>2, <1>4, CursorEnds DEF CursorPart

\* A wait that knows its daemon goes on.
LEMMA CursorWorks ==
  ASSUME BInv, CursorPart, UNCHANGED <<daemon, router>>, client.pc \in PlacedPcs \cup {"now"},
         client' \in ClientType, client'.pc \in PlacedPcs, client'.gen = client.gen,
         client'.cur = client.cur, client'.dirty = client.dirty,
         client'.new.re = client.new.re, client'.new.topo = client.new.topo,
         client'.new.split = client.new.split
  PROVE  CursorPart'
<1>1. client.pc \in WaitPcs /\ client'.pc \in WaitPcs
  BY DEF PlacedPcs, WaitPcs
<1>2. client'.pc \notin {"archive", "status", "snapshot", "active", "now"}
  BY DEF PlacedPcs
<1> QED
  BY <1>1, <1>2 DEF CursorPart, Ordered, Unsplit, Decodes

\* The reply of a wait has a position.
LEMMA CursorGives ==
  ASSUME BInv, CursorPart, UNCHANGED <<daemon, router>>, RestPart', client.pc \in PlacedPcs,
         NEW d \in BOOLEAN, NEW k \in Cursor, NEW x \in SUBSET DOMAIN log,
         Gives([dirty |-> d, seen |-> x, cur |-> k]),
         k.re = client.new.re, k.topo = client.new.topo, k.pos.epoch = client.new.pos.epoch
  PROVE  CursorPart'
<1>1. client \in ClientType /\ Placed /\ RingTypeOK
  BY DEF BInv, ClientPart, RingPart
<1>2. DOMAIN log \subseteq 1..MaxSeq
  BY <1>1, RingAssumption, LogShape DEF BInv, RingPart, RingTypeOK
<1>3. PICK o : o = Outside(x)
  OBVIOUS
<1>4. o \subseteq 1..MaxSeq
  BY <1>2, <1>3 DEF Outside
<1>5. PICK c : c = [client EXCEPT !.dirty = client.dirty \/ d, !.cur = k,
                                  !.seen = client.seen \cup x, !.passed = client.passed \cup o]
  OBVIOUS
<1>6. client' = Over(c)
  BY <1>3, <1>5 DEF Gives
<1>7. c \in ClientType /\ c.cur = k
  BY <1>1, <1>2, <1>4, <1>5 DEF ClientType
<1>8. k.pos.epoch # 0
  BY <1>1 DEF Placed, CursorPart
<1>9. Ordered(c.cur)' /\ Unsplit(c.cur)'
  BY <1>7, <1>8 DEF CursorPart, Ordered, Unsplit
<1> QED
  BY <1>6, <1>7, <1>9, CursorEnds DEF CursorPart

\* The board is read: where its cursor gets a position, and where it does not.
LEMMA CursorBoard ==
  ASSUME BInv, CursorPart, RestPart',
         ReadBoard \/ ReadTopology \/ Status \/ StatusFails \/ Snapshot \/ SnapshotFails
  PROVE  CursorPart'
<1>1. UNCHANGED <<daemon, router>> /\ client \in ClientType /\ RestPart
  BY DEF BInv, ClientPart, ReadBoard, ReadTopology, Status, StatusFails, Snapshot, SnapshotFails,
         Unreached, Others
<1>2. CASE ReadBoard
  <2>1. /\ client'.pc = "topology" /\ client'.new = client.new /\ client'.cur = client.cur
        /\ client'.dirty = client.dirty
    BY <1>1, <1>2 DEF ReadBoard, ClientType
  <2> QED
    BY <1>1, <2>1 DEF CursorPart, Ordered, Unsplit, Decodes, WaitPcs, PlacedPcs
<1>3. CASE ReadTopology
  <2>1. PICK k : k = [NoCursor EXCEPT !.re = router.epoch, !.topo = router.topo,
                                      !.split = client.gen # router.active]
    OBVIOUS
  <2>2. k.re = router.epoch /\ k.topo = router.topo /\ k.split = (client.gen # router.active)
    BY <2>1 DEF NoCursor
  <2>3. PICK q : /\ q = IF client.gen = 0 THEN "archive" ELSE "status"
                 /\ client' = [client EXCEPT !.new = k, !.pc = q]
    BY <1>3, <2>1, Zenon DEF ReadTopology, Work
  <2>4. /\ client'.pc = q /\ client'.new = k /\ client'.cur = client.cur
        /\ client'.dirty = client.dirty /\ client'.gen = client.gen
    BY <1>1, <2>3 DEF ClientType
  <2>5. Ordered(k)' /\ (client.gen = 0 => Unsplit(k)')
    <3>1. Ordered(k)'
      BY <1>1, <2>2 DEF Ordered, RestPart
    <3>2. CASE client.gen = 0 /\ router.active = 0
      BY <1>1, <3>1, <3>2 DEF Unsplit
    <3>3. CASE client.gen = 0 /\ router.active # 0
      <4>1. k.split
        BY <2>2, <3>3
      <4> QED
        BY <3>1, <4>1 DEF Unsplit
    <3> QED
      BY <3>1, <3>2, <3>3
  <2>6. q \in {"archive", "status"} /\ (q = "archive" <=> client.gen = 0)
    BY <2>3
  <2> QED
    BY <1>1, <2>4, <2>5, <2>6 DEF CursorPart, Ordered, Unsplit, Decodes, WaitPcs, PlacedPcs
<1>4. CASE Status
  <2>1. PICK v : v = [epoch |-> client.gen, seq |-> LatestSeq]
    OBVIOUS
  <2>2. client.pc = "status" /\ v.epoch = client.gen
        /\ client' = [client EXCEPT !.new.pos = v, !.pc = "snapshot"]
    BY <1>4, <2>1 DEF Status, At
  <2>3. PICK k : k = [client.new EXCEPT !.pos = v]
    OBVIOUS
  <2>4. k.re = client.new.re /\ k.topo = client.new.topo /\ k.pos = v
    BY <1>1, <2>3 DEF ClientType, Cursor
  <2>5. /\ client'.pc = "snapshot" /\ client'.new = k /\ client'.cur = client.cur
        /\ client'.dirty = client.dirty /\ client'.gen = client.gen
    BY <1>1, <2>2, <2>3 DEF ClientType
  <2> QED
    BY <1>1, <2>2, <2>4, <2>5 DEF CursorPart, Ordered, Unsplit, Decodes, WaitPcs, PlacedPcs
<1>5. CASE StatusFails \/ SnapshotFails
  <2>1. /\ client'.pc = "archive" /\ ~client'.whole /\ client'.cur = client.cur
        /\ client'.dirty = client.dirty
        /\ client'.new.re = client.new.re /\ client'.new.topo = client.new.topo
    <3>1. CASE StatusFails
      BY <1>1, <3>1 DEF StatusFails, Unreached, ClientType
    <3>2. CASE SnapshotFails
      <4>1. PICK k : k = [client.new EXCEPT !.pos = NoPos]
        OBVIOUS
      <4>2. client' = [client EXCEPT !.whole = FALSE, !.new = k, !.pc = "archive"]
        BY <3>2, <4>1 DEF SnapshotFails
      <4>3. k.re = client.new.re /\ k.topo = client.new.topo
        BY <1>1, <4>1 DEF ClientType, Cursor
      <4> QED
        BY <1>1, <4>2, <4>3 DEF ClientType
    <3> QED
      BY <1>5, <3>1, <3>2
  <2> QED
    BY <1>1, <2>1 DEF CursorPart, Ordered, Unsplit, Decodes, WaitPcs, PlacedPcs
<1>6. CASE Snapshot
  <2>1. /\ client.pc = "snapshot" /\ client'.pc = "archive" /\ client'.new = client.new
        /\ client'.cur = client.cur /\ client'.dirty = client.dirty
    BY <1>1, <1>6 DEF Snapshot, ClientType, At
  <2>2. client.new.pos.epoch # 0
    BY <2>1 DEF CursorPart
  <2> QED
    BY <1>1, <2>1, <2>2 DEF CursorPart, Ordered, Unsplit, Decodes, WaitPcs, PlacedPcs
<1> QED
  BY <1>2, <1>3, <1>4, <1>5, <1>6

\* The board is given to the client; without a healthy daemon it is incomplete.
LEMMA CursorArchive ==
  ASSUME BInv, CursorPart, RestPart', ReadArchive
  PROVE  CursorPart'
<1>1. UNCHANGED <<daemon, router>> /\ client \in ClientType /\ RestPart /\ client.pc = "archive"
      /\ DOMAIN log \subseteq 1..MaxSeq
  BY RingAssumption, LogShape
  DEF BInv, ClientPart, RingPart, RingTypeOK, ReadArchive, Others, At
<1>2. PICK k : k = [client.new EXCEPT !.arch = [set |-> TRUE, seq |-> boardSeq]]
  OBVIOUS
<1>3. PICK a : a = [set |-> TRUE, seq |-> boardSeq]
  OBVIOUS
<1>4. a \in [set : BOOLEAN, seq : Nat] /\ k = [client.new EXCEPT !.arch = a]
  BY <1>1, <1>2, <1>3 DEF RestPart
<1>5. /\ k \in Cursor /\ k.pos = client.new.pos /\ k.re = client.new.re
      /\ k.topo = client.new.topo /\ k.split = client.new.split
  BY <1>1, <1>4 DEF ClientType, Cursor
<1>6. PICK c \in ClientType :
        /\ client' = Over(c) /\ c.cur.re = client.new.re /\ c.cur.topo = client.new.topo
        /\ c.cur.pos = client.new.pos /\ c.cur.split = client.new.split
        /\ ~c.dirty => client.whole
  <2>1. CASE client' = Over([client EXCEPT !.dirty = ~client.whole, !.view = OnBoard,
                               !.seen = @ \cup client.snap,
                               !.cur = [client.new EXCEPT !.arch = [set |-> TRUE, seq |-> boardSeq]]])
    <3>1. PICK c : c = [client EXCEPT !.dirty = ~client.whole, !.view = OnBoard,
                                       !.seen = client.seen \cup client.snap, !.cur = k]
      OBVIOUS
    <3>2. client' = Over(c)
      BY <1>2, <2>1, <3>1
    <3>3. c \in ClientType /\ c.cur = k /\ c.dirty = ~client.whole
      BY <1>1, <1>5, <3>1 DEF ClientType, OnBoard
    <3> QED
      BY <1>5, <3>2, <3>3
  <2>2. CASE client' = Over([client EXCEPT !.dirty = TRUE, !.cur = client.new,
                               !.seen = @ \cup client.snap])
    <3>1. PICK c : c = [client EXCEPT !.dirty = TRUE, !.cur = client.new,
                                       !.seen = client.seen \cup client.snap]
      OBVIOUS
    <3>2. client' = Over(c)
      BY <2>2, <3>1
    <3>3. c \in ClientType /\ c.cur = client.new /\ c.dirty
      BY <1>1, <3>1 DEF ClientType
    <3> QED
      BY <3>2, <3>3
  <2> QED
    BY <2>1, <2>2 DEF ReadArchive
<1>7. Ordered(c.cur)' /\ (~c.dirty => Unsplit(c.cur)')
  BY <1>1, <1>6 DEF CursorPart, Ordered, Unsplit, Decodes
<1> QED
  BY <1>1, <1>6, <1>7, CursorEnds DEF CursorPart

\* A daemon is installed: every cursor is of an older topology.
LEMMA CursorMinted ==
  ASSUME BInv, CursorPart, Minted, RestPart',
         client' \in ClientType, client'.cur = client.cur, client'.dirty = client.dirty,
         client'.new = client.new,
         \/ client'.pc = client.pc /\ client'.gen = client.gen
         \/ /\ client.pc = "active" /\ client'.pc = "now" /\ client'.gen = daemon.epoch + 1
            /\ client.new.pos.epoch = 0
  PROVE  CursorPart'
<1>1. /\ router.active = 0 /\ router'.active = daemon.epoch + 1 /\ daemon.epoch \in Nat
      /\ router'.epoch = router.epoch /\ router'.topo = router.topo + 1
      /\ daemon'.epoch = daemon.epoch + 1
      /\ router.epoch \in Nat /\ router.topo \in Nat
  BY BoardAssumption DEF Minted, BInv, RestPart
<1>2. /\ client.cur.re \in Nat /\ client.cur.topo \in Nat
      /\ client.new.re \in Nat /\ client.new.topo \in Nat
  BY DEF BInv, ClientPart, ClientType, Cursor
<1>3. /\ Ordered(client.cur)' /\ Ordered(client.new)'
      /\ ~Decodes(client.cur)' /\ ~Decodes(client.new)'
  BY <1>1, <1>2 DEF CursorPart, Ordered, Decodes
<1>4. client.pc \notin PlacedPcs \cup {"now"}
  BY <1>1 DEF CursorPart
<1>5. "active" \in WaitPcs /\ "now" \notin {"archive", "status", "snapshot"}
  BY DEF WaitPcs
<1> QED
  BY <1>1, <1>3, <1>4, <1>5 DEF CursorPart, Unsplit

\* A wait begins, and gets to the active daemon.
LEMMA CursorWait ==
  ASSUME BInv, CursorPart, RestPart', Wait \/ WaitActive \/ WaitNow
  PROVE  CursorPart'
<1>1. client \in ClientType /\ RestPart /\ daemon.epoch \in Nat
  BY BoardAssumption DEF BInv, ClientPart, RestPart
<1>2. CASE UNCHANGED <<daemon, router>> /\ (Raises \/ Resync)
  BY <1>2, CursorSame
<1>3. CASE Wait /\ client' = [client EXCEPT !.new = client.cur, !.scope = Ledger, !.pc = "active"]
  <2>1. /\ client'.pc = "active" /\ client'.new = client.cur /\ client'.cur = client.cur
        /\ client'.dirty = client.dirty /\ UNCHANGED <<daemon, router>>
    BY <1>1, <1>3 DEF ClientType, Wait, Others
  <2> QED
    BY <2>1 DEF CursorPart, Ordered, Unsplit, Decodes, PlacedPcs
<1>4. ASSUME WaitActive, Serving, UNCHANGED <<daemon, router>>,
             NEW to, to = Positioned(client.new.pos, router.active), to # "expired",
             client' = [client EXCEPT !.gen = router.active, !.pc = to]
      PROVE  CursorPart'
  <2>1. router.active # 0 /\ client.pc = "active"
    BY <1>4 DEF Serving, CursorPart, WaitActive, At
  <2>2. to \in {"now", "start"} /\ (to = "now" => client.new.pos.epoch = 0)
    BY <1>4 DEF Positioned
  <2>3. /\ client'.pc = to /\ client'.gen = router.active /\ client'.new = client.new
        /\ client'.cur = client.cur /\ client'.dirty = client.dirty
    BY <1>1, <1>4 DEF ClientType
  <2>4. "active" \in WaitPcs /\ to \notin {"archive", "status", "snapshot", "active"}
    BY <2>2 DEF WaitPcs
  <2> QED
    BY <1>4, <2>1, <2>2, <2>3, <2>4 DEF CursorPart, Ordered, Unsplit, Decodes
<1>5. ASSUME WaitActive, Minted,
             NEW next, next = [client EXCEPT !.seen = {}, !.snap = {}, !.passed = {}],
             NEW to, to = Positioned(client.new.pos, daemon.epoch + 1),
             client' = IF to = "expired" THEN Over([next EXCEPT !.dirty = TRUE])
                       ELSE [next EXCEPT !.gen = daemon.epoch + 1, !.pc = to]
      PROVE  CursorPart'
  <2>1. /\ router'.epoch = router.epoch /\ router'.topo = router.topo + 1
        /\ daemon'.epoch = daemon.epoch + 1 /\ router.topo \in Nat /\ daemon.epoch < MaxEpochs
        /\ client.pc = "active"
    BY <1>1, <1>5 DEF Minted, RestPart, WaitActive, At
  <2>2. CASE to = "expired"
    <3>1. PICK c : c = [next EXCEPT !.dirty = TRUE]
      OBVIOUS
    <3>2. c \in ClientType /\ c.cur = client.cur /\ c.dirty
      BY <1>1, <1>5, <3>1 DEF ClientType
    <3>3. client' = Over(c)
      BY <1>5, <2>2, <3>1
    <3>4. client.cur.topo \in Nat
      BY <1>1 DEF ClientType, Cursor
    <3>5. Ordered(c.cur)' /\ daemon'.epoch # 0
      BY <1>1, <2>1, <3>2, <3>4 DEF CursorPart, Ordered
    <3> QED
      BY <3>2, <3>3, <3>5, CursorEnds
  <2>3. CASE to # "expired"
    <3>1. client.new.pos.epoch <= daemon.epoch /\ client.new.pos.epoch \in Nat
      BY <1>1, BoardAssumption DEF BInv, ClientPart, OldEpochs, ClientType, Cursor
    <3>2. to = "now" /\ "now" \in Pcs /\ client.new.pos.epoch = 0
      BY <1>1, <1>5, <2>3, <3>1 DEF Positioned, Pcs
    <3>3. client' = [next EXCEPT !.gen = daemon.epoch + 1, !.pc = "now"]
      BY <1>5, <2>3, <3>2
    <3>4. daemon.epoch + 1 \in 0..MaxEpochs
      BY <1>1, <2>1, BoardAssumption
    <3>5. /\ client' \in ClientType /\ client'.cur = client.cur /\ client'.new = client.new
          /\ client'.gen = daemon.epoch + 1 /\ client'.pc = "now"
          /\ client'.dirty = client.dirty
      BY <1>1, <1>5, <3>2, <3>3, <3>4, ZenonT(60) DEF ClientType
    <3> QED
      BY <1>5, <2>1, <3>2, <3>5, CursorMinted
  <2> QED
    BY <2>2, <2>3
<1>6. CASE WaitNow /\ client.pc = "now" /\ client' =
        [client EXCEPT !.new.pos = [epoch |-> client.gen, seq |-> LatestSeq],
                       !.passed = @ \cup Behind, !.pc = "start"]
  <2>1. PICK k, b : k = [client.new EXCEPT !.pos = [epoch |-> client.gen, seq |-> LatestSeq]]
                    /\ b = client.passed \cup Behind
    OBVIOUS
  <2>2. client' = [client EXCEPT !.new = k, !.passed = b, !.pc = "start"]
    BY <1>6, <2>1
  <2>3. k.re = client.new.re /\ k.topo = client.new.topo /\ k.split = client.new.split
    BY <1>1, <2>1 DEF ClientType, Cursor
  <2>4. /\ client'.pc = "start" /\ client'.new = k /\ client'.cur = client.cur
        /\ client'.dirty = client.dirty /\ client'.gen = client.gen
    BY <1>1, <2>2 DEF ClientType
  <2>5. UNCHANGED <<daemon, router>>
    BY <1>6 DEF WaitNow, Others
  <2>6. "now" \in WaitPcs
    BY DEF WaitPcs
  <2> QED
    BY <1>6, <2>3, <2>4, <2>5, <2>6 DEF CursorPart, Ordered, Unsplit, Decodes
<1>7. CASE Wait
  BY <1>2, <1>3, <1>7 DEF Wait, Others
<1>8. CASE WaitActive
  BY <1>2, <1>4, <1>5, <1>8 DEF WaitActive
<1>9. CASE WaitNow
  BY <1>2, <1>6, <1>9 DEF WaitNow, Others, At
<1> QED
  BY <1>7, <1>8, <1>9

\* The turns of a wait and its reply.
LEMMA CursorTurns ==
  ASSUME BInv, CursorPart, RestPart',
         WaitStart \/ WaitLoop \/ WindowOver \/ Forward \/ WaitBroken \/ Deliver
  PROVE  CursorPart'
<1>1. /\ client \in ClientType /\ client.new \in Cursor /\ UNCHANGED <<daemon, router>>
      /\ client.pc \in PlacedPcs /\ boardSeq \in Nat /\ RingTypeOK
  BY DEF BInv, ClientPart, RestPart, RingPart, ClientType, WaitStart, WaitLoop, WindowOver, Forward,
         WaitBroken, Deliver, Others, At, PlacedPcs
<1>2. CASE Raises \/ Resync
  BY <1>1, <1>2, CursorSame
<1>3. ASSUME NEW k \in Cursor, NEW q \in PlacedPcs, Work(k, q), k.re = client.new.re,
             k.topo = client.new.topo, k.split = client.new.split
      PROVE  CursorPart'
  <2>1. q \in Pcs
    BY <1>3 DEF PlacedPcs, Pcs
  <2>2. /\ client' \in ClientType /\ client'.new = k /\ client'.pc = q
        /\ client'.cur = client.cur /\ client'.dirty = client.dirty /\ client'.gen = client.gen
    BY <1>1, <1>3, <2>1 DEF Work, ClientType
  <2> QED
    BY <1>1, <1>3, <2>2, CursorWorks
<1>4. CASE \E q \in PlacedPcs : Work(client.new, q)
  BY <1>1, <1>3, <1>4
<1>5. CASE Work([client.new EXCEPT !.arch = [set |-> TRUE, seq |-> boardSeq]], "loop")
  <2>1. PICK a : a = [set |-> TRUE, seq |-> boardSeq]
    OBVIOUS
  <2>2. PICK k : k = [client.new EXCEPT !.arch = a]
    OBVIOUS
  <2>3. a \in [set : BOOLEAN, seq : Nat]
    BY <1>1, <2>1
  <2>4. k \in Cursor /\ k.re = client.new.re /\ k.topo = client.new.topo /\ k.split = client.new.split
    BY <1>1, <2>2, <2>3 DEF Cursor
  <2>5. Work(k, "loop") /\ "loop" \in PlacedPcs
    BY <1>5, <2>1, <2>2 DEF PlacedPcs
  <2> QED
    BY <1>3, <2>4, <2>5
<1>6. ASSUME NEW d \in BOOLEAN, NEW x \in SUBSET DOMAIN log, NEW k \in Cursor,
             Gives([dirty |-> d, seen |-> x, cur |-> k]), k.re = client.new.re,
             k.topo = client.new.topo, k.pos.epoch = client.new.pos.epoch
      PROVE  CursorPart'
  BY <1>1, <1>6, CursorGives
<1>7. PICK none \in SUBSET DOMAIN log : none = {}
  OBVIOUS
<1>8. CASE Gives([dirty |-> FALSE, seen |-> {}, cur |-> client.new])
  BY <1>1, <1>6, <1>7, <1>8
<1>9. CASE Gives([dirty |-> TRUE, seen |-> {}, cur |-> [client.new EXCEPT !.arch.seq = boardSeq]])
  <2>1. PICK a : a = [client.new.arch EXCEPT !.seq = boardSeq]
    OBVIOUS
  <2>2. PICK k : k = [client.new EXCEPT !.arch = a]
    OBVIOUS
  <2>3. a \in [set : BOOLEAN, seq : Nat]
    BY <1>1, <2>1 DEF Cursor
  <2>4. k \in Cursor /\ k.re = client.new.re /\ k.topo = client.new.topo /\ k.pos = client.new.pos
    BY <1>1, <2>2, <2>3 DEF Cursor
  <2>5. Gives([dirty |-> TRUE, seen |-> none, cur |-> k])
    BY <1>7, <1>9, <2>1, <2>2
  <2> QED
    BY <1>6, <1>7, <2>4, <2>5
<1>10. ASSUME NEW r, client.pc = "daemon", poll.st # "none", Reached,
              r = Look(poll.after, poll.scope), r.what = "event",
              Gives([dirty |-> FALSE, seen |-> {r.seq},
                     cur |-> [client.new EXCEPT !.pos.seq = r.seq]])
       PROVE  CursorPart'
  <2>1. client.new.pos.epoch = daemon.epoch
    BY <1>10 DEF BInv, ClientPart, Placed, PlacedPcs, Reached
  <2>2. r.seq \in DOMAIN log
    BY <1>10, <2>1, Delivered
  <2>3. r.seq \in Nat
    BY <1>1, <2>2, LogShape DEF RingTypeOK
  <2>4. PICK v : v = [client.new.pos EXCEPT !.seq = r.seq]
    OBVIOUS
  <2>5. v \in PosType /\ v.epoch = client.new.pos.epoch
    BY <1>1, <2>3, <2>4 DEF Cursor, PosType
  <2>6. PICK k : k = [client.new EXCEPT !.pos = v]
    OBVIOUS
  <2>7. k \in Cursor /\ k.re = client.new.re /\ k.topo = client.new.topo /\ k.pos = v
    BY <1>1, <2>5, <2>6 DEF Cursor, PosType
  <2>8. PICK x \in SUBSET DOMAIN log : x = {r.seq}
    BY <2>2
  <2>9. Gives([dirty |-> FALSE, seen |-> x, cur |-> k])
    BY <1>10, <2>4, <2>6, <2>8
  <2> QED
    BY <1>6, <2>5, <2>7, <2>8, <2>9
<1>11. CASE WaitStart \/ WaitLoop \/ WindowOver
  <2>1. "loop" \in PlacedPcs /\ "forward" \in PlacedPcs
    BY DEF PlacedPcs
  <2> QED
    BY <1>4, <1>5, <1>8, <1>9, <1>11, <2>1 DEF WaitStart, WaitLoop, WindowOver
<1>12. CASE Forward \/ WaitBroken
  <2>1. "again" \in PlacedPcs /\ "daemon" \in PlacedPcs
    BY DEF PlacedPcs
  <2> QED
    BY <1>2, <1>4, <1>12, <2>1 DEF Forward, WaitBroken, Back
<1>13. CASE Deliver
  <2>1. PICK r : r = Look(poll.after, poll.scope)
    OBVIOUS
  <2>2. r.what \in {"expired", "event", "nothing"}
    BY <2>1 DEF Look
  <2>3. "again" \in PlacedPcs /\ client.pc = "daemon" /\ poll.st # "none" /\ Reached
    BY <1>13 DEF PlacedPcs, Deliver, At
  <2>4. CASE r.what = "expired"
    BY <1>2, <1>13, <2>1, <2>4 DEF Deliver
  <2>5. CASE r.what = "event"
    BY <1>10, <1>13, <2>1, <2>3, <2>5 DEF Deliver
  <2>6. CASE r.what = "nothing"
    BY <1>4, <1>8, <1>13, <2>1, <2>3, <2>6 DEF Deliver
  <2> QED
    BY <2>2, <2>4, <2>5, <2>6
<1> QED
  BY <1>11, <1>12, <1>13

-----------------------------------------------------------------------------
(* The theorems                                                            *)

\* At the start the client knows nothing and has no cursor.
LEMMA BoardInitInv == BoardInit => BInv
<1> SUFFICES ASSUME BoardInit PROVE BInv
  OBVIOUS
<1>1. /\ RingEmpty /\ rows = [s \in Mine |-> "none"] /\ boardSeq = 0
      /\ life = [s \in Sessions |-> "new"] /\ daemon = [epoch |-> 0, up |-> FALSE]
      /\ router = [epoch |-> 1, topo |-> 1, active |-> 0] /\ faults = 0
      /\ client = [pc |-> "idle", gen |-> 0, dirty |-> TRUE, whole |-> TRUE, cur |-> NoCursor,
                   new |-> NoCursor, scope |-> {}, snap |-> {}, seen |-> {}, passed |-> {},
                   view |-> {}]
  BY DEF BoardInit
<1>2. RingTypeOK
  BY <1>1 DEF RingEmpty, RingTypeOK, Calm
<1>3. log = <<>> /\ DOMAIN log = {} /\ Len(log) = 0
  BY <1>1 DEF RingEmpty
<1>4. RingPart
  BY <1>2, <1>3, RingAssumption DEF RingPart, Marked
<1>5. ResultPart
  <2>1. \A s \in Mine : life[s] = "new"
    BY <1>1 DEF Mine
  <2> QED
    BY <1>1, <1>3, <2>1 DEF ResultPart, Spoken, Backed
<1>6. RestPart
  BY <1>1, BoardAssumption DEF RestPart
<1>7. NoCursor \in Cursor /\ NoCursor.pos = NoPos /\ NoPos.epoch = 0 /\ NoPos.seq = 0
  BY BoardAssumption DEF NoCursor, Cursor, NoPos, NoArch
<1>8. /\ client \in ClientType /\ client.pc = "idle" /\ client.gen = 0 /\ client.dirty
      /\ client.cur = NoCursor /\ client.new = NoCursor
  BY <1>1, <1>7, BoardAssumption DEF ClientType, Pcs
<1>9. OldEpochs /\ Known /\ Placed /\ Armed /\ Fresh
  <2>1. Past(NoPos, {})
    BY <1>3, <1>7 DEF Past
  <2> QED
    BY <1>1, <1>7, <1>8, <2>1 DEF OldEpochs, Known, NewKnown, Placed, Armed, Fresh, WaitPcs, PlacedPcs
<1> QED
  BY <1>4, <1>5, <1>6, <1>8, <1>9 DEF BInv, ClientPart

\* No cursor there is trusted.
LEMMA CursorInit == BoardInit => CursorPart
BY DEF BoardInit, CursorPart, Ordered, Unsplit, NoCursor, NoPos, WaitPcs, PlacedPcs

\* Every step of the client and of the world keeps it.
LEMMA BoardNextInv == BInv /\ CursorPart /\ [BoardNext]_boardVars => BInv'
<1> SUFFICES ASSUME BInv, CursorPart, [BoardNext]_boardVars PROVE BInv'
  OBVIOUS
<1>1. CASE ClientNext
  BY <1>1, BoardBegins, StatusStep, SnapshotStep, FailedSteps, ArchiveStep, WaitStep,
     WaitActiveStep, WaitNowStep, WaitStartStep, WaitLoopSteps, ForwardSteps, DeliverStep,
     PollSteps DEF ClientNext
<1>2. CASE WorldNext
  BY <1>2, MintStep, RouterStep, ResultSteps, PublishSteps DEF WorldNext, Mine
<1>3. CASE UNCHANGED boardVars
  <2>1. UNCHANGED <<log, kept, high, cached, decision, poll, rows, boardSeq, life, daemon, router,
                    client, faults>>
    BY <1>3 DEF boardVars, ringVars
  <2>2. /\ rows \in [Mine -> {"none", "on", "acked", "expired"}]
        /\ life \in [Sessions -> {"new", "live", "ending", "ended", "forgotten", "lost"}]
        /\ faults \in 0..MaxFaults
    BY DEF BInv, ResultPart, RestPart
  <2> QED
    BY <2>1, <2>2, WorldStep
<1> QED
  BY <1>1, <1>2, <1>3 DEF BoardNext

\* And the cursors stay as they are described.
LEMMA CursorNextInv == BInv /\ CursorPart /\ BInv' /\ [BoardNext]_boardVars => CursorPart'
<1> SUFFICES ASSUME BInv, CursorPart, BInv', [BoardNext]_boardVars PROVE CursorPart'
  OBVIOUS
<1>1. RestPart'
  BY DEF BInv
<1>2. CASE \/ UNCHANGED boardVars \/ Sleeps \/ TimesOut \/ Prune \/ DaemonDies
           \/ \E s \in Sessions : Start(s) \/ Wakes(s)
           \/ \E s \in Mine : Persist(s) \/ TellsEnd(s) \/ PutLost(s) \/ Ack(s)
  <2>1. UNCHANGED <<client, router>> /\ (daemon' = daemon \/ daemon' = [daemon EXCEPT !.up = FALSE])
    BY <1>2 DEF boardVars, Sleeps, TimesOut, Prune, DaemonDies, Start, Wakes, Persist, TellsEnd,
                PutLost, Ack, Others
  <2>2. (daemon'.up => daemon.up) /\ daemon'.epoch = daemon.epoch
    BY <2>1 DEF BInv, RestPart
  <2> QED
    BY <2>1, <2>2, CursorWorld
<1>3. CASE Mint
  <2>1. /\ client' \in ClientType /\ client'.cur = client.cur /\ client'.dirty = client.dirty
        /\ client'.new = client.new /\ client'.pc = client.pc /\ client'.gen = client.gen
    BY <1>3 DEF Mint, BInv, ClientPart, ClientType
  <2>2. Minted
    BY <1>3 DEF Mint
  <2> QED
    BY <1>1, <2>1, <2>2, CursorMinted
<1>4. CASE RouterRestarts
  <2>1. UNCHANGED daemon /\ Raises /\ router'.epoch = router.epoch + 1
    BY <1>4 DEF RouterRestarts, Raises
  <2> QED
    BY <1>1, <2>1, CursorSame
<1>5. CASE \/ ReadBoard \/ ReadTopology \/ Status \/ StatusFails \/ Snapshot \/ SnapshotFails
  BY <1>1, <1>5, CursorBoard
<1>6. CASE ReadArchive
  BY <1>1, <1>6, CursorArchive
<1>7. CASE Wait \/ WaitActive \/ WaitNow
  BY <1>1, <1>7, CursorWait
<1>8. CASE WaitStart \/ WaitLoop \/ WindowOver \/ Forward \/ WaitBroken \/ Deliver
  BY <1>1, <1>8, CursorTurns
<1> QED
  BY <1>2, <1>3, <1>4, <1>5, <1>6, <1>7, <1>8 DEF BoardNext, ClientNext, WorldNext

\* The inductive invariant holds in every state.
THEOREM BoardInvariance == BoardSpec => [](BInv /\ CursorPart)
<1>1. BoardInit => BInv /\ CursorPart
  BY BoardInitInv, CursorInit
<1>2. BInv /\ CursorPart /\ [BoardNext]_boardVars => BInv' /\ CursorPart'
  BY BoardNextInv, CursorNextInv
<1> QED
  BY <1>1, <1>2, PTL DEF BoardSpec

\* The cursors, rows and requests keep their types; so does the ring.
THEOREM BoardTyped == BoardSpec => []BoardTypeOK
<1>1. BInv => BoardTypeOK
  BY DEF BInv, RingPart, ResultPart, RestPart, ClientPart, ClientType, BoardTypeOK
<1> QED
  BY <1>1, BoardInvariance, PTL

\* Whoever hears that a session ended finds its result in the store
\* (manager.py, _finish_publish: put_terminal, then the event).
THEOREM EndsAreBacked == BoardSpec => []EndIsBacked
<1>1. BInv => EndIsBacked
  BY DEF BInv, RingPart, RingTypeOK, ResultPart, Backed, EndIsBacked
<1> QED
  BY <1>1, BoardInvariance, PTL

\* No silent gap: a client whose wait would block, and whom nobody told to
\* read the board again, has seen every event and every result of its sessions
\* but what client.passed names: the events of sessions that started while it
\* was waiting, and those before a wait from now whose board was split
\* (router/board.py, status; router/wait.py, _wait_inner; events.py).
THEOREM NothingIsMissed == BoardSpec => []NoSilentGap
<1>1. ASSUME BInv PROVE NoSilentGap
  <2>1. SUFFICES ASSUME At("idle"), ~client.dirty, Current,
                        Look(client.cur.pos.seq, Ledger).what = "nothing",
                        client.cur.arch.seq = boardSeq
                 PROVE  Unknown \subseteq client.passed /\ client.view = OnBoard
    BY DEF NoSilentGap
  <2>2. client \in ClientType /\ Known /\ Fresh /\ RingTypeOK /\ Marked
    BY <1>1 DEF BInv, ClientPart, RingPart
  <2>3. PICK a : a = client.cur.pos.seq
    OBVIOUS
  <2>4. a \in Nat /\ ~Expired(a, Ledger) /\ FirstAfter(a, Ledger) = {}
    BY <2>1, <2>2, <2>3 DEF Look, ClientType, Cursor
  <2>5. Past(client.cur.pos, {}) /\ client.cur.pos.epoch = daemon.epoch
    BY <2>1, <2>2 DEF Known, Current, Trusted
  <2>6. ASSUME NEW n \in DOMAIN log, log[n].sid \in Ledger, ~log[n].gone
        PROVE  n \in client.seen \cup client.passed
    <3>1. n \in Nat /\ log[n].sid \in Sessions /\ log[n].sid \in Mine
      BY <2>2, <2>6, LogShape DEF RingTypeOK, Ledger, Mine
    <3>2. CASE n <= a
      <4>1. n \in client.seen \cup client.passed \cup {}
        BY <2>1, <2>3, <2>5, <2>6, <3>1, <3>2 DEF Past
      <4> QED
        BY <4>1
    <3>3. CASE n > a
      <4>1. n \in DOMAIN log \ kept
        BY <2>4, <2>6, <3>3 DEF FirstAfter
      <4>2. n <= high[log[n].sid]
        BY <2>2, <2>6, <4>1, Zenon DEF Marked
      <4>3. high[log[n].sid] \in Nat
        BY <2>2, <3>1 DEF RingTypeOK
      <4> QED
        BY <2>4, <2>6, <3>1, <3>3, <4>2, <4>3 DEF Expired
    <3> QED
      BY <2>4, <3>1, <3>2, <3>3
  <2>7. Unknown \subseteq client.passed
    BY <2>6 DEF Unknown
  <2>8. client.view = OnBoard
    BY <2>1, <2>2 DEF Fresh
  <2> QED
    BY <2>7, <2>8
<1> QED
  BY <1>1, BoardInvariance, PTL
=============================================================================
