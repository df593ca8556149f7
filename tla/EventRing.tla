------------------------------ MODULE EventRing ------------------------------
(***************************************************************************)
(* The event ring of one daemon (daemon/events.py): a bounded history of   *)
(* all sessions' events that pins unresolved decisions, keeps a floor per  *)
(* owner, and tells a reader whose cursor fell off the back to resync.     *)
(*                                                                         *)
(* Every operation runs under the ring's one lock and is one step.  log is *)
(* the history of what was ever published; the daemon has only the events  *)
(* in kept, and no operator below reads log outside kept, except for its   *)
(* length, which is _last_seq.                                             *)
(***************************************************************************)
EXTENDS Naturals, Sequences, FiniteSetsExt

CONSTANTS Sessions, Owners, NoOwner,
          OwnerOf,           \* the owner in the owner.json of a session
          Unreadable,        \* sessions whose owner.json may be late
          Bound, Floor,      \* max_history and owner_floor
          MaxSeq             \* bound of the model: events per daemon

ASSUME RingAssumption ==
  /\ OwnerOf \in [Sessions -> Owners] /\ NoOwner \notin Owners
  /\ Unreadable \subseteq Sessions
  /\ Bound \in Nat /\ Floor \in Nat /\ MaxSeq \in Nat

VARIABLES
  log,        \* log[n]: the event with seq n
  kept,       \* the seqs of _events
  high,       \* _evicted_high_by_session
  cached,     \* the keys of _owner_cache
  decision,   \* decision[s]: id of Session._decision, 0 for none
  poll        \* the thread that serves the client's /wait

ringVars == <<log, kept, high, cached, decision, poll>>

\* dec: decision_id, the seq of the first event that carried it.  open: the
\* event is respondable and unresolved.  last: it tells the end of the session.
\* gone: forget_session dropped it.
Event == [sid : Sessions, owner : Owners \cup {NoOwner}, dec : Nat, open : BOOLEAN,
          last : BOOLEAN, gone : BOOLEAN]
Calm  == [st |-> "none", scope |-> {}, after |-> 0]

RingTypeOK ==
  /\ log \in Seq(Event) /\ kept \subseteq DOMAIN log
  /\ high \in [Sessions -> Nat]
  /\ cached \subseteq Sessions
  /\ decision \in [Sessions -> Nat]
  /\ poll \in [st : {"none", "awake", "asleep", "late"}, scope : SUBSET Sessions, after : Nat]

RingEmpty ==
  /\ log = <<>> /\ kept = {}
  /\ high = [s \in Sessions |-> 0]
  /\ cached = {}
  /\ decision = [s \in Sessions |-> 0]
  /\ poll = Calm

-----------------------------------------------------------------------------
(* Eviction                                                                *)

\* Mutant: a resolved decision is told from an open one by its kind only.
EvictableAny(lg, k) == k

\* What is indexed in _owner_hist: every event that is not pinned.
Evictable(lg, k) == {n \in k : ~lg[n].open}

\* Mutant: the floor of an owner is not looked at.
VictimsAny(lg, k) == Evictable(lg, k)

\* Candidates of _pick_victim: events of an owner that is above its floor.
Victims(lg, k) ==
  LET hist == Evictable(lg, k)
  IN  {n \in hist : Cardinality({m \in hist : lg[m].owner = lg[n].owner}) > Floor}

\* One pass of the loop of _evict_if_needed on the indexed events r.
Pass(lg, r) ==
  IF Cardinality(Evictable(lg, r)) > Bound /\ Victims(lg, r) # {}
  THEN r \ {Min(Victims(lg, r))} ELSE r

\* _evict_if_needed on the indexed events k: what remains.
Evict(lg, k) ==
  LET after[i \in 0..Cardinality(k)] == IF i = 0 THEN k ELSE Pass(lg, after[i - 1])
  IN  after[Cardinality(k)]

\* _drop: the high-water mark of every session that lost an event.
HighAfter(lg, lost) ==
  [s \in Sessions |-> Max({high[s]} \cup {n \in lost : lg[n].sid = s})]

Resolve(lg, d) ==
  [n \in DOMAIN lg |-> IF d # 0 /\ lg[n].dec = d THEN [lg[n] EXCEPT !.open = FALSE] ELSE lg[n]]

\* Mutant: the waiters are not notified.
NotifyNobody == poll' = poll

NotifyAll == poll' = [poll EXCEPT !.st = IF @ = "asleep" THEN "awake" ELSE @]

-----------------------------------------------------------------------------
(* Publishing                                                              *)

\* publish of one event.  prior: the decision that the hook of the session
\* supersedes before the new event is indexed; its resolution evicts first,
\* when the new event is retained and not yet evictable.
Put(s, owner, dec, open, last, prior) ==
  LET e   == Len(log) + 1
      lg1 == Resolve(Append(log, [sid |-> s, owner |-> owner, dec |-> dec,
                                  open |-> open, last |-> last, gone |-> FALSE]), prior)
      k1  == IF prior = 0 THEN kept ELSE Evict(lg1, kept)
      k2  == Evict(lg1, k1 \cup {e})
  IN  /\ e <= MaxSeq
      /\ log' = lg1
      /\ kept' = k2
      /\ high' = HighAfter(lg1, (kept \cup {e}) \ k2)
      /\ NotifyAll

\* _owner_of: the file may not be readable yet; only a real owner is cached.
Publish(s, dec, open, last, prior) ==
  \E o \in {OwnerOf[s]} \cup IF s \in Unreadable \ cached THEN {NoOwner} ELSE {} :
    /\ Put(s, o, dec, open, last, prior)
    /\ cached' = IF o = NoOwner THEN cached ELSE cached \cup {s}

\* A wake that asks for nothing.
PublishNote(s) ==
  /\ Publish(s, 0, FALSE, FALSE, 0)
  /\ UNCHANGED decision

\* A new pause: _install supersedes the decision that was pending.
PublishDecision(s) ==
  LET d == Len(log) + 1
  IN  /\ Publish(s, d, TRUE, FALSE, decision[s])
      /\ decision' = [decision EXCEPT ![s] = d]

\* A nag for the same pause.  If it was answered since the nag was built the
\* event is born superseded.
PublishAgain(s) ==
  LET d == Max({0} \cup {log[n].dec : n \in {m \in DOMAIN log : log[m].sid = s}})
  IN  /\ d # 0
      /\ Publish(s, d, decision[s] = d, FALSE, 0)
      /\ UNCHANGED decision

\* Mutant: what became evictable is left to the next publish.
AnswerKeeps(s) ==
  /\ decision[s] # 0
  /\ log' = Resolve(log, decision[s])
  /\ decision' = [decision EXCEPT ![s] = 0]
  /\ UNCHANGED <<kept, high, cached, poll>>

\* resolve_decision and mark_answered: the events of a decision become
\* evictable.  Nobody is notified.
Answer(s) ==
  /\ decision[s] # 0
  /\ LET lg1 == Resolve(log, decision[s])
         k1  == Evict(lg1, kept)
     IN  /\ log' = lg1 /\ kept' = k1
         /\ high' = HighAfter(lg1, kept \ k1)
  /\ decision' = [decision EXCEPT ![s] = 0]
  /\ UNCHANGED <<cached, poll>>

\* forget_session for the sessions in S: the sweep of manager.status.
Forget(S) ==
  /\ kept' = {n \in kept : log[n].sid \notin S}
  /\ high' = [s \in Sessions |-> IF s \in S THEN 0 ELSE high[s]]
  /\ cached' = cached \ S
  /\ decision' = [s \in Sessions |-> IF s \in S THEN 0 ELSE decision[s]]
  /\ log' = [n \in DOMAIN log |-> IF log[n].sid \in S THEN [log[n] EXCEPT !.gone = TRUE] ELSE log[n]]
  /\ IF S = {} THEN poll' = poll ELSE NotifyAll

-----------------------------------------------------------------------------
(* wait_event and wait_event_any                                           *)

LatestSeq == Len(log)

Expired(after, scope) == \E s \in scope : after < high[s]
FirstAfter(after, scope) == {n \in kept : n > after /\ log[n].sid \in scope}

\* Mutant: what is retained is delivered before expiry is looked at.
LookDeliversFirst(after, scope) ==
  IF FirstAfter(after, scope) # {} THEN [what |-> "event", seq |-> Min(FirstAfter(after, scope))]
  ELSE IF Expired(after, scope) THEN [what |-> "expired", seq |-> 0]
  ELSE [what |-> "nothing", seq |-> 0]

\* One pass of the loop, under the lock.  Expiry comes before delivery.
Look(after, scope) ==
  IF Expired(after, scope) THEN [what |-> "expired", seq |-> 0]
  ELSE IF FirstAfter(after, scope) # {}
       THEN [what |-> "event", seq |-> Min(FirstAfter(after, scope))]
       ELSE [what |-> "nothing", seq |-> 0]

Arm(scope, after) == poll' = [st |-> "awake", scope |-> scope, after |-> after]

\* Nothing to deliver, and the deadline has not passed.
Sleep ==
  /\ poll.st = "awake"
  /\ Look(poll.after, poll.scope).what = "nothing"
  /\ poll' = [poll EXCEPT !.st = "asleep"]
  /\ UNCHANGED <<log, kept, high, cached, decision>>

-----------------------------------------------------------------------------
(* The ring by itself: sessions publish, one thread serves waits           *)

WaitBegins ==
  /\ poll.st = "none"
  /\ \E S \in (SUBSET Sessions) \ {{}}, n \in 0..LatestSeq : Arm(S, n)
  /\ UNCHANGED <<log, kept, high, cached, decision>>

WaitEnds ==
  /\ poll.st = "awake"
  /\ poll' = Calm
  /\ UNCHANGED <<log, kept, high, cached, decision>>

RingNext ==
  \/ \E s \in Sessions : PublishNote(s) \/ PublishDecision(s) \/ PublishAgain(s) \/ Answer(s)
  \/ \E s \in Sessions : Forget({s})
  \/ WaitBegins \/ Sleep \/ WaitEnds

RingSpec == RingEmpty /\ [][RingNext]_ringVars

-----------------------------------------------------------------------------
(* What the ring promises                                                  *)

\* Events no longer retained, of sessions that were not forgotten.
Evicted == {n \in DOMAIN log \ kept : ~log[n].gone}

\* An answerable pause is never lost to a flood: while a session waits for an
\* answer, every event of that decision is retained and unresolved.
DecisionsKept ==
  \A s \in Sessions : decision[s] # 0 =>
    \A n \in DOMAIN log : log[n].dec = decision[s] => n \in kept /\ log[n].open

\* A busy owner cannot push out what a quiet one published last: whatever was
\* evicted has Floor newer events in the bucket of the same owner.
FloorKept ==
  \A n \in Evicted :
    Cardinality({m \in DOMAIN log : m > n /\ ~log[m].open
                                       /\ log[m].owner = log[n].owner}) >= Floor

\* The history that is not pinned stays within max_history, or within the
\* floors of the owners where those need more.
RingBounded ==
  LET o == {log[n].owner : n \in kept}
  IN  Cardinality(Evictable(log, kept)) <= Max({Bound, Floor * Cardinality(o)})

\* No lost wakeup: a thread that sleeps on the condition has nothing to
\* deliver and no expiry to report, whatever evictions, answers and forgotten
\* sessions came since it looked.
NoLostWakeup ==
  poll.st = "asleep" => Look(poll.after, poll.scope).what = "nothing"
=============================================================================
