--------------------------- MODULE EventRingProofs ---------------------------
(***************************************************************************)
(* Proofs about EventRing, for any number of sessions, owners and events:  *)
(* what the eviction loop leaves, by induction over its passes, and from   *)
(* that that pinned decisions stay, that floors hold, that the history is  *)
(* bounded and that no wakeup is lost.                                     *)
(***************************************************************************)
EXTENDS EventRing, WellFoundedInduction, SequenceTheorems, FiniteSetTheorems, TLAPS

-----------------------------------------------------------------------------
(* Numbers: the induction theorems of the library take the property as an  *)
(* operator; here it is a set, and the step is drawn from the              *)
(* well-foundedness of <.                                                  *)

\* A set of natural numbers has a least element.
LEMMA Least ==
  ASSUME NEW S, S \subseteq Nat, S # {}
  PROVE  \E m \in S : \A n \in S : m <= n
<1>1. PICK m \in S : \A n \in S : ~(<<n, m>> \in OpToRel(<, Nat))
  BY NatLessThanWellFounded, WFMin
<1>2. ASSUME NEW n \in S, n < m PROVE FALSE
  BY <1>1, <1>2 DEF OpToRel
<1> QED
  BY <1>2

\* Induction over the natural numbers, for a property given as a set.
LEMMA SetInduction ==
  ASSUME NEW S, 0 \in S, \A n \in Nat : n \in S => n + 1 \in S
  PROVE  Nat \subseteq S
<1>1. SUFFICES ASSUME Nat \ S # {} PROVE FALSE
  OBVIOUS
<1>2. PICK m \in Nat \ S : \A n \in Nat \ S : m <= n
  BY <1>1, Least
<1>3. m # 0 /\ m - 1 \in Nat
  BY <1>2
<1>4. m - 1 \in S
  BY <1>2, <1>3
<1> QED
  BY <1>2, <1>3, <1>4

\* Min is the least element.
LEMMA MinIsLeast ==
  ASSUME NEW S, S \subseteq Nat, S # {}
  PROVE  Min(S) \in S /\ \A n \in S : Min(S) <= n
<1>1. PICK m \in S : \A n \in S : m <= n
  BY Least
<1> QED
  BY <1>1 DEF Min

\* Max is the greatest element of a set that has a bound.
LEMMA MaxIsGreatest ==
  ASSUME NEW S, S \subseteq Nat, S # {}, NEW b \in Nat, \A n \in S : n <= b
  PROVE  Max(S) \in S /\ \A n \in S : n <= Max(S)
<1> DEFINE U == {u \in Nat : \A n \in S : n <= u}
<1>1. PICK m \in U : \A u \in U : m <= u
  <2>1. b \in U
    OBVIOUS
  <2>2. U \subseteq Nat
    OBVIOUS
  <2> HIDE DEF U
  <2> QED
    BY <2>1, <2>2, Least
<1>2. m \in S
  <2>1. SUFFICES ASSUME m \notin S PROVE FALSE
    OBVIOUS
  <2>2. \A n \in S : n <= m - 1
    BY <1>1, <2>1
  <2>3. m - 1 \in Nat
    <3>1. PICK n \in S : n <= m - 1
      BY <2>2
    <3> QED
      BY <1>1, <3>1
  <2> QED
    BY <1>1, <2>2, <2>3
<1> QED
  BY <1>1, <1>2 DEF Max

-----------------------------------------------------------------------------
(* Eviction                                                                *)

\* The loop of _evict_if_needed goes on.
Busy(lg, r) == Cardinality(Evictable(lg, r)) > Bound /\ Victims(lg, r) # {}

\* What FloorKept says of one event.
Pushed(lg, n) ==
  Cardinality({m \in DOMAIN lg : m > n /\ ~lg[m].open /\ lg[m].owner = lg[n].owner}) >= Floor

\* A log is a function over an initial segment of the numbers.
LEMMA LogShape ==
  ASSUME NEW lg \in Seq(Event)
  PROVE  /\ Len(lg) \in Nat /\ DOMAIN lg = 1..Len(lg) /\ IsFiniteSet(DOMAIN lg)
         /\ \A n \in DOMAIN lg : lg[n] \in Event
         /\ \A k \in SUBSET DOMAIN lg : IsFiniteSet(k) /\ Cardinality(k) \in Nat /\ k \subseteq Nat
<1>1. Len(lg) \in Nat /\ DOMAIN lg = 1..Len(lg) /\ \A n \in DOMAIN lg : lg[n] \in Event
  OBVIOUS
<1>2. IsFiniteSet(1..Len(lg))
  BY <1>1, FS_Interval
<1>3. ASSUME NEW k \in SUBSET DOMAIN lg PROVE IsFiniteSet(k) /\ Cardinality(k) \in Nat
  BY <1>1, <1>2, FS_Subset, FS_CardinalityType
<1> QED
  BY <1>1, <1>2, <1>3

\* One pass drops the oldest event of an owner above its floor, and leaves
\* the floor of that owner.
LEMMA PassShape ==
  ASSUME NEW lg \in Seq(Event), NEW r \in SUBSET DOMAIN lg
  PROVE  /\ ~Busy(lg, r) => Pass(lg, r) = r
         /\ Busy(lg, r) => \E n \in r : /\ Pass(lg, r) = r \ {n}
                                        /\ ~lg[n].open /\ Pushed(lg, n)
<1>1. CASE ~Busy(lg, r)
  BY <1>1 DEF Busy, Pass
<1>2. CASE Busy(lg, r)
  <2> DEFINE hist == Evictable(lg, r)
             n    == Min(Victims(lg, r))
             mine == {m \in hist : lg[m].owner = lg[n].owner}
             all  == {m \in DOMAIN lg : m > n /\ ~lg[m].open /\ lg[m].owner = lg[n].owner}
  <2>1. Victims(lg, r) \subseteq hist /\ hist \subseteq r /\ r \subseteq Nat
    BY LogShape DEF Victims, Evictable
  <2>2. n \in Victims(lg, r) /\ \A m \in Victims(lg, r) : n <= m
    BY <1>2, <2>1, MinIsLeast DEF Busy
  <2>3. n \in r /\ n \in hist /\ ~lg[n].open /\ Cardinality(mine) > Floor
    BY <2>1, <2>2 DEF Victims, Evictable
  <2>4. \A m \in mine : m \in Victims(lg, r)
    BY <2>3 DEF Victims
  <2>5. mine \ {n} \subseteq all
    BY <2>1, <2>2, <2>4 DEF Evictable
  <2>6. /\ IsFiniteSet(mine) /\ Cardinality(mine) \in Nat
        /\ IsFiniteSet(all) /\ Cardinality(all) \in Nat
    BY <2>1, LogShape
  <2>7. n \in mine
    BY <2>3
  <2> HIDE DEF mine, all, n, hist
  <2>8. Cardinality(mine \ {n}) = Cardinality(mine) - 1
    BY <2>6, <2>7, FS_RemoveElement
  <2>9. Cardinality(mine \ {n}) <= Cardinality(all)
    BY <2>5, <2>6, FS_Subset
  <2>10. Cardinality(all) >= Floor
    BY <2>3, <2>6, <2>8, <2>9, RingAssumption
  <2>11. Pushed(lg, n)
    BY <2>10 DEF Pushed, all
  <2>12. Pass(lg, r) = r \ {n}
    BY <1>2 DEF Busy, Pass, n
  <2> QED
    BY <1>2, <2>3, <2>11, <2>12
<1> QED
  BY <1>1, <1>2

\* The loop of _evict_if_needed: pass i leaves f[i].
IsLoop(lg, k, N, f) == f = [i \in 0..N |-> IF i = 0 THEN k ELSE Pass(lg, f[i - 1])]

\* There is such a function for any number of passes.
LEMMA LoopExists ==
  ASSUME NEW lg, NEW k, NEW N \in Nat
  PROVE  \E f : IsLoop(lg, k, N, f)
<1> DEFINE S == {n \in Nat : \E f : f = [i \in 0..n |-> IF i = 0 THEN k ELSE Pass(lg, f[i - 1])]}
<1>1. 0 \in S
  <2> DEFINE f == [i \in 0..0 |-> k]
  <2>1. f = [i \in 0..0 |-> IF i = 0 THEN k ELSE Pass(lg, f[i - 1])]
    OBVIOUS
  <2> HIDE DEF f
  <2> QED
    BY <2>1
<1>2. ASSUME NEW n \in Nat, n \in S PROVE n + 1 \in S
  <2>1. PICK f : f = [i \in 0..n |-> IF i = 0 THEN k ELSE Pass(lg, f[i - 1])]
    BY <1>2
  <2> DEFINE g == [i \in 0..(n + 1) |-> IF i = n + 1 THEN Pass(lg, f[n]) ELSE f[i]]
  <2>2. \A i \in 0..n : g[i] = f[i]
    OBVIOUS
  <2>3. \A i \in 0..(n + 1) : g[i] = IF i = 0 THEN k ELSE Pass(lg, g[i - 1])
    <3>1. TAKE i \in 0..(n + 1)
    <3>2. CASE i = n + 1
      <4>1. i - 1 = n /\ i - 1 \in 0..n /\ i # 0 /\ g[i] = Pass(lg, f[n])
        BY <3>2
      <4> QED
        BY <2>2, <4>1
    <3>3. CASE i # n + 1 /\ i # 0
      <4>1. i \in 0..n /\ i - 1 \in 0..n
        BY <3>3
      <4>2. f[i] = Pass(lg, f[i - 1])
        BY <2>1, <3>3, <4>1
      <4> QED
        BY <2>2, <3>3, <4>1, <4>2
    <3>4. CASE i = 0
      <4>1. 0 \in 0..n /\ f[0] = k
        BY <2>1
      <4> QED
        BY <2>2, <3>4, <4>1
    <3> QED
      BY <3>2, <3>3, <3>4
  <2>4. g = [i \in 0..(n + 1) |-> g[i]]
    OBVIOUS
  <2> HIDE DEF g
  <2>5. g = [i \in 0..(n + 1) |-> IF i = 0 THEN k ELSE Pass(lg, g[i - 1])]
    BY <2>3, <2>4
  <2>6. \E f1 : f1 = [i \in 0..(n + 1) |-> IF i = 0 THEN k ELSE Pass(lg, f1[i - 1])]
    BY <2>5
  <2> QED
    BY <2>6
<1> HIDE DEF S
<1>3. Nat \subseteq S
  BY <1>1, <1>2, SetInduction
<1> QED
  BY <1>3 DEF S, IsLoop

\* Evict is the last pass of such a function.
LEMMA EvictIsLoop ==
  ASSUME NEW lg, NEW k, Cardinality(k) \in Nat
  PROVE  \E f : IsLoop(lg, k, Cardinality(k), f) /\ Evict(lg, k) = f[Cardinality(k)]
<1> DEFINE h == CHOOSE f : IsLoop(lg, k, Cardinality(k), f)
<1>1. IsLoop(lg, k, Cardinality(k), h)
  BY LoopExists
<1>2. Evict(lg, k) = h[Cardinality(k)]
  BY DEF Evict, IsLoop
<1> QED
  BY <1>1, <1>2

\* What _evict_if_needed does: it drops only events that are not pinned and
\* whose owner keeps its floor of newer ones, and it stops only when the
\* history is within its bound or every owner is down to its floor.
LEMMA EvictShape ==
  ASSUME NEW lg \in Seq(Event), NEW k \in SUBSET DOMAIN lg
  PROVE  /\ Evict(lg, k) \subseteq k
         /\ \A n \in k \ Evict(lg, k) : ~lg[n].open /\ Pushed(lg, n)
         /\ ~Busy(lg, Evict(lg, k))
<1> DEFINE N == Cardinality(k)
<1>1. N \in Nat /\ IsFiniteSet(k)
  BY LogShape
<1>2. PICK f : IsLoop(lg, k, N, f) /\ Evict(lg, k) = f[N]
  BY <1>1, EvictIsLoop
<1> HIDE DEF N
<1> DEFINE Good(i) == /\ f[i] \subseteq k
                      /\ \A n \in k \ f[i] : ~lg[n].open /\ Pushed(lg, n)
                      /\ Busy(lg, f[i]) => Cardinality(f[i]) = N - i
           S == {i \in Nat : i <= N => Good(i)}
<1>3. 0 \in S
  <2>1. f[0] = k
    BY <1>1, <1>2 DEF IsLoop
  <2> QED
    BY <1>1, <2>1 DEF N
<1>4. ASSUME NEW i \in Nat, i \in S PROVE i + 1 \in S
  <2> SUFFICES ASSUME i + 1 <= N PROVE Good(i + 1)
    OBVIOUS
  <2>1. Good(i)
    BY <1>1, <1>4
  <2>2. f[i + 1] = Pass(lg, f[i])
    <3>1. i + 1 \in 0..N /\ i + 1 # 0 /\ (i + 1) - 1 = i
      BY <1>1
    <3> QED
      BY <1>2, <3>1 DEF IsLoop
  <2>3. f[i] \in SUBSET DOMAIN lg
    BY <2>1
  <2>4. CASE ~Busy(lg, f[i])
    <3>1. f[i + 1] = f[i]
      BY <2>2, <2>3, <2>4, PassShape
    <3> QED
      BY <2>1, <2>4, <3>1
  <2>5. CASE Busy(lg, f[i])
    <3>1. PICK n \in f[i] : f[i + 1] = f[i] \ {n} /\ ~lg[n].open /\ Pushed(lg, n)
      BY <2>2, <2>3, <2>5, PassShape
    <3>2. Cardinality(f[i]) = N - i
      BY <2>1, <2>5
    <3>3. IsFiniteSet(f[i])
      BY <2>3, LogShape
    <3>4. Cardinality(f[i] \ {n}) = Cardinality(f[i]) - 1
      BY <3>3, FS_RemoveElement
    <3>5. Cardinality(f[i + 1]) = N - (i + 1)
      BY <1>1, <3>1, <3>2, <3>4
    <3>6. f[i + 1] \subseteq k /\ \A m \in k \ f[i + 1] : ~lg[m].open /\ Pushed(lg, m)
      BY <2>1, <3>1
    <3> QED
      BY <3>5, <3>6
  <2> QED
    BY <2>4, <2>5
<1> HIDE DEF S
<1>5. Nat \subseteq S
  BY <1>3, <1>4, SetInduction
<1>6. Good(N)
  BY <1>1, <1>5 DEF S
<1>7. ~Busy(lg, f[N])
  <2>1. SUFFICES ASSUME Busy(lg, f[N]) PROVE FALSE
    OBVIOUS
  <2>2. Cardinality(f[N]) = 0 /\ f[N] \in SUBSET DOMAIN lg
    BY <1>1, <1>6, <2>1
  <2>3. f[N] = {}
    BY <2>2, LogShape, FS_EmptySet
  <2>4. Victims(lg, f[N]) = {}
    BY <2>3 DEF Victims, Evictable
  <2> QED
    BY <2>1, <2>4 DEF Busy
<1> QED
  BY <1>2, <1>6, <1>7

-----------------------------------------------------------------------------
(* The log                                                                 *)

\* lg2 continues lg: events are added and closed, and nothing else.
Continues(lg, lg2) ==
  /\ DOMAIN lg \subseteq DOMAIN lg2
  /\ \A n \in DOMAIN lg : /\ lg2[n].sid = lg[n].sid /\ lg2[n].owner = lg[n].owner
                          /\ lg2[n].dec = lg[n].dec
                          /\ lg2[n].open => lg[n].open

\* Closing a decision closes its events and leaves the others as they are.
LEMMA ResolveShape ==
  ASSUME NEW lg \in Seq(Event), NEW d \in Nat
  PROVE  /\ Resolve(lg, d) \in Seq(Event)
         /\ DOMAIN Resolve(lg, d) = DOMAIN lg /\ Len(Resolve(lg, d)) = Len(lg)
         /\ Continues(lg, Resolve(lg, d))
         /\ \A n \in DOMAIN lg : /\ Resolve(lg, d)[n].gone = lg[n].gone
                                 /\ d = 0 \/ lg[n].dec # d => Resolve(lg, d)[n] = lg[n]
<1>1. Len(lg) \in Nat /\ DOMAIN lg = 1..Len(lg) /\ \A n \in DOMAIN lg : lg[n] \in Event
  BY LogShape
<1> DEFINE r == Resolve(lg, d)
<1>2. r = [n \in 1..Len(lg) |-> IF d # 0 /\ lg[n].dec = d THEN [lg[n] EXCEPT !.open = FALSE]
                               ELSE lg[n]]
  BY <1>1 DEF Resolve
<1>3. ASSUME NEW n \in 1..Len(lg)
      PROVE  /\ r[n] \in Event
             /\ r[n].sid = lg[n].sid /\ r[n].owner = lg[n].owner /\ r[n].dec = lg[n].dec
             /\ r[n].open => lg[n].open
             /\ r[n].gone = lg[n].gone
             /\ d = 0 \/ lg[n].dec # d => r[n] = lg[n]
  <2>1. CASE d # 0 /\ lg[n].dec = d
    <3>1. r[n] = [lg[n] EXCEPT !.open = FALSE] /\ lg[n] \in Event
      BY <1>1, <1>2, <2>1
    <3> HIDE DEF r
    <3> QED
      BY <2>1, <3>1 DEF Event
  <2>2. CASE ~(d # 0 /\ lg[n].dec = d)
    BY <1>1, <1>2, <2>2
  <2> QED
    BY <2>1, <2>2
<1>4. r \in [1..Len(lg) -> Event]
  BY <1>2, <1>3
<1>5. r \in Seq(Event) /\ DOMAIN r = 1..Len(lg) /\ Len(r) = Len(lg)
  <2> HIDE DEF r
  <2> QED
    BY <1>1, <1>4
<1> QED
  BY <1>1, <1>3, <1>5 DEF Continues

\* A longer log with fewer pinned events does not bring an owner below its
\* floor.
LEMMA PushedStays ==
  ASSUME NEW lg \in Seq(Event), NEW lg2 \in Seq(Event), Continues(lg, lg2),
         NEW n \in DOMAIN lg, Pushed(lg, n)
  PROVE  Pushed(lg2, n)
<1> DEFINE a == {m \in DOMAIN lg : m > n /\ ~lg[m].open /\ lg[m].owner = lg[n].owner}
           b == {m \in DOMAIN lg2 : m > n /\ ~lg2[m].open /\ lg2[m].owner = lg2[n].owner}
<1>1. a \subseteq b
  BY DEF Continues
<1>2. IsFiniteSet(b) /\ Cardinality(b) \in Nat
  BY LogShape
<1>3. IsFiniteSet(a) /\ Cardinality(a) \in Nat
  BY LogShape
<1>4. Cardinality(a) >= Floor
  BY DEF Pushed
<1> HIDE DEF a, b
<1>5. Cardinality(a) <= Cardinality(b)
  BY <1>1, <1>2, FS_Subset
<1>6. Cardinality(b) >= Floor
  BY <1>2, <1>3, <1>4, <1>5, RingAssumption
<1> QED
  BY <1>6 DEF Pushed, b

\* The high-water marks are numbers, and no higher than what was lost.
LEMMA HighShape ==
  ASSUME RingTypeOK, NEW lg \in Seq(Event), NEW lost \in SUBSET DOMAIN lg
  PROVE  /\ HighAfter(lg, lost) \in [Sessions -> Nat]
         /\ \A s \in Sessions : \/ HighAfter(lg, lost)[s] = high[s]
                                \/ HighAfter(lg, lost)[s] \in {n \in lost : lg[n].sid = s}
<1>1. ASSUME NEW s \in Sessions
      PROVE  Max({high[s]} \cup {n \in lost : lg[n].sid = s})
               \in {high[s]} \cup {n \in lost : lg[n].sid = s}
  <2> DEFINE S == {high[s]} \cup {n \in lost : lg[n].sid = s}
             b == high[s] + Len(lg)
  <2>1. high[s] \in Nat /\ Len(lg) \in Nat /\ lost \subseteq 1..Len(lg)
    BY LogShape DEF RingTypeOK
  <2>2. S \subseteq Nat /\ S # {} /\ b \in Nat /\ \A n \in S : n <= b
    BY <2>1
  <2> HIDE DEF S, b
  <2>3. Max(S) \in S
    BY <2>2, MaxIsGreatest
  <2> QED
    BY <2>3 DEF S
<1>2. \A s \in Sessions : high[s] \in Nat
  BY DEF RingTypeOK
<1>3. lost \subseteq Nat
  BY LogShape
<1> QED
  BY <1>1, <1>2, <1>3 DEF HighAfter

\* notify_all leaves nobody asleep.
LEMMA NotifyShape ==
  ASSUME RingTypeOK, NotifyAll
  PROVE  /\ poll' \in [st : {"none", "awake", "asleep", "late"}, scope : SUBSET Sessions, after : Nat]
         /\ poll'.st # "asleep"
BY DEF RingTypeOK, NotifyAll

-----------------------------------------------------------------------------
(* The inductive invariant                                                 *)

\* The id of a decision is the number of an event of the same session.
DecidesOwn ==
  /\ \A n \in DOMAIN log : log[n].dec # 0 =>
       log[n].dec \in DOMAIN log /\ log[log[n].dec].sid = log[n].sid
  /\ \A s \in Sessions : decision[s] # 0 =>
       decision[s] \in DOMAIN log /\ log[decision[s]].sid = s

\* Between two operations nothing is left to evict.
Settled == ~Busy(log, kept)

RInv == /\ RingTypeOK /\ DecidesOwn /\ DecisionsKept /\ FloorKept /\ Settled /\ NoLostWakeup

\* The ring starts empty.
LEMMA RingInitInv == RingEmpty => RInv
<1> SUFFICES ASSUME RingEmpty PROVE RInv
  OBVIOUS
<1>1. RingTypeOK
  BY DEF RingEmpty, RingTypeOK, Calm
<1>2. DOMAIN log = {} /\ kept = {}
  BY DEF RingEmpty
<1>3. Settled
  BY <1>2 DEF Settled, Busy, Victims, Evictable
<1> QED
  BY <1>1, <1>2, <1>3
  DEF RingEmpty, RInv, DecidesOwn, DecisionsKept, FloorKept, Evicted, NoLostWakeup, Calm

\* What publish does to the log and to what is retained.
Published(s, dec, open, prior) ==
  LET e == Len(log) + 1 IN
  /\ log' \in Seq(Event) /\ Len(log') = e /\ DOMAIN log' = DOMAIN log \cup {e}
  /\ e \notin DOMAIN log
  /\ log'[e].sid = s /\ log'[e].dec = dec /\ ~log'[e].gone
  /\ open /\ (prior = 0 \/ dec # prior) => log'[e].open
  /\ Continues(log, log')
  /\ \A n \in DOMAIN log : /\ log'[n].gone = log[n].gone
                           /\ prior = 0 \/ log[n].dec # prior => log'[n] = log[n]
  /\ kept' \subseteq kept \cup {e}
  /\ \A n \in (kept \cup {e}) \ kept' : ~log'[n].open /\ Pushed(log', n)
  /\ ~Busy(log', kept')
  /\ high' \in [Sessions -> Nat]
  /\ poll' \in [st : {"none", "awake", "asleep", "late"}, scope : SUBSET Sessions, after : Nat]
  /\ poll'.st # "asleep"

\* publish does this.
LEMMA PutShape ==
  ASSUME RInv, NEW s \in Sessions, NEW o \in Owners \cup {NoOwner}, NEW dec \in Nat,
         NEW open \in BOOLEAN, NEW last \in BOOLEAN, NEW prior \in Nat,
         Put(s, o, dec, open, last, prior)
  PROVE  Published(s, dec, open, prior)
<1> DEFINE e   == Len(log) + 1
           r   == [sid |-> s, owner |-> o, dec |-> dec, open |-> open, last |-> last,
                   gone |-> FALSE]
           lg0 == Append(log, r)
           lg1 == Resolve(lg0, prior)
           k1  == IF prior = 0 THEN kept ELSE Evict(lg1, kept)
           k2  == Evict(lg1, k1 \cup {e})
<1>1. /\ log' = lg1 /\ kept' = k2 /\ high' = HighAfter(lg1, (kept \cup {e}) \ k2) /\ NotifyAll
  BY DEF Put
<1>2. RingTypeOK /\ log \in Seq(Event) /\ kept \subseteq DOMAIN log
  BY DEF RInv, RingTypeOK
<1>3. Len(log) \in Nat /\ DOMAIN log = 1..Len(log) /\ e \in Nat /\ e \notin DOMAIN log
  BY <1>2, LogShape
<1>4. r \in Event /\ r.sid = s /\ r.dec = dec /\ r.open = open /\ ~r.gone
  BY DEF Event
<1> HIDE DEF r
<1>5. /\ lg0 \in Seq(Event) /\ Len(lg0) = e /\ DOMAIN lg0 = DOMAIN log \cup {e} /\ lg0[e] = r
      /\ \A n \in DOMAIN log : lg0[n] = log[n]
  <2>1. lg0 \in Seq(Event) /\ Len(lg0) = e
    BY <1>2, <1>3, <1>4
  <2>2. DOMAIN lg0 = 1..e
    BY <2>1, LogShape
  <2> QED
    BY <1>2, <1>3, <1>4, <2>1, <2>2
<1> HIDE DEF e, lg0
<1>6. /\ lg1 \in Seq(Event) /\ DOMAIN lg1 = DOMAIN lg0 /\ Len(lg1) = Len(lg0)
      /\ Continues(lg0, lg1)
      /\ \A n \in DOMAIN lg0 : /\ lg1[n].gone = lg0[n].gone
                               /\ prior = 0 \/ lg0[n].dec # prior => lg1[n] = lg0[n]
  BY <1>5, ResolveShape
<1> HIDE DEF lg1
<1>7. /\ lg1[e].sid = s /\ lg1[e].dec = dec /\ ~lg1[e].gone
      /\ open /\ (prior = 0 \/ dec # prior) => lg1[e].open
      /\ Continues(log, lg1)
      /\ \A n \in DOMAIN log : /\ lg1[n].gone = log[n].gone
                               /\ prior = 0 \/ log[n].dec # prior => lg1[n] = log[n]
  BY <1>4, <1>5, <1>6 DEF Continues
<1>8. k1 \subseteq kept /\ \A n \in kept \ k1 : ~lg1[n].open /\ Pushed(lg1, n)
  <2>1. kept \in SUBSET DOMAIN lg1
    BY <1>2, <1>5, <1>6
  <2> QED
    BY <1>6, <2>1, EvictShape
<1> HIDE DEF k1
<1>9. /\ k2 \subseteq k1 \cup {e} /\ ~Busy(lg1, k2)
      /\ \A n \in (k1 \cup {e}) \ k2 : ~lg1[n].open /\ Pushed(lg1, n)
  <2>1. k1 \cup {e} \in SUBSET DOMAIN lg1
    BY <1>2, <1>5, <1>6, <1>8
  <2> QED
    BY <1>6, <2>1, EvictShape
<1> HIDE DEF k2
<1>10. high' \in [Sessions -> Nat]
  <2>1. (kept \cup {e}) \ k2 \in SUBSET DOMAIN lg1
    BY <1>2, <1>5, <1>6
  <2> QED
    BY <1>1, <1>2, <1>6, <2>1, HighShape
<1>11. /\ poll' \in [st : {"none", "awake", "asleep", "late"}, scope : SUBSET Sessions, after : Nat]
       /\ poll'.st # "asleep"
  BY <1>1, <1>2, NotifyShape
<1>12. /\ kept' \subseteq kept \cup {e}
       /\ \A n \in (kept \cup {e}) \ kept' : ~log'[n].open /\ Pushed(log', n)
       /\ ~Busy(log', kept')
  BY <1>1, <1>8, <1>9
<1> QED
  BY <1>1, <1>3, <1>5, <1>6, <1>7, <1>10, <1>11, <1>12 DEF e, Published


-----------------------------------------------------------------------------
(* Every operation preserves it                                            *)

\* publish preserves everything but what is said of decisions.
LEMMA PutKeeps ==
  ASSUME RInv, NEW s \in Sessions, NEW o \in Owners \cup {NoOwner}, NEW dec \in Nat,
         NEW open \in BOOLEAN, NEW last \in BOOLEAN, NEW prior \in Nat,
         Put(s, o, dec, open, last, prior),
         cached' \subseteq Sessions, decision' \in [Sessions -> Nat]
  PROVE  RingTypeOK' /\ FloorKept' /\ Settled' /\ NoLostWakeup'
<1> DEFINE e == Len(log) + 1
<1>1. /\ log' \in Seq(Event) /\ DOMAIN log' = DOMAIN log \cup {e}
      /\ Continues(log, log')
      /\ \A n \in DOMAIN log : log'[n].gone = log[n].gone
      /\ kept' \subseteq kept \cup {e}
      /\ \A n \in (kept \cup {e}) \ kept' : Pushed(log', n)
      /\ ~Busy(log', kept')
      /\ high' \in [Sessions -> Nat]
      /\ poll' \in [st : {"none", "awake", "asleep", "late"}, scope : SUBSET Sessions, after : Nat]
      /\ poll'.st # "asleep"
  <2>1. Published(s, dec, open, prior)
    BY PutShape
  <2> QED
    BY <2>1 DEF Published
<1>2. log \in Seq(Event) /\ kept \subseteq DOMAIN log
  BY DEF RInv, RingTypeOK
<1> HIDE DEF e
<1>3. RingTypeOK'
  BY <1>1, <1>2 DEF RingTypeOK
<1>4. FloorKept'
  <2>1. SUFFICES ASSUME NEW n \in DOMAIN log', n \notin kept', ~log'[n].gone
                 PROVE  Pushed(log', n)
    BY DEF FloorKept, Evicted, Pushed
  <2>2. CASE n \in kept \cup {e}
    BY <1>1, <2>1, <2>2
  <2>3. CASE n \notin kept \cup {e}
    <3>1. n \in DOMAIN log /\ n \in Evicted
      BY <1>1, <2>1, <2>3 DEF Evicted
    <3>2. Pushed(log, n)
      BY <3>1 DEF RInv, FloorKept, Pushed
    <3> QED
      BY <1>1, <1>2, <3>1, <3>2, PushedStays
  <2> QED
    BY <2>2, <2>3
<1> QED
  BY <1>1, <1>3, <1>4 DEF Settled, NoLostWakeup

\* The owner that publish finds, and its cache.
LEMMA PublishShape ==
  ASSUME RInv, NEW s \in Sessions, NEW dec, NEW open, NEW last, NEW prior,
         Publish(s, dec, open, last, prior)
  PROVE  /\ cached' \subseteq Sessions
         /\ \E o \in Owners \cup {NoOwner} : Put(s, o, dec, open, last, prior)
<1>1. PICK o \in {OwnerOf[s]} \cup IF s \in Unreadable \ cached THEN {NoOwner} ELSE {} :
        /\ Put(s, o, dec, open, last, prior)
        /\ cached' = IF o = NoOwner THEN cached ELSE cached \cup {s}
  BY DEF Publish
<1>2. o \in Owners \cup {NoOwner}
  BY RingAssumption
<1> QED
  BY <1>1, <1>2 DEF RInv, RingTypeOK

\* Publishing a note preserves the invariant.
LEMMA NoteInv ==
  ASSUME RInv, NEW s \in Sessions, PublishNote(s)
  PROVE  RInv'
<1>1. Publish(s, 0, FALSE, FALSE, 0) /\ decision' = decision
  BY DEF PublishNote
<1>2. cached' \subseteq Sessions
  BY <1>1, PublishShape
<1>3. PICK o \in Owners \cup {NoOwner} : Put(s, o, 0, FALSE, FALSE, 0)
  BY <1>1, PublishShape
<1>4. decision \in [Sessions -> Nat]
  BY DEF RInv, RingTypeOK
<1>5. RingTypeOK' /\ FloorKept' /\ Settled' /\ NoLostWakeup'
  BY <1>1, <1>2, <1>3, <1>4, PutKeeps
<1> DEFINE e == Len(log) + 1
<1>6. /\ DOMAIN log' = DOMAIN log \cup {e} /\ e \notin DOMAIN log /\ log'[e].dec = 0
      /\ \A n \in DOMAIN log : log'[n] = log[n]
      /\ \A n \in (kept \cup {e}) \ kept' : ~log'[n].open
  <2>1. Published(s, 0, FALSE, 0)
    BY <1>3, PutShape
  <2> QED
    BY <2>1 DEF Published
<1> HIDE DEF e
<1>7. DecidesOwn'
  BY <1>1, <1>6 DEF RInv, DecidesOwn
<1>8. DecisionsKept'
  BY <1>1, <1>6 DEF RInv, DecisionsKept
<1> QED
  BY <1>5, <1>7, <1>8 DEF RInv

\* A new pause preserves the invariant: the decision before it is closed, and
\* no event of another one is touched.
LEMMA DecisionInv ==
  ASSUME RInv, NEW s \in Sessions, PublishDecision(s)
  PROVE  RInv'
<1> DEFINE e == Len(log) + 1
<1>1. Publish(s, e, TRUE, FALSE, decision[s]) /\ decision' = [decision EXCEPT ![s] = e]
  BY DEF PublishDecision
<1>2. cached' \subseteq Sessions
  BY <1>1, PublishShape
<1>3. PICK o \in Owners \cup {NoOwner} : Put(s, o, e, TRUE, FALSE, decision[s])
  BY <1>1, PublishShape
<1>4. decision \in [Sessions -> Nat] /\ e \in Nat /\ decision[s] \in Nat
  BY LogShape DEF RInv, RingTypeOK
<1>5. decision' \in [Sessions -> Nat] /\ decision'[s] = e
      /\ \A s2 \in Sessions : s2 # s => decision'[s2] = decision[s2]
  BY <1>1, <1>4
<1>6. RingTypeOK' /\ FloorKept' /\ Settled' /\ NoLostWakeup'
  BY <1>2, <1>3, <1>4, <1>5, PutKeeps
<1>7. /\ DOMAIN log' = DOMAIN log \cup {e} /\ e \notin DOMAIN log
      /\ log'[e].dec = e /\ log'[e].sid = s
      /\ (decision[s] = 0 \/ e # decision[s]) => log'[e].open
      /\ Continues(log, log')
      /\ \A n \in DOMAIN log : decision[s] = 0 \/ log[n].dec # decision[s] => log'[n] = log[n]
      /\ \A n \in (kept \cup {e}) \ kept' : ~log'[n].open
  <2>1. Published(s, e, TRUE, decision[s])
    BY <1>3, <1>4, PutShape
  <2> QED
    BY <2>1 DEF Published
<1> HIDE DEF e
<1>8. DecidesOwn'
  BY <1>5, <1>7 DEF RInv, DecidesOwn, Continues
<1>9. log'[e].open /\ e \in kept'
  BY <1>7 DEF RInv, DecidesOwn
<1>10. ASSUME NEW s2 \in Sessions, decision'[s2] # 0, NEW n \in DOMAIN log',
              log'[n].dec = decision'[s2]
       PROVE  n \in kept' /\ log'[n].open
  <2>1. CASE s2 = s
    <3>1. n = e
      BY <1>5, <1>7, <1>10, <2>1 DEF RInv, DecidesOwn, Continues
    <3> QED
      BY <1>9, <3>1
  <2>2. CASE s2 # s
    <3>1. decision[s2] # 0 /\ decision[s2] \in DOMAIN log /\ log[decision[s2]].sid = s2
      BY <1>5, <1>10, <2>2 DEF RInv, DecidesOwn
    <3>2. n \in DOMAIN log /\ log[n].dec = decision[s2]
      BY <1>5, <1>7, <1>10, <2>2, <3>1 DEF Continues
    <3>3. n \in kept /\ log[n].open
      BY <3>1, <3>2 DEF RInv, DecisionsKept
    <3>4. decision[s] = 0 \/ log[n].dec # decision[s]
      BY <2>2, <3>1, <3>2 DEF RInv, DecidesOwn
    <3> QED
      BY <1>7, <3>2, <3>3, <3>4
  <2> QED
    BY <2>1, <2>2
<1>11. DecisionsKept'
  BY <1>10 DEF DecisionsKept
<1> QED
  BY <1>6, <1>8, <1>11 DEF RInv

\* A nag preserves the invariant: it carries the latest pause of its own
\* session, and is born closed when that pause is over.
LEMMA AgainInv ==
  ASSUME RInv, NEW s \in Sessions, PublishAgain(s)
  PROVE  RInv'
<1> DEFINE S == {0} \cup {log[n].dec : n \in {m \in DOMAIN log : log[m].sid = s}}
           d == Max(S)
           e == Len(log) + 1
<1>1. d # 0 /\ Publish(s, d, decision[s] = d, FALSE, 0) /\ decision' = decision
  BY DEF PublishAgain
<1>2. /\ log \in Seq(Event) /\ Len(log) \in Nat /\ DOMAIN log = 1..Len(log)
      /\ \A n \in DOMAIN log : log[n] \in Event
      /\ decision \in [Sessions -> Nat]
  BY LogShape DEF RInv, RingTypeOK
<1>3. S \subseteq Nat /\ S # {} /\ \A n \in S : n <= Len(log)
  BY <1>2 DEF RInv, DecidesOwn, Event
<1>4. d \in S
  <2> HIDE DEF S
  <2> QED
    BY <1>2, <1>3, MaxIsGreatest
<1>5. d \in Nat /\ d \in DOMAIN log /\ log[d].sid = s
  BY <1>1, <1>3, <1>4 DEF RInv, DecidesOwn
<1> HIDE DEF S, d
<1>6. cached' \subseteq Sessions
  BY <1>1, PublishShape
<1> DEFINE op == decision[s] = d
<1>7. PICK o \in Owners \cup {NoOwner} : Put(s, o, d, op, FALSE, 0)
  BY <1>1, PublishShape
<1>8. op \in BOOLEAN
  OBVIOUS
<1>9. RingTypeOK' /\ FloorKept' /\ Settled' /\ NoLostWakeup'
  <2> HIDE DEF op
  <2> QED
    BY <1>1, <1>2, <1>5, <1>6, <1>7, <1>8, PutKeeps
<1>10. /\ DOMAIN log' = DOMAIN log \cup {e} /\ e \notin DOMAIN log
       /\ log'[e].dec = d /\ log'[e].sid = s
       /\ op => log'[e].open
       /\ \A n \in DOMAIN log : log'[n] = log[n]
       /\ \A n \in (kept \cup {e}) \ kept' : ~log'[n].open
  <2>1. Published(s, d, op, 0)
    <3> HIDE DEF op
    <3> QED
      BY <1>5, <1>7, <1>8, PutShape
  <2> QED
    BY <2>1 DEF Published
<1> HIDE DEF e
<1>11. DecidesOwn'
  BY <1>1, <1>5, <1>10 DEF RInv, DecidesOwn
<1>12. ASSUME NEW s2 \in Sessions, decision[s2] # 0, NEW n \in DOMAIN log',
              log'[n].dec = decision[s2]
       PROVE  n \in kept' /\ log'[n].open
  <2>1. CASE n \in DOMAIN log
    BY <1>10, <1>12, <2>1 DEF RInv, DecisionsKept
  <2>2. CASE n = e
    <3>1. d = decision[s2] /\ log[d].sid = s2
      BY <1>10, <1>12, <2>2 DEF RInv, DecidesOwn
    <3> QED
      BY <1>5, <1>10, <2>2, <3>1
  <2> QED
    BY <1>10, <2>1, <2>2
<1>13. DecisionsKept'
  BY <1>1, <1>12 DEF DecisionsKept
<1> QED
  BY <1>9, <1>11, <1>13 DEF RInv


\* An answer preserves the invariant: only events of the answered decision
\* close, and a sleeper whose events were evicted had read them.
LEMMA AnswerInv ==
  ASSUME RInv, NEW s \in Sessions, Answer(s)
  PROVE  RInv'
<1> DEFINE d    == decision[s]
           lost == kept \ kept'
<1>1. /\ RingTypeOK /\ log \in Seq(Event) /\ kept \in SUBSET DOMAIN log
      /\ decision \in [Sessions -> Nat] /\ d \in Nat
  BY DEF RInv, RingTypeOK
<1>2. /\ log' = Resolve(log, d) /\ kept' = Evict(log', kept) /\ high' = HighAfter(log', lost)
      /\ decision' = [decision EXCEPT ![s] = 0] /\ cached' = cached /\ poll' = poll
      /\ decision[s] # 0
  BY DEF Answer
<1> HIDE DEF d
<1>3. /\ log' \in Seq(Event) /\ DOMAIN log' = DOMAIN log /\ Continues(log, log')
      /\ \A n \in DOMAIN log : /\ log'[n].gone = log[n].gone
                               /\ d = 0 \/ log[n].dec # d => log'[n] = log[n]
  BY <1>1, <1>2, ResolveShape
<1>4. /\ kept' \subseteq kept /\ ~Busy(log', kept')
      /\ \A n \in kept \ kept' : ~log'[n].open /\ Pushed(log', n)
  BY <1>1, <1>2, <1>3, EvictShape
<1>5. lost \in SUBSET DOMAIN log'
  BY <1>1, <1>3
<1>6. /\ high' \in [Sessions -> Nat]
      /\ \A s2 \in Sessions : high'[s2] = high[s2] \/ high'[s2] \in {n \in lost : log'[n].sid = s2}
  <2> HIDE DEF lost
  <2>1. /\ HighAfter(log', lost) \in [Sessions -> Nat]
        /\ \A s2 \in Sessions : \/ HighAfter(log', lost)[s2] = high[s2]
                                \/ HighAfter(log', lost)[s2] \in {n \in lost : log'[n].sid = s2}
    BY <1>1, <1>3, <1>5, HighShape
  <2> QED
    BY <1>2, <2>1
<1>7. RingTypeOK'
  BY <1>1, <1>2, <1>3, <1>4, <1>6 DEF RingTypeOK
<1>8. DecidesOwn'
  <2>1. \A s2 \in Sessions : decision'[s2] # 0 => decision'[s2] = decision[s2]
    BY <1>1, <1>2
  <2>2. DecidesOwn
    BY DEF RInv
  <2> QED
    BY <1>3, <2>1, <2>2 DEF DecidesOwn, Continues
<1>9. ASSUME NEW s2 \in Sessions, decision'[s2] # 0, NEW n \in DOMAIN log',
             log'[n].dec = decision'[s2]
      PROVE  n \in kept' /\ log'[n].open
  <2>1. s2 # s /\ decision'[s2] = decision[s2] /\ n \in DOMAIN log /\ log[n].dec = decision[s2]
    BY <1>1, <1>2, <1>3, <1>9 DEF Continues
  <2>2. n \in kept /\ log[n].open
    BY <1>9, <2>1 DEF RInv, DecisionsKept
  <2>3. log[n].dec # d
    BY <1>2, <1>9, <2>1 DEF RInv, DecidesOwn, d
  <2> QED
    BY <1>3, <1>4, <2>1, <2>2, <2>3
<1>10. DecisionsKept'
  BY <1>9 DEF DecisionsKept
<1>11. FloorKept'
  <2>1. SUFFICES ASSUME NEW n \in DOMAIN log', n \notin kept', ~log'[n].gone
                 PROVE  Pushed(log', n)
    BY DEF FloorKept, Evicted, Pushed
  <2>2. CASE n \in kept
    BY <1>4, <2>1, <2>2
  <2>3. CASE n \notin kept
    <3>1. n \in DOMAIN log /\ Pushed(log, n)
      BY <1>3, <2>1, <2>3 DEF RInv, FloorKept, Evicted, Pushed
    <3> QED
      BY <1>1, <1>3, <3>1, PushedStays
  <2> QED
    BY <2>2, <2>3
<1>12. NoLostWakeup'
  <2>1. SUFFICES ASSUME poll.st = "asleep" PROVE Look(poll.after, poll.scope)'.what = "nothing"
    BY <1>2 DEF NoLostWakeup
  <2>2. ~Expired(poll.after, poll.scope) /\ FirstAfter(poll.after, poll.scope) = {}
    BY <2>1 DEF RInv, NoLostWakeup, Look
  <2>3. poll.scope \subseteq Sessions /\ poll.after \in Nat /\ kept \subseteq Nat
    BY <1>1, LogShape DEF RingTypeOK
  <2>4. FirstAfter(poll.after, poll.scope)' = {}
    BY <1>1, <1>2, <1>3, <1>4, <2>2 DEF FirstAfter, Continues
  <2>5. ASSUME NEW s2 \in poll.scope PROVE ~(poll.after < high'[s2])
    <3>1. CASE high'[s2] = high[s2]
      BY <2>2, <3>1 DEF Expired
    <3>2. CASE high'[s2] \in {n \in lost : log'[n].sid = s2}
      <4>1. high'[s2] \in kept /\ log[high'[s2]].sid = s2
        BY <1>1, <1>3, <3>2 DEF Continues
      <4>2. ~(high'[s2] > poll.after)
        BY <2>2, <4>1 DEF FirstAfter
      <4> QED
        BY <2>3, <4>1, <4>2
    <3> QED
      BY <1>6, <2>3, <3>1, <3>2
  <2>6. ~Expired(poll.after, poll.scope)'
    BY <1>2, <2>5 DEF Expired
  <2> QED
    BY <1>2, <2>4, <2>6 DEF Look
<1> QED
  BY <1>4, <1>7, <1>8, <1>10, <1>11, <1>12 DEF RInv, Settled

\* Fewer events leave nothing to evict where nothing was.
LEMMA SettledStays ==
  ASSUME NEW lg \in Seq(Event), NEW lg2 \in Seq(Event), NEW k \in SUBSET DOMAIN lg,
         NEW k2 \in SUBSET k, DOMAIN lg2 = DOMAIN lg,
         \A n \in k2 : lg2[n] = lg[n], ~Busy(lg, k)
  PROVE  ~Busy(lg2, k2)
<1>1. SUFFICES ASSUME Busy(lg2, k2) PROVE Busy(lg, k)
  OBVIOUS
<1> DEFINE h  == Evictable(lg, k)
           h2 == Evictable(lg2, k2)
<1>2. h2 \subseteq h /\ h \in SUBSET DOMAIN lg
  BY DEF Evictable
<1>3. PICK n \in h2 : Cardinality({m \in h2 : lg2[m].owner = lg2[n].owner}) > Floor
  BY <1>1 DEF Busy, Victims
<1> DEFINE b  == {m \in h : lg[m].owner = lg[n].owner}
           b2 == {m \in h2 : lg2[m].owner = lg2[n].owner}
<1>4. b2 \subseteq b
  BY <1>2, <1>3 DEF Evictable
<1>5. /\ IsFiniteSet(h) /\ Cardinality(h) \in Nat /\ IsFiniteSet(b) /\ Cardinality(b) \in Nat
      /\ Cardinality(h2) \in Nat /\ Cardinality(b2) \in Nat
  <2>1. h2 \in SUBSET DOMAIN lg /\ b \in SUBSET DOMAIN lg /\ b2 \in SUBSET DOMAIN lg
    BY <1>2
  <2> HIDE DEF h, h2, b, b2
  <2> QED
    BY <1>2, <2>1, LogShape
<1>6. n \in h
  BY <1>2, <1>3
<1>7. Cardinality(h2) > Bound /\ Cardinality(b2) > Floor
  BY <1>1, <1>3 DEF Busy
<1>8. Cardinality(h2) <= Cardinality(h) /\ Cardinality(b2) <= Cardinality(b)
  <2> HIDE DEF h, h2, b, b2
  <2> QED
    BY <1>2, <1>4, <1>5, FS_Subset
<1>9. Cardinality(h) > Bound /\ Cardinality(b) > Floor
  <2> HIDE DEF h, h2, b, b2
  <2> QED
    BY <1>5, <1>7, <1>8, RingAssumption
<1>10. n \in Victims(lg, k)
  BY <1>6, <1>9 DEF Victims
<1> QED
  BY <1>9, <1>10 DEF Busy

\* Forgetting a session preserves the invariant: all its events go, and no
\* other session loses one.
LEMMA ForgetInv ==
  ASSUME RInv, NEW s \in Sessions, Forget({s})
  PROVE  RInv'
<1>1. /\ RingTypeOK /\ log \in Seq(Event) /\ kept \in SUBSET DOMAIN log
      /\ decision \in [Sessions -> Nat] /\ high \in [Sessions -> Nat] /\ cached \subseteq Sessions
  BY DEF RInv, RingTypeOK
<1>2. Len(log) \in Nat /\ DOMAIN log = 1..Len(log) /\ \A n \in DOMAIN log : log[n] \in Event
  BY <1>1, LogShape
<1>3. /\ kept' = {n \in kept : log[n].sid # s}
      /\ high' = [s2 \in Sessions |-> IF s2 = s THEN 0 ELSE high[s2]]
      /\ decision' = [s2 \in Sessions |-> IF s2 = s THEN 0 ELSE decision[s2]]
      /\ cached' \subseteq Sessions
      /\ log' = [n \in DOMAIN log |-> IF log[n].sid = s THEN [log[n] EXCEPT !.gone = TRUE]
                                      ELSE log[n]]
      /\ NotifyAll
  BY <1>1 DEF Forget
<1>4. ASSUME NEW n \in DOMAIN log
      PROVE  /\ log'[n] \in Event /\ log'[n].sid = log[n].sid /\ log'[n].owner = log[n].owner
             /\ log'[n].dec = log[n].dec
             /\ log'[n].open => log[n].open
             /\ log[n].sid # s => log'[n] = log[n]
             /\ log[n].sid = s => log'[n].gone
  <2>1. CASE log[n].sid = s
    <3>1. log'[n] = [log[n] EXCEPT !.gone = TRUE] /\ log[n] \in Event
      BY <1>2, <1>3, <2>1
    <3> QED
      BY <2>1, <3>1 DEF Event
  <2>2. CASE log[n].sid # s
    BY <1>2, <1>3, <2>2
  <2> QED
    BY <2>1, <2>2
<1>5. log' \in Seq(Event) /\ DOMAIN log' = DOMAIN log
  <2>1. log' \in [1..Len(log) -> Event]
    BY <1>2, <1>3, <1>4
  <2> QED
    BY <1>2, <2>1
<1>6. Continues(log, log')
  BY <1>4, <1>5 DEF Continues
<1>7. /\ poll' \in [st : {"none", "awake", "asleep", "late"}, scope : SUBSET Sessions, after : Nat]
      /\ poll'.st # "asleep"
  BY <1>1, <1>3, NotifyShape
<1>8. RingTypeOK'
  BY <1>1, <1>3, <1>5, <1>7 DEF RingTypeOK
<1>9. DecidesOwn'
  BY <1>3, <1>4, <1>5 DEF RInv, DecidesOwn
<1>10. ASSUME NEW s2 \in Sessions, decision'[s2] # 0, NEW n \in DOMAIN log',
              log'[n].dec = decision'[s2]
       PROVE  n \in kept' /\ log'[n].open
  <2>1. s2 # s /\ decision'[s2] = decision[s2] /\ n \in DOMAIN log /\ log[n].dec = decision[s2]
    BY <1>3, <1>4, <1>5, <1>10
  <2>2. n \in kept /\ log[n].open
    BY <1>10, <2>1 DEF RInv, DecisionsKept
  <2>3. log[n].sid = s2
    BY <1>10, <2>1 DEF RInv, DecidesOwn
  <2> QED
    BY <1>3, <1>4, <2>1, <2>2, <2>3
<1>11. DecisionsKept'
  BY <1>10 DEF DecisionsKept
<1>12. FloorKept'
  <2>1. SUFFICES ASSUME NEW n \in DOMAIN log', n \notin kept', ~log'[n].gone
                 PROVE  Pushed(log', n)
    BY DEF FloorKept, Evicted, Pushed
  <2>2. n \in DOMAIN log /\ log[n].sid # s /\ ~log[n].gone /\ n \notin kept
    BY <1>3, <1>4, <1>5, <2>1
  <2>3. Pushed(log, n)
    BY <2>2 DEF RInv, FloorKept, Evicted, Pushed
  <2> QED
    BY <1>1, <1>5, <1>6, <2>2, <2>3, PushedStays
<1>13. Settled'
  <2>1. kept' \in SUBSET kept /\ \A n \in kept' : log'[n] = log[n]
    BY <1>1, <1>3, <1>4
  <2>2. ~Busy(log, kept)
    BY DEF RInv, Settled
  <2>3. ~Busy(log', kept')
    BY <1>1, <1>5, <2>1, <2>2, SettledStays
  <2> QED
    BY <2>3 DEF Settled
<1> QED
  BY <1>7, <1>8, <1>9, <1>11, <1>12, <1>13 DEF RInv, NoLostWakeup

\* The waits preserve the invariant: a thread sleeps only after it has looked,
\* under the lock that every publisher takes.
LEMMA WaitInv ==
  ASSUME RInv, WaitBegins \/ Sleep \/ WaitEnds \/ UNCHANGED ringVars
  PROVE  RInv'
<1>1. UNCHANGED <<log, kept, high, cached, decision>>
  BY DEF WaitBegins, Sleep, WaitEnds, ringVars
<1>2. DecidesOwn' /\ DecisionsKept' /\ FloorKept' /\ Settled'
  BY <1>1 DEF RInv, DecidesOwn, DecisionsKept, FloorKept, Evicted, Settled
<1>3. poll' \in [st : {"none", "awake", "asleep", "late"}, scope : SUBSET Sessions, after : Nat]
  <2>1. poll \in [st : {"none", "awake", "asleep", "late"}, scope : SUBSET Sessions, after : Nat]
        /\ log \in Seq(Event)
    BY DEF RInv, RingTypeOK
  <2>2. CASE WaitBegins
    <3>1. PICK S \in (SUBSET Sessions) \ {{}}, n \in 0..LatestSeq : Arm(S, n)
      BY <2>2 DEF WaitBegins
    <3>2. n \in Nat
      BY <2>1, LogShape DEF LatestSeq
    <3> QED
      BY <3>1, <3>2 DEF Arm
  <2>3. CASE Sleep
    BY <2>1, <2>3 DEF Sleep
  <2>4. CASE WaitEnds
    BY <2>4 DEF WaitEnds, Calm
  <2>5. CASE UNCHANGED ringVars
    BY <2>1, <2>5 DEF ringVars
  <2> QED
    BY <2>2, <2>3, <2>4, <2>5
<1>4. RingTypeOK'
  BY <1>1, <1>3 DEF RInv, RingTypeOK
<1>5. NoLostWakeup'
  <2>1. \A a, S : Look(a, S)' = Look(a, S)
    BY <1>1 DEF Look, Expired, FirstAfter
  <2>2. CASE WaitBegins
    BY <2>2 DEF WaitBegins, Arm, NoLostWakeup
  <2>3. CASE Sleep
    <3>1. /\ poll'.after = poll.after /\ poll'.scope = poll.scope
          /\ Look(poll.after, poll.scope).what = "nothing"
      BY <2>3 DEF RInv, RingTypeOK, Sleep
    <3>2. Look(poll.after, poll.scope)' = Look(poll.after, poll.scope)
      BY <1>1, <3>1 DEF Look, Expired, FirstAfter
    <3> QED
      BY <3>1, <3>2 DEF NoLostWakeup
  <2>4. CASE WaitEnds
    BY <2>4 DEF WaitEnds, Calm, NoLostWakeup
  <2>5. CASE UNCHANGED ringVars
    <3>1. poll' = poll /\ (poll.st = "asleep" => Look(poll.after, poll.scope).what = "nothing")
      BY <2>5 DEF RInv, NoLostWakeup, ringVars
    <3>2. Look(poll.after, poll.scope)' = Look(poll.after, poll.scope)
      BY <1>1, <3>1 DEF Look, Expired, FirstAfter
    <3> QED
      BY <3>1, <3>2 DEF NoLostWakeup
  <2> QED
    BY <2>2, <2>3, <2>4, <2>5
<1> QED
  BY <1>2, <1>4, <1>5 DEF RInv

\* Every step of the ring preserves the invariant.
LEMMA RInvStep == RInv /\ [RingNext]_ringVars => RInv'
<1> SUFFICES ASSUME RInv, [RingNext]_ringVars PROVE RInv'
  OBVIOUS
<1>1. CASE \E s \in Sessions : PublishNote(s) \/ PublishDecision(s) \/ PublishAgain(s) \/ Answer(s)
  BY <1>1, NoteInv, DecisionInv, AgainInv, AnswerInv
<1>2. CASE \E s \in Sessions : Forget({s})
  BY <1>2, ForgetInv
<1>3. CASE WaitBegins \/ Sleep \/ WaitEnds \/ UNCHANGED ringVars
  BY <1>3, WaitInv
<1> QED
  BY <1>1, <1>2, <1>3 DEF RingNext


-----------------------------------------------------------------------------
(* The bound of the history                                                *)

\* H holds at most Floor events of each owner in O, and no others.
Sparse(lg, H, O) ==
  /\ H \subseteq DOMAIN lg /\ IsFiniteSet(O)
  /\ \A n \in H : lg[n].owner \in O
  /\ \A x \in O : Cardinality({m \in H : lg[m].owner = x}) <= Floor

\* Then H has at most Floor events times the number of owners.
LEMMA SparseIsSmall ==
  ASSUME NEW lg \in Seq(Event), NEW H, NEW O, Sparse(lg, H, O)
  PROVE  Cardinality(H) <= Floor * Cardinality(O)
<1> DEFINE Ok(h, o) == Cardinality(h) <= Floor * Cardinality(o)
           S == {c \in Nat : \A h, o : Sparse(lg, h, o) /\ Cardinality(o) = c => Ok(h, o)}
<1>1. 0 \in S
  <2>1. ASSUME NEW h, NEW o, Sparse(lg, h, o), Cardinality(o) = 0 PROVE Ok(h, o)
    <3>1. o = {}
      BY <2>1, FS_EmptySet DEF Sparse
    <3>2. h = {}
      BY <2>1, <3>1 DEF Sparse
    <3>3. Cardinality(h) = 0
      BY <3>2, FS_EmptySet
    <3> QED
      BY <2>1, <3>3, RingAssumption
  <2> HIDE DEF Ok
  <2> QED
    BY <2>1
<1>2. ASSUME NEW c \in Nat, c \in S PROVE c + 1 \in S
  <2>1. ASSUME NEW h, NEW o, Sparse(lg, h, o), Cardinality(o) = c + 1 PROVE Ok(h, o)
    <3>1. IsFiniteSet(o) /\ o # {}
      BY <2>1, FS_EmptySet DEF Sparse
    <3>2. PICK x : x \in o
      BY <3>1
    <3> DEFINE o1 == o \ {x}
               h1 == {m \in h : lg[m].owner # x}
               hx == {m \in h : lg[m].owner = x}
    <3>3. Cardinality(o1) = c /\ IsFiniteSet(o1)
      BY <2>1, <3>1, <3>2, FS_RemoveElement
    <3>4. Sparse(lg, h1, o1)
      <4>1. ASSUME NEW y \in o1 PROVE Cardinality({m \in h1 : lg[m].owner = y}) <= Floor
        <5>1. {m \in h1 : lg[m].owner = y} = {m \in h : lg[m].owner = y}
          OBVIOUS
        <5> QED
          BY <2>1, <5>1 DEF Sparse
      <4> QED
        BY <2>1, <3>3, <4>1 DEF Sparse
    <3>5. Ok(h1, o1)
      BY <1>2, <3>3, <3>4
    <3>6. Cardinality(hx) <= Floor
      BY <2>1, <3>2 DEF Sparse
    <3>7. h = h1 \cup hx /\ h1 \cap hx = {} /\ h1 \in SUBSET DOMAIN lg /\ hx \in SUBSET DOMAIN lg
      BY <2>1 DEF Sparse
    <3> HIDE DEF h1, hx, o1
    <3>8. /\ IsFiniteSet(h1) /\ Cardinality(h1) \in Nat
          /\ IsFiniteSet(hx) /\ Cardinality(hx) \in Nat
      BY <3>7, LogShape
    <3>9. Cardinality(h) = Cardinality(h1) + Cardinality(hx)
      <4>1. Cardinality(h1 \cup hx) = Cardinality(h1) + Cardinality(hx) - Cardinality(h1 \cap hx)
        BY <3>8, FS_Union
      <4>2. Cardinality(h1 \cap hx) = 0
        BY <3>7, FS_EmptySet
      <4> QED
        BY <3>7, <3>8, <4>1, <4>2
    <3>10. Floor * (c + 1) = Floor * c + Floor
      BY RingAssumption
    <3>11. Cardinality(h1) <= Floor * c
      BY <3>3, <3>5
    <3>12. Cardinality(h) <= Floor * c + Floor
      BY <3>6, <3>8, <3>9, <3>11, RingAssumption
    <3> QED
      BY <2>1, <3>10, <3>12
  <2> HIDE DEF Ok
  <2> QED
    BY <2>1
<1> HIDE DEF S
<1>3. Nat \subseteq S
  BY <1>1, <1>2, SetInduction
<1>4. Cardinality(O) \in Nat
  BY FS_CardinalityType DEF Sparse
<1> QED
  BY <1>3, <1>4 DEF S

\* A ring with nothing left to evict is bounded.
LEMMA SettledIsBounded == RInv => RingBounded
<1> SUFFICES ASSUME RInv PROVE RingBounded
  OBVIOUS
<1> DEFINE o == {log[n].owner : n \in kept}
           H == Evictable(log, kept)
           M == {Bound, Floor * Cardinality(o)}
<1>1. log \in Seq(Event) /\ kept \in SUBSET DOMAIN log /\ H \in SUBSET DOMAIN log
  BY DEF RInv, RingTypeOK, Evictable
<1>2. IsFiniteSet(o) /\ Cardinality(o) \in Nat
  <2>1. IsFiniteSet(kept)
    BY <1>1, LogShape
  <2>2. IsFiniteSet(o)
    <3> DEFINE f == [n \in kept |-> log[n].owner]
    <3>1. f \in Surjection(kept, o)
      BY DEF Surjection
    <3> HIDE DEF f, o
    <3> QED
      BY <2>1, <3>1, FS_Surjection
  <2> QED
    BY <2>2, FS_CardinalityType
<1>3. Cardinality(H) \in Nat
  BY <1>1, LogShape
<1>4. Floor * Cardinality(o) \in Nat /\ Bound \in Nat
  BY <1>2, RingAssumption
<1>5. Bound <= Max(M) /\ Floor * Cardinality(o) <= Max(M) /\ Max(M) \in Nat
  <2> HIDE DEF o
  <2> DEFINE b == Bound + Floor * Cardinality(o)
             f == Floor * Cardinality(o)
  <2>1. f \in Nat
    BY <1>4
  <2> HIDE DEF f
  <2>2. {Bound, f} \subseteq Nat /\ {Bound, f} # {} /\ Bound + f \in Nat
        /\ \A n \in {Bound, f} : n <= Bound + f
    BY <1>4, <2>1
  <2>3. Max({Bound, f}) \in {Bound, f} /\ \A n \in {Bound, f} : n <= Max({Bound, f})
    BY <2>2, MaxIsGreatest
  <2> QED
    BY <1>4, <2>1, <2>3 DEF f
<1>6. CASE Cardinality(H) <= Bound
  <2>1. Cardinality(H) <= Max(M)
    <3> HIDE DEF H, M
    <3> QED
      BY <1>3, <1>4, <1>5, <1>6
  <2> QED
    BY <2>1 DEF RingBounded
<1>7. CASE ~(Cardinality(H) <= Bound)
  <2>1. Victims(log, kept) = {}
    <3>1. Cardinality(H) > Bound
      <4> HIDE DEF H
      <4> QED
        BY <1>3, <1>4, <1>7
    <3> QED
      BY <3>1 DEF RInv, Settled, Busy
  <2>2. ASSUME NEW x \in o PROVE Cardinality({m \in H : log[m].owner = x}) <= Floor
    <3> DEFINE B == {m \in H : log[m].owner = x}
    <3>1. B \in SUBSET DOMAIN log
      BY <1>1
    <3>2. Cardinality(B) \in Nat
      BY <1>1, <3>1, LogShape
    <3>3. CASE B = {}
      <4>1. Cardinality(B) = 0
        BY <3>3, FS_EmptySet
      <4>2. 0 <= Floor
        BY RingAssumption
      <4> HIDE DEF B
      <4>3. Cardinality(B) <= Floor
        BY <4>1, <4>2
      <4> QED
        BY <4>3 DEF B
    <3>4. CASE B # {}
      <4>1. PICK n \in H : log[n].owner = x
        BY <3>4
      <4>2. ~(Cardinality({m \in H : log[m].owner = log[n].owner}) > Floor)
        BY <2>1, <4>1 DEF Victims
      <4>3. ~(Cardinality(B) > Floor)
        BY <4>1, <4>2
      <4> HIDE DEF B
      <4>4. Cardinality(B) <= Floor
        BY <3>2, <4>3, RingAssumption
      <4> QED
        BY <4>4 DEF B
    <3> QED
      BY <3>3, <3>4
  <2>3. \A n \in H : log[n].owner \in o
    BY DEF Evictable
  <2>4. Sparse(log, H, o)
    <3> HIDE DEF o, H
    <3> QED
      BY <1>1, <1>2, <2>2, <2>3 DEF Sparse
  <2>5. Cardinality(H) <= Floor * Cardinality(o)
    <3> HIDE DEF o, H
    <3> QED
      BY <1>1, <2>4, SparseIsSmall
  <2>6. Cardinality(H) <= Max(M)
    <3>1. Floor * Cardinality(o) <= Max(M) /\ Max(M) \in Nat /\ Floor * Cardinality(o) \in Nat
      BY <1>4, <1>5
    <3> DEFINE f == Floor * Cardinality(o)
    <3>2. f <= Max(M) /\ f \in Nat /\ Cardinality(H) <= f
      BY <2>5, <3>1
    <3> HIDE DEF H, M, f
    <3> QED
      BY <1>3, <3>1, <3>2
  <2> QED
    BY <2>6 DEF RingBounded
<1> QED
  BY <1>6, <1>7

-----------------------------------------------------------------------------
(* The theorems                                                            *)

\* The inductive invariant holds in every reachable state of the ring.
LEMMA RingInv == RingSpec => []RInv
BY RingInitInv, RInvStep, PTL DEF RingSpec

\* An answerable pause is never lost to a flood: for any number of sessions,
\* owners and events, every event of a pending decision is retained and open,
\* whatever the eviction loop drops.
THEOREM PendingIsKept == RingSpec => []DecisionsKept
<1>1. RInv => DecisionsKept
  BY DEF RInv
<1> QED
  BY <1>1, RingInv, PTL

\* A busy owner cannot push out what a quiet one published last: an event is
\* evicted only behind the floor of newer events of its own owner.
THEOREM FloorHolds == RingSpec => []FloorKept
<1>1. RInv => FloorKept
  BY DEF RInv
<1> QED
  BY <1>1, RingInv, PTL

\* After every operation the history that is not pinned is within max_history
\* or within the floors of the owners that are retained: the eviction loop
\* never stops early.
THEOREM HistoryIsBounded == RingSpec => []RingBounded
BY SettledIsBounded, RingInv, PTL

\* No thread sleeps in wait_event while there is something to deliver or an
\* expiry to report, even though answers evict without notifying anybody.
THEOREM NoWakeupLost == RingSpec => []NoLostWakeup
<1>1. RInv => NoLostWakeup
  BY DEF RInv
<1> QED
  BY <1>1, RingInv, PTL
=============================================================================
