------------------------ MODULE LeaseProtocolProofs -------------------------
(***************************************************************************)
(* Proofs about the daemons as clients of the lease service, for any       *)
(* number of daemons, sessions, threads and router incarnations.           *)
(***************************************************************************)
EXTENDS LeaseProtocol, FiniteSetTheorems, TLAPS

\* The lease service with its theorems.
Account == INSTANCE LeaseServiceProofs

-----------------------------------------------------------------------------
(* The service that the clients call is the one the theorems are about.    *)

\* Both instances count finite sets alike.
LEMMA SameCardinality ==
  \A S : Service!Cardinality(S) = Cardinality(S) /\ (Service!IsFiniteSet(S) <=> IsFiniteSet(S))
<1>1. \A S : Service!Cardinality(S) = Cardinality(S)
  BY Zenon DEF Service!Cardinality, Cardinality
<1>2. \A S : Service!IsFiniteSet(S) <=> IsFiniteSet(S)
  BY Zenon DEF Service!IsFiniteSet, IsFiniteSet
<1> QED
  BY <1>1, <1>2

LEMMA SameIInv == Service!IInv <=> Account!IInv
BY Zenon DEF Service!IInv, Account!IInv, Service!TypeOK, Account!TypeOK,
  Service!Registered, Account!Registered, Service!Bounded, Account!Bounded,
  Service!CountsMatch, Account!CountsMatch, Service!IndexAgrees, Account!IndexAgrees,
  Service!Rids, Account!Rids, Service!Entry, Account!Entry, Service!Tokens, Account!Tokens,
  Service!Kinds, Account!Kinds, Service!OfKind, Account!OfKind, Service!OfEpoch,
  Account!OfEpoch, Service!SameKey, Account!SameKey, Service!Cardinality,
  Account!Cardinality, Service!IsFiniteSet, Account!IsFiniteSet

LEMMA SameIInvNext == Service!IInv' <=> Account!IInv'
BY SameIInv, PTL

LEMMA SameNext == (Service!Next <=> Account!Next) /\ (Service!Init <=> Account!Init)
BY Zenon DEF Service!Next, Account!Next, Service!Acquire, Account!Acquire,
  Service!Release, Account!Release, Service!RegisterSnapshot, Account!RegisterSnapshot,
  Service!ReleaseEpoch, Account!ReleaseEpoch, Service!RouterRestart, Account!RouterRestart,
  Service!Remove, Account!Remove, Service!Left, Account!Left, Service!Unindex,
  Account!Unindex, Service!Fits, Account!Fits, Service!Projected, Account!Projected,
  Service!ValidSnapshot, Account!ValidSnapshot, Service!NewEntries, Account!NewEntries,
  Service!Mint, Account!Mint, Service!CanAcquire, Account!CanAcquire, Service!HasRoom,
  Account!HasRoom, Service!Needs, Account!Needs, Service!Held, Account!Held,
  Service!Admits, Account!Admits, Service!Zero, Account!Zero, Service!Rids, Account!Rids,
  Service!Entry, Account!Entry, Service!Tokens, Account!Tokens, Service!Kinds,
  Account!Kinds, Service!OfKind, Account!OfKind, Service!OfEpoch, Account!OfEpoch,
  Service!SameKey, Account!SameKey, Service!Cardinality, Account!Cardinality,
  Service!IsFiniteSet, Account!IsFiniteSet, Service!Init, Account!Init, Service!Fresh,
  Account!Fresh

\* acquire and release of the one are those of the other.
LEMMA SameMethods ==
  /\ Service!Kinds = Account!Kinds /\ Service!Entry = Account!Entry
  /\ \A e, s, a, kinds, r :
       /\ Service!Acquire(e, s, a, kinds, r) <=> Account!Acquire(e, s, a, kinds, r)
       /\ Service!Granted(e, s, a, kinds) = Account!Granted(e, s, a, kinds)
  /\ \A e, s, a, kind : Service!Held(e, s, a, kind) = Account!Held(e, s, a, kind)
  /\ \A e, t, r : Service!Release(e, t, r) <=> Account!Release(e, t, r)
<1>1. Service!Kinds = Account!Kinds /\ Service!Entry = Account!Entry
  BY Zenon DEF Service!Kinds, Account!Kinds, Service!Entry, Account!Entry, Service!Tokens,
    Account!Tokens
<1>2. ASSUME NEW e, NEW s, NEW a, NEW kinds, NEW r
      PROVE  Service!Acquire(e, s, a, kinds, r) <=> Account!Acquire(e, s, a, kinds, r)
  BY Zenon DEF Service!Acquire, Account!Acquire, Service!NewEntries, Account!NewEntries,
    Service!Mint, Account!Mint, Service!CanAcquire, Account!CanAcquire, Service!HasRoom,
    Account!HasRoom, Service!Needs, Account!Needs, Service!Held, Account!Held,
    Service!Admits, Account!Admits, Service!Kinds, Account!Kinds, Service!Cardinality,
    Account!Cardinality
<1>3. ASSUME NEW e, NEW s, NEW a, NEW kinds
      PROVE  Service!Granted(e, s, a, kinds) = Account!Granted(e, s, a, kinds)
  BY Zenon DEF Service!Granted, Account!Granted, Service!Mint, Account!Mint, Service!Needs,
    Account!Needs, Service!Held, Account!Held, Service!Kinds, Account!Kinds
<1>4. \A e, s, a, kind : Service!Held(e, s, a, kind) = Account!Held(e, s, a, kind)
  BY Zenon DEF Service!Held, Account!Held
<1>5. ASSUME NEW e, NEW t, NEW r
      PROVE  Service!Release(e, t, r) <=> Account!Release(e, t, r)
  BY Zenon DEF Service!Release, Account!Release, Service!Remove, Account!Remove,
    Service!Left, Account!Left, Service!Unindex, Account!Unindex, Service!Admits,
    Account!Admits, Service!OfKind, Account!OfKind, Service!OfEpoch, Account!OfEpoch,
    Service!SameKey, Account!SameKey, Service!Kinds, Account!Kinds, Service!Cardinality,
    Account!Cardinality
<1> QED
  BY <1>1, <1>2, <1>3, <1>4, <1>5, Zenon

\* The account stays sound, and tokens and incarnations are only added.
LEMMA ServiceStep ==
  ASSUME Service!IInv, Service!Next \/ UNCHANGED service
  PROVE  /\ Service!IInv'
         /\ minted \in Nat /\ minted' \in Nat /\ minted <= minted' /\ minted' <= MaxToken
         /\ rid \in Nat /\ rid' \in Nat /\ rid <= rid'
<1>1. Account!IInv /\ (Account!Next \/ UNCHANGED service)
  BY SameIInv, SameNext
<1>2. Account!IInv'
  BY <1>1, Account!StepIInv, LeaseProtocolAssumption
  DEF Account!Rids, Account!Kinds, service, Account!service
<1>3. Service!IInv'
  BY <1>2, SameIInvNext
<1> QED
  BY <1>1, <1>3, Account!StepGrows, LeaseProtocolAssumption
  DEF Account!Rids, Account!Kinds, service, Account!service

\* acquire, seen by the client (LeaseServiceProofs!AcquireShape): what is
\* new in the account, and what the reply names.
GrantsNew(e, s, a, kinds) ==
  /\ rid' = rid /\ reconciled' = reconciled /\ reconciled[e] = rid
  /\ tokens \subseteq tokens'
  /\ \A x \in tokens' \ tokens :
       /\ x \in Service!Entry /\ x.epoch = e /\ x.sid = s /\ x.kind \in kinds
       /\ x.tid = Service!Granted(e, s, a, kinds)[x.kind] /\ x.tid > minted
       /\ Service!Held(e, s, a, x.kind) = {}
  /\ \A x, y \in tokens' \ tokens : x.tid = y.tid => x = y
GrantsAll(e, s, a, kinds) ==
  \A kind \in kinds :
    /\ Service!Granted(e, s, a, kinds)[kind] \in 1..minted'
    /\ \E x \in tokens' : /\ x.epoch = e /\ x.sid = s /\ x.kind = kind
                          /\ x.tid = Service!Granted(e, s, a, kinds)[kind]
                          /\ Service!Held(e, s, a, kind) # {} => x \in tokens
                          /\ Service!Held(e, s, a, kind) = {} => x.tid > minted

LEMMA Grants ==
  ASSUME Service!IInv, NEW e \in Epochs, NEW s \in Sids, NEW a \in Acts,
         NEW kinds \in SUBSET Service!Kinds, NEW r, Service!Acquire(e, s, a, kinds, r)
  PROVE  GrantsNew(e, s, a, kinds) /\ GrantsAll(e, s, a, kinds)
<1>1. Account!IInv /\ kinds \in SUBSET Account!Kinds /\ Account!Acquire(e, s, a, kinds, r)
  BY SameIInv, SameMethods
<1>2. Service!Granted(e, s, a, kinds) = Account!Granted(e, s, a, kinds)
  BY SameMethods
<1>3. /\ Service!Entry = Account!Entry
      /\ \A kind : Service!Held(e, s, a, kind) = Account!Held(e, s, a, kind)
  BY SameMethods
<1>4. Limit \in [Account!Kinds -> Nat] /\ NoRid \notin Account!Rids
  BY LeaseProtocolAssumption DEF Account!Kinds, Account!Rids
<1> QED
  BY <1>1, <1>2, <1>3, <1>4, Account!AcquireShape, LeaseProtocolAssumption
  DEF GrantsNew, GrantsAll

\* acquire is a step of the service.
LEMMA AcquireIsNext ==
  ASSUME Service!IInv, NEW e \in Epochs, NEW s \in Sids, NEW a \in Acts,
         NEW kinds \in (SUBSET Service!Kinds) \ {{}}, NEW r, Service!Acquire(e, s, a, kinds, r)
  PROVE  Service!Next
<1>1. r \in Service!Rids
  BY DEF Service!Acquire, Service!CanAcquire, Service!Admits, Service!IInv, Service!TypeOK
<1> QED
  BY <1>1 DEF Service!Next

\* release, seen by the client (LeaseServiceProofs!ReleaseShape).
LEMMA Frees ==
  ASSUME Service!IInv, NEW e \in Epochs, NEW t \in Service!Tokens, NEW r, Service!Release(e, t, r)
  PROVE  /\ rid' = rid /\ reconciled' = reconciled /\ minted' = minted
         /\ reconciled[e] = rid
         /\ tokens' = {x \in tokens : ~(x.epoch = e /\ x.tid = t)}
         /\ Service!Next
<1>1. Account!IInv /\ Account!Release(e, t, r)
  BY SameIInv, SameMethods
<1>2. Limit \in [Account!Kinds -> Nat] /\ NoRid \notin Account!Rids
  BY LeaseProtocolAssumption DEF Account!Kinds, Account!Rids
<1>3. r \in Service!Rids
  BY DEF Service!Release, Service!Admits, Service!IInv, Service!TypeOK
<1>4. Service!Next
  BY <1>3 DEF Service!Next
<1> QED
  BY <1>1, <1>2, <1>4, Account!ReleaseShape, LeaseProtocolAssumption

-----------------------------------------------------------------------------
(* Types                                                                   *)

\* The types of what the clients keep.
OwnTypeOK ==
  /\ up \in [Epochs -> BOOLEAN]
  /\ known \in [Epochs -> MaybeRid] /\ handshook \in [Epochs -> MaybeRid]
  /\ outbox \in [Epochs -> SUBSET Service!Tokens]
  /\ held \in [Sids -> [Service!Kinds -> MaybeToken]]
  /\ tokenAct \in [Sids -> Acts] /\ counter \in [Sids -> Acts]
  /\ pending \subseteq Sids
  /\ phase \in [Sids -> Phase]
  /\ caller \in [Callers -> CallerRec]
  /\ monitor \in [Sids -> MonitorPc]
  /\ releases \in [Threads -> ReleaseRec]

\* A step of thread c leaves the other callers alone.
OnlyCaller(c) ==
  /\ caller' \in [Callers -> CallerRec]
  /\ \A d \in Callers : d # c => caller'[d] = caller[d]

\* What a call that goes on keeps.
SameCall(c) ==
  /\ caller'[c].sid = caller[c].sid /\ caller'[c].act = caller[c].act
  /\ caller'[c].hand = caller[c].hand /\ caller'[c].fresh = caller[c].fresh
  /\ caller'[c].rid = caller[c].rid /\ caller'[c].snap = caller[c].snap

LEMMA FreeShape ==
  /\ Nothing \in [Service!Kinds -> MaybeToken] /\ Free \in CallerRec
  /\ \A kind \in Service!Kinds : Nothing[kind] = NoToken
  /\ Free.pc = "none" /\ Free.sid = NoSid /\ Free.act = 0 /\ Free.hand = Nothing
  /\ Free.fresh = FALSE /\ Free.rid = NoRid /\ Free.snap = {}
  /\ Settled \in ReleaseRec /\ Settled.out = {} /\ Settled.via = NoRid
BY LeaseProtocolAssumption
DEF Nothing, Free, Settled, CallerRec, ReleaseRec, MaybeToken, MaybeRid, CallerPc, Acts

LEMMA GotoShape ==
  ASSUME OwnTypeOK, NEW c \in Callers, NEW p \in CallerPc, Goto(c, p)
  PROVE  OnlyCaller(c) /\ caller'[c].pc = p /\ SameCall(c)
BY DEF OwnTypeOK, Goto, OnlyCaller, SameCall, CallerRec

LEMMA ReturnShape ==
  ASSUME OwnTypeOK, NEW c \in Callers, Return(c)
  PROVE  OnlyCaller(c) /\ caller'[c] = Free
BY FreeShape DEF OwnTypeOK, Return, OnlyCaller

\* A call begins.
LEMMA BeginShape ==
  ASSUME OwnTypeOK, NEW c \in Callers, NEW p \in CallerPc, NEW s \in Sids, NEW a \in Acts,
         Enter(c, p, s, a)
  PROVE  /\ OnlyCaller(c)
         /\ caller'[c].pc = p /\ caller'[c].sid = s /\ caller'[c].act = a
         /\ caller'[c].hand = Nothing /\ caller'[c].fresh = FALSE
         /\ caller'[c].rid = NoRid /\ caller'[c].snap = {}
<1> DEFINE w == [Free EXCEPT !.pc = p, !.sid = s, !.act = a]
<1>1. /\ w \in CallerRec /\ w.pc = p /\ w.sid = s /\ w.act = a /\ w.hand = Nothing
      /\ w.fresh = FALSE /\ w.rid = NoRid /\ w.snap = {}
  BY FreeShape DEF Free, CallerRec
<1>2. caller' = [caller EXCEPT ![c] = w]
  BY DEF Enter
<1> HIDE DEF w
<1> QED
  BY <1>1, <1>2 DEF OwnTypeOK, OnlyCaller

\* A call gets tokens.
LEMMA HandShape ==
  ASSUME OwnTypeOK, NEW c \in Callers, NEW p \in CallerPc, NEW f \in BOOLEAN,
         NEW h \in [Service!Kinds -> MaybeToken],
         Take(c, p, h, f)
  PROVE  /\ OnlyCaller(c)
         /\ caller'[c].pc = p /\ caller'[c].hand = h /\ caller'[c].fresh = f
         /\ caller'[c].sid = caller[c].sid /\ caller'[c].act = caller[c].act
         /\ caller'[c].rid = caller[c].rid /\ caller'[c].snap = caller[c].snap
BY ZenonT(60) DEF Take, OwnTypeOK, OnlyCaller, CallerRec

\* A call takes a snapshot.
LEMMA OfferShape ==
  ASSUME OwnTypeOK, NEW c \in Callers, NEW r \in MaybeRid, NEW snap \in SUBSET Service!Entry,
         Offer(c, r, snap)
  PROVE  /\ OnlyCaller(c)
         /\ caller'[c].pc = "register" /\ caller'[c].rid = r /\ caller'[c].snap = snap
         /\ caller'[c].sid = caller[c].sid /\ caller'[c].act = caller[c].act
         /\ caller'[c].hand = caller[c].hand /\ caller'[c].fresh = caller[c].fresh
<1>1. "register" \in CallerPc
  BY DEF CallerPc
<1> QED
  BY <1>1, ZenonT(60) DEF Offer, OwnTypeOK, OnlyCaller, CallerRec

\* A step of thread th leaves the release calls of the others alone.
OnlyReleases(th) ==
  /\ releases' \in [Threads -> ReleaseRec]
  /\ \A u \in Threads : u # th => releases'[u] = releases[u]

LEMMA ThenReleaseShape ==
  ASSUME OwnTypeOK, NEW th \in Threads, NEW out \in SUBSET MaybeToken, NEW retry \in BOOLEAN,
         ThenRelease(th, out, retry)
  PROVE  OnlyReleases(th) /\ releases'[th].out = out \ {NoToken}
<1> DEFINE v == [out |-> out \ {NoToken}, retry |-> retry, via |-> NoRid]
<1>1. v \in ReleaseRec /\ v.out = out \ {NoToken}
  BY DEF ReleaseRec, MaybeToken, MaybeRid
<1>2. releases' = [releases EXCEPT ![th] = v]
  BY DEF ThenRelease
<1> HIDE DEF v
<1> QED
  BY <1>1, <1>2 DEF OwnTypeOK, OnlyReleases

LEMMA RetryShape ==
  ASSUME OwnTypeOK, NEW th \in Threads, ThenRelease(th, {}, TRUE)
  PROVE  OnlyReleases(th) /\ releases'[th].out = {}
<1>1. {} \in SUBSET MaybeToken /\ TRUE \in BOOLEAN /\ {} \ {NoToken} = {}
  OBVIOUS
<1> QED
  BY <1>1, ThenReleaseShape

-----------------------------------------------------------------------------
(* The inductive invariant                                                 *)

\* What has been minted, and the incarnations there have been.
Minted == 1..minted
Old    == Minted \cup {NoToken}
Past   == (1..rid) \cup {NoRid}

\* A call is for a session, and what it has is of the past and of its daemon.
RecOK(w) ==
  /\ w.pc = "none" => w = Free
  /\ w.pc # "none" => w.sid \in Sids
  /\ \A kind \in Service!Kinds : w.hand[kind] \in Old
  /\ w.rid \in Past
  /\ \A x \in w.snap : x.tid \in Minted /\ x.epoch = EpochOf[x.sid] /\ x.epoch = EpochOf[w.sid]

\* The account is sound, and every token a client has was minted before.
PInv ==
  /\ OwnTypeOK /\ Service!IInv
  /\ \A e \in Epochs : known[e] \in Past /\ outbox[e] \subseteq Minted
  /\ \A s \in Sids : \A kind \in Service!Kinds : held[s][kind] \in Old
  /\ \A th \in Threads : releases[th].out \subseteq Minted
  /\ \A c \in Callers : RecOK(caller[c]) /\ (caller[c].pc = "none" => releases[c] = Settled)
  /\ \A s \in Sids : monitor[s] = "notify" => counter[s] < MaxAct
  /\ \A x \in tokens : x.epoch = EpochOf[x.sid]

\* A thread that starts a session, or sends it a turn: one at a time.
StartPcs == {"start", "spawn", "inserted", "unwind", "failed"}
TurnPcs  == {"turn", "granted", "sending", "raised"}
AtWork(c) == caller[c].pc \in StartPcs \cup TurnPcs

CallOK(c) ==
  /\ caller[c].pc # "none" => up[EpochOf[caller[c].sid]]
  /\ caller[c].pc \in {"start", "spawn"} => phase[caller[c].sid] = "new"
  /\ caller[c].pc = "inserted" => phase[caller[c].sid] = "starting"
  /\ caller[c].pc \in {"unwind", "failed"} => phase[caller[c].sid] \in {"new", "starting", "gone"}
  /\ caller[c].pc \in TurnPcs => caller[c].sid \in pending /\ phase[caller[c].sid] # "new"
  /\ caller[c].pc = "granted" => caller[c].hand["live"] = NoToken
  /\ caller[c].pc = "raised" => "input" \in Faults
  /\ AtWork(c) => \A d \in Callers : d # c /\ AtWork(d) => caller[d].sid # caller[c].sid

SessionOK(s) ==
  /\ phase[s] = "new" => held[s] = Nothing
  /\ phase[s] \in {"new", "starting"} => monitor[s] = "none"
  /\ ~up[EpochOf[s]] => phase[s] = "gone" /\ monitor[s] = "over"

Orderly == (\A c \in Callers : CallOK(c)) /\ (\A s \in Sids : SessionOK(s))

\* The token is held as the live token of s and is nowhere else.
Sole(t, s) ==
  /\ \A s2 \in Sids : \A kind \in Service!Kinds : held[s2][kind] = t => s2 = s /\ kind = "live"
  /\ \A c \in Callers : \A kind \in Service!Kinds :
       caller[c].hand[kind] = t =>
         kind = "live" /\ caller[c].sid = s /\ caller[c].pc \in {"spawn", "inserted"}
  /\ \A th \in Threads : t \notin releases[th].out
  /\ \A e \in Epochs : t \notin outbox[e]
InAccount(t, s) == \E x \in tokens : x.tid = t /\ x.sid = s /\ x.kind = "live"
Backed(t, s)    == InAccount(t, s) /\ Sole(t, s)

\* Only a registered epoch has tokens.
OnlyServed ==
  /\ \A s \in Sids : \A kind \in Service!Kinds :
       held[s][kind] # NoToken => reconciled[EpochOf[s]] = rid
  /\ \A c \in Callers : \A kind \in Service!Kinds :
       caller[c].hand[kind] # NoToken => reconciled[EpochOf[caller[c].sid]] = rid
  /\ \A c \in Callers : caller[c].snap # {} => reconciled[EpochOf[caller[c].sid]] = rid

\* A session that was not admitted has no token, and one that has a PTY or
\* is about to get one has a live token of its own.
NewHasNone ==
  \A x \in tokens : phase[x.sid] = "new" =>
    \E c \in Callers : caller[c].pc \in {"spawn", "failed"} /\ caller[c].sid = x.sid
Guarded(t, s) ==
  \/ HasPty(s) /\ t = held[s]["live"]
  \/ \E c \in Callers : caller[c].pc = "spawn" /\ caller[c].sid = s /\ t = caller[c].hand["live"]
  \/ \E c \in Callers : caller[c].pc = "inserted" /\ caller[c].sid = s /\ t = held[s]["live"]
LiveBacked == \A s \in Sids : \A t \in MaybeToken : Guarded(t, s) => Backed(t, s)
OneKey == \A x, y \in tokens : x.tid = y.tid => x = y
PtyInv == OnlyServed /\ OneKey /\ NewHasNone /\ LiveBacked

\* The token is held, about to be released, or in the outbox of its daemon.
ToGo(x) == \E th \in Threads : /\ x.tid \in releases[th].out
                               /\ SidOf(th) \in Sids /\ EpochOfThread(th) = x.epoch
Kept(x) == held[x.sid][x.kind] = x.tid \/ ToGo(x) \/ x.tid \in outbox[x.epoch]
InHand(x, c) ==
  /\ caller[c].pc \in {"spawn", "granted"} /\ caller[c].sid = x.sid
  /\ caller[c].hand[x.kind] = x.tid

\* No slot is lost: also not one that a call got for a key that had it, and
\* not one of a snapshot that may still be accepted.
LeakInv ==
  /\ \A x \in tokens : up[x.epoch] => Kept(x) \/ \E c \in Callers : InHand(x, c)
  /\ \A c \in Callers : caller[c].pc = "granted" /\ ~caller[c].fresh =>
       \A x \in tokens : InHand(x, c) => Kept(x)
  /\ \A c \in Callers : /\ caller[c].pc = "register" /\ caller[c].rid = rid
                        /\ reconciled[EpochOf[caller[c].sid]] # rid
                        => \A x \in caller[c].snap : Kept(x)

\* The faults under which nothing is lost, and under which every PTY is backed.
NothingForgotten == Faults \cap {"lost grant", "input", "store"} = {}
OneRouter        == "router" \notin Faults

LInv == /\ PInv /\ Orderly
        /\ (OneRouter => PtyInv)
        /\ (NothingForgotten => LeakInv)

-----------------------------------------------------------------------------
(* What a step has to show                                                 *)

\* The base of the invariant, for a step that is one of the service, or none.
LEMMA BaseFrame ==
  ASSUME PInv, OwnTypeOK', Service!Next \/ UNCHANGED service,
         \A x \in tokens' : x \in tokens \/ x.epoch = EpochOf[x.sid],
         \A e \in Epochs : known'[e] \in {known[e], rid, NoRid} /\ outbox'[e] \subseteq Minted',
         \A s \in Sids : \A kind \in Service!Kinds : held'[s][kind] \in Old',
         \A th \in Threads : releases'[th].out \subseteq Minted',
         \A c \in Callers : /\ caller'[c] = caller[c] \/ RecOK(caller[c])'
                            /\ caller'[c].pc = "none" => releases'[c] = Settled,
         \A s \in Sids : monitor'[s] = "notify" => counter'[s] < MaxAct
  PROVE  PInv' /\ minted <= minted' /\ rid <= rid' /\ minted \in Nat /\ minted' \in Nat
<1>1. /\ Service!IInv'
      /\ minted \in Nat /\ minted' \in Nat /\ minted <= minted'
      /\ rid \in Nat /\ rid' \in Nat /\ rid <= rid'
  BY ServiceStep DEF PInv
<1>2. Minted \subseteq Minted' /\ Old \subseteq Old' /\ Past \subseteq Past'
  BY <1>1 DEF Minted, Old, Past
<1>3. rid \in Past'
  <2>1. rid \in 1..MaxRid
    BY DEF PInv, Service!IInv, Service!TypeOK, Service!Rids
  <2> QED
    BY <1>1, <2>1, LeaseProtocolAssumption DEF Past
<1>4. NoRid \in Past' /\ \A e \in Epochs : known'[e] \in Past'
  <2>1. NoRid \in Past' /\ \A e \in Epochs : known[e] \in Past
    BY DEF PInv, Past
  <2> QED
    BY <1>2, <1>3, <2>1
<1>5. ASSUME NEW c \in Callers PROVE RecOK(caller[c])'
  <2>1. CASE caller'[c] = caller[c]
    <3>1. RecOK(caller[c])
      BY DEF PInv
    <3> QED
      BY <1>2, <2>1, <3>1 DEF RecOK
  <2> QED
    BY <2>1
<1>6. \A x \in tokens' : x.epoch = EpochOf[x.sid]
  BY DEF PInv
<1> QED
  BY <1>1, <1>4, <1>5, <1>6 DEF PInv

\* When nothing happens to the service, nothing more is to be shown of it.
LEMMA QuietFrame ==
  ASSUME PInv, UNCHANGED service
  PROVE  /\ Minted' = Minted /\ Old' = Old /\ Past' = Past
         /\ tokens' = tokens /\ rid' = rid /\ reconciled' = reconciled /\ minted' = minted
BY DEF service, Minted, Old, Past

\* The base of the invariant, for a step of thread c that calls no method.
LEMMA BaseQuiet ==
  ASSUME PInv, NEW c \in Callers, OwnTypeOK', UNCHANGED service,
         OnlyCaller(c), RecOK(caller'[c]) \/ caller'[c] = Free,
         caller'[c].pc = "none" => releases'[c] = Settled,
         \A th \in Threads : th # c => releases'[th] = releases[th],
         releases'[c].out \subseteq Minted,
         \A e \in Epochs : known'[e] \in {known[e], rid, NoRid},
         UNCHANGED outbox,
         \A s \in Sids : \A kind \in Service!Kinds : held'[s][kind] \in Old,
         \A s \in Sids : monitor'[s] = "notify" => counter'[s] < MaxAct
  PROVE  PInv'
<1>1. Minted' = Minted /\ Old' = Old /\ Past' = Past /\ tokens' = tokens
  BY QuietFrame
<1>2. RecOK(caller[c])'
  BY <1>1, FreeShape DEF RecOK, Old, Past
<1>3. \A d \in Callers : /\ caller'[d] = caller[d] \/ RecOK(caller[d])'
                         /\ caller'[d].pc = "none" => releases'[d] = Settled
  BY <1>2 DEF PInv, OnlyCaller, Threads
<1>4. \A th \in Threads : releases'[th].out \subseteq Minted'
  BY <1>1 DEF PInv
<1>5. \A e \in Epochs : known'[e] \in {known[e], rid, NoRid} /\ outbox'[e] \subseteq Minted'
  BY <1>1 DEF PInv
<1>6. \A s \in Sids : \A kind \in Service!Kinds : held'[s][kind] \in Old'
  BY <1>1
<1>7. \A x \in tokens' : x \in tokens \/ x.epoch = EpochOf[x.sid]
  BY <1>1
<1> QED
  BY <1>3, <1>4, <1>5, <1>6, <1>7, BaseFrame

\* A release call that is to be made stays to be made.
LEMMA ToGoStays ==
  ASSUME \A c \in Callers : caller'[c].sid = caller[c].sid \/ releases[c].out = {},
         \A th \in Threads : releases[th].out \subseteq releases'[th].out,
         NEW x, ToGo(x)
  PROVE  ToGo(x)'
<1>1. PICK th \in Threads : /\ x.tid \in releases[th].out
                            /\ SidOf(th) \in Sids /\ EpochOf[SidOf(th)] = x.epoch
  BY DEF ToGo, EpochOfThread
<1>2. SidOf(th)' = SidOf(th)
  BY <1>1 DEF SidOf
<1>3. SidOf(th)' \in Sids /\ EpochOf[SidOf(th)'] = x.epoch /\ x.tid \in releases'[th].out
  BY <1>1, <1>2
<1> QED
  BY <1>3 DEF ToGo, EpochOfThread

\* A thread is about to release what its session no longer holds.
LEMMA ToGoNew ==
  ASSUME NEW th \in Threads, NEW x, x.tid \in releases'[th].out,
         SidOf(th)' \in Sids, EpochOf[SidOf(th)'] = x.epoch
  PROVE  ToGo(x)'
BY DEF ToGo, EpochOfThread

\* Nothing is lost by a step that gives up nothing.
LEMMA LeakFrame ==
  ASSUME PInv, PInv', Orderly', LeakInv, UNCHANGED <<tokens, rid, reconciled>>,
         \A e \in Epochs : up'[e] => up[e],
         \A x \in Service!Entry : x.epoch = EpochOf[x.sid] /\ up'[x.epoch] /\ Kept(x) => Kept(x)',
         \A c \in Callers : \A x \in tokens :
           up'[x.epoch] /\ InHand(x, c) => InHand(x, c)' \/ Kept(x)',
         \A c \in Callers : caller'[c].pc = "granted" /\ ~caller'[c].fresh => caller'[c] = caller[c],
         \A c \in Callers : caller'[c].pc = "register" =>
           caller'[c] = caller[c] \/ \A x \in caller'[c].snap : Kept(x)'
  PROVE  LeakInv'
<1>1. \A x \in tokens : x \in Service!Entry /\ x.epoch = EpochOf[x.sid] /\ x.epoch \in Epochs
  BY DEF PInv, Service!IInv, Service!TypeOK, Service!Entry
<1>2. ASSUME NEW x \in tokens', up'[x.epoch]
      PROVE  Kept(x)' \/ \E c \in Callers : InHand(x, c)'
  <2>1. x \in tokens /\ x \in Service!Entry /\ x.epoch = EpochOf[x.sid] /\ x.epoch \in Epochs
    BY <1>1, <1>2
  <2>2. Kept(x) \/ \E c \in Callers : InHand(x, c)
    BY <1>2, <2>1 DEF LeakInv
  <2> QED
    BY <1>2, <2>1, <2>2
<1>3. ASSUME NEW c \in Callers, caller'[c].pc = "granted", ~caller'[c].fresh,
             NEW x \in tokens', InHand(x, c)'
      PROVE  Kept(x)'
  <2>1. caller'[c] = caller[c] /\ x \in tokens /\ x \in Service!Entry /\ x.epoch = EpochOf[x.sid]
    BY <1>1, <1>3
  <2>2. InHand(x, c) /\ caller'[c].sid = x.sid
    BY <1>3, <2>1 DEF InHand
  <2>3. up'[x.epoch]
    BY <1>3, <2>1, <2>2 DEF Orderly, CallOK
  <2>4. Kept(x)
    BY <1>3, <2>1, <2>2 DEF LeakInv
  <2> QED
    BY <2>1, <2>3, <2>4
<1>4. ASSUME NEW c \in Callers, caller'[c].pc = "register", caller'[c].rid = rid',
             reconciled'[EpochOf[caller'[c].sid]] # rid', NEW x \in caller'[c].snap
      PROVE  Kept(x)'
  <2>1. CASE caller'[c] = caller[c]
    <3>1. /\ x \in Service!Entry /\ x.epoch = EpochOf[x.sid]
          /\ x.epoch = EpochOf[caller'[c].sid]
      BY <1>4, <2>1 DEF PInv, OwnTypeOK, CallerRec, RecOK
    <3>2. up'[x.epoch]
      BY <1>4, <3>1 DEF Orderly, CallOK
    <3>3. Kept(x)
      BY <1>4, <2>1 DEF LeakInv
    <3> QED
      BY <3>1, <3>2, <3>3
  <2> QED
    BY <1>4, <2>1
<1> QED
  BY <1>2, <1>3, <1>4 DEF LeakInv

\* The same for a step of thread c that touches no token but in its hand.
LEMMA LeakCall ==
  ASSUME PInv, PInv', Orderly', LeakInv, NEW c \in Callers,
         UNCHANGED <<tokens, rid, reconciled, up, held, outbox>>, OnlyCaller(c),
         releases[c].out = {},
         \A th \in Threads : th # c => releases'[th] = releases[th],
         \A x \in tokens : InHand(x, c) => InHand(x, c)' \/ Kept(x) \/ Kept(x)',
         caller'[c].pc = "granted" => caller'[c] = caller[c],
         caller'[c].pc = "register" => caller'[c] = caller[c] \/ \A x \in caller'[c].snap : Kept(x)
  PROVE  LeakInv'
<1>1. ASSUME NEW x, Kept(x) PROVE Kept(x)'
  <2>1. ASSUME ToGo(x) PROVE ToGo(x)'
    BY <2>1, ToGoStays DEF OnlyCaller
  <2> QED
    BY <1>1, <2>1 DEF Kept
<1>2. \A d \in Callers : \A x \in tokens : InHand(x, d) => InHand(x, d)' \/ Kept(x)'
  BY <1>1 DEF OnlyCaller, InHand
<1>3. \A d \in Callers : caller'[d].pc = "granted" => caller'[d] = caller[d]
  BY DEF OnlyCaller
<1>4. \A d \in Callers : caller'[d].pc = "register" =>
        caller'[d] = caller[d] \/ \A x \in caller'[d].snap : Kept(x)'
  BY <1>1 DEF OnlyCaller
<1> QED
  BY <1>1, <1>2, <1>3, <1>4, LeakFrame

\* No PTY loses its token by a step that the account does not notice.
LEMMA PtyFrame ==
  ASSUME PInv, PtyInv, UNCHANGED tokens, OnlyServed', NewHasNone',
         \A s \in Sids : \A t \in MaybeToken :
           Guarded(t, s)' => Guarded(t, s) /\ (Sole(t, s) /\ t # NoToken => Sole(t, s)')
  PROVE  PtyInv'
<1>1. OneKey'
  BY DEF PtyInv, OneKey
<1>2. ASSUME NEW s \in Sids, NEW t \in MaybeToken, Guarded(t, s)'
      PROVE  Backed(t, s)'
  <2>1. Backed(t, s)
    BY <1>2 DEF PtyInv, LiveBacked
  <2>2. InAccount(t, s)'
    BY <2>1 DEF Backed, InAccount
  <2>3. t # NoToken
    BY <2>1, LeaseProtocolAssumption
    DEF Backed, InAccount, PInv, Service!IInv, Service!TypeOK, Service!Entry, Service!Tokens
  <2>4. Sole(t, s)'
    BY <1>2, <2>1, <2>3 DEF Backed
  <2> QED
    BY <2>2, <2>4 DEF Backed
<1> QED
  BY <1>1, <1>2 DEF PtyInv, LiveBacked

-----------------------------------------------------------------------------
(* The steps, one by one                                                   *)

\* What a thread that goes on has: no release call is open.
LEMMA AtShape ==
  ASSUME NEW c \in Callers, NEW p, At(c, p)
  PROVE  caller[c].pc = p /\ releases[c] = Settled /\ releases[c].out = {} /\ c \in Threads
BY FreeShape DEF At, Ready, Threads

LEMMA StartBeginStep ==
  ASSUME LInv, NEW c \in Callers, NEW s \in Sids, StartBegin(c, s)
  PROVE  LInv' /\ UNCHANGED service
<1>1. /\ caller[c].pc = "none" /\ releases[c].out = {} /\ c \in Threads /\ caller[c] = Free
      /\ up[EpochOf[s]] /\ phase[s] = "new" /\ \A d \in Callers : caller[d].sid # s
  BY AtShape DEF StartBegin, LInv, PInv, RecOK
<1>2. PInv /\ OwnTypeOK
  BY DEF LInv, PInv
<1>3. /\ OnlyCaller(c) /\ caller'[c].pc = "start" /\ caller'[c].sid = s
      /\ caller'[c].hand = Nothing /\ caller'[c].rid = NoRid /\ caller'[c].snap = {}
  <2>1. "start" \in CallerPc /\ 0 \in Acts
    BY LeaseProtocolAssumption DEF CallerPc, Acts
  <2> QED
    BY <1>2, <2>1, BeginShape DEF StartBegin
<1>4. OnlyReleases(c) /\ releases'[c].out = {}
  BY <1>1, <1>2, RetryShape DEF StartBegin
<1>5. /\ UNCHANGED <<service, up, known, handshook, outbox, held, tokenAct, counter, phase, monitor>>
      /\ pending' = pending \cup {s}
  BY DEF StartBegin, client
<1>6. PInv'
  <2>1. OwnTypeOK'
    BY <1>2, <1>3, <1>4, <1>5 DEF OwnTypeOK, OnlyCaller, OnlyReleases
  <2>2. RecOK(caller'[c])
    BY <1>3, FreeShape DEF RecOK, Old, Past
  <2> QED
    BY <1>2, <1>3, <1>4, <1>5, <2>1, <2>2, BaseQuiet DEF PInv, OnlyReleases
<1>7. Orderly'
  BY <1>1, <1>3, <1>5 DEF LInv, Orderly, CallOK, SessionOK, OnlyCaller, AtWork, StartPcs, TurnPcs
<1>8. ASSUME OneRouter PROVE PtyInv'
  <2>1. PtyInv /\ tokens' = tokens /\ rid' = rid /\ reconciled' = reconciled
    BY <1>5, <1>8 DEF LInv, service
  <2>2. OnlyServed' /\ NewHasNone'
    BY <1>1, <1>3, <1>5, <2>1, FreeShape DEF PtyInv, OnlyServed, NewHasNone, OnlyCaller
  <2>3. ASSUME NEW s2 \in Sids, NEW t \in MaybeToken, Guarded(t, s2)'
        PROVE  Guarded(t, s2) /\ (Sole(t, s2) /\ t # NoToken => Sole(t, s2)')
    BY <1>1, <1>3, <1>4, <1>5, <2>3, FreeShape
    DEF Guarded, Sole, HasPty, OnlyCaller, OnlyReleases
  <2> QED
    BY <1>2, <2>1, <2>2, <2>3, PtyFrame
<1>9. ASSUME NothingForgotten PROVE LeakInv'
  <2>1. LeakInv /\ UNCHANGED <<tokens, rid, reconciled, up, held, outbox>>
    BY <1>5, <1>9 DEF LInv, service
  <2>2. \A x \in tokens : ~InHand(x, c)
    BY <1>1 DEF InHand
  <2> QED
    BY <1>1, <1>2, <1>3, <1>4, <1>6, <1>7, <2>1, <2>2, LeakCall DEF OnlyReleases
<1> QED
  BY <1>5, <1>6, <1>7, <1>8, <1>9 DEF LInv

\* A thread that is in a call: its session, and that it has no open release.
LEMMA InCall ==
  ASSUME LInv, NEW c \in Callers, NEW p, At(c, p), p # "none"
  PROVE  /\ caller[c].pc = p /\ releases[c] = Settled /\ releases[c].out = {}
         /\ caller[c].sid \in Sids /\ c \in Threads
         /\ PInv /\ OwnTypeOK /\ Orderly /\ RecOK(caller[c])
         /\ up[EpochOf[caller[c].sid]]
<1>1. caller[c].pc = p /\ releases[c] = Settled /\ releases[c].out = {} /\ c \in Threads
  BY AtShape
<1> QED
  BY <1>1 DEF LInv, PInv, RecOK, Orderly, CallOK

LEMMA RestartBeginStep ==
  ASSUME LInv, NEW c \in Callers, NEW old \in Sids, NEW s \in Sids, RestartBegin(c, old, s)
  PROVE  LInv' /\ UNCHANGED service
<1>1. /\ caller[c].pc = "none" /\ releases[c].out = {} /\ c \in Threads /\ caller[c] = Free
      /\ up[EpochOf[s]] /\ phase[s] = "new" /\ \A d \in Callers : caller[d].sid # s
      /\ phase[old] \in {"busy", "idle", "gone"}
  BY AtShape DEF RestartBegin, LInv, PInv, RecOK
<1>2. PInv /\ OwnTypeOK
  BY DEF LInv, PInv
<1>3. /\ OnlyCaller(c) /\ caller'[c].pc = "start" /\ caller'[c].sid = s
      /\ caller'[c].hand = Nothing /\ caller'[c].rid = NoRid /\ caller'[c].snap = {}
  <2>1. "start" \in CallerPc /\ 0 \in Acts
    BY LeaseProtocolAssumption DEF CallerPc, Acts
  <2> QED
    BY <1>2, <2>1, BeginShape DEF RestartBegin
<1>4. /\ UNCHANGED <<service, up, known, handshook, outbox, held, tokenAct, counter, pending,
                      monitor, releases>>
      /\ phase' = [phase EXCEPT ![old] = IF phase[old] = "gone" THEN "gone" ELSE "popped"]
  BY DEF RestartBegin, client, SetPhase
<1>5. /\ phase' \in [Sids -> Phase]
      /\ \A s2 \in Sids : s2 # old => phase'[s2] = phase[s2]
      /\ phase'[old] \in {"gone", "popped"}
      /\ phase[old] = "gone" => phase'[old] = "gone"
      /\ phase'[old] \in {phase[old], "popped"}
  BY <1>2, <1>4 DEF OwnTypeOK, Phase
<1>6. PInv'
  <2>1. OwnTypeOK'
    BY <1>2, <1>3, <1>4, <1>5 DEF OwnTypeOK, OnlyCaller
  <2>2. RecOK(caller'[c])
    BY <1>3, FreeShape DEF RecOK, Old, Past
  <2> QED
    BY <1>1, <1>2, <1>3, <1>4, <2>1, <2>2, BaseQuiet DEF PInv
<1>7. Orderly'
  <2>1. \A s2 \in Sids : phase'[s2] = phase[s2] \/ (s2 = old /\ phase'[s2] = "popped")
    BY <1>5
  <2>2. Orderly
    BY DEF LInv
  <2>3. \A d \in Callers : d # c /\ caller[d].pc \in StartPcs => caller[d].sid \in Sids
    BY <1>2 DEF PInv, RecOK, StartPcs
  <2>4. ASSUME NEW d \in Callers PROVE CallOK(d)'
    BY <1>1, <1>3, <1>4, <2>1, <2>2, <2>3
    DEF Orderly, CallOK, OnlyCaller, AtWork, StartPcs, TurnPcs
  <2>5. ASSUME NEW s2 \in Sids PROVE SessionOK(s2)'
    <3>1. SessionOK(s2)
      BY <2>2 DEF Orderly
    <3>2. UNCHANGED <<up, held, monitor>>
      BY <1>4
    <3>3. ~up[EpochOf[s2]] => phase'[s2] = "gone"
      BY <1>5, <3>1 DEF SessionOK
    <3> QED
      BY <2>1, <3>1, <3>2, <3>3 DEF SessionOK
  <2> QED
    BY <2>4, <2>5 DEF Orderly
<1>8. ASSUME OneRouter PROVE PtyInv'
  <2>1. PtyInv /\ tokens' = tokens /\ rid' = rid /\ reconciled' = reconciled
    BY <1>4, <1>8 DEF LInv, service
  <2>2. \A x \in tokens : x.sid \in Sids
    BY <1>2 DEF PInv, Service!IInv, Service!TypeOK, Service!Entry
  <2>3. OnlyServed' /\ NewHasNone'
    BY <1>1, <1>3, <1>4, <1>5, <2>1, <2>2, FreeShape DEF PtyInv, OnlyServed, NewHasNone, OnlyCaller
  <2>4. ASSUME NEW s2 \in Sids, NEW t \in MaybeToken, Guarded(t, s2)'
        PROVE  Guarded(t, s2) /\ (Sole(t, s2) /\ t # NoToken => Sole(t, s2)')
    BY <1>1, <1>3, <1>4, <2>4, FreeShape DEF Guarded, Sole, HasPty, OnlyCaller
  <2> QED
    BY <1>2, <2>1, <2>3, <2>4, PtyFrame
<1>9. ASSUME NothingForgotten PROVE LeakInv'
  <2>1. LeakInv /\ UNCHANGED <<tokens, rid, reconciled, up, held, outbox>>
    BY <1>4, <1>9 DEF LInv, service
  <2>2. \A x \in tokens : ~InHand(x, c)
    BY <1>1 DEF InHand
  <2> QED
    BY <1>1, <1>2, <1>3, <1>4, <1>6, <1>7, <2>1, <2>2, LeakCall
<1> QED
  BY <1>4, <1>6, <1>7, <1>8, <1>9 DEF LInv

LEMMA TurnBeginStep ==
  ASSUME LInv, NEW c \in Callers, NEW s \in Sids, TurnBegin(c, s)
  PROVE  LInv' /\ UNCHANGED service
<1>1. /\ caller[c].pc = "none" /\ releases[c].out = {} /\ c \in Threads /\ caller[c] = Free
      /\ phase[s] = "idle" /\ s \notin pending
  BY AtShape DEF TurnBegin, MayTurn, LInv, PInv, RecOK
<1>2. PInv /\ OwnTypeOK /\ Orderly
  BY DEF LInv, PInv
<1>3. /\ OnlyCaller(c) /\ caller'[c].pc = "turn" /\ caller'[c].sid = s
      /\ caller'[c].hand = Nothing /\ caller'[c].rid = NoRid /\ caller'[c].snap = {}
  <2>1. "turn" \in CallerPc /\ counter[s] \in Acts
    BY <1>2 DEF CallerPc, OwnTypeOK
  <2> QED
    BY <1>2, <2>1, BeginShape DEF TurnBegin
<1>4. OnlyReleases(c) /\ releases'[c].out = {}
  <2>1. ThenRelease(c, {}, TRUE)
    BY DEF TurnBegin
  <2> QED
    BY <1>1, <1>2, <2>1, RetryShape
<1>5. /\ UNCHANGED <<service, up, known, handshook, outbox, held, tokenAct, counter, phase, monitor>>
      /\ pending' = pending \cup {s}
  BY DEF TurnBegin, client
<1>6. PInv'
  <2>1. OwnTypeOK'
    BY <1>2, <1>3, <1>4, <1>5 DEF OwnTypeOK, OnlyCaller, OnlyReleases
  <2>2. RecOK(caller'[c])
    BY <1>3, FreeShape DEF RecOK, Old, Past
  <2> QED
    BY <1>2, <1>3, <1>4, <1>5, <2>1, <2>2, BaseQuiet DEF PInv, OnlyReleases
<1>7. Orderly'
  <2>1. up[EpochOf[s]]
    BY <1>1, <1>2 DEF Orderly, SessionOK
  <2>2. \A d \in Callers : AtWork(d) => caller[d].sid # s
    BY <1>1, <1>2 DEF Orderly, CallOK, AtWork, StartPcs
  <2> QED
    BY <1>1, <1>2, <1>3, <1>5, <2>1, <2>2
    DEF Orderly, CallOK, SessionOK, OnlyCaller, AtWork, StartPcs, TurnPcs
<1>8. ASSUME OneRouter PROVE PtyInv'
  <2>1. PtyInv /\ tokens' = tokens /\ rid' = rid /\ reconciled' = reconciled
    BY <1>5, <1>8 DEF LInv, service
  <2>2. OnlyServed' /\ NewHasNone'
    BY <1>1, <1>3, <1>5, <2>1, FreeShape DEF PtyInv, OnlyServed, NewHasNone, OnlyCaller
  <2>3. ASSUME NEW s2 \in Sids, NEW t \in MaybeToken, Guarded(t, s2)'
        PROVE  Guarded(t, s2) /\ (Sole(t, s2) /\ t # NoToken => Sole(t, s2)')
    BY <1>1, <1>3, <1>4, <1>5, <2>3, FreeShape
    DEF Guarded, Sole, HasPty, OnlyCaller, OnlyReleases
  <2> QED
    BY <1>2, <2>1, <2>2, <2>3, PtyFrame
<1>9. ASSUME NothingForgotten PROVE LeakInv'
  <2>1. LeakInv /\ UNCHANGED <<tokens, rid, reconciled, up, held, outbox>>
    BY <1>5, <1>9 DEF LInv, service
  <2>2. \A x \in tokens : ~InHand(x, c)
    BY <1>1 DEF InHand
  <2> QED
    BY <1>1, <1>2, <1>3, <1>4, <1>6, <1>7, <2>1, <2>2, LeakCall DEF OnlyReleases
<1> QED
  BY <1>5, <1>6, <1>7, <1>8, <1>9 DEF LInv

\* A step of thread c that goes on with the call, or returns, and at most
\* begins to release what it has in its hand.
LEMMA QuietCall ==
  ASSUME LInv, NEW c \in Callers, OwnTypeOK', Orderly', UNCHANGED <<service, up, outbox, held>>,
         OnlyCaller(c), releases[c].out = {},
         \A th \in Threads : th # c => releases'[th] = releases[th],
         releases'[c].out \subseteq Minted,
         \/ caller'[c] = Free /\ releases'[c] = Settled
         \/ caller'[c].pc # "none" /\ RecOK(caller'[c]) /\ SameCall(c),
         \A e \in Epochs : known'[e] \in {known[e], rid, NoRid},
         \A s \in Sids : monitor'[s] = "notify" => counter'[s] < MaxAct,
         caller'[c].pc \notin {"spawn", "inserted", "granted", "register"},
         \A s \in Sids : phase'[s] = "new" => phase[s] = "new",
         caller[c].pc \in {"spawn", "failed"} /\ phase'[caller[c].sid] = "new"
         => caller'[c].pc = "failed",
         \A s \in Sids : HasPty(s)' => HasPty(s) \/ (caller[c].pc = "inserted" /\ caller[c].sid = s),
         \A s \in Sids : \A t \in MaybeToken :
           Guarded(t, s)' /\ Sole(t, s) /\ t # NoToken =>
             /\ t \notin releases'[c].out
             /\ caller'[c] = Free \/ \A kind \in Service!Kinds : caller[c].hand[kind] # t,
         NothingForgotten => \A x \in tokens :
           InHand(x, c) => Kept(x) \/ (x.tid \in releases'[c].out /\ SameCall(c))
  PROVE  LInv'
<1>1. PInv /\ OwnTypeOK /\ tokens' = tokens /\ rid' = rid /\ reconciled' = reconciled
  BY DEF LInv, PInv, service
<1>2. PInv'
  <2>1. caller'[c].pc = "none" => releases'[c] = Settled
    OBVIOUS
  <2> QED
    BY <1>1, <2>1, BaseQuiet DEF PInv
<1>3. \A x \in tokens : x.sid \in Sids /\ x.epoch = EpochOf[x.sid]
  BY <1>1 DEF PInv, Service!IInv, Service!TypeOK, Service!Entry
<1>4. ASSUME OneRouter PROVE PtyInv'
  <2>1. PtyInv
    BY <1>4 DEF LInv
  <2>2. OnlyServed'
    BY <1>1, <2>1, FreeShape DEF PtyInv, OnlyServed, OnlyCaller, SameCall
  <2>3. NewHasNone'
    <3>1. SUFFICES ASSUME NEW x \in tokens, phase'[x.sid] = "new"
                   PROVE  \E d \in Callers : /\ caller'[d].pc \in {"spawn", "failed"}
                                             /\ caller'[d].sid = x.sid
      BY <1>1 DEF NewHasNone
    <3>2. PICK d \in Callers : caller[d].pc \in {"spawn", "failed"} /\ caller[d].sid = x.sid
      BY <1>3, <2>1, <3>1 DEF PtyInv, NewHasNone
    <3>3. CASE d = c
      BY <3>1, <3>2, <3>3, FreeShape DEF SameCall
    <3>4. CASE d # c
      BY <3>2, <3>4 DEF OnlyCaller
    <3> QED
      BY <3>3, <3>4
  <2>4. ASSUME NEW s \in Sids, NEW t \in MaybeToken, Guarded(t, s)'
        PROVE  Guarded(t, s) /\ (Sole(t, s) /\ t # NoToken => Sole(t, s)')
    <3>1. Guarded(t, s)
      BY <2>4 DEF Guarded, OnlyCaller
    <3>2. ASSUME Sole(t, s), t # NoToken PROVE Sole(t, s)'
      <4>1. /\ t \notin releases'[c].out
            /\ caller'[c] = Free \/ \A kind \in Service!Kinds : caller[c].hand[kind] # t
        BY <2>4, <3>2
      <4>2. \A kind \in Service!Kinds : caller'[c].hand[kind] # t
        BY <3>2, <4>1, FreeShape DEF SameCall
      <4> QED
        BY <3>2, <4>1, <4>2 DEF Sole, OnlyCaller
    <3> QED
      BY <3>1, <3>2
  <2> QED
    BY <1>1, <2>1, <2>2, <2>3, <2>4, PtyFrame
<1>5. ASSUME NothingForgotten PROVE LeakInv'
  <2>1. LeakInv
    BY <1>5 DEF LInv
  <2>2. ASSUME NEW x \in tokens, InHand(x, c) PROVE Kept(x) \/ Kept(x)'
    <3>1. CASE x.tid \in releases'[c].out /\ SameCall(c)
      <4>1. SidOf(c)' = x.sid /\ c \in Threads
        BY <2>2, <3>1 DEF SidOf, InHand, SameCall, Threads
      <4>2. SidOf(c)' \in Sids /\ EpochOf[SidOf(c)'] = x.epoch
        BY <1>3, <4>1
      <4> QED
        BY <3>1, <4>1, <4>2, ToGoNew DEF Kept
    <3> QED
      BY <1>5, <2>2, <3>1
  <2>3. \A th \in Threads : th # c => releases'[th] = releases[th]
    OBVIOUS
  <2> QED
    BY <1>1, <1>2, <2>1, <2>2, <2>3, LeakCall
<1> QED
  BY <1>2, <1>4, <1>5 DEF LInv

\* A thread begins to release what it has in its hand.
LEMMA HandReleased ==
  ASSUME PInv, NEW c \in Callers, NEW retry \in BOOLEAN, ThenRelease(c, HandTokens(c), retry)
  PROVE  /\ OnlyReleases(c) /\ releases'[c].out \subseteq Minted
         /\ \A t \in releases'[c].out : \E kind \in Service!Kinds : caller[c].hand[kind] = t
         /\ \A kind \in Service!Kinds :
              caller[c].hand[kind] # NoToken => caller[c].hand[kind] \in releases'[c].out
<1>1. caller[c].hand \in [Service!Kinds -> MaybeToken] /\ c \in Threads
      /\ \A kind \in Service!Kinds : caller[c].hand[kind] \in Old
  BY DEF PInv, OwnTypeOK, CallerRec, RecOK, Threads
<1>2. HandTokens(c) \in SUBSET MaybeToken
  BY <1>1 DEF HandTokens
<1>3. OnlyReleases(c) /\ releases'[c].out = HandTokens(c) \ {NoToken}
  BY <1>1, <1>2, ThenReleaseShape DEF PInv
<1> QED
  BY <1>1, <1>3 DEF HandTokens, Old

LEMMA ReturnCallStep ==
  ASSUME LInv, NEW c \in Callers, ReturnCall(c)
  PROVE  LInv' /\ UNCHANGED service
<1>1. /\ caller[c].pc = "return" /\ releases[c] = Settled /\ releases[c].out = {}
      /\ PInv /\ OwnTypeOK /\ Orderly
  BY InCall DEF ReturnCall
<1>2. OnlyCaller(c) /\ caller'[c] = Free
  BY <1>1, ReturnShape DEF ReturnCall
<1>3. UNCHANGED <<service, up, known, handshook, outbox, held, tokenAct, counter, pending, phase,
                  monitor, releases>>
  BY DEF ReturnCall, client, sessions
<1>4. OwnTypeOK'
  BY <1>1, <1>2, <1>3 DEF OwnTypeOK, OnlyCaller
<1>5. Orderly'
  BY <1>1, <1>2, <1>3, FreeShape
  DEF Orderly, CallOK, SessionOK, OnlyCaller, AtWork, StartPcs, TurnPcs
<1>6. \A s \in Sids : HasPty(s)' => HasPty(s)
  BY <1>3 DEF HasPty
<1>7. \A x \in tokens : ~InHand(x, c)
  BY <1>1 DEF InHand
<1> QED
  BY <1>1, <1>2, <1>3, <1>4, <1>5, <1>6, <1>7, FreeShape, QuietCall DEF PInv

LEMMA RollbackRaisesStep ==
  ASSUME LInv, NEW c \in Callers, RollbackRaises(c)
  PROVE  LInv' /\ UNCHANGED service
<1>1. /\ caller[c].pc = "inserted" /\ releases[c] = Settled /\ releases[c].out = {}
      /\ PInv /\ OwnTypeOK /\ Orderly /\ RecOK(caller[c]) /\ caller[c].sid \in Sids
  BY InCall DEF RollbackRaises
<1>2. OnlyCaller(c) /\ caller'[c].pc = "unwind" /\ SameCall(c)
  <2>1. "unwind" \in CallerPc
    BY DEF CallerPc
  <2> QED
    BY <1>1, <2>1, GotoShape DEF RollbackRaises
<1>3. UNCHANGED <<service, up, known, handshook, outbox, held, tokenAct, counter, pending, phase,
                  monitor, releases>>
  BY DEF RollbackRaises, client, sessions
<1>4. OwnTypeOK'
  BY <1>1, <1>2, <1>3 DEF OwnTypeOK, OnlyCaller
<1>5. Orderly'
  BY <1>1, <1>2, <1>3
  DEF Orderly, CallOK, SessionOK, OnlyCaller, AtWork, StartPcs, TurnPcs, SameCall
<1>6. \A s \in Sids : HasPty(s)' => HasPty(s)
  BY <1>3 DEF HasPty
<1>7. \A x \in tokens : ~InHand(x, c)
  BY <1>1 DEF InHand
<1>8. RecOK(caller'[c])
  BY <1>1, <1>2 DEF RecOK, SameCall
<1>9. \A s \in Sids : \A t \in MaybeToken :
        Guarded(t, s)' /\ Sole(t, s) => \A kind \in Service!Kinds : caller[c].hand[kind] # t
  <2>1. SUFFICES ASSUME NEW s \in Sids, NEW t \in MaybeToken, Guarded(t, s)', Sole(t, s),
                        NEW kind \in Service!Kinds, caller[c].hand[kind] = t
                 PROVE  FALSE
    OBVIOUS
  <2>2. caller[c].sid = s
    BY <2>1 DEF Sole
  <2>3. phase[s] = "starting" /\ ~HasPty(s)
    BY <1>1, <2>2 DEF Orderly, CallOK, SessionOK, HasPty
  <2> QED
    BY <1>1, <1>2, <1>3, <2>1, <2>2, <2>3
    DEF Guarded, HasPty, Orderly, CallOK, AtWork, StartPcs, OnlyCaller
<1> QED
  BY <1>1, <1>2, <1>3, <1>4, <1>5, <1>6, <1>7, <1>8, <1>9, FreeShape, QuietCall DEF PInv

\* A session whose start is given up is not guarded any more.
LEMMA StarterUnguarded ==
  ASSUME Orderly, NEW c \in Callers, caller[c].pc \in {"spawn", "inserted"}, OnlyCaller(c),
         caller'[c].pc \notin {"spawn", "inserted"},
         NEW s \in Sids, caller[c].sid = s, ~HasPty(s)', NEW t
  PROVE  ~Guarded(t, s)'
BY DEF Guarded, Orderly, CallOK, AtWork, StartPcs, OnlyCaller

LEMMA SpawnRefusedStep ==
  ASSUME LInv, NEW c \in Callers, SpawnRefused(c)
  PROVE  LInv' /\ UNCHANGED service
<1>1. /\ caller[c].pc = "spawn" /\ releases[c] = Settled /\ releases[c].out = {}
      /\ PInv /\ OwnTypeOK /\ Orderly /\ RecOK(caller[c]) /\ caller[c].sid \in Sids
      /\ up[EpochOf[caller[c].sid]]
  BY InCall DEF SpawnRefused
<1>2. OnlyCaller(c) /\ caller'[c].pc = "failed" /\ SameCall(c)
  <2>1. "failed" \in CallerPc
    BY DEF CallerPc
  <2> QED
    BY <1>1, <2>1, GotoShape DEF SpawnRefused
<1>3. UNCHANGED <<service, up, known, handshook, outbox, held, tokenAct, counter, pending, phase,
                  monitor>>
  BY DEF SpawnRefused, client, sessions
<1>4. /\ OnlyReleases(c) /\ releases'[c].out \subseteq Minted
      /\ \A t \in releases'[c].out : \E kind \in Service!Kinds : caller[c].hand[kind] = t
      /\ \A kind \in Service!Kinds :
           caller[c].hand[kind] # NoToken => caller[c].hand[kind] \in releases'[c].out
  BY <1>1, HandReleased DEF SpawnRefused
<1>5. OwnTypeOK'
  BY <1>1, <1>2, <1>3, <1>4 DEF OwnTypeOK, OnlyCaller, OnlyReleases
<1>6. Orderly'
  BY <1>1, <1>2, <1>3
  DEF Orderly, CallOK, SessionOK, OnlyCaller, AtWork, StartPcs, TurnPcs, SameCall
<1>7. \A s \in Sids : HasPty(s)' => HasPty(s)
  BY <1>3 DEF HasPty
<1>8. RecOK(caller'[c])
  BY <1>1, <1>2 DEF RecOK, SameCall
<1>9. ASSUME NEW s \in Sids, NEW t \in MaybeToken, Guarded(t, s)', Sole(t, s)
      PROVE  t \notin releases'[c].out /\ \A kind \in Service!Kinds : caller[c].hand[kind] # t
  <2>1. ASSUME caller[c].sid = s PROVE ~HasPty(s)'
    BY <1>1, <1>3, <2>1 DEF Orderly, CallOK, SessionOK, HasPty
  <2>2. caller[c].sid # s
    BY <1>1, <1>2, <1>9, <2>1, StarterUnguarded
  <2> QED
    BY <1>4, <1>9, <2>2 DEF Sole
<1>10. \A x \in tokens : InHand(x, c) => x.tid \in releases'[c].out
  <2>1. \A x \in tokens : x.tid # NoToken /\ x.kind \in Service!Kinds
    BY <1>1, LeaseProtocolAssumption
    DEF PInv, Service!IInv, Service!TypeOK, Service!Entry, Service!Tokens
  <2> QED
    BY <1>4, <2>1 DEF InHand
<1> QED
  BY <1>1, <1>2, <1>3, <1>4, <1>5, <1>6, <1>7, <1>8, <1>9, <1>10, QuietCall DEF PInv, OnlyReleases

LEMMA UnwindStep ==
  ASSUME LInv, NEW c \in Callers, Unwind(c)
  PROVE  LInv' /\ UNCHANGED service
<1>1. /\ caller[c].pc = "unwind" /\ releases[c] = Settled /\ releases[c].out = {}
      /\ PInv /\ OwnTypeOK /\ Orderly /\ RecOK(caller[c]) /\ caller[c].sid \in Sids
      /\ up[EpochOf[caller[c].sid]]
  BY InCall DEF Unwind
<1>2. OnlyCaller(c) /\ caller'[c].pc = "failed" /\ SameCall(c)
  <2>1. "failed" \in CallerPc
    BY DEF CallerPc
  <2> QED
    BY <1>1, <2>1, GotoShape DEF Unwind
<1>3. UNCHANGED <<service, up, known, handshook, outbox, held, tokenAct, counter, pending, phase,
                  monitor>>
  BY DEF Unwind, client, sessions
<1>4. /\ OnlyReleases(c) /\ releases'[c].out \subseteq Minted
      /\ \A t \in releases'[c].out : \E kind \in Service!Kinds : caller[c].hand[kind] = t
  BY <1>1, HandReleased DEF Unwind
<1>5. OwnTypeOK'
  BY <1>1, <1>2, <1>3, <1>4 DEF OwnTypeOK, OnlyCaller, OnlyReleases
<1>6. Orderly'
  BY <1>1, <1>2, <1>3
  DEF Orderly, CallOK, SessionOK, OnlyCaller, AtWork, StartPcs, TurnPcs, SameCall
<1>7. \A s \in Sids : HasPty(s)' => HasPty(s)
  BY <1>3 DEF HasPty
<1>8. RecOK(caller'[c])
  BY <1>1, <1>2 DEF RecOK, SameCall
<1>9. ASSUME NEW s \in Sids, NEW t \in MaybeToken, Sole(t, s)
      PROVE  t \notin releases'[c].out /\ \A kind \in Service!Kinds : caller[c].hand[kind] # t
  BY <1>1, <1>4, <1>9 DEF Sole
<1>10. \A x \in tokens : ~InHand(x, c)
  BY <1>1 DEF InHand
<1> QED
  BY <1>1, <1>2, <1>3, <1>4, <1>5, <1>6, <1>7, <1>8, <1>9, <1>10, QuietCall DEF PInv, OnlyReleases

LEMMA SendRaisesStep ==
  ASSUME LInv, NEW c \in Callers, SendRaises(c)
  PROVE  LInv' /\ UNCHANGED service
<1>1. /\ caller[c].pc = "sending" /\ releases[c] = Settled /\ releases[c].out = {}
      /\ PInv /\ OwnTypeOK /\ Orderly /\ RecOK(caller[c]) /\ caller[c].sid \in Sids
      /\ up[EpochOf[caller[c].sid]]
  BY InCall DEF SendRaises
<1>2. OnlyCaller(c) /\ caller'[c].pc = "raised" /\ SameCall(c)
  <2>1. "raised" \in CallerPc
    BY DEF CallerPc
  <2> QED
    BY <1>1, <2>1, GotoShape DEF SendRaises
<1>3. UNCHANGED <<service, up, known, handshook, outbox, held, tokenAct, counter, pending, phase,
                  monitor>>
  BY DEF SendRaises, client, sessions
<1>4. /\ OnlyReleases(c) /\ releases'[c].out \subseteq Minted
      /\ \A t \in releases'[c].out : \E kind \in Service!Kinds : caller[c].hand[kind] = t
  BY <1>1, HandReleased DEF SendRaises
<1>5. OwnTypeOK'
  BY <1>1, <1>2, <1>3, <1>4 DEF OwnTypeOK, OnlyCaller, OnlyReleases
<1>6. Orderly'
  <2>1. "input" \in Faults
    BY DEF SendRaises
  <2> QED
    BY <1>1, <1>2, <1>3, <2>1
    DEF Orderly, CallOK, SessionOK, OnlyCaller, AtWork, StartPcs, TurnPcs, SameCall
<1>7. \A s \in Sids : HasPty(s)' => HasPty(s)
  BY <1>3 DEF HasPty
<1>8. RecOK(caller'[c])
  BY <1>1, <1>2 DEF RecOK, SameCall
<1>9. ASSUME NEW s \in Sids, NEW t \in MaybeToken, Sole(t, s)
      PROVE  t \notin releases'[c].out /\ \A kind \in Service!Kinds : caller[c].hand[kind] # t
  BY <1>1, <1>4, <1>9 DEF Sole
<1>10. \A x \in tokens : ~InHand(x, c)
  BY <1>1 DEF InHand
<1> QED
  BY <1>1, <1>2, <1>3, <1>4, <1>5, <1>6, <1>7, <1>8, <1>9, <1>10, QuietCall DEF PInv, OnlyReleases

LEMMA TurnRejectedStep ==
  ASSUME LInv, NEW c \in Callers, TurnRejected(c)
  PROVE  LInv' /\ UNCHANGED service
<1>1. /\ caller[c].pc = "granted" /\ releases[c] = Settled /\ releases[c].out = {}
      /\ PInv /\ OwnTypeOK /\ Orderly /\ RecOK(caller[c]) /\ caller[c].sid \in Sids
      /\ up[EpochOf[caller[c].sid]]
  BY InCall DEF TurnRejected
<1>2. OnlyCaller(c) /\ caller'[c].pc = "return" /\ SameCall(c)
  <2>1. "return" \in CallerPc
    BY DEF CallerPc
  <2> QED
    BY <1>1, <2>1, GotoShape DEF TurnRejected
<1>3. UNCHANGED <<service, up, known, handshook, outbox, held, tokenAct, counter, phase, monitor>>
  BY DEF TurnRejected, client, sessions
<1>4. /\ OnlyReleases(c) /\ releases'[c].out \subseteq Minted
      /\ \A t \in releases'[c].out : \E kind \in Service!Kinds : caller[c].hand[kind] = t
      /\ caller[c].fresh => \A kind \in Service!Kinds :
           caller[c].hand[kind] # NoToken => caller[c].hand[kind] \in releases'[c].out
  <2>1. CASE caller[c].fresh
    <3>1. ThenRelease(c, HandTokens(c), FALSE)
      BY <2>1 DEF TurnRejected
    <3> QED
      BY <1>1, <3>1, HandReleased
  <2>2. CASE ~caller[c].fresh
    <3>1. ThenRelease(c, {}, FALSE) /\ c \in Threads /\ {} \in SUBSET MaybeToken
      BY <2>2 DEF TurnRejected, Threads
    <3>2. OnlyReleases(c) /\ releases'[c].out = {}
      BY <1>1, <3>1, ThenReleaseShape, ZenonT(60)
    <3> QED
      BY <2>2, <3>2
  <2> QED
    BY <2>1, <2>2
<1>5. pending' = pending \ {caller[c].sid}
  BY DEF TurnRejected
<1>6. OwnTypeOK'
  BY <1>1, <1>2, <1>3, <1>4, <1>5 DEF OwnTypeOK, OnlyCaller, OnlyReleases
<1>7. Orderly'
  BY <1>1, <1>2, <1>3, <1>5
  DEF Orderly, CallOK, SessionOK, OnlyCaller, AtWork, StartPcs, TurnPcs, SameCall
<1>8. RecOK(caller'[c])
  BY <1>1, <1>2 DEF RecOK, SameCall
<1>9. ASSUME NEW s \in Sids, NEW t \in MaybeToken, Sole(t, s)
      PROVE  t \notin releases'[c].out /\ \A kind \in Service!Kinds : caller[c].hand[kind] # t
  BY <1>1, <1>4, <1>9 DEF Sole
<1>10. \A s \in Sids : HasPty(s)' => HasPty(s)
  BY <1>3 DEF HasPty
<1>11. ASSUME NothingForgotten, NEW x \in tokens, InHand(x, c)
       PROVE  Kept(x) \/ x.tid \in releases'[c].out
  <2>1. x.tid # NoToken /\ x.kind \in Service!Kinds
    BY <1>1, LeaseProtocolAssumption
    DEF PInv, Service!IInv, Service!TypeOK, Service!Entry, Service!Tokens
  <2>2. LeakInv
    BY <1>11 DEF LInv
  <2> QED
    BY <1>1, <1>4, <1>11, <2>1, <2>2 DEF InHand, LeakInv
<1> QED
  BY <1>1, <1>2, <1>3, <1>4, <1>6, <1>7, <1>8, <1>9, <1>10, <1>11, QuietCall DEF PInv, OnlyReleases

LEMMA LaunchStep ==
  ASSUME LInv, NEW c \in Callers, Launch(c)
  PROVE  LInv' /\ UNCHANGED service
<1>1. /\ caller[c].pc = "inserted" /\ releases[c] = Settled /\ releases[c].out = {}
      /\ PInv /\ OwnTypeOK /\ Orderly /\ RecOK(caller[c]) /\ caller[c].sid \in Sids
      /\ up[EpochOf[caller[c].sid]]
  BY InCall DEF Launch
<1>2. OnlyCaller(c) /\ caller'[c] = Free
  BY <1>1, ReturnShape DEF Launch
<1>3. UNCHANGED <<service, up, known, handshook, outbox, held, tokenAct, counter, releases>>
  BY DEF Launch, client
<1>4. PICK s \in Sids : s = caller[c].sid
  BY <1>1
<1>5. /\ phase' = [phase EXCEPT ![s] = "busy"] /\ monitor' = [monitor EXCEPT ![s] = "run"]
      /\ pending' = pending \ {s}
      /\ phase' \in [Sids -> Phase] /\ monitor' \in [Sids -> MonitorPc]
      /\ \A s2 \in Sids : s2 # s => phase'[s2] = phase[s2] /\ monitor'[s2] = monitor[s2]
      /\ phase'[s] = "busy" /\ monitor'[s] = "run"
  <2>1. /\ phase' = [phase EXCEPT ![s] = "busy"] /\ monitor' = [monitor EXCEPT ![s] = "run"]
        /\ pending' = pending \ {s}
    BY <1>4 DEF Launch, SetPhase
  <2> QED
    BY <1>1, <2>1 DEF OwnTypeOK, Phase, MonitorPc
<1>6. Orderly'
  <2>1. ASSUME NEW d \in Callers, d # c PROVE CallOK(d)'
    <3>1. AtWork(d) => caller[d].sid # s
      BY <1>1, <1>4, <2>1 DEF Orderly, CallOK, AtWork, StartPcs, TurnPcs
    <3>2. /\ caller'[d] = caller[d] /\ CallOK(d) /\ ~AtWork(c)'
          /\ caller[d].pc # "none" => caller[d].sid \in Sids
      BY <1>1, <1>2, <2>1, FreeShape DEF Orderly, OnlyCaller, PInv, RecOK, AtWork, StartPcs, TurnPcs
    <3>3. \A d2 \in Callers : d2 # c => (AtWork(d2)' <=> AtWork(d2)) /\ caller'[d2] = caller[d2]
      BY <1>2 DEF OnlyCaller, AtWork
    <3> QED
      BY <1>3, <1>5, <2>1, <3>1, <3>2, <3>3 DEF CallOK, AtWork, StartPcs, TurnPcs
  <2>2. CallOK(c)'
    BY <1>2, FreeShape DEF CallOK, AtWork, StartPcs, TurnPcs
  <2>3. ASSUME NEW s2 \in Sids PROVE SessionOK(s2)'
    <3>1. SessionOK(s2) /\ up[EpochOf[s]]
      BY <1>1, <1>4 DEF Orderly
    <3> QED
      BY <1>1, <1>3, <1>4, <1>5, <3>1 DEF SessionOK, Orderly, CallOK
  <2> QED
    BY <2>1, <2>2, <2>3 DEF Orderly
<1>7. OwnTypeOK'
  BY <1>1, <1>2, <1>3, <1>5 DEF OwnTypeOK, OnlyCaller
<1>8. \A s2 \in Sids : HasPty(s2)' => HasPty(s2) \/ (caller[c].pc = "inserted" /\ caller[c].sid = s2)
  BY <1>1, <1>3, <1>4, <1>5 DEF HasPty
<1>9. \A x \in tokens : ~InHand(x, c)
  BY <1>1 DEF InHand
<1>10. \A s2 \in Sids : \A t \in MaybeToken : t \notin releases'[c].out
  BY <1>1, <1>3
<1>11. \A s2 \in Sids : monitor'[s2] = "notify" => counter'[s2] < MaxAct
  BY <1>1, <1>3, <1>5 DEF PInv
<1>12. \A s2 \in Sids : phase'[s2] = "new" => phase[s2] = "new"
  BY <1>1, <1>3, <1>5
<1>13. caller[c].pc \notin {"spawn", "failed"} \/ phase'[caller[c].sid] # "new"
  BY <1>1, <1>4, <1>5
<1>14. releases'[c].out \subseteq Minted
  BY <1>1, <1>3
<1> QED
  BY <1>1, <1>2, <1>3, <1>6, <1>7, <1>8, <1>9, <1>10, <1>11, <1>12, <1>13, <1>14, FreeShape, QuietCall

LEMMA StartFailedStep ==
  ASSUME LInv, NEW c \in Callers, StartFailed(c)
  PROVE  LInv' /\ UNCHANGED service
<1>1. /\ caller[c].pc = "failed" /\ releases[c] = Settled /\ releases[c].out = {}
      /\ PInv /\ OwnTypeOK /\ Orderly /\ RecOK(caller[c]) /\ caller[c].sid \in Sids
      /\ up[EpochOf[caller[c].sid]]
  BY InCall DEF StartFailed
<1>2. OnlyCaller(c) /\ caller'[c] = Free
  BY <1>1, ReturnShape DEF StartFailed
<1>3. UNCHANGED <<service, up, known, handshook, outbox, held, tokenAct, counter, releases,
                  monitor>>
  BY DEF StartFailed, client
<1>4. PICK s \in Sids : s = caller[c].sid
  BY <1>1
<1>5. /\ pending' = pending \ {s}
      /\ phase' \in [Sids -> Phase]
      /\ \A s2 \in Sids : s2 # s => phase'[s2] = phase[s2]
      /\ phase'[s] = (IF phase[s] = "new" THEN "gone" ELSE phase[s])
  <2>1. /\ phase' = [phase EXCEPT ![s] = IF phase[s] = "new" THEN "gone" ELSE phase[s]]
        /\ pending' = pending \ {s}
    BY <1>4 DEF StartFailed, SetPhase
  <2> QED
    BY <1>1, <2>1 DEF OwnTypeOK, Phase
<1>6. Orderly'
  <2>1. ASSUME NEW d \in Callers, d # c PROVE CallOK(d)'
    <3>1. AtWork(d) => caller[d].sid # s
      BY <1>1, <1>4, <2>1 DEF Orderly, CallOK, AtWork, StartPcs, TurnPcs
    <3>2. /\ caller'[d] = caller[d] /\ CallOK(d) /\ ~AtWork(c)'
          /\ caller[d].pc # "none" => caller[d].sid \in Sids
      BY <1>1, <1>2, <2>1, FreeShape DEF Orderly, OnlyCaller, PInv, RecOK, AtWork, StartPcs, TurnPcs
    <3>3. \A d2 \in Callers : d2 # c => (AtWork(d2)' <=> AtWork(d2)) /\ caller'[d2] = caller[d2]
      BY <1>2 DEF OnlyCaller, AtWork
    <3> QED
      BY <1>3, <1>5, <2>1, <3>1, <3>2, <3>3 DEF CallOK, AtWork, StartPcs, TurnPcs
  <2>2. CallOK(c)'
    BY <1>2, FreeShape DEF CallOK, AtWork, StartPcs, TurnPcs
  <2>3. ASSUME NEW s2 \in Sids PROVE SessionOK(s2)'
    <3>1. SessionOK(s2) /\ up[EpochOf[s]]
      BY <1>1, <1>4 DEF Orderly
    <3> QED
      BY <1>1, <1>3, <1>4, <1>5, <3>1 DEF SessionOK, Orderly, CallOK
  <2> QED
    BY <2>1, <2>2, <2>3 DEF Orderly
<1>7. OwnTypeOK'
  BY <1>1, <1>2, <1>3, <1>5 DEF OwnTypeOK, OnlyCaller
<1>8. \A s2 \in Sids : HasPty(s2)' => HasPty(s2) \/ (caller[c].pc = "inserted" /\ caller[c].sid = s2)
  BY <1>1, <1>3, <1>4, <1>5 DEF HasPty
<1>9. \A x \in tokens : ~InHand(x, c)
  BY <1>1 DEF InHand
<1>10. \A s2 \in Sids : \A t \in MaybeToken : t \notin releases'[c].out
  BY <1>1, <1>3
<1>11. \A s2 \in Sids : monitor'[s2] = "notify" => counter'[s2] < MaxAct
  BY <1>1, <1>3, <1>5 DEF PInv
<1>12. \A s2 \in Sids : phase'[s2] = "new" => phase[s2] = "new"
  BY <1>1, <1>3, <1>5
<1>13. caller[c].pc \notin {"spawn", "failed"} \/ phase'[caller[c].sid] # "new"
  BY <1>1, <1>4, <1>5
<1>14. releases'[c].out \subseteq Minted
  BY <1>1, <1>3
<1> QED
  BY <1>1, <1>2, <1>3, <1>6, <1>7, <1>8, <1>9, <1>10, <1>11, <1>12, <1>13, <1>14, FreeShape, QuietCall

LEMMA SendStep ==
  ASSUME LInv, NEW c \in Callers, Send(c)
  PROVE  LInv' /\ UNCHANGED service
<1>1. /\ caller[c].pc = "sending" /\ releases[c] = Settled /\ releases[c].out = {}
      /\ PInv /\ OwnTypeOK /\ Orderly /\ RecOK(caller[c]) /\ caller[c].sid \in Sids
      /\ up[EpochOf[caller[c].sid]]
  BY InCall DEF Send
<1>2. OnlyCaller(c) /\ caller'[c] = Free
  BY <1>1, ReturnShape DEF Send
<1>3. UNCHANGED <<service, up, known, handshook, outbox, held, tokenAct, counter, releases,
                  monitor>>
  BY DEF Send, client
<1>4. PICK s \in Sids : s = caller[c].sid
  BY <1>1
<1>5. /\ pending' = pending \ {s}
      /\ phase' \in [Sids -> Phase]
      /\ \A s2 \in Sids : s2 # s => phase'[s2] = phase[s2]
      /\ phase'[s] = phase[s] \/ (phase[s] = "idle" /\ phase'[s] = "busy")
  <2>1. /\ (phase' = [phase EXCEPT ![s] = "busy"] /\ phase[s] = "idle") \/ phase' = phase
        /\ pending' = pending \ {s}
    BY <1>4 DEF Send, SetPhase
  <2> QED
    BY <1>1, <2>1 DEF OwnTypeOK, Phase
<1>6. Orderly'
  <2>1. ASSUME NEW d \in Callers, d # c PROVE CallOK(d)'
    <3>1. AtWork(d) => caller[d].sid # s
      BY <1>1, <1>4, <2>1 DEF Orderly, CallOK, AtWork, StartPcs, TurnPcs
    <3>2. /\ caller'[d] = caller[d] /\ CallOK(d) /\ ~AtWork(c)'
          /\ caller[d].pc # "none" => caller[d].sid \in Sids
      BY <1>1, <1>2, <2>1, FreeShape DEF Orderly, OnlyCaller, PInv, RecOK, AtWork, StartPcs, TurnPcs
    <3>3. \A d2 \in Callers : d2 # c => (AtWork(d2)' <=> AtWork(d2)) /\ caller'[d2] = caller[d2]
      BY <1>2 DEF OnlyCaller, AtWork
    <3> QED
      BY <1>3, <1>5, <2>1, <3>1, <3>2, <3>3 DEF CallOK, AtWork, StartPcs, TurnPcs
  <2>2. CallOK(c)'
    BY <1>2, FreeShape DEF CallOK, AtWork, StartPcs, TurnPcs
  <2>3. ASSUME NEW s2 \in Sids PROVE SessionOK(s2)'
    <3>1. SessionOK(s2) /\ up[EpochOf[s]]
      BY <1>1, <1>4 DEF Orderly
    <3> QED
      BY <1>1, <1>3, <1>4, <1>5, <3>1 DEF SessionOK, Orderly, CallOK
  <2> QED
    BY <2>1, <2>2, <2>3 DEF Orderly
<1>7. OwnTypeOK'
  BY <1>1, <1>2, <1>3, <1>5 DEF OwnTypeOK, OnlyCaller
<1>8. \A s2 \in Sids : HasPty(s2)' => HasPty(s2) \/ (caller[c].pc = "inserted" /\ caller[c].sid = s2)
  BY <1>1, <1>3, <1>4, <1>5 DEF HasPty
<1>9. \A x \in tokens : ~InHand(x, c)
  BY <1>1 DEF InHand
<1>10. \A s2 \in Sids : \A t \in MaybeToken : t \notin releases'[c].out
  BY <1>1, <1>3
<1>11. \A s2 \in Sids : monitor'[s2] = "notify" => counter'[s2] < MaxAct
  BY <1>1, <1>3, <1>5 DEF PInv
<1>12. \A s2 \in Sids : phase'[s2] = "new" => phase[s2] = "new"
  BY <1>1, <1>3, <1>5
<1>13. caller[c].pc \notin {"spawn", "failed"} \/ phase'[caller[c].sid] # "new"
  BY <1>1, <1>4, <1>5
<1>14. releases'[c].out \subseteq Minted
  BY <1>1, <1>3
<1> QED
  BY <1>1, <1>2, <1>3, <1>6, <1>7, <1>8, <1>9, <1>10, <1>11, <1>12, <1>13, <1>14, FreeShape, QuietCall

\* The client learns the router's id.
LEMMA LearnShape ==
  ASSUME PInv, NEW e \in Epochs, Learn(e)
  PROVE  known' \in [Epochs -> MaybeRid] /\ \A e2 \in Epochs : known'[e2] \in {known[e2], rid}
<1>1. rid \in MaybeRid
  BY DEF PInv, Service!IInv, Service!TypeOK, MaybeRid
<1> QED
  BY <1>1 DEF PInv, OwnTypeOK, Learn

\* A call comes to nothing: it was refused, failed, or had nothing to do.
LEMMA Leave ==
  ASSUME LInv, NEW c \in Callers, NEW p \in {"start", "turn", "shake", "register"}, At(c, p),
         \/ pending' = pending
         \/ p \in {"start", "turn"} /\ pending' = pending \ {caller[c].sid},
         NEW q \in {"shake", "return"},
         Goto(c, q) \/ (Return(c) /\ releases' = releases),
         OnlyReleases(c), releases'[c].out = {},
         \A e \in Epochs : known'[e] \in {known[e], rid},
         known' \in [Epochs -> MaybeRid], handshook' \in [Epochs -> MaybeRid],
         UNCHANGED <<service, up, outbox, held, tokenAct, counter, phase, monitor>>
  PROVE  LInv'
<1>1. /\ caller[c].pc = p /\ releases[c] = Settled /\ releases[c].out = {}
      /\ PInv /\ OwnTypeOK /\ Orderly /\ RecOK(caller[c]) /\ caller[c].sid \in Sids
      /\ up[EpochOf[caller[c].sid]]
  BY InCall
<1>2. /\ OnlyCaller(c)
      /\ \/ caller'[c].pc = q /\ SameCall(c)
         \/ caller'[c] = Free /\ releases' = releases
  <2>1. q \in CallerPc
    BY DEF CallerPc
  <2> QED
    BY <1>1, <2>1, GotoShape, ReturnShape
<1>3. OwnTypeOK'
  BY <1>1, <1>2 DEF OwnTypeOK, OnlyCaller, OnlyReleases
<1>4. PICK s \in Sids : s = caller[c].sid
  BY <1>1
<1>5. Orderly'
  <2>1. ~AtWork(c)' /\ CallOK(c)'
    BY <1>1, <1>2, FreeShape DEF CallOK, AtWork, StartPcs, TurnPcs, SameCall
  <2>2. ASSUME NEW d \in Callers, d # c PROVE CallOK(d)'
    <3>1. caller[d].pc \in TurnPcs => caller[d].sid \in pending'
      BY <1>1, <2>2 DEF Orderly, CallOK, AtWork, StartPcs, TurnPcs
    <3>2. caller'[d] = caller[d] /\ CallOK(d)
      BY <1>1, <1>2, <2>2 DEF Orderly, OnlyCaller
    <3>3. \A d2 \in Callers : d2 # c => (AtWork(d2)' <=> AtWork(d2)) /\ caller'[d2] = caller[d2]
      BY <1>2 DEF OnlyCaller, AtWork
    <3> QED
      BY <2>1, <2>2, <3>1, <3>2, <3>3 DEF CallOK, AtWork
  <2>3. \A s2 \in Sids : SessionOK(s2)'
    BY <1>1 DEF Orderly, SessionOK
  <2> QED
    BY <2>1, <2>2, <2>3 DEF Orderly
<1>6. \A x \in tokens : ~InHand(x, c)
  BY <1>1 DEF InHand
<1>7. \A s2 \in Sids : \A t \in MaybeToken :
        Sole(t, s2) => \A kind \in Service!Kinds : caller[c].hand[kind] # t
  BY <1>1 DEF Sole
<1>8. \/ caller'[c] = Free /\ releases'[c] = Settled
      \/ caller'[c].pc # "none" /\ RecOK(caller'[c]) /\ SameCall(c)
  BY <1>1, <1>2 DEF RecOK, SameCall
<1>9. \A s2 \in Sids : HasPty(s2)' => HasPty(s2)
  BY DEF HasPty
<1>10. caller'[c].pc \notin {"spawn", "inserted", "granted", "register"}
  BY <1>2, FreeShape
<1>11. \A s2 \in Sids : monitor'[s2] = "notify" => counter'[s2] < MaxAct
  BY <1>1 DEF PInv
<1>12. \A th \in Threads : th # c => releases'[th] = releases[th]
  BY DEF OnlyReleases
<1> QED
  BY <1>1, <1>2, <1>3, <1>5, <1>6, <1>7, <1>8, <1>9, <1>10, <1>11, <1>12, QuietCall

LEMMA ShakeBeginReturns ==
  ASSUME LInv, NEW c \in Callers, ShakeBegin(c), Return(c)
  PROVE  LInv' /\ UNCHANGED service
<1>1. /\ At(c, "shake") /\ UNCHANGED <<service, up, known, handshook, outbox, held, tokenAct, counter,
                                        pending, phase, monitor, releases>>
  BY DEF ShakeBegin, client, sessions
<1>2. OwnTypeOK /\ releases[c].out = {} /\ c \in Threads
  BY <1>1, InCall
<1>3. OnlyReleases(c)
  BY <1>1, <1>2 DEF OwnTypeOK, OnlyReleases
<1>4. \A e \in Epochs : known'[e] \in {known[e], rid}
  BY <1>1
<1>5. known' \in [Epochs -> MaybeRid] /\ handshook' \in [Epochs -> MaybeRid]
  BY <1>1, <1>2 DEF OwnTypeOK
<1> QED
  BY <1>1, <1>2, <1>3, <1>4, <1>5, Leave

\* The snapshot lists what the sessions of the daemon hold.
LEMMA SnapshotShape ==
  ASSUME PInv, NEW e \in Epochs
  PROVE  /\ Snapshot(e) \in SUBSET Service!Entry
         /\ \A x \in Snapshot(e) : /\ x.tid \in Minted /\ x.epoch = e /\ x.epoch = EpochOf[x.sid]
                                   /\ x.sid \in Sids /\ x.kind \in Service!Kinds
                                   /\ held[x.sid][x.kind] = x.tid
<1>1. SUFFICES ASSUME NEW x \in Snapshot(e)
               PROVE  /\ x \in Service!Entry
                      /\ x.tid \in Minted /\ x.epoch = e /\ x.epoch = EpochOf[x.sid]
                      /\ x.sid \in Sids /\ x.kind \in Service!Kinds
                      /\ held[x.sid][x.kind] = x.tid
  BY Zenon
<1>2. x.epoch = e /\ x.tid # NoToken /\ \E s \in Sids : \E kind \in Service!Kinds : x = HeldEntry(s, kind)
  BY <1>1 DEF Snapshot
<1>3. PICK s \in Sids, kind \in Service!Kinds : x = HeldEntry(s, kind)
  BY <1>2
<1>4. /\ x = [tid |-> held[s][kind], epoch |-> EpochOf[s], sid |-> s,
              act |-> ActivationOf(s, kind), kind |-> kind]
  BY <1>3 DEF HeldEntry
<1>5. held[s][kind] \in Old /\ held[s][kind] \in MaybeToken /\ EpochOf[s] \in Epochs
      /\ ActivationOf(s, kind) \in Acts
  BY LeaseProtocolAssumption DEF PInv, OwnTypeOK, ActivationOf, Acts
<1>6. held[s][kind] # NoToken
  BY <1>2, <1>4
<1>7. held[s][kind] \in Minted /\ held[s][kind] \in Service!Tokens
  BY <1>5, <1>6 DEF Old, MaybeToken
<1>8. x \in Service!Entry
  BY <1>4, <1>5, <1>7 DEF Service!Entry
<1> QED
  BY <1>2, <1>4, <1>5, <1>7, <1>8

LEMMA ShakeBeginStep ==
  ASSUME LInv, NEW c \in Callers, ShakeBegin(c)
  PROVE  LInv' /\ UNCHANGED service
<1>1. CASE Return(c)
  BY <1>1, ShakeBeginReturns
<1>2. CASE ~Return(c)
  <2>1. /\ caller[c].pc = "shake" /\ releases[c] = Settled /\ releases[c].out = {}
        /\ PInv /\ OwnTypeOK /\ Orderly /\ RecOK(caller[c]) /\ caller[c].sid \in Sids
        /\ up[EpochOf[caller[c].sid]] /\ c \in Threads
    BY InCall DEF ShakeBegin
  <2>2. PICK e \in Epochs : e = EpochOf[caller[c].sid]
    BY <2>1, LeaseProtocolAssumption
  <2>3. /\ Offer(c, known[e], Snapshot(e))
        /\ UNCHANGED <<service, up, known, handshook, outbox, held, tokenAct, counter, pending,
                        phase, monitor, releases>>
    BY <1>2, <2>2 DEF ShakeBegin, client, sessions
  <2>4. /\ Snapshot(e) \in SUBSET Service!Entry
        /\ \A x \in Snapshot(e) : /\ x.tid \in Minted /\ x.epoch = e /\ x.epoch = EpochOf[x.sid]
                                  /\ x.sid \in Sids /\ x.kind \in Service!Kinds
                                  /\ held[x.sid][x.kind] = x.tid
    BY <2>1, SnapshotShape
  <2>5. known[e] \in Past /\ known[e] \in MaybeRid
    BY <2>1 DEF PInv, OwnTypeOK
  <2>6. /\ OnlyCaller(c)
        /\ caller'[c].pc = "register" /\ caller'[c].rid = known[e] /\ caller'[c].snap = Snapshot(e)
        /\ caller'[c].sid = caller[c].sid /\ caller'[c].hand = caller[c].hand
    <3> HIDE DEF Snapshot
    <3> QED BY <2>1, <2>3, <2>4, <2>5, OfferShape
  <2>7. PInv'
    <3>1. OwnTypeOK'
      BY <2>1, <2>3, <2>6 DEF OwnTypeOK, OnlyCaller
    <3>2. RecOK(caller'[c])
      BY <2>1, <2>2, <2>4, <2>5, <2>6 DEF RecOK
    <3>3. \A s \in Sids : monitor'[s] = "notify" => counter'[s] < MaxAct
      BY <2>1, <2>3 DEF PInv
    <3>4. releases'[c].out \subseteq Minted
      BY <2>1, <2>3
    <3>5. \A s \in Sids : \A kind \in Service!Kinds : held'[s][kind] \in Old
      BY <2>1, <2>3 DEF PInv
    <3>6. \A e2 \in Epochs : known'[e2] \in {known[e2], rid, NoRid}
      BY <2>3
    <3> QED
      BY <2>1, <2>3, <2>6, <3>1, <3>2, <3>3, <3>4, <3>5, <3>6, BaseQuiet
  <2>8. Orderly'
    BY <2>1, <2>3, <2>6 DEF Orderly, CallOK, SessionOK, OnlyCaller, AtWork, StartPcs, TurnPcs
  <2>9. ASSUME OneRouter PROVE PtyInv'
    <3>1. PtyInv /\ tokens' = tokens /\ rid' = rid /\ reconciled' = reconciled
      BY <2>3, <2>9 DEF LInv, service
    <3>2. Snapshot(e) # {} => reconciled[e] = rid
      <4>1. \A x \in Snapshot(e) : x.tid # NoToken
        BY DEF Snapshot
      <4> QED
        BY <2>4, <3>1, <4>1 DEF PtyInv, OnlyServed
    <3>3. OnlyServed' /\ NewHasNone'
      BY <2>1, <2>2, <2>3, <2>6, <3>1, <3>2 DEF PtyInv, OnlyServed, NewHasNone, OnlyCaller
    <3>4. ASSUME NEW s2 \in Sids, NEW t \in MaybeToken, Guarded(t, s2)'
          PROVE  Guarded(t, s2) /\ (Sole(t, s2) /\ t # NoToken => Sole(t, s2)')
      BY <2>1, <2>3, <2>6, <3>4 DEF Guarded, Sole, HasPty, OnlyCaller
    <3> QED
      BY <2>1, <3>1, <3>3, <3>4, PtyFrame
  <2>10. ASSUME NothingForgotten PROVE LeakInv'
    <3>1. LeakInv /\ UNCHANGED <<tokens, rid, reconciled, up, held, outbox>>
      BY <2>3, <2>10 DEF LInv, service
    <3>2. \A x \in tokens : ~InHand(x, c)
      BY <2>1 DEF InHand
    <3>3. \A x \in caller'[c].snap : Kept(x)
      BY <2>4, <2>6 DEF Kept
    <3>4. \A th \in Threads : th # c => releases'[th] = releases[th]
      BY <2>3
    <3> QED
      BY <2>1, <2>6, <2>7, <2>8, <3>1, <3>2, <3>3, <3>4, LeakCall
  <2> QED
    BY <2>3, <2>7, <2>8, <2>9, <2>10 DEF LInv
<1> QED
  BY <1>1, <1>2

\* The tokens in the account, typed.
LEMMA TokenShape ==
  ASSUME PInv
  PROVE  /\ minted \in Nat /\ MaxToken \in Nat /\ minted <= MaxToken /\ NoToken \notin Minted
         /\ \A x \in tokens : /\ x \in Service!Entry /\ x.tid \in Minted /\ x.tid # NoToken
                              /\ x.epoch = EpochOf[x.sid] /\ x.epoch \in Epochs
                              /\ x.sid \in Sids /\ x.kind \in Service!Kinds
<1>1. minted \in 0..MaxToken /\ MaxToken \in Nat /\ NoToken \notin 1..MaxToken
  BY LeaseProtocolAssumption DEF PInv, Service!IInv, Service!TypeOK
<1>2. \A x \in tokens : /\ x \in Service!Entry /\ x.tid \in 1..MaxToken /\ x.tid <= minted
                        /\ x.epoch = EpochOf[x.sid] /\ x.epoch \in Epochs
                        /\ x.sid \in Sids /\ x.kind \in Service!Kinds
  BY DEF PInv, Service!IInv, Service!TypeOK, Service!Entry, Service!Tokens, Service!Registered
<1>3. minted \in Nat /\ minted <= MaxToken /\ Minted \subseteq 1..MaxToken
  BY <1>1 DEF Minted
<1>4. \A x \in tokens : x.tid \in Minted
  BY <1>2, <1>3 DEF Minted
<1> QED
  BY <1>1, <1>2, <1>3, <1>4

\* A grant leaves the PTYs backed: no token that guards one is granted again.
LEMMA AcquirePty ==
  ASSUME PInv, PtyInv, NEW c \in Callers, NEW s \in Sids, NEW e \in Epochs, e = EpochOf[s],
         NEW a \in Acts, NEW kinds \in SUBSET Service!Kinds, NEW r,
         Service!Acquire(e, s, a, kinds, r),
         UNCHANGED <<held, outbox, monitor, releases>>, OnlyCaller(c),
         caller[c].pc \in {"start", "turn"}, caller[c].sid = s,
         caller'[c].pc \notin {"spawn", "inserted"},
         \/ caller'[c] = Free
         \/ /\ caller'[c].sid = s /\ caller'[c].snap = caller[c].snap /\ kinds = {"active"}
            /\ caller'[c].hand = [Nothing EXCEPT !["active"] =
                                    Service!Granted(e, s, a, {"active"})["active"]],
         \A s2 \in Sids : phase'[s2] = "new" => phase[s2] = "new" /\ s2 # s
  PROVE  PtyInv'
<1> DEFINE g == Service!Granted(e, s, a, kinds)
<1>1. /\ rid' = rid /\ reconciled' = reconciled /\ reconciled[e] = rid
      /\ tokens \subseteq tokens'
      /\ \A x \in tokens' \ tokens :
           /\ x \in Service!Entry /\ x.epoch = e /\ x.sid = s /\ x.kind \in kinds /\ x.tid > minted
      /\ \A x, y \in tokens' \ tokens : x.tid = y.tid => x = y
      /\ \A kind \in kinds :
           \E x \in tokens' : /\ x.kind = kind /\ x.tid = g[kind]
                              /\ x \in tokens \/ x.tid > minted
  <2>1. GrantsNew(e, s, a, kinds) /\ GrantsAll(e, s, a, kinds)
    BY Grants DEF PInv
  <2>2. ASSUME NEW kind \in kinds
        PROVE  \E x \in tokens' : /\ x.kind = kind /\ x.tid = g[kind]
                                  /\ x \in tokens \/ x.tid > minted
    BY <2>1 DEF GrantsAll
  <2> QED
    BY <2>1, <2>2 DEF GrantsNew
<1>2. /\ minted \in Nat /\ NoToken \notin Minted
      /\ \A x \in tokens : x.tid \in Minted /\ x.sid \in Sids
  BY TokenShape
<1>3. \A x \in tokens : \A y \in tokens' \ tokens : x.tid # y.tid
  BY <1>1, <1>2 DEF Minted
<1>4. Service!Kinds = {"active", "live"} /\ \A kind \in Service!Kinds : Nothing[kind] = NoToken
  BY DEF Service!Kinds, Nothing
<1>5. \/ caller'[c] = Free
      \/ /\ caller'[c].sid = s /\ caller'[c].snap = caller[c].snap /\ kinds = {"active"}
         /\ caller'[c].hand["live"] = NoToken /\ caller'[c].hand["active"] = g["active"]
  <2> HIDE DEF g
  <2>1. kinds = {"active"} => Service!Granted(e, s, a, {"active"}) = g
    BY DEF g
  <2> QED BY <1>4, <2>1 DEF Nothing
<1> HIDE DEF g
<1>6. OneKey'
  <2>1. SUFFICES ASSUME NEW x \in tokens', NEW y \in tokens', x.tid = y.tid PROVE x = y
    BY DEF OneKey
  <2>2. x \in tokens /\ y \in tokens => x = y
    BY <2>1 DEF PtyInv, OneKey
  <2> QED
    BY <1>1, <1>3, <2>1, <2>2
<1>7. OnlyServed'
  BY <1>1, <1>5, FreeShape DEF PtyInv, OnlyServed, OnlyCaller
<1>8. NewHasNone'
  <2>1. SUFFICES ASSUME NEW x \in tokens', phase'[x.sid] = "new"
                 PROVE  \E d \in Callers : /\ caller'[d].pc \in {"spawn", "failed"}
                                           /\ caller'[d].sid = x.sid
    BY DEF NewHasNone
  <2>2. x.sid \in Sids /\ x.sid # s
    BY <1>1, <1>2, <2>1
  <2>3. x \in tokens /\ phase[x.sid] = "new"
    BY <1>1, <2>1, <2>2
  <2>4. PICK d \in Callers : caller[d].pc \in {"spawn", "failed"} /\ caller[d].sid = x.sid
    BY <2>3 DEF PtyInv, NewHasNone
  <2> QED
    BY <2>2, <2>4 DEF OnlyCaller
<1>9. ASSUME NEW s2 \in Sids, NEW t \in MaybeToken, Guarded(t, s2)'
      PROVE  Backed(t, s2)'
  <2>1. Guarded(t, s2)
    BY <1>9 DEF Guarded, OnlyCaller, HasPty
  <2>2. Backed(t, s2)
    BY <2>1 DEF PtyInv, LiveBacked
  <2>3. PICK x \in tokens : x.tid = t /\ x.sid = s2 /\ x.kind = "live"
    BY <2>2 DEF Backed, InAccount
  <2>4. InAccount(t, s2)' /\ t \in Minted /\ t # NoToken
    BY <1>1, <1>2, <2>3 DEF InAccount
  <2>5. kinds = {"active"} => g["active"] # t
    <3>1. SUFFICES ASSUME kinds = {"active"}, g["active"] = t PROVE FALSE
      OBVIOUS
    <3>2. PICK y \in tokens' : y.kind = "active" /\ y.tid = t /\ (y \in tokens \/ y.tid > minted)
      BY <1>1, <3>1
    <3>3. y.tid <= minted
      BY <1>2, <2>4, <3>2 DEF Minted
    <3>4. y \in tokens
      BY <1>2, <2>4, <3>2, <3>3 DEF Minted
    <3> QED
      BY <2>3, <3>2, <3>4 DEF PtyInv, OneKey
  <2>6. \A kind \in Service!Kinds : caller'[c].hand[kind] # t
    BY <1>4, <1>5, <2>4, <2>5, FreeShape
  <2>7. Sole(t, s2)'
    BY <2>2, <2>6 DEF Backed, Sole, OnlyCaller
  <2> QED
    BY <2>4, <2>7 DEF Backed
<1> QED
  BY <1>6, <1>7, <1>8, <1>9 DEF PtyInv, LiveBacked

\* Whether the token of a follow-up turn is new.
TurnFresh(f, e, s, a) == f <=> Service!Held(e, s, a, "active") = {}

\* A call that gets a grant goes on with it in its hand.
GrantInHand(c, e, s, a, kinds) ==
  /\ caller'[c].pc \in {"spawn", "granted"} /\ caller'[c].sid = s
  /\ \A kind \in kinds : caller'[c].hand[kind] = Service!Granted(e, s, a, kinds)[kind]
  /\ caller'[c].pc = "granted" =>
       /\ kinds = {"active"} /\ caller'[c].hand["live"] = NoToken
       /\ TurnFresh(caller'[c].fresh, e, s, a)

\* A grant loses nothing when the call that got it has it in its hand.
LEMMA AcquireLeak ==
  ASSUME PInv, Orderly, LeakInv, NEW c \in Callers, NEW s \in Sids, NEW e \in Epochs,
         e = EpochOf[s], NEW a \in Acts, NEW kinds \in SUBSET Service!Kinds, NEW r,
         Service!Acquire(e, s, a, kinds, r),
         UNCHANGED <<up, held, outbox, releases>>, OnlyCaller(c),
         caller[c].pc \in {"start", "turn"}, caller[c].sid = s, GrantInHand(c, e, s, a, kinds)
  PROVE  LeakInv'
<1> USE DEF GrantInHand
<1> DEFINE g == Service!Granted(e, s, a, kinds)
<1>1. /\ rid' = rid /\ reconciled' = reconciled
      /\ tokens \subseteq tokens'
      /\ \A x \in tokens' \ tokens :
           /\ x \in Service!Entry /\ x.epoch = e /\ x.sid = s /\ x.kind \in kinds /\ x.tid > minted
           /\ x.tid = g[x.kind] /\ Service!Held(e, s, a, x.kind) = {}
  <2>1. GrantsNew(e, s, a, kinds)
    BY Grants DEF PInv
  <2> QED
    BY <2>1 DEF GrantsNew
<1> HIDE DEF g
<1>2. /\ minted \in Nat /\ NoToken \notin Minted
      /\ \A x \in tokens : /\ x.tid \in Minted /\ x.tid # NoToken /\ x.epoch = EpochOf[x.sid]
                           /\ x.sid \in Sids /\ x.kind \in Service!Kinds /\ x \in Service!Entry
  BY TokenShape
<1>3. ASSUME NEW x, Kept(x) PROVE Kept(x)'
  <2>1. ASSUME ToGo(x) PROVE ToGo(x)'
    BY <2>1, ToGoStays DEF OnlyCaller
  <2> QED
    BY <1>3, <2>1 DEF Kept
<1>4. ASSUME NEW x \in tokens', up'[x.epoch]
      PROVE  Kept(x)' \/ \E d \in Callers : InHand(x, d)'
  <2>1. CASE x \in tokens
    <3>1. Kept(x) \/ \E d \in Callers : InHand(x, d)
      BY <1>4, <2>1 DEF LeakInv
    <3>2. \A d \in Callers : InHand(x, d) => InHand(x, d)'
      BY DEF InHand, OnlyCaller
    <3> QED
      BY <1>3, <3>1, <3>2
  <2>2. CASE x \notin tokens
    BY <1>1, <1>4, <2>2 DEF InHand, g
  <2> QED
    BY <2>1, <2>2
<1>5. ASSUME NEW d \in Callers, caller'[d].pc = "granted", ~caller'[d].fresh,
             NEW x \in tokens', InHand(x, d)'
      PROVE  Kept(x)'
  <2>1. CASE d # c
    <3>1. caller'[d] = caller[d] /\ InHand(x, d)
      BY <1>5, <2>1 DEF OnlyCaller, InHand
    <3>2. x \in tokens
      <4>1. ASSUME x \notin tokens PROVE FALSE
        <5>1. x.kind \in Service!Kinds /\ x.tid > minted /\ x.tid \in 1..MaxToken
          BY <1>1, <4>1, LeaseProtocolAssumption DEF Service!Entry, Service!Tokens
        <5>2. caller[d].hand[x.kind] \in Old
          BY <5>1 DEF PInv, RecOK
        <5>3. x.tid \in Old
          BY <3>1, <5>2 DEF InHand
        <5> QED
          BY <1>2, <5>1, <5>3, LeaseProtocolAssumption DEF Old, Minted
      <4> QED BY <4>1
    <3> QED
      BY <1>3, <1>5, <3>1, <3>2 DEF LeakInv
  <2>2. CASE d = c
    <3>1. kinds = {"active"} /\ Service!Held(e, s, a, "active") # {}
      BY <1>5, <2>2 DEF TurnFresh
    <3>2. x \in tokens
      BY <1>1, <1>5, <3>1
    <3>3. x.sid = s /\ x.epoch = e
      BY <1>2, <1>5, <2>2, <3>2 DEF InHand
    <3>4. up[e]
      BY DEF Orderly, CallOK
    <3>5. Kept(x) \/ \E d2 \in Callers : InHand(x, d2)
      BY <3>2, <3>3, <3>4 DEF LeakInv
    <3>6. \A d2 \in Callers : ~InHand(x, d2)
      BY <3>3 DEF InHand, Orderly, CallOK, AtWork, StartPcs, TurnPcs
    <3> QED
      BY <1>3, <3>5, <3>6
  <2> QED
    BY <2>1, <2>2
<1>6. ASSUME NEW d \in Callers, caller'[d].pc = "register", caller'[d].rid = rid',
             reconciled'[EpochOf[caller'[d].sid]] # rid', NEW x \in caller'[d].snap
      PROVE  Kept(x)'
  <2>1. caller'[d] = caller[d]
    BY <1>6 DEF OnlyCaller
  <2> QED
    BY <1>1, <1>3, <1>6, <2>1 DEF LeakInv
<1> QED
  BY <1>4, <1>5, <1>6 DEF LeakInv

\* The base of the invariant, for a call that gets tokens.
LEMMA AcquireBase ==
  ASSUME PInv, NEW c \in Callers, NEW s \in Sids, NEW e \in Epochs, e = EpochOf[s],
         NEW a \in Acts, NEW kinds \in (SUBSET Service!Kinds) \ {{}}, NEW r,
         Service!Acquire(e, s, a, kinds, r), OwnTypeOK',
         UNCHANGED <<held, outbox, monitor, counter, releases>>, OnlyCaller(c),
         releases[c] = Settled, \A e2 \in Epochs : known'[e2] \in {known[e2], rid},
         \/ caller'[c] = Free
         \/ /\ caller'[c].pc # "none" /\ caller'[c].sid = caller[c].sid /\ caller[c].pc # "none"
            /\ caller'[c].snap = caller[c].snap /\ caller'[c].rid = caller[c].rid
            /\ \A kind \in Service!Kinds :
                 caller'[c].hand[kind] = NoToken \/ caller'[c].hand[kind] \in 1..minted'
  PROVE  PInv' /\ Service!Next
<1>1. Service!Next
  BY AcquireIsNext DEF PInv
<1>2. minted \in Nat /\ minted' \in Nat /\ minted <= minted' /\ rid \in Nat /\ rid' = rid
  <2>1. GrantsNew(e, s, a, kinds)
    BY Grants DEF PInv
  <2> QED
    BY <1>1, <2>1, ServiceStep DEF PInv, GrantsNew
<1>3. Minted \subseteq Minted' /\ Old \subseteq Old' /\ Past' = Past /\ NoToken \in Old'
      /\ 1..minted' \subseteq Old' /\ NoRid \in Past
  BY <1>2 DEF Minted, Old, Past
<1>4. \A x \in tokens' : x \in tokens \/ x.epoch = EpochOf[x.sid]
  <2>1. GrantsNew(e, s, a, kinds)
    BY Grants DEF PInv
  <2> QED
    BY <2>1 DEF GrantsNew
<1>5. RecOK(caller[c])'
  <2>1. CASE caller'[c] = Free
    BY <1>3, <2>1, FreeShape DEF RecOK
  <2>2. CASE caller'[c] # Free
    <3>1. RecOK(caller[c])
      BY DEF PInv
    <3> QED
      BY <1>3, <2>2, <3>1 DEF RecOK
  <2> QED
    BY <2>1, <2>2
<1>6. \A d \in Callers : /\ caller'[d] = caller[d] \/ RecOK(caller[d])'
                         /\ caller'[d].pc = "none" => releases'[d] = Settled
  BY <1>5 DEF PInv, OnlyCaller
<1>7. \A th \in Threads : releases'[th].out \subseteq Minted'
  BY <1>3 DEF PInv
<1>8. \A e2 \in Epochs : known'[e2] \in {known[e2], rid, NoRid} /\ outbox'[e2] \subseteq Minted'
  BY <1>3 DEF PInv
<1>9. \A s2 \in Sids : \A kind \in Service!Kinds : held'[s2][kind] \in Old'
  BY <1>3 DEF PInv
<1>10. \A s2 \in Sids : monitor'[s2] = "notify" => counter'[s2] < MaxAct
  BY DEF PInv
<1> QED
  BY <1>1, <1>4, <1>6, <1>7, <1>8, <1>9, <1>10, BaseFrame

\* What stays as it is when a call for tokens is answered.
AcquireRest(c) ==
  UNCHANGED <<up, handshook, outbox, held, tokenAct, counter, monitor, releases>>

\* A call for tokens is refused or does not get through.
LEMMA AcquireFails ==
  ASSUME LInv, NEW c \in Callers, NEW p \in {"start", "turn"}, At(c, p), AcquireRest(c),
         UNCHANGED <<service, phase>>, pending' = pending \ {caller[c].sid},
         NEW q \in {"shake", "return"}, Goto(c, q) \/ Return(c),
         NEW e \in Epochs, Learn(e) \/ UNCHANGED known
  PROVE  LInv'
<1>1. PInv /\ OwnTypeOK /\ releases[c].out = {} /\ c \in Threads
  BY InCall
<1>2. /\ OnlyReleases(c) /\ releases'[c].out = {} /\ releases' = releases
      /\ handshook' \in [Epochs -> MaybeRid]
  BY <1>1 DEF OwnTypeOK, OnlyReleases, AcquireRest
<1>3. known' \in [Epochs -> MaybeRid] /\ \A e2 \in Epochs : known'[e2] \in {known[e2], rid}
  <2>1. CASE Learn(e)
    BY <1>1, <2>1, LearnShape
  <2>2. CASE UNCHANGED known
    BY <1>1, <2>2 DEF OwnTypeOK
  <2> QED
    BY <2>1, <2>2
<1>4. UNCHANGED <<service, up, outbox, held, tokenAct, counter, phase, monitor>>
  BY DEF AcquireRest
<1> QED
  BY <1>1, <1>2, <1>3, <1>4, Leave


\* A call that a step of another call does not touch stays in order.
LEMMA OtherCall ==
  ASSUME NEW c \in Callers, NEW d \in Callers, d # c, OnlyCaller(c), CallOK(d), up' = up,
         AtWork(d) => /\ phase'[caller[d].sid] = phase[caller[d].sid]
                      /\ AtWork(c)' => caller'[c].sid # caller[d].sid,
         caller[d].pc \in TurnPcs => caller[d].sid \in pending'
  PROVE  CallOK(d)'
<1>1. caller'[d] = caller[d] /\ \A d2 \in Callers : d2 # c => caller'[d2] = caller[d2]
  BY DEF OnlyCaller
<1>2. \A d2 \in Callers : d2 # c => (AtWork(d2)' <=> AtWork(d2))
  BY <1>1 DEF AtWork
<1>3. ASSUME AtWork(d), NEW d2 \in Callers, d2 # d, AtWork(d2)'
      PROVE  caller'[d2].sid # caller'[d].sid
  <2>1. CASE d2 = c
    BY <1>1, <1>3, <2>1
  <2>2. CASE d2 # c
    BY <1>1, <1>2, <1>3, <2>2 DEF CallOK
  <2> QED
    BY <2>1, <2>2
<1>4. CASE AtWork(d)
  <2>1. \A d2 \in Callers : d2 # d /\ AtWork(d2)' => caller'[d2].sid # caller'[d].sid
    BY <1>3, <1>4
  <2>2. phase'[caller'[d].sid] = phase[caller[d].sid] /\ (AtWork(d)' <=> AtWork(d))
    BY <1>1, <1>2, <1>4
  <2> QED
    BY <1>1, <2>1, <2>2 DEF CallOK
<1>5. CASE ~AtWork(d)
  BY <1>1, <1>5 DEF CallOK, AtWork, StartPcs, TurnPcs
<1> QED
  BY <1>4, <1>5

\* A start asks for tokens of both kinds, for activation 0.
LEMMA BothKinds ==
  /\ 0 \in Acts /\ Service!Kinds \in (SUBSET Service!Kinds) \ {{}}
  /\ Service!Kinds \in SUBSET Service!Kinds /\ Service!Kinds = {"active", "live"}
<1>1. 0 \in Acts
  BY LeaseProtocolAssumption DEF Acts
<1>2. Service!Kinds = {"active", "live"} /\ Service!Kinds # {}
  BY DEF Service!Kinds
<1> QED
  BY <1>1, <1>2

\* A start gets both tokens: they are new, since the session never had one.
LEMMA StartGranted ==
  ASSUME LInv, NEW c \in Callers, At(c, "start"), NEW s \in Sids, s = caller[c].sid,
         NEW e \in Epochs, e = EpochOf[s], Service!Acquire(e, s, 0, Service!Kinds, known[e]),
         Take(c, "spawn", Service!Granted(e, s, 0, Service!Kinds), FALSE), Learn(e),
         AcquireRest(c), UNCHANGED <<pending, phase>>
  PROVE  LInv' /\ Service!Next
<1> DEFINE g == Service!Granted(e, s, 0, Service!Kinds)
<1>1. /\ caller[c].pc = "start" /\ releases[c] = Settled /\ releases[c].out = {}
      /\ PInv /\ OwnTypeOK /\ Orderly /\ RecOK(caller[c]) /\ up[e]
  BY InCall
<1>2. /\ 0 \in Acts /\ Service!Kinds \in (SUBSET Service!Kinds) \ {{}}
      /\ "spawn" \in CallerPc /\ Service!Kinds = {"active", "live"}
  <2>1. "spawn" \in CallerPc
    BY DEF CallerPc
  <2> QED
    BY <2>1, BothKinds
<1>3. GrantsNew(e, s, 0, Service!Kinds) /\ GrantsAll(e, s, 0, Service!Kinds)
  BY <1>1, <1>2, Grants DEF PInv
<1>4. Service!Next
  BY <1>1, <1>2, AcquireIsNext DEF PInv
<1>5. minted \in Nat /\ minted' \in Nat /\ minted' <= MaxToken /\ MaxToken \in Nat
  BY <1>1, <1>4, ServiceStep, LeaseProtocolAssumption DEF PInv
<1>6. /\ \A kind \in Service!Kinds : g[kind] \in 1..minted' /\ g[kind] # NoToken
      /\ g \in [Service!Kinds -> MaybeToken]
  <2>1. \A kind \in Service!Kinds : g[kind] \in 1..minted'
    BY <1>3 DEF GrantsAll
  <2>2. \A kind \in Service!Kinds : g[kind] \in Service!Tokens /\ g[kind] # NoToken
    BY <1>5, <2>1, LeaseProtocolAssumption DEF Service!Tokens
  <2>3. g = [kind \in Service!Kinds |-> g[kind]]
    BY DEF Service!Granted
  <2> HIDE DEF g
  <2> QED
    BY <2>1, <2>2, <2>3 DEF MaybeToken
<1> HIDE DEF g
<1>7. /\ OnlyCaller(c)
      /\ caller'[c].pc = "spawn" /\ caller'[c].hand = g
      /\ caller'[c].sid = s /\ caller'[c].act = caller[c].act
      /\ caller'[c].rid = caller[c].rid /\ caller'[c].snap = caller[c].snap
  <2>1. Take(c, "spawn", g, FALSE) /\ FALSE \in BOOLEAN
    BY DEF g
  <2>2. PICK h \in [Service!Kinds -> MaybeToken], f \in BOOLEAN : h = g /\ Take(c, "spawn", h, f)
    BY <1>6, <2>1, Zenon
  <2>3. "spawn" \in CallerPc
    BY <1>2
  <2> QED
    BY <1>1, <2>2, <2>3, HandShape
<1>8. known' \in [Epochs -> MaybeRid] /\ \A e2 \in Epochs : known'[e2] \in {known[e2], rid}
  BY <1>1, LearnShape
<1>9. OwnTypeOK'
  BY <1>1, <1>7, <1>8 DEF OwnTypeOK, OnlyCaller, AcquireRest
<1>10. PInv'
  BY <1>1, <1>2, <1>6, <1>7, <1>8, <1>9, AcquireBase DEF AcquireRest
<1>11. Orderly'
  BY <1>1, <1>7 DEF Orderly, CallOK, SessionOK, OnlyCaller, AtWork, StartPcs, TurnPcs, AcquireRest
<1>12. ASSUME NothingForgotten PROVE LeakInv'
  <2>1. LeakInv
    BY <1>12 DEF LInv
  <2>2. \A kind \in Service!Kinds :
          caller'[c].hand[kind] = Service!Granted(e, s, 0, Service!Kinds)[kind]
    BY <1>7 DEF g
  <2>3. UNCHANGED <<up, held, outbox, releases>>
    BY DEF AcquireRest
  <2>4. caller'[c].pc = "spawn" /\ caller'[c].pc # "granted" /\ caller'[c].sid = s
    BY <1>7
  <2>5. Service!Kinds \in SUBSET Service!Kinds /\ 0 \in Acts
    BY <1>2
  <2>6. /\ PInv /\ Orderly /\ OnlyCaller(c)
        /\ caller[c].pc \in {"start", "turn"} /\ caller[c].sid = s
    BY <1>1, <1>7
  <2>7. GrantInHand(c, e, s, 0, Service!Kinds)
    BY <2>2, <2>4 DEF GrantInHand
  <2> QED
    BY <2>1, <2>3, <2>5, <2>6, <2>7, AcquireLeak
<1>13. ASSUME OneRouter PROVE PtyInv'
  <2>1. PtyInv
    BY <1>13 DEF LInv
  <2>2. \A x \in tokens : x.tid \in Minted /\ x.sid \in Sids /\ x.sid # s
    <3>1. \A x \in tokens : x.tid \in Minted /\ x.sid \in Sids
      BY <1>1, TokenShape
    <3>2. phase[s] = "new"
      BY <1>1 DEF Orderly, CallOK
    <3>3. ~\E d \in Callers : caller[d].pc \in {"spawn", "failed"} /\ caller[d].sid = s
      BY <1>1 DEF Orderly, CallOK, AtWork, StartPcs
    <3> QED
      BY <2>1, <3>1, <3>2, <3>3 DEF PtyInv, NewHasNone
  <2>3. \A kind \in Service!Kinds : Service!Held(e, s, 0, kind) = {}
    <3>1. byKindKey = tokens
      BY <1>1 DEF PInv, Service!IInv, Service!IndexAgrees
    <3> QED
      BY <2>2, <3>1 DEF Service!Held
  <2>4. \A kind \in Service!Kinds :
          \E x \in tokens' : /\ x.sid = s /\ x.kind = kind /\ x.tid = g[kind]
                             /\ x.tid > minted /\ x \notin tokens
    <3>1. ASSUME NEW kind \in Service!Kinds
          PROVE  \E x \in tokens' : /\ x.sid = s /\ x.kind = kind /\ x.tid = g[kind]
                                    /\ x.tid > minted
      BY <1>3, <2>3 DEF GrantsAll, g
    <3> QED
      BY <2>2, <3>1
  <2>5. \A kind \in Service!Kinds : g[kind] > minted
    BY <2>4
  <2>6. g["active"] # g["live"]
    <3>1. PICK x \in tokens' : x.kind = "active" /\ x.tid = g["active"] /\ x \notin tokens
      BY <1>2, <2>4
    <3>2. PICK y \in tokens' : y.kind = "live" /\ y.tid = g["live"] /\ y \notin tokens
      BY <1>2, <2>4
    <3> QED
      BY <1>3, <3>1, <3>2 DEF GrantsNew
  <2>7. /\ \A x \in tokens' \ tokens : x.sid = s /\ x.tid > minted
        /\ \A x, y \in tokens' \ tokens : x.tid = y.tid => x = y
        /\ tokens \subseteq tokens' /\ rid' = rid /\ reconciled' = reconciled /\ reconciled[e] = rid
    BY <1>3 DEF GrantsNew
  <2>8. OneKey'
    <3>1. SUFFICES ASSUME NEW x \in tokens', NEW y \in tokens', x.tid = y.tid PROVE x = y
      BY DEF OneKey
    <3>2. x \in tokens /\ y \in tokens => x = y
      BY <2>1, <3>1 DEF PtyInv, OneKey
    <3>3. \A u \in tokens : \A v \in tokens' \ tokens : u.tid # v.tid
      BY <1>5, <2>2, <2>7 DEF Minted
    <3> QED
      BY <2>7, <3>1, <3>2, <3>3
  <2>9. OnlyServed'
    BY <1>7, <2>1, <2>7 DEF PtyInv, OnlyServed, OnlyCaller, AcquireRest
  <2>10. NewHasNone'
    <3>1. SUFFICES ASSUME NEW x \in tokens', phase'[x.sid] = "new"
                   PROVE  \E d \in Callers : /\ caller'[d].pc \in {"spawn", "failed"}
                                             /\ caller'[d].sid = x.sid
      BY DEF NewHasNone
    <3>2. CASE x \in tokens
      <4>1. PICK d \in Callers : caller[d].pc \in {"spawn", "failed"} /\ caller[d].sid = x.sid
        BY <2>1, <3>1, <3>2 DEF PtyInv, NewHasNone
      <4> QED
        BY <1>1, <1>7, <4>1 DEF OnlyCaller
    <3>3. CASE x \notin tokens
      BY <1>7, <2>7, <3>1, <3>3
    <3> QED
      BY <3>2, <3>3
  <2>11. ASSUME NEW s2 \in Sids, NEW t \in MaybeToken, Guarded(t, s2)'
         PROVE  Backed(t, s2)'
    <3>1. Guarded(t, s2) \/ (s2 = s /\ t = g["live"])
      BY <1>1, <1>7, <2>11 DEF Guarded, OnlyCaller, HasPty, AcquireRest
    <3>2. CASE Guarded(t, s2)
      <4>1. Backed(t, s2)
        BY <2>1, <3>2 DEF PtyInv, LiveBacked
      <4>2. InAccount(t, s2)' /\ t \in Minted
        BY <2>2, <2>7, <4>1 DEF Backed, InAccount
      <4>3. \A kind \in Service!Kinds : g[kind] # t
        BY <1>5, <2>5, <4>2 DEF Minted
      <4>4. Sole(t, s2)'
        BY <1>7, <4>1, <4>3 DEF Backed, Sole, OnlyCaller, AcquireRest
      <4> QED
        BY <4>2, <4>4 DEF Backed
    <3>3. CASE s2 = s /\ t = g["live"]
      <4>1. InAccount(t, s2)'
        BY <1>2, <2>4, <3>3 DEF InAccount
      <4>2. t \notin Minted /\ t # NoToken /\ t \notin Old
        BY <1>2, <1>5, <1>6, <2>5, <3>3 DEF Minted, Old
      <4>3. /\ \A s3 \in Sids : \A kind \in Service!Kinds : held'[s3][kind] # t
            /\ \A d \in Callers : d # c => \A kind \in Service!Kinds : caller'[d].hand[kind] # t
            /\ \A th \in Threads : t \notin releases'[th].out
            /\ \A e2 \in Epochs : t \notin outbox'[e2]
        BY <1>1, <1>7, <4>2 DEF PInv, RecOK, OnlyCaller, AcquireRest
      <4>4. \A kind \in Service!Kinds : caller'[c].hand[kind] = t => kind = "live"
        BY <1>2, <1>7, <2>6, <3>3
      <4>5. Sole(t, s2)'
        BY <1>7, <3>3, <4>3, <4>4 DEF Sole
      <4> QED
        BY <4>1, <4>5 DEF Backed
    <3> QED
      BY <3>1, <3>2, <3>3
  <2> QED
    BY <2>8, <2>9, <2>10, <2>11 DEF PtyInv, LiveBacked
<1> QED
  BY <1>4, <1>10, <1>11, <1>12, <1>13 DEF LInv


\* The reply of a start is lost: the daemon does not know the tokens it got.
LEMMA StartGrantLost ==
  ASSUME LInv, NEW c \in Callers, At(c, "start"), NEW s \in Sids, s = caller[c].sid,
         NEW e \in Epochs, e = EpochOf[s], Service!Acquire(e, s, 0, Service!Kinds, known[e]),
         "lost grant" \in Faults, pending' = pending \ {s}, SetPhase(s, "gone"), Return(c),
         UNCHANGED known, AcquireRest(c)
  PROVE  LInv' /\ Service!Next
<1>1. /\ caller[c].pc = "start" /\ releases[c] = Settled /\ releases[c].out = {}
      /\ PInv /\ OwnTypeOK /\ Orderly /\ RecOK(caller[c]) /\ up[e]
  BY InCall
<1>2. OnlyCaller(c) /\ caller'[c] = Free
  BY <1>1, ReturnShape
<1>3. /\ 0 \in Acts /\ Service!Kinds \in (SUBSET Service!Kinds) \ {{}}
      /\ Service!Kinds \in SUBSET Service!Kinds
  BY BothKinds
<1>4. /\ phase' \in [Sids -> Phase] /\ phase'[s] = "gone"
      /\ \A s2 \in Sids : s2 # s => phase'[s2] = phase[s2]
  BY <1>1 DEF OwnTypeOK, SetPhase, Phase
<1>5. OwnTypeOK'
  BY <1>1, <1>2, <1>4 DEF OwnTypeOK, OnlyCaller, AcquireRest
<1>6. PInv' /\ Service!Next
  <2>1. \A e2 \in Epochs : known'[e2] \in {known[e2], rid}
    OBVIOUS
  <2>2. UNCHANGED <<held, outbox, monitor, counter, releases>>
    BY DEF AcquireRest
  <2>3. PICK a \in Acts, kinds \in (SUBSET Service!Kinds) \ {{}}, r \in {known[e]} :
          Service!Acquire(e, s, a, kinds, r)
    BY <1>3
  <2>4. PInv /\ releases[c] = Settled /\ OnlyCaller(c) /\ caller'[c] = Free
    BY <1>1, <1>2
  <2> QED
    BY <1>5, <2>1, <2>2, <2>3, <2>4, AcquireBase
<1>7. Orderly'
  <2>1. ~AtWork(c)' /\ CallOK(c)'
    BY <1>2, FreeShape DEF CallOK, AtWork, StartPcs, TurnPcs
  <2>2. ASSUME NEW d \in Callers, d # c PROVE CallOK(d)'
    <3>1. AtWork(d) => caller[d].sid \in Sids /\ caller[d].sid # s
      BY <1>1, <2>2 DEF Orderly, CallOK, PInv, RecOK, AtWork, StartPcs, TurnPcs
    <3>2. CallOK(d) /\ (caller[d].pc \in TurnPcs => caller[d].sid \in pending') /\ up' = up
      BY <1>1, <3>1 DEF Orderly, CallOK, AtWork, AcquireRest
    <3> QED
      BY <1>2, <1>4, <2>1, <2>2, <3>1, <3>2, OtherCall
  <2>3. \A s2 \in Sids : SessionOK(s2)'
    BY <1>1, <1>4 DEF Orderly, SessionOK, AcquireRest
  <2> QED
    BY <2>1, <2>2, <2>3 DEF Orderly
<1>8. ASSUME OneRouter PROVE PtyInv'
  <2>1. PtyInv
    BY <1>8 DEF LInv
  <2>2. caller'[c].pc \notin {"spawn", "inserted"} /\ caller[c].pc \in {"start", "turn"}
        /\ caller[c].sid = s
    BY <1>1, <1>2, FreeShape
  <2>3. \A s2 \in Sids : phase'[s2] = "new" => phase[s2] = "new" /\ s2 # s
    BY <1>4
  <2>4. UNCHANGED <<held, outbox, monitor, releases>>
    BY DEF AcquireRest
  <2> QED
    BY <1>1, <1>2, <1>3, <2>1, <2>2, <2>3, <2>4, AcquirePty
<1>9. ~NothingForgotten
  BY DEF NothingForgotten
<1> QED
  BY <1>6, <1>7, <1>8, <1>9 DEF LInv

LEMMA StartAcquireStep ==
  ASSUME LInv, NEW c \in Callers, StartAcquire(c)
  PROVE  LInv' /\ (Service!Next \/ UNCHANGED service)
<1>1. At(c, "start") /\ AcquireRest(c)
  BY DEF StartAcquire, AcquireRest
<1>2. PICK s \in Sids, e \in Epochs : s = caller[c].sid /\ e = EpochOf[s]
  <2>1. caller[c].sid \in Sids
    BY <1>1, InCall
  <2> QED
    BY <2>1, LeaseProtocolAssumption
<1>3. CASE /\ Service!Acquire(e, s, 0, Service!Kinds, known[e])
           /\ Take(c, "spawn", Service!Granted(e, s, 0, Service!Kinds), FALSE)
           /\ Learn(e) /\ UNCHANGED <<pending, phase>>
  BY <1>1, <1>2, <1>3, StartGranted
<1>4. CASE /\ Learn(e) \/ UNCHANGED known
           /\ UNCHANGED service /\ UNCHANGED phase
           /\ pending' = pending \ {s}
           /\ Goto(c, "shake") \/ Return(c)
  BY <1>1, <1>2, <1>4, AcquireFails
<1>5. CASE /\ "lost grant" \in Faults
           /\ Service!Acquire(e, s, 0, Service!Kinds, known[e])
           /\ pending' = pending \ {s} /\ SetPhase(s, "gone") /\ Return(c) /\ UNCHANGED known
  BY <1>1, <1>2, <1>5, StartGrantLost
<1> QED
  BY <1>2, <1>3, <1>4, <1>5 DEF StartAcquire, Refused


\* What a granted follow-up turn has in its hand.
TurnHand(h, e, s, a) ==
  h = [Nothing EXCEPT !["active"] = Service!Granted(e, s, a, {"active"})["active"]]

\* A follow-up turn gets an active token, a new one or the one its key has.
LEMMA TurnGranted ==
  ASSUME LInv, NEW c \in Callers, At(c, "turn"), NEW s \in Sids, s = caller[c].sid,
         NEW e \in Epochs, e = EpochOf[s], NEW a \in Acts, NEW r, r = known[e],
         Service!Acquire(e, s, a, {"active"}, r), NEW h,
         TurnHand(h, e, s, a), NEW f \in BOOLEAN, TurnFresh(f, e, s, a),
         Take(c, "granted", h, f), Learn(e), AcquireRest(c), UNCHANGED <<pending, phase>>
  PROVE  LInv' /\ Service!Next
<1> DEFINE got == Service!Granted(e, s, a, {"active"})["active"]
<1>1. /\ caller[c].pc = "turn" /\ releases[c] = Settled /\ releases[c].out = {}
      /\ PInv /\ OwnTypeOK /\ Orderly /\ RecOK(caller[c]) /\ up[e]
  BY InCall
<1>2. PICK kinds \in (SUBSET Service!Kinds) \ {{}} : kinds = {"active"}
  BY BothKinds
<1>3. GrantsNew(e, s, a, kinds) /\ GrantsAll(e, s, a, kinds)
  BY <1>1, <1>2, Grants DEF PInv
<1>4. Service!Next
  BY <1>1, <1>2, AcquireIsNext DEF PInv
<1>5. minted \in Nat /\ minted' \in Nat /\ minted' <= MaxToken /\ MaxToken \in Nat
  BY <1>1, <1>4, ServiceStep, LeaseProtocolAssumption DEF PInv
<1>6. /\ got \in 1..minted' /\ got \in MaybeToken
      /\ h \in [Service!Kinds -> MaybeToken] /\ h["live"] = NoToken /\ h["active"] = got
      /\ \A kind \in Service!Kinds : h[kind] = NoToken \/ h[kind] \in 1..minted'
  <2>1. got \in 1..minted'
    BY <1>2, <1>3 DEF GrantsAll
  <2>2. got \in MaybeToken
    BY <1>5, <2>1 DEF Service!Tokens, MaybeToken
  <2> HIDE DEF got
  <2>3. h = [Nothing EXCEPT !["active"] = got]
    BY DEF got, TurnHand
  <2>4. /\ Service!Kinds = {"active", "live"} /\ Nothing \in [Service!Kinds -> MaybeToken]
        /\ Nothing["live"] = NoToken
    BY FreeShape, BothKinds
  <2>5. h \in [Service!Kinds -> MaybeToken] /\ h["live"] = NoToken /\ h["active"] = got
    BY <2>2, <2>3, <2>4
  <2> QED
    BY <2>1, <2>2, <2>4, <2>5
<1> HIDE DEF got
<1>7. /\ OnlyCaller(c)
      /\ caller'[c].pc = "granted" /\ caller'[c].hand = h /\ caller'[c].fresh = f
      /\ caller'[c].sid = s /\ caller'[c].act = caller[c].act
      /\ caller'[c].rid = caller[c].rid /\ caller'[c].snap = caller[c].snap
  <2>1. "granted" \in CallerPc
    BY DEF CallerPc
  <2>2. OwnTypeOK /\ h \in [Service!Kinds -> MaybeToken] /\ Take(c, "granted", h, f)
    BY <1>1, <1>6
  <2>3. caller[c].sid = s
    OBVIOUS
  <2> QED
    BY <2>1, <2>2, <2>3, HandShape
<1>8. known' \in [Epochs -> MaybeRid] /\ \A e2 \in Epochs : known'[e2] \in {known[e2], rid}
  BY <1>1, LearnShape
<1>9. OwnTypeOK'
  BY <1>1, <1>7, <1>8 DEF OwnTypeOK, OnlyCaller, AcquireRest
<1>10. PInv'
  <2>1. UNCHANGED <<held, outbox, monitor, counter, releases>>
    BY DEF AcquireRest
  <2>2. /\ caller'[c].pc # "none" /\ caller'[c].sid = caller[c].sid /\ caller[c].pc # "none"
        /\ caller'[c].snap = caller[c].snap /\ caller'[c].rid = caller[c].rid
        /\ \A kind \in Service!Kinds :
             caller'[c].hand[kind] = NoToken \/ caller'[c].hand[kind] \in 1..minted'
    BY <1>1, <1>6, <1>7
  <2>3. PInv /\ releases[c] = Settled /\ OnlyCaller(c) /\ Service!Acquire(e, s, a, kinds, r)
    BY <1>1, <1>2, <1>7
  <2> QED
    BY <1>8, <1>9, <2>1, <2>2, <2>3, AcquireBase
<1>11. Orderly'
  BY <1>1, <1>6, <1>7 DEF Orderly, CallOK, SessionOK, OnlyCaller, AtWork, StartPcs, TurnPcs, AcquireRest
<1>12. ASSUME NothingForgotten PROVE LeakInv'
  <2>1. LeakInv
    BY <1>12 DEF LInv
  <2>2. \A kind \in kinds : caller'[c].hand[kind] = Service!Granted(e, s, a, kinds)[kind]
    BY <1>2, <1>6, <1>7 DEF got
  <2>3. UNCHANGED <<up, held, outbox, releases>>
    BY DEF AcquireRest
  <2>4. caller'[c].pc = "granted" =>
          /\ kinds = {"active"} /\ caller'[c].hand["live"] = NoToken
          /\ TurnFresh(caller'[c].fresh, e, s, a)
    BY <1>2, <1>6, <1>7
  <2>5. /\ PInv /\ Orderly /\ OnlyCaller(c) /\ kinds \in SUBSET Service!Kinds
        /\ Service!Acquire(e, s, a, kinds, r)
        /\ caller[c].pc \in {"start", "turn"} /\ caller[c].sid = s /\ caller'[c].sid = s
        /\ caller'[c].pc \in {"spawn", "granted"}
    BY <1>1, <1>2, <1>7
  <2>6. GrantInHand(c, e, s, a, kinds)
    BY <2>2, <2>4, <2>5 DEF GrantInHand
  <2> QED
    BY <2>1, <2>3, <2>5, <2>6, AcquireLeak
<1>13. ASSUME OneRouter PROVE PtyInv'
  <2>1. PtyInv
    BY <1>13 DEF LInv
  <2>2. caller'[c].hand = [Nothing EXCEPT !["active"] = Service!Granted(e, s, a, {"active"})["active"]]
    BY <1>7 DEF TurnHand
  <2>3. \A s2 \in Sids : phase'[s2] = "new" => phase[s2] = "new" /\ s2 # s
    BY <1>1 DEF Orderly, CallOK, TurnPcs
  <2>4. UNCHANGED <<held, outbox, monitor, releases>>
    BY DEF AcquireRest
  <2>5. /\ caller'[c].sid = s /\ caller'[c].snap = caller[c].snap /\ kinds = {"active"}
        /\ caller'[c].pc \notin {"spawn", "inserted"} /\ caller[c].pc \in {"start", "turn"}
        /\ kinds \in SUBSET Service!Kinds
    BY <1>1, <1>2, <1>7
  <2> QED
    BY <1>1, <1>2, <1>7, <2>1, <2>2, <2>3, <2>4, <2>5, AcquirePty
<1> QED
  BY <1>4, <1>10, <1>11, <1>12, <1>13 DEF LInv

\* The reply of a follow-up turn is lost.
LEMMA TurnGrantLost ==
  ASSUME LInv, NEW c \in Callers, At(c, "turn"), NEW s \in Sids, s = caller[c].sid,
         NEW e \in Epochs, e = EpochOf[s], NEW a \in Acts, NEW r,
         Service!Acquire(e, s, a, {"active"}, r),
         "lost grant" \in Faults, pending' = pending \ {s}, Return(c),
         UNCHANGED <<known, phase>>, AcquireRest(c)
  PROVE  LInv' /\ Service!Next
<1>1. /\ caller[c].pc = "turn" /\ releases[c] = Settled /\ releases[c].out = {}
      /\ PInv /\ OwnTypeOK /\ Orderly /\ RecOK(caller[c]) /\ up[e]
  BY InCall
<1>2. OnlyCaller(c) /\ caller'[c] = Free
  BY <1>1, ReturnShape
<1>3. PICK kinds \in (SUBSET Service!Kinds) \ {{}} : kinds = {"active"}
  BY BothKinds
<1>4. OwnTypeOK'
  BY <1>1, <1>2 DEF OwnTypeOK, OnlyCaller, AcquireRest
<1>5. PInv' /\ Service!Next
  <2>1. UNCHANGED <<held, outbox, monitor, counter, releases>>
    BY DEF AcquireRest
  <2>2. \A e2 \in Epochs : known'[e2] \in {known[e2], rid}
    OBVIOUS
  <2> QED
    BY <1>1, <1>2, <1>3, <1>4, <2>1, <2>2, AcquireBase
<1>6. Orderly'
  <2>1. ~AtWork(c)' /\ CallOK(c)'
    BY <1>2, FreeShape DEF CallOK, AtWork, StartPcs, TurnPcs
  <2>2. ASSUME NEW d \in Callers, d # c PROVE CallOK(d)'
    <3>1. caller[d].pc \in TurnPcs => caller[d].sid \in pending'
      BY <1>1, <2>2 DEF Orderly, CallOK, AtWork, StartPcs, TurnPcs
    <3>2. CallOK(d) /\ up' = up
      BY <1>1 DEF Orderly, AcquireRest
    <3> QED
      BY <1>2, <2>1, <2>2, <3>1, <3>2, OtherCall
  <2>3. \A s2 \in Sids : SessionOK(s2)'
    BY <1>1 DEF Orderly, SessionOK, AcquireRest
  <2> QED
    BY <2>1, <2>2, <2>3 DEF Orderly
<1>7. ASSUME OneRouter PROVE PtyInv'
  <2>1. PtyInv
    BY <1>7 DEF LInv
  <2>2. caller'[c].pc \notin {"spawn", "inserted"} /\ caller[c].pc \in {"start", "turn"}
        /\ caller[c].sid = s /\ kinds \in SUBSET Service!Kinds
    BY <1>1, <1>2, <1>3, FreeShape
  <2>3. \A s2 \in Sids : phase'[s2] = "new" => phase[s2] = "new" /\ s2 # s
    BY <1>1 DEF Orderly, CallOK, TurnPcs
  <2>4. UNCHANGED <<held, outbox, monitor, releases>>
    BY DEF AcquireRest
  <2> QED
    BY <1>1, <1>2, <1>3, <2>1, <2>2, <2>3, <2>4, AcquirePty
<1>8. ~NothingForgotten
  BY DEF NothingForgotten
<1> QED
  BY <1>5, <1>6, <1>7, <1>8 DEF LInv

LEMMA TurnAcquireStep ==
  ASSUME LInv, NEW c \in Callers, TurnAcquire(c)
  PROVE  LInv' /\ (Service!Next \/ UNCHANGED service)
<1>1. At(c, "turn") /\ AcquireRest(c) /\ UNCHANGED phase
  BY DEF TurnAcquire, AcquireRest
<1>2. PICK s \in Sids, e \in Epochs, a \in Acts :
        s = caller[c].sid /\ e = EpochOf[s] /\ a = caller[c].act
  <2>1. caller[c].sid \in Sids /\ caller[c].act \in Acts
    BY <1>1, InCall DEF OwnTypeOK, CallerRec
  <2> QED
    BY <2>1, LeaseProtocolAssumption
<1>3. CASE /\ Service!Acquire(e, s, a, {"active"}, known[e])
           /\ Take(c, "granted",
                   [Nothing EXCEPT !["active"] = Service!Granted(e, s, a, {"active"})["active"]],
                   Service!Held(e, s, a, "active") = {})
           /\ Learn(e) /\ UNCHANGED pending
  <2>1. PICK f, h, r :
             /\ f \in BOOLEAN /\ TurnFresh(f, e, s, a) /\ TurnHand(h, e, s, a)
             /\ r = known[e] /\ Take(c, "granted", h, f) /\ Service!Acquire(e, s, a, {"active"}, r)
    <3>1. \E f \in BOOLEAN : f = (Service!Held(e, s, a, "active") = {})
      BY Zenon
    <3> QED
      BY <1>3, <3>1, Zenon DEF TurnFresh, TurnHand
  <2> QED
    BY <1>1, <1>2, <1>3, <2>1, TurnGranted
<1>4. CASE /\ Learn(e) \/ UNCHANGED known
           /\ UNCHANGED service
           /\ pending' = pending \ {s}
           /\ \E q \in {"shake", "return"} : Goto(c, q) \/ Return(c)
  BY <1>1, <1>2, <1>4, AcquireFails
<1>5. CASE /\ "lost grant" \in Faults
           /\ Service!Acquire(e, s, a, {"active"}, known[e])
           /\ pending' = pending \ {s} /\ Return(c) /\ UNCHANGED known
  BY <1>1, <1>2, <1>5, TurnGrantLost
<1> QED
  BY <1>2, <1>3, <1>4, <1>5 DEF TurnAcquire, Refused


\* The session and its tokens are registered: they go from the hand to held.
LEMMA InsertStep ==
  ASSUME LInv, NEW c \in Callers, Insert(c)
  PROVE  LInv' /\ UNCHANGED service
<1>1. /\ caller[c].pc = "spawn" /\ releases[c] = Settled /\ releases[c].out = {}
      /\ PInv /\ OwnTypeOK /\ Orderly /\ RecOK(caller[c]) /\ caller[c].sid \in Sids
      /\ up[EpochOf[caller[c].sid]]
  BY InCall DEF Insert
<1>2. PICK s \in Sids : s = caller[c].sid
  BY <1>1
<1>3. /\ UNCHANGED <<service, up, known, handshook, outbox, pending, monitor, releases>>
      /\ tokens' = tokens /\ rid' = rid /\ reconciled' = reconciled
  BY DEF Insert, client, service
<1>4. OnlyCaller(c) /\ caller'[c].pc = "inserted" /\ SameCall(c)
  <2>1. "inserted" \in CallerPc
    BY DEF CallerPc
  <2> QED
    BY <1>1, <2>1, GotoShape DEF Insert
<1>5. /\ held' \in [Sids -> [Service!Kinds -> MaybeToken]] /\ held'[s] = caller[c].hand
      /\ \A s2 \in Sids : s2 # s => held'[s2] = held[s2]
      /\ phase' \in [Sids -> Phase] /\ phase'[s] = "starting"
      /\ \A s2 \in Sids : s2 # s => phase'[s2] = phase[s2]
  <2>1. held' = [held EXCEPT ![s] = caller[c].hand] /\ phase' = [phase EXCEPT ![s] = "starting"]
    BY <1>2 DEF Insert, SetPhase
  <2>2. caller[c].hand \in [Service!Kinds -> MaybeToken]
    BY <1>1 DEF OwnTypeOK, CallerRec
  <2> QED
    BY <1>1, <2>1, <2>2 DEF OwnTypeOK, Phase
<1>6. /\ tokenAct' \in [Sids -> Acts] /\ counter' \in [Sids -> Acts]
      /\ \A s2 \in Sids : s2 # s => counter'[s2] = counter[s2]
  <2>1. tokenAct' = [tokenAct EXCEPT ![s] = 0] /\ counter' = [counter EXCEPT ![s] = 0]
    BY <1>2 DEF Insert
  <2> QED
    BY <1>1, <2>1, BothKinds DEF OwnTypeOK
<1>7. phase[s] = "new" /\ monitor[s] = "none" /\ held[s] = Nothing
  BY <1>1, <1>2 DEF Orderly, CallOK, SessionOK
<1>8. \A d \in Callers : d # c /\ AtWork(d) => caller[d].sid # s
  BY <1>1, <1>2 DEF Orderly, CallOK, AtWork, StartPcs, TurnPcs
<1>9. OwnTypeOK'
  BY <1>1, <1>3, <1>4, <1>5, <1>6 DEF OwnTypeOK, OnlyCaller
<1>10. PInv'
  <2>1. RecOK(caller'[c])
    BY <1>1, <1>4 DEF RecOK, SameCall
  <2>2. \A s2 \in Sids : \A kind \in Service!Kinds : held'[s2][kind] \in Old
    BY <1>1, <1>5 DEF PInv, RecOK
  <2>3. \A s2 \in Sids : monitor'[s2] = "notify" => counter'[s2] < MaxAct
    BY <1>1, <1>3, <1>6, <1>7 DEF PInv
  <2>4. caller'[c].pc # "none" /\ releases'[c].out \subseteq Minted
    BY <1>1, <1>3, <1>4
  <2>5. \A e \in Epochs : known'[e] \in {known[e], rid, NoRid}
    BY <1>3
  <2>6. \A th \in Threads : th # c => releases'[th] = releases[th]
    BY <1>3
  <2> QED
    BY <1>1, <1>3, <1>4, <1>9, <2>1, <2>2, <2>3, <2>4, <2>5, <2>6, BaseQuiet
<1>11. Orderly'
  <2>1. CallOK(c)'
    BY <1>1, <1>2, <1>3, <1>4, <1>5, <1>8
    DEF CallOK, SameCall, OnlyCaller, AtWork, StartPcs, TurnPcs
  <2>2. ASSUME NEW d \in Callers, d # c PROVE CallOK(d)'
    <3>1. CallOK(d) /\ (caller[d].pc \in TurnPcs => caller[d].sid \in pending')
      BY <1>1, <1>3 DEF Orderly, CallOK
    <3>2. AtWork(d) => phase'[caller[d].sid] = phase[caller[d].sid] /\ caller[d].sid # s
      BY <1>1, <1>5, <1>8, <2>2 DEF PInv, RecOK, AtWork, StartPcs, TurnPcs
    <3>3. caller'[c].sid = s /\ up' = up
      BY <1>2, <1>3, <1>4 DEF SameCall
    <3> QED
      BY <1>4, <2>2, <3>1, <3>2, <3>3, OtherCall
  <2>3. ASSUME NEW s2 \in Sids PROVE SessionOK(s2)'
    <3>1. SessionOK(s2) /\ up[EpochOf[s]]
      BY <1>1, <1>2 DEF Orderly
    <3> QED
      BY <1>3, <1>5, <1>7, <3>1 DEF SessionOK
  <2> QED
    BY <2>1, <2>2, <2>3 DEF Orderly
<1>12. ASSUME OneRouter PROVE PtyInv'
  <2>1. PtyInv
    BY <1>12 DEF LInv
  <2>2. OnlyServed'
    <3>1. \A d \in Callers : /\ caller'[d].sid = caller[d].sid /\ caller'[d].hand = caller[d].hand
                             /\ caller'[d].snap = caller[d].snap
      BY <1>4 DEF OnlyCaller, SameCall
    <3>2. \A s2 \in Sids : \A kind \in Service!Kinds :
            held'[s2][kind] # NoToken => reconciled[EpochOf[s2]] = rid
      BY <1>2, <1>5, <2>1 DEF PtyInv, OnlyServed
    <3> QED
      BY <1>3, <2>1, <3>1, <3>2 DEF PtyInv, OnlyServed
  <2>3. NewHasNone'
    <3>1. SUFFICES ASSUME NEW x \in tokens, phase'[x.sid] = "new"
                   PROVE  \E d \in Callers : /\ caller'[d].pc \in {"spawn", "failed"}
                                             /\ caller'[d].sid = x.sid
      BY <1>3 DEF NewHasNone
    <3>2. x.sid \in Sids /\ x.sid # s /\ phase[x.sid] = "new"
      BY <1>1, <1>5, <3>1, TokenShape
    <3>3. PICK d \in Callers : caller[d].pc \in {"spawn", "failed"} /\ caller[d].sid = x.sid
      BY <2>1, <3>2 DEF PtyInv, NewHasNone
    <3> QED
      BY <1>2, <1>4, <3>2, <3>3 DEF OnlyCaller
  <2>4. ASSUME NEW s2 \in Sids, NEW t \in MaybeToken, Guarded(t, s2)'
        PROVE  Guarded(t, s2) /\ (Sole(t, s2) /\ t # NoToken => Sole(t, s2)')
    <3>1. Guarded(t, s2)
      <4>1. CASE HasPty(s2)' /\ t = held'[s2]["live"]
        BY <1>3, <1>5, <1>7, <4>1 DEF Guarded, HasPty
      <4>2. CASE \E d \in Callers :
                   caller'[d].pc = "spawn" /\ caller'[d].sid = s2 /\ t = caller'[d].hand["live"]
        BY <1>4, <4>2 DEF Guarded, OnlyCaller
      <4>3. CASE \E d \in Callers :
                   caller'[d].pc = "inserted" /\ caller'[d].sid = s2 /\ t = held'[s2]["live"]
        <5>1. PICK d \in Callers :
                   caller'[d].pc = "inserted" /\ caller'[d].sid = s2 /\ t = held'[s2]["live"]
          BY <4>3
        <5>2. CASE d = c
          BY <1>1, <1>2, <1>4, <1>5, <5>1, <5>2 DEF Guarded, SameCall
        <5>3. CASE d # c
          BY <1>4, <1>5, <1>8, <5>1, <5>3 DEF Guarded, OnlyCaller, AtWork, StartPcs
        <5> QED
          BY <5>2, <5>3
      <4> QED
        BY <2>4, <4>1, <4>2, <4>3 DEF Guarded
    <3>2. ASSUME Sole(t, s2) PROVE Sole(t, s2)'
      <4>1. \A kind \in Service!Kinds : caller[c].hand[kind] = t => s2 = s /\ kind = "live"
        BY <1>2, <3>2 DEF Sole
      <4>2. \A s3 \in Sids : \A kind \in Service!Kinds : held'[s3][kind] = t => s3 = s2 /\ kind = "live"
        BY <1>5, <3>2, <4>1 DEF Sole
      <4> QED
        BY <1>3, <1>4, <3>2, <4>2 DEF Sole, OnlyCaller, SameCall
    <3> QED
      BY <3>1, <3>2
  <2> QED
    BY <1>1, <1>3, <2>1, <2>2, <2>3, <2>4, PtyFrame
<1>13. ASSUME NothingForgotten PROVE LeakInv'
  <2>1. LeakInv
    BY <1>13 DEF LInv
  <2>2. ASSUME NEW x \in Service!Entry, Kept(x) PROVE Kept(x)'
    <3>1. x.sid \in Sids /\ x.kind \in Service!Kinds /\ x.tid # NoToken
      BY LeaseProtocolAssumption DEF Service!Entry, Service!Tokens
    <3>2. held[x.sid][x.kind] = x.tid => held'[x.sid][x.kind] = x.tid
      BY <1>5, <1>7, <3>1, FreeShape
    <3>3. ToGo(x) => ToGo(x)'
      BY <1>3, <1>4, ToGoStays DEF OnlyCaller, SameCall
    <3> QED
      BY <1>3, <2>2, <3>2, <3>3 DEF Kept
  <2>3. ASSUME NEW d \in Callers, NEW x \in tokens, InHand(x, d)
        PROVE  InHand(x, d)' \/ Kept(x)'
    <3>1. CASE d = c
      BY <1>2, <1>5, <2>3, <3>1 DEF InHand, Kept
    <3>2. CASE d # c
      BY <1>4, <2>3, <3>2 DEF InHand, OnlyCaller
    <3> QED
      BY <3>1, <3>2
  <2>4. \A d \in Callers : caller'[d].pc \in {"granted", "register"} => caller'[d] = caller[d]
    BY <1>4 DEF OnlyCaller
  <2>5. UNCHANGED <<tokens, rid, reconciled>> /\ \A e \in Epochs : up'[e] => up[e]
    BY <1>3
  <2>6. /\ \A d \in Callers : caller'[d].pc = "granted" /\ ~caller'[d].fresh => caller'[d] = caller[d]
        /\ \A d \in Callers : caller'[d].pc = "register" =>
             caller'[d] = caller[d] \/ \A x \in caller'[d].snap : Kept(x)'
    BY <2>4
  <2> QED
    BY <1>1, <1>10, <1>11, <2>1, <2>2, <2>3, <2>5, <2>6, LeakFrame
<1> QED
  BY <1>3, <1>10, <1>11, <1>12, <1>13 DEF LInv


\* Session s gives up tokens, and thread th is about to release some of them;
\* the live one only if s has no PTY any more.
LEMMA ForgetPty ==
  ASSUME PInv, PtyInv, UNCHANGED <<tokens, rid, reconciled, outbox>>,
         NEW s \in Sids, NEW th \in Threads, OnlyReleases(th),
         \A s2 \in Sids : s2 # s => held'[s2] = held[s2],
         \A kind \in Service!Kinds : held'[s][kind] \in {held[s][kind], NoToken},
         \A t \in releases'[th].out :
           \/ t = held[s]["active"]
           \/ t = held[s]["live"] /\ \A t2 \in MaybeToken : ~Guarded(t2, s)',
         \A d \in Callers :
           \/ caller'[d] = caller[d]
           \/ /\ caller[d].pc \notin {"spawn", "failed"}
              /\ \/ caller'[d] = Free
                 \/ /\ SameCall(d)
                    /\ \A s2 \in Sids : \A t \in MaybeToken : Guarded(t, s2)' => s2 # caller[d].sid,
         \A s2 \in Sids : phase'[s2] = "new" => phase[s2] = "new",
         \A s2 \in Sids : \A t \in MaybeToken : Guarded(t, s2)' => Guarded(t, s2)
  PROVE  PtyInv'
<1>1. OnlyServed'
  <2>1. \A d \in Callers : caller'[d] = Free \/ SameCall(d)
    BY DEF SameCall
  <2>2. \A d \in Callers : /\ \A kind \in Service!Kinds :
                                caller'[d].hand[kind] # NoToken => reconciled[EpochOf[caller'[d].sid]] = rid
                           /\ caller'[d].snap # {} => reconciled[EpochOf[caller'[d].sid]] = rid
    BY <2>1, FreeShape DEF PtyInv, OnlyServed, SameCall
  <2>3. \A s2 \in Sids : \A kind \in Service!Kinds :
          held'[s2][kind] # NoToken => reconciled[EpochOf[s2]] = rid
    BY DEF PtyInv, OnlyServed
  <2> QED
    BY <2>2, <2>3 DEF OnlyServed
<1>2. NewHasNone'
  <2>1. SUFFICES ASSUME NEW x \in tokens, phase'[x.sid] = "new"
                 PROVE  \E d \in Callers : /\ caller'[d].pc \in {"spawn", "failed"}
                                           /\ caller'[d].sid = x.sid
    BY DEF NewHasNone
  <2>2. PICK d \in Callers : caller[d].pc \in {"spawn", "failed"} /\ caller[d].sid = x.sid
    BY <2>1, TokenShape DEF PtyInv, NewHasNone
  <2> QED
    BY <2>2
<1>3. ASSUME NEW s2 \in Sids, NEW t \in MaybeToken, Guarded(t, s2)', Sole(t, s2), t # NoToken
      PROVE  Sole(t, s2)'
  <2>1. \A s3 \in Sids : \A kind \in Service!Kinds : held'[s3][kind] = t => s3 = s2 /\ kind = "live"
    BY <1>3 DEF Sole
  <2>2. ASSUME NEW d \in Callers, NEW kind \in Service!Kinds, caller'[d].hand[kind] = t
        PROVE  kind = "live" /\ caller'[d].sid = s2 /\ caller'[d].pc \in {"spawn", "inserted"}
    <3>1. CASE caller'[d] = caller[d]
      BY <1>3, <2>2, <3>1 DEF Sole
    <3>2. CASE caller'[d] = Free
      BY <1>3, <2>2, <3>2, FreeShape
    <3>3. CASE /\ SameCall(d)
               /\ \A s3 \in Sids : \A t2 \in MaybeToken : Guarded(t2, s3)' => s3 # caller[d].sid
      <4>1. caller[d].sid = s2
        BY <1>3, <2>2, <3>3 DEF Sole, SameCall
      <4> QED
        BY <1>3, <3>3, <4>1
    <3> QED
      BY <3>1, <3>2, <3>3
  <2>3. t \notin releases'[th].out
    <3>1. SUFFICES ASSUME t \in releases'[th].out PROVE FALSE
      OBVIOUS
    <3>2. t = held[s]["active"] => FALSE
      BY <1>3, BothKinds DEF Sole
    <3>3. t = held[s]["live"] => s2 = s
      BY <1>3, BothKinds DEF Sole
    <3> QED
      BY <1>3, <3>1, <3>2, <3>3
  <2>4. \A u \in Threads : t \notin releases'[u].out
    BY <1>3, <2>3 DEF Sole, OnlyReleases
  <2> QED
    BY <1>3, <2>1, <2>2, <2>4 DEF Sole
<1> QED
  BY <1>1, <1>2, <1>3, PtyFrame

\* What it gives up is released, so nothing is lost.
LEMMA ForgetLeak ==
  ASSUME PInv, PInv', Orderly', LeakInv, UNCHANGED <<tokens, rid, reconciled, up, outbox>>,
         NEW s \in Sids, NEW th \in Threads, OnlyReleases(th), releases[th].out = {},
         SidOf(th)' = s,
         \A s2 \in Sids : s2 # s => held'[s2] = held[s2],
         \A kind \in Service!Kinds :
           held'[s][kind] = held[s][kind] \/ held[s][kind] \in releases'[th].out \cup {NoToken},
         \A d \in Callers :
           \/ caller'[d] = caller[d]
           \/ /\ caller'[d].sid = caller[d].sid \/ releases[d].out = {}
              /\ caller'[d].pc \notin {"granted", "register"}
              /\ caller[d].pc \notin {"spawn", "granted"}
  PROVE  LeakInv'
<1>1. ASSUME NEW x \in Service!Entry, x.epoch = EpochOf[x.sid], Kept(x) PROVE Kept(x)'
  <2>1. x.sid \in Sids /\ x.kind \in Service!Kinds /\ x.tid # NoToken
    BY LeaseProtocolAssumption DEF Service!Entry, Service!Tokens
  <2>2. ASSUME held[x.sid][x.kind] = x.tid, held'[x.sid][x.kind] # x.tid PROVE ToGo(x)'
    <3>1. x.sid = s /\ x.tid \in releases'[th].out
      BY <2>1, <2>2
    <3>2. SidOf(th)' \in Sids /\ EpochOf[SidOf(th)'] = x.epoch
      BY <1>1, <3>1
    <3> QED
      BY <3>1, <3>2, ToGoNew
  <2>3. ToGo(x) => ToGo(x)'
    <3>1. \A d \in Callers : caller'[d].sid = caller[d].sid \/ releases[d].out = {}
      OBVIOUS
    <3>2. \A u \in Threads : releases[u].out \subseteq releases'[u].out
      BY DEF OnlyReleases
    <3> QED
      BY <3>1, <3>2, ToGoStays
  <2> QED
    BY <1>1, <2>2, <2>3 DEF Kept
<1>2. \A d \in Callers : \A x \in tokens : InHand(x, d) => InHand(x, d)'
  BY DEF InHand
<1>3. UNCHANGED <<tokens, rid, reconciled>> /\ \A e \in Epochs : up'[e] => up[e]
  OBVIOUS
<1> QED
  BY <1>1, <1>2, <1>3, LeakFrame


\* The start fails after the insert: the session gives its tokens back.
LEMMA RollbackStep ==
  ASSUME LInv, NEW c \in Callers, Rollback(c)
  PROVE  LInv' /\ UNCHANGED service
<1>1. /\ caller[c].pc = "inserted" /\ releases[c] = Settled /\ releases[c].out = {} /\ c \in Threads
      /\ PInv /\ OwnTypeOK /\ Orderly /\ RecOK(caller[c]) /\ caller[c].sid \in Sids
      /\ up[EpochOf[caller[c].sid]]
  BY InCall DEF Rollback
<1>2. PICK s \in Sids : s = caller[c].sid
  BY <1>1
<1>3. /\ UNCHANGED <<service, up, known, handshook, outbox, tokenAct, counter, pending, monitor>>
      /\ tokens' = tokens /\ rid' = rid /\ reconciled' = reconciled
  BY DEF Rollback, client, service
<1>4. OnlyCaller(c) /\ caller'[c].pc = "unwind" /\ SameCall(c)
  <2>1. "unwind" \in CallerPc
    BY DEF CallerPc
  <2> QED
    BY <1>1, <2>1, GotoShape DEF Rollback
<1>5. /\ held' \in [Sids -> [Service!Kinds -> MaybeToken]] /\ held'[s] = Nothing
      /\ \A s2 \in Sids : s2 # s => held'[s2] = held[s2]
      /\ phase' \in [Sids -> Phase] /\ phase'[s] = "gone"
      /\ \A s2 \in Sids : s2 # s => phase'[s2] = phase[s2]
  <2>1. held' = [held EXCEPT ![s] = Nothing] /\ phase' = [phase EXCEPT ![s] = "gone"]
    BY <1>2 DEF Rollback, SetPhase
  <2> QED
    BY <1>1, <2>1, FreeShape DEF OwnTypeOK, Phase
<1>6. /\ OnlyReleases(c)
      /\ releases'[c].out = {held[s][kind] : kind \in Service!Kinds} \ {NoToken}
  <2>1. {held[s][kind] : kind \in Service!Kinds} \in SUBSET MaybeToken
    BY <1>1 DEF OwnTypeOK
  <2>2. TRUE \in BOOLEAN /\ ThenRelease(c, {held[s][kind] : kind \in Service!Kinds}, TRUE)
    BY <1>2 DEF Rollback
  <2> QED
    BY <1>1, <2>1, <2>2, ThenReleaseShape
<1>7. phase[s] = "starting" /\ monitor[s] = "none"
  BY <1>1, <1>2 DEF Orderly, CallOK, SessionOK
<1>8. \A d \in Callers : d # c /\ AtWork(d) => caller[d].sid # s
  BY <1>1, <1>2 DEF Orderly, CallOK, AtWork, StartPcs, TurnPcs
<1>9. OwnTypeOK'
  BY <1>1, <1>3, <1>4, <1>5, <1>6 DEF OwnTypeOK, OnlyCaller, OnlyReleases
<1>10. PInv'
  <2>1. RecOK(caller'[c])
    BY <1>1, <1>4 DEF RecOK, SameCall
  <2>2. \A s2 \in Sids : \A kind \in Service!Kinds : held'[s2][kind] \in Old
    BY <1>1, <1>5, FreeShape DEF PInv, Old
  <2>3. \A s2 \in Sids : monitor'[s2] = "notify" => counter'[s2] < MaxAct
    BY <1>1, <1>3 DEF PInv
  <2>4. caller'[c].pc # "none" /\ releases'[c].out \subseteq Minted
    BY <1>1, <1>4, <1>6 DEF PInv, Old
  <2>5. \A e \in Epochs : known'[e] \in {known[e], rid, NoRid}
    BY <1>3
  <2>6. \A th \in Threads : th # c => releases'[th] = releases[th]
    BY <1>6 DEF OnlyReleases
  <2> QED
    BY <1>1, <1>3, <1>4, <1>9, <2>1, <2>2, <2>3, <2>4, <2>5, <2>6, BaseQuiet
<1>11. Orderly'
  <2>1. CallOK(c)'
    BY <1>1, <1>2, <1>3, <1>4, <1>5, <1>8
    DEF CallOK, SameCall, OnlyCaller, AtWork, StartPcs, TurnPcs
  <2>2. ASSUME NEW d \in Callers, d # c PROVE CallOK(d)'
    <3>1. CallOK(d) /\ (caller[d].pc \in TurnPcs => caller[d].sid \in pending')
      BY <1>1, <1>3 DEF Orderly, CallOK
    <3>2. AtWork(d) => phase'[caller[d].sid] = phase[caller[d].sid] /\ caller[d].sid # s
      BY <1>1, <1>5, <1>8, <2>2 DEF PInv, RecOK, AtWork, StartPcs, TurnPcs
    <3>3. caller'[c].sid = s /\ up' = up
      BY <1>2, <1>3, <1>4 DEF SameCall
    <3> QED
      BY <1>4, <2>2, <3>1, <3>2, <3>3, OtherCall
  <2>3. ASSUME NEW s2 \in Sids PROVE SessionOK(s2)'
    <3>1. SessionOK(s2) /\ up[EpochOf[s]]
      BY <1>1, <1>2 DEF Orderly
    <3> QED
      BY <1>3, <1>5, <1>7, <3>1 DEF SessionOK
  <2> QED
    BY <2>1, <2>2, <2>3 DEF Orderly
<1>12. ASSUME OneRouter PROVE PtyInv'
  <2>1. PtyInv
    BY <1>12 DEF LInv
  <2>2. \A s2 \in Sids : \A t \in MaybeToken : Guarded(t, s2)' => s2 # s
    BY <1>3, <1>4, <1>7, <1>8 DEF Guarded, HasPty, OnlyCaller, AtWork, StartPcs
  <2>3. \A s2 \in Sids : \A t \in MaybeToken : Guarded(t, s2)' => Guarded(t, s2)
    BY <1>3, <1>4, <1>5, <2>2 DEF Guarded, HasPty, OnlyCaller
  <2>4. \A d \in Callers :
          \/ caller'[d] = caller[d]
          \/ /\ caller[d].pc \notin {"spawn", "failed"} /\ SameCall(d)
             /\ \A s2 \in Sids : \A t \in MaybeToken : Guarded(t, s2)' => s2 # caller[d].sid
    BY <1>1, <1>2, <1>4, <2>2 DEF OnlyCaller
  <2>5. \A t \in releases'[c].out :
          \/ t = held[s]["active"]
          \/ t = held[s]["live"] /\ \A t2 \in MaybeToken : ~Guarded(t2, s)'
    BY <1>6, <2>2, BothKinds
  <2>6. \A kind \in Service!Kinds : held'[s][kind] \in {held[s][kind], NoToken}
    BY <1>5, FreeShape
  <2>7. \A s2 \in Sids : phase'[s2] = "new" => phase[s2] = "new"
    BY <1>5
  <2> QED
    BY <1>1, <1>3, <1>5, <1>6, <2>1, <2>3, <2>4, <2>5, <2>6, <2>7, ForgetPty
<1>13. ASSUME NothingForgotten PROVE LeakInv'
  <2>1. LeakInv
    BY <1>13 DEF LInv
  <2>2. SidOf(c)' = s
    BY <1>2, <1>4 DEF SidOf, SameCall
  <2>3. \A kind \in Service!Kinds :
          held'[s][kind] = held[s][kind] \/ held[s][kind] \in releases'[c].out \cup {NoToken}
    BY <1>6
  <2>4. \A d \in Callers :
          \/ caller'[d] = caller[d]
          \/ /\ caller'[d].sid = caller[d].sid \/ releases[d].out = {}
             /\ caller'[d].pc \notin {"granted", "register"}
             /\ caller[d].pc \notin {"spawn", "granted"}
    BY <1>1, <1>4 DEF OnlyCaller, SameCall
  <2> QED
    BY <1>1, <1>3, <1>5, <1>6, <1>10, <1>11, <2>1, <2>2, <2>3, <2>4, ForgetLeak
<1> QED
  BY <1>3, <1>10, <1>11, <1>12, <1>13 DEF LInv

\* The input was rejected: the released token is forgotten.
LEMMA SendRaisedStep ==
  ASSUME LInv, NEW c \in Callers, SendRaised(c)
  PROVE  LInv' /\ UNCHANGED service
<1>1. /\ caller[c].pc = "raised" /\ releases[c] = Settled /\ releases[c].out = {} /\ c \in Threads
      /\ PInv /\ OwnTypeOK /\ Orderly /\ RecOK(caller[c]) /\ caller[c].sid \in Sids
      /\ up[EpochOf[caller[c].sid]]
  BY InCall DEF SendRaised
<1>2. PICK s \in Sids : s = caller[c].sid
  BY <1>1
<1>3. /\ UNCHANGED <<service, up, known, handshook, outbox, tokenAct, counter, phase, monitor, releases>>
      /\ tokens' = tokens /\ rid' = rid /\ reconciled' = reconciled
      /\ pending' = pending \ {s}
  BY <1>2 DEF SendRaised, client, service
<1>4. OnlyCaller(c) /\ caller'[c] = Free
  BY <1>1, ReturnShape DEF SendRaised
<1>5. /\ held' \in [Sids -> [Service!Kinds -> MaybeToken]]
      /\ \A s2 \in Sids : s2 # s => held'[s2] = held[s2]
      /\ held'[s]["active"] = NoToken /\ held'[s]["live"] = held[s]["live"]
  <2>1. held' = [held EXCEPT ![s]["active"] = NoToken]
    BY <1>2 DEF SendRaised
  <2>2. held \in [Sids -> [Service!Kinds -> MaybeToken]] /\ NoToken \in MaybeToken
    BY <1>1 DEF OwnTypeOK, MaybeToken
  <2> QED
    BY <2>1, <2>2, BothKinds
<1>6. phase[s] # "new" /\ \A d \in Callers : d # c /\ AtWork(d) => caller[d].sid # s
  BY <1>1, <1>2 DEF Orderly, CallOK, AtWork, StartPcs, TurnPcs
<1>7. OwnTypeOK'
  BY <1>1, <1>3, <1>4, <1>5 DEF OwnTypeOK, OnlyCaller
<1>8. PInv'
  <2>1. \A s2 \in Sids : \A kind \in Service!Kinds : held'[s2][kind] \in Old
    BY <1>1, <1>5, BothKinds DEF PInv, Old
  <2>2. \A s2 \in Sids : monitor'[s2] = "notify" => counter'[s2] < MaxAct
    BY <1>1, <1>3 DEF PInv
  <2>3. releases'[c] = Settled /\ releases'[c].out \subseteq Minted
    BY <1>1, <1>3
  <2>4. \A e \in Epochs : known'[e] \in {known[e], rid, NoRid}
    BY <1>3
  <2>5. \A th \in Threads : th # c => releases'[th] = releases[th]
    BY <1>3
  <2> QED
    BY <1>1, <1>3, <1>4, <1>7, <2>1, <2>2, <2>3, <2>4, <2>5, BaseQuiet
<1>9. Orderly'
  <2>1. CallOK(c)' /\ ~AtWork(c)'
    BY <1>4, FreeShape DEF CallOK, AtWork, StartPcs, TurnPcs
  <2>2. ASSUME NEW d \in Callers, d # c PROVE CallOK(d)'
    <3>1. CallOK(d) /\ (caller[d].pc \in TurnPcs => caller[d].sid \in pending')
      BY <1>1, <1>3, <1>6, <2>2 DEF Orderly, CallOK, AtWork
    <3> QED
      BY <1>3, <1>4, <2>1, <2>2, <3>1, OtherCall
  <2>3. ASSUME NEW s2 \in Sids PROVE SessionOK(s2)'
    BY <1>1, <1>3, <1>5, <1>6 DEF Orderly, SessionOK
  <2> QED
    BY <2>1, <2>2, <2>3 DEF Orderly
<1>10. ASSUME OneRouter PROVE PtyInv'
  <2>1. PtyInv
    BY <1>10 DEF LInv
  <2>2. \A s2 \in Sids : \A t \in MaybeToken : Guarded(t, s2)' => Guarded(t, s2)
    BY <1>3, <1>4, <1>5, FreeShape DEF Guarded, HasPty, OnlyCaller
  <2>3. \A d \in Callers :
          caller'[d] = caller[d] \/ (caller[d].pc \notin {"spawn", "failed"} /\ caller'[d] = Free)
    BY <1>1, <1>4 DEF OnlyCaller
  <2>4. \A kind \in Service!Kinds : held'[s][kind] \in {held[s][kind], NoToken}
    BY <1>5, BothKinds
  <2>5. OnlyReleases(c) /\ releases'[c].out = {}
    BY <1>1, <1>3 DEF OwnTypeOK, OnlyReleases
  <2>6. \A s2 \in Sids : phase'[s2] = "new" => phase[s2] = "new"
    BY <1>3
  <2> QED
    BY <1>1, <1>3, <1>5, <2>1, <2>2, <2>3, <2>4, <2>5, <2>6, ForgetPty
<1>11. ~NothingForgotten
  BY <1>1 DEF NothingForgotten, Orderly, CallOK
<1> QED
  BY <1>3, <1>8, <1>9, <1>10, <1>11 DEF LInv


\* A follow-up turn is committed: its token replaces the session's active one.
LEMMA TurnCommitStep ==
  ASSUME LInv, NEW c \in Callers, TurnCommit(c)
  PROVE  LInv' /\ UNCHANGED service
<1>1. /\ caller[c].pc = "granted" /\ releases[c] = Settled /\ releases[c].out = {} /\ c \in Threads
      /\ PInv /\ OwnTypeOK /\ Orderly /\ RecOK(caller[c]) /\ caller[c].sid \in Sids
      /\ up[EpochOf[caller[c].sid]]
  BY InCall DEF TurnCommit
<1>2. PICK s \in Sids : s = caller[c].sid
  BY <1>1
<1>3. /\ UNCHANGED <<service, up, known, handshook, outbox, counter, pending, phase, monitor>>
      /\ tokens' = tokens /\ rid' = rid /\ reconciled' = reconciled
  BY DEF TurnCommit, client, service
<1>4. OnlyCaller(c) /\ caller'[c].pc = "sending" /\ SameCall(c)
  <2>1. "sending" \in CallerPc
    BY DEF CallerPc
  <2> QED
    BY <1>1, <2>1, GotoShape DEF TurnCommit
<1>5. PICK t0 : t0 = caller[c].hand["active"]
  OBVIOUS
<1>6. /\ held' \in [Sids -> [Service!Kinds -> MaybeToken]]
      /\ \A s2 \in Sids : s2 # s => held'[s2] = held[s2]
      /\ held'[s]["active"] = t0 /\ held'[s]["live"] = held[s]["live"]
      /\ t0 \in Old
  <2>1. held' = [held EXCEPT ![s]["active"] = t0]
    BY <1>2, <1>5 DEF TurnCommit
  <2>2. held \in [Sids -> [Service!Kinds -> MaybeToken]] /\ t0 \in MaybeToken /\ t0 \in Old
    BY <1>1, <1>5, BothKinds DEF OwnTypeOK, CallerRec, RecOK
  <2> QED
    BY <2>1, <2>2, BothKinds
<1>7. OnlyReleases(c) /\ releases'[c].out = {held[s]["active"]} \ {NoToken}
  <2>1. {held[s]["active"]} \in SUBSET MaybeToken /\ FALSE \in BOOLEAN
    BY <1>1, BothKinds DEF OwnTypeOK
  <2>2. ThenRelease(c, {held[s]["active"]}, FALSE)
    BY <1>2 DEF TurnCommit
  <2> QED
    BY <1>1, <2>1, <2>2, ThenReleaseShape
<1>8. tokenAct' \in [Sids -> Acts]
  <2>1. tokenAct' = [tokenAct EXCEPT ![s] = caller[c].act] /\ caller[c].act \in Acts
    BY <1>1, <1>2 DEF TurnCommit, OwnTypeOK, CallerRec
  <2> QED
    BY <1>1, <2>1 DEF OwnTypeOK
<1>9. OwnTypeOK'
  BY <1>1, <1>3, <1>4, <1>6, <1>7, <1>8 DEF OwnTypeOK, OnlyCaller, OnlyReleases
<1>10. PInv'
  <2>1. RecOK(caller'[c])
    BY <1>1, <1>4 DEF RecOK, SameCall
  <2>2. \A s2 \in Sids : \A kind \in Service!Kinds : held'[s2][kind] \in Old
    BY <1>1, <1>6, BothKinds DEF PInv
  <2>3. \A s2 \in Sids : monitor'[s2] = "notify" => counter'[s2] < MaxAct
    BY <1>1, <1>3 DEF PInv
  <2>4. caller'[c].pc # "none" /\ releases'[c].out \subseteq Minted
    BY <1>1, <1>4, <1>7, BothKinds DEF PInv, Old
  <2>5. \A e \in Epochs : known'[e] \in {known[e], rid, NoRid}
    BY <1>3
  <2>6. \A th \in Threads : th # c => releases'[th] = releases[th]
    BY <1>7 DEF OnlyReleases
  <2> QED
    BY <1>1, <1>3, <1>4, <1>9, <2>1, <2>2, <2>3, <2>4, <2>5, <2>6, BaseQuiet
<1>11. Orderly'
  <2>1. \A d \in Callers : AtWork(d)' <=> AtWork(d)
    BY <1>1, <1>4 DEF OnlyCaller, AtWork, TurnPcs
  <2>2. \A d \in Callers : caller'[d].sid = caller[d].sid
    BY <1>4 DEF OnlyCaller, SameCall
  <2>3. ASSUME NEW d \in Callers PROVE CallOK(d)'
    <3>1. \/ caller'[d].pc = caller[d].pc /\ caller'[d].hand = caller[d].hand
          \/ caller[d].pc = "granted" /\ caller'[d].pc = "sending"
      BY <1>1, <1>4 DEF OnlyCaller
    <3>2. CallOK(d)
      BY <1>1 DEF Orderly
    <3> QED
      BY <1>3, <2>1, <2>2, <3>1, <3>2 DEF CallOK, TurnPcs
  <2>4. phase[s] # "new" /\ \A s2 \in Sids : SessionOK(s2)
    BY <1>1, <1>2 DEF Orderly, CallOK, TurnPcs
  <2>5. \A s2 \in Sids : SessionOK(s2)'
    BY <1>3, <1>6, <2>4 DEF SessionOK
  <2> QED
    BY <2>3, <2>5 DEF Orderly
<1>12. ASSUME OneRouter PROVE PtyInv'
  <2>1. PtyInv
    BY <1>12 DEF LInv
  <2>2. OnlyServed'
    <3>1. \A d \in Callers : /\ caller'[d].sid = caller[d].sid /\ caller'[d].hand = caller[d].hand
                             /\ caller'[d].snap = caller[d].snap
      BY <1>4 DEF OnlyCaller, SameCall
    <3>2. \A s2 \in Sids : \A kind \in Service!Kinds :
            held'[s2][kind] # NoToken => reconciled[EpochOf[s2]] = rid
      BY <1>2, <1>5, <1>6, <2>1, BothKinds DEF PtyInv, OnlyServed
    <3> QED
      BY <1>3, <2>1, <3>1, <3>2 DEF PtyInv, OnlyServed
  <2>3. NewHasNone'
    BY <1>1, <1>3, <1>4, <2>1 DEF PtyInv, NewHasNone, OnlyCaller
  <2>4. ASSUME NEW s2 \in Sids, NEW t \in MaybeToken, Guarded(t, s2)'
        PROVE  Guarded(t, s2) /\ (Sole(t, s2) /\ t # NoToken => Sole(t, s2)')
    <3>1. Guarded(t, s2)
      BY <1>3, <1>4, <1>6, <2>4 DEF Guarded, HasPty, OnlyCaller
    <3>2. ASSUME Sole(t, s2) PROVE Sole(t, s2)'
      <4>1. t # t0 /\ t # held[s]["active"]
        BY <1>5, <3>2, BothKinds DEF Sole
      <4>2. \A s3 \in Sids : \A kind \in Service!Kinds : held'[s3][kind] = t => s3 = s2 /\ kind = "live"
        BY <1>6, <3>2, <4>1, BothKinds DEF Sole
      <4>3. \A d \in Callers : \A kind \in Service!Kinds :
              caller'[d].hand[kind] = t =>
                kind = "live" /\ caller'[d].sid = s2 /\ caller'[d].pc \in {"spawn", "inserted"}
        BY <1>1, <1>4, <3>2 DEF Sole, OnlyCaller, SameCall
      <4>4. \A th \in Threads : t \notin releases'[th].out
        BY <1>7, <3>2, <4>1 DEF Sole, OnlyReleases
      <4> QED
        BY <1>3, <3>2, <4>2, <4>3, <4>4 DEF Sole
    <3> QED
      BY <3>1, <3>2
  <2> QED
    BY <1>1, <1>3, <2>1, <2>2, <2>3, <2>4, PtyFrame
<1>13. ASSUME NothingForgotten PROVE LeakInv'
  <2>1. LeakInv
    BY <1>13 DEF LInv
  <2>2. ASSUME NEW x \in Service!Entry, x.epoch = EpochOf[x.sid], Kept(x) PROVE Kept(x)'
    <3>1. x.sid \in Sids /\ x.kind \in Service!Kinds /\ x.tid # NoToken
      BY LeaseProtocolAssumption DEF Service!Entry, Service!Tokens
    <3>2. ASSUME held[x.sid][x.kind] = x.tid, held'[x.sid][x.kind] # x.tid PROVE ToGo(x)'
      <4>1. x.sid = s /\ x.tid \in releases'[c].out
        BY <1>6, <1>7, <3>1, <3>2, BothKinds
      <4>2. SidOf(c)' = s
        BY <1>2, <1>4 DEF SidOf, SameCall
      <4>3. SidOf(c)' \in Sids /\ EpochOf[SidOf(c)'] = x.epoch
        BY <2>2, <4>1, <4>2
      <4> QED
        BY <1>1, <4>1, <4>3, ToGoNew
    <3>3. ToGo(x) => ToGo(x)'
      <4>1. \A d \in Callers : caller'[d].sid = caller[d].sid \/ releases[d].out = {}
        BY <1>4 DEF OnlyCaller, SameCall
      <4>2. \A u \in Threads : releases[u].out \subseteq releases'[u].out
        BY <1>1, <1>7 DEF OnlyReleases
      <4> QED
        BY <4>1, <4>2, ToGoStays
    <3> QED
      BY <1>3, <2>2, <3>2, <3>3 DEF Kept
  <2>3. ASSUME NEW d \in Callers, NEW x \in tokens, InHand(x, d)
        PROVE  InHand(x, d)' \/ Kept(x)'
    <3>1. CASE d = c
      <4>1. x.kind \in Service!Kinds /\ x.tid # NoToken /\ caller[c].hand["live"] = NoToken
        BY <1>1, TokenShape DEF Orderly, CallOK
      <4>2. x.kind = "active" /\ x.sid = s /\ x.tid = t0
        BY <1>2, <1>5, <2>3, <3>1, <4>1, BothKinds DEF InHand
      <4> QED
        BY <1>6, <4>2 DEF Kept
    <3>2. CASE d # c
      BY <1>4, <2>3, <3>2 DEF InHand, OnlyCaller
    <3> QED
      BY <3>1, <3>2
  <2>4. UNCHANGED <<tokens, rid, reconciled>> /\ \A e \in Epochs : up'[e] => up[e]
    BY <1>3
  <2>5. \A d \in Callers : caller'[d].pc \in {"granted", "register"} => caller'[d] = caller[d]
    BY <1>4 DEF OnlyCaller
  <2> QED
    BY <1>1, <1>10, <1>11, <2>1, <2>2, <2>3, <2>4, <2>5, LeakFrame
<1> QED
  BY <1>3, <1>10, <1>11, <1>12, <1>13 DEF LInv


\* The service accepts a snapshot: the tokens of the epoch are those in it.
LEMMA SnapshotTaken ==
  ASSUME PInv, NEW e \in Epochs, NEW r, NEW snap \in SUBSET Service!Entry,
         Service!RegisterSnapshot(e, r, snap),
         \A x \in snap : x.tid \in Minted /\ x.epoch = e
  PROVE  /\ Service!Next
         /\ r = rid /\ reconciled[e] # rid /\ rid' = rid /\ minted' = minted
         /\ tokens' = snap \cup {x \in tokens : x.epoch # e}
         /\ \A x \in tokens : x.epoch # e
         /\ reconciled'[e] = rid
         /\ \A e2 \in Epochs : e2 # e => reconciled'[e2] = reconciled[e2]
<1>1. /\ r = rid /\ reconciled[e] # rid /\ rid' = rid /\ minted' = minted
      /\ tokens' = (tokens \ {x \in tokens : x.epoch = e}) \cup snap
      /\ reconciled' = [reconciled EXCEPT ![e] = rid]
  BY DEF Service!RegisterSnapshot, Service!OfEpoch
<1>2. rid \in Service!Rids /\ reconciled \in [Epochs -> Service!Rids \cup {NoRid}]
  BY DEF PInv, Service!IInv, Service!TypeOK
<1>3. snap \in SUBSET {x \in Service!OfEpoch(Service!Entry, e) : x.tid <= minted}
  <2>1. \A x \in snap : x.tid <= minted
    BY TokenShape DEF Minted
  <2> QED
    BY <2>1 DEF Service!OfEpoch
<1>4. Service!Next
  BY <1>1, <1>2, <1>3 DEF Service!Next
<1>5. \A x \in tokens : x.epoch # e
  BY <1>1 DEF PInv, Service!IInv, Service!Registered
<1> QED
  BY <1>1, <1>2, <1>4, <1>5

\* The call that registered a snapshot returns.
LEMMA RegisterNew ==
  ASSUME LInv, NEW c \in Callers, At(c, "register"), NEW s \in Sids, s = caller[c].sid,
         NEW e \in Epochs, e = EpochOf[s],
         Service!RegisterSnapshot(e, caller[c].rid, caller[c].snap),
         Goto(c, "return") \/ (Return(c) /\ releases' = releases),
         OnlyReleases(c), releases'[c].out = {},
         \A e2 \in Epochs : known'[e2] \in {known[e2], rid},
         known' \in [Epochs -> MaybeRid], handshook' \in [Epochs -> MaybeRid],
         UNCHANGED <<up, outbox, sessions, monitor>>
  PROVE  LInv' /\ Service!Next
<1>1. /\ caller[c].pc = "register" /\ releases[c] = Settled /\ releases[c].out = {}
      /\ PInv /\ OwnTypeOK /\ Orderly /\ RecOK(caller[c]) /\ c \in Threads
  BY InCall
<1>2. /\ OnlyCaller(c)
      /\ \/ caller'[c].pc = "return" /\ SameCall(c)
         \/ caller'[c] = Free /\ releases' = releases
  <2>1. "return" \in CallerPc
    BY DEF CallerPc
  <2> QED
    BY <1>1, <2>1, GotoShape, ReturnShape
<1>3. UNCHANGED <<held, tokenAct, counter, pending, phase>>
  BY DEF sessions
<1>4. OwnTypeOK'
  BY <1>1, <1>2, <1>3 DEF OwnTypeOK, OnlyCaller, OnlyReleases
<1>5. PICK snap \in SUBSET Service!Entry : snap = caller[c].snap
  BY <1>1 DEF OwnTypeOK, CallerRec
<1>6. \A x \in snap : x.tid \in Minted /\ x.epoch = e /\ x.epoch = EpochOf[x.sid]
  BY <1>1, <1>5 DEF RecOK
<1>7. /\ Service!Next
      /\ caller[c].rid = rid /\ reconciled[e] # rid /\ rid' = rid /\ minted' = minted
      /\ tokens' = snap \cup {x \in tokens : x.epoch # e}
      /\ \A x \in tokens : x.epoch # e
      /\ reconciled'[e] = rid
      /\ \A e2 \in Epochs : e2 # e => reconciled'[e2] = reconciled[e2]
  BY <1>1, <1>5, <1>6, SnapshotTaken
<1>8. PInv'
  <2>1. Minted' = Minted /\ Old' = Old /\ Past' = Past
    BY <1>7 DEF Minted, Old, Past
  <2>2. \A x \in tokens' : x \in tokens \/ x.epoch = EpochOf[x.sid]
    BY <1>6, <1>7
  <2>3. \A e2 \in Epochs : known'[e2] \in {known[e2], rid, NoRid} /\ outbox'[e2] \subseteq Minted'
    BY <1>1, <2>1 DEF PInv
  <2>4. \A s2 \in Sids : \A kind \in Service!Kinds : held'[s2][kind] \in Old'
    BY <1>1, <1>3, <2>1 DEF PInv
  <2>5. \A th \in Threads : releases'[th].out \subseteq Minted'
    BY <1>1, <2>1 DEF PInv, OnlyReleases
  <2>6. \A d \in Callers : /\ caller'[d] = caller[d] \/ RecOK(caller[d])'
                           /\ caller'[d].pc = "none" => releases'[d] = Settled
    <3>1. RecOK(caller'[c])
      <4>1. CASE caller'[c] = Free
        BY <4>1, FreeShape DEF RecOK, Old, Past
      <4>2. CASE caller'[c].pc = "return" /\ SameCall(c)
        BY <1>1, <4>2 DEF RecOK, SameCall
      <4> QED
        BY <1>2, <4>1, <4>2
    <3>2. RecOK(caller[c])'
      BY <2>1, <3>1 DEF RecOK
    <3>3. caller'[c].pc = "none" => releases'[c] = Settled
      BY <1>1, <1>2
    <3> QED
      BY <1>1, <1>2, <3>2, <3>3 DEF PInv, OnlyCaller, OnlyReleases, Threads
  <2>7. \A s2 \in Sids : monitor'[s2] = "notify" => counter'[s2] < MaxAct
    BY <1>1, <1>3 DEF PInv
  <2> QED
    BY <1>1, <1>4, <1>7, <2>2, <2>3, <2>4, <2>5, <2>6, <2>7, BaseFrame
<1>9. Orderly'
  <2>1. ~AtWork(c)' /\ CallOK(c)'
    BY <1>1, <1>2, FreeShape DEF Orderly, CallOK, AtWork, StartPcs, TurnPcs, SameCall
  <2>2. ASSUME NEW d \in Callers, d # c PROVE CallOK(d)'
    <3>1. CallOK(d) /\ (caller[d].pc \in TurnPcs => caller[d].sid \in pending') /\ up' = up
      BY <1>1, <1>3 DEF Orderly, CallOK
    <3> QED
      BY <1>2, <1>3, <2>1, <2>2, <3>1, OtherCall
  <2>3. \A s2 \in Sids : SessionOK(s2)'
    BY <1>1, <1>3 DEF Orderly, SessionOK
  <2> QED
    BY <2>1, <2>2, <2>3 DEF Orderly
<1>10. ASSUME OneRouter PROVE PtyInv'
  <2>1. PtyInv
    BY <1>10 DEF LInv
  <2>2. tokens' = tokens
    BY <1>5, <1>7, <2>1 DEF PtyInv, OnlyServed
  <2>3. \A e2 \in Epochs : reconciled[e2] = rid => reconciled'[e2] = rid'
    BY <1>7
  <2>4. OnlyServed'
    <3>1. \A d \in Callers :
            \/ /\ caller'[d].sid = caller[d].sid /\ caller'[d].hand = caller[d].hand
               /\ caller'[d].snap = caller[d].snap
            \/ caller'[d] = Free
      BY <1>2 DEF OnlyCaller, SameCall
    <3>2. \A d \in Callers : caller[d].pc # "none" => EpochOf[caller[d].sid] \in Epochs
      BY <1>1, LeaseProtocolAssumption DEF PInv, RecOK
    <3>3. \A d \in Callers : caller[d].pc = "none" => caller[d] = Free
      BY <1>1 DEF PInv, RecOK
    <3>4. ASSUME NEW d \in Callers
          PROVE  /\ \A kind \in Service!Kinds :
                      caller'[d].hand[kind] # NoToken => reconciled'[EpochOf[caller'[d].sid]] = rid'
                 /\ caller'[d].snap # {} => reconciled'[EpochOf[caller'[d].sid]] = rid'
      <4>1. CASE caller'[d] = Free \/ caller[d] = Free
        BY <3>1, <4>1, FreeShape
      <4>2. CASE caller'[d] # Free /\ caller[d] # Free
        <5>1. EpochOf[caller[d].sid] \in Epochs
          BY <3>2, <3>3, <4>2
        <5> QED
          BY <2>1, <2>3, <3>1, <4>2, <5>1 DEF PtyInv, OnlyServed
      <4> QED
        BY <4>1, <4>2
    <3>5. \A s2 \in Sids : \A kind \in Service!Kinds :
            held'[s2][kind] # NoToken => reconciled'[EpochOf[s2]] = rid'
      BY <1>3, <2>1, <2>3, LeaseProtocolAssumption DEF PtyInv, OnlyServed
    <3> QED
      BY <3>4, <3>5 DEF OnlyServed
  <2>5. NewHasNone'
    BY <1>1, <1>2, <1>3, <2>1, <2>2 DEF PtyInv, NewHasNone, OnlyCaller
  <2>6. ASSUME NEW s2 \in Sids, NEW t \in MaybeToken, Guarded(t, s2)'
        PROVE  Guarded(t, s2) /\ (Sole(t, s2) /\ t # NoToken => Sole(t, s2)')
    <3>1. Guarded(t, s2)
      BY <1>2, <1>3, <2>6, FreeShape DEF Guarded, HasPty, OnlyCaller
    <3>2. ASSUME Sole(t, s2), t # NoToken PROVE Sole(t, s2)'
      <4>1. \A kind \in Service!Kinds : caller'[c].hand[kind] # t
        BY <1>1, <1>2, <3>2, FreeShape DEF Sole, SameCall
      <4>2. \A th \in Threads : t \notin releases'[th].out
        BY <3>2 DEF Sole, OnlyReleases
      <4> QED
        BY <1>2, <1>3, <3>2, <4>1, <4>2 DEF Sole, OnlyCaller
    <3> QED
      BY <3>1, <3>2
  <2> QED
    BY <1>1, <2>1, <2>2, <2>4, <2>5, <2>6, PtyFrame
<1>11. ASSUME NothingForgotten PROVE LeakInv'
  <2>1. LeakInv
    BY <1>11 DEF LInv
  <2>2. ASSUME NEW x, Kept(x) PROVE Kept(x)'
    <3>1. ToGo(x) => ToGo(x)'
      <4>1. \A d \in Callers : caller'[d].sid = caller[d].sid \/ releases[d].out = {}
        BY <1>1, <1>2 DEF OnlyCaller, SameCall
      <4>2. \A u \in Threads : releases[u].out \subseteq releases'[u].out
        BY <1>1 DEF OnlyReleases
      <4> QED
        BY <4>1, <4>2, ToGoStays
    <3> QED
      BY <1>3, <2>2, <3>1 DEF Kept
  <2>3. \A x \in snap : Kept(x)
    BY <1>1, <1>5, <1>7, <2>1 DEF LeakInv
  <2>4. ASSUME NEW x \in tokens', up'[x.epoch] PROVE Kept(x)' \/ \E d \in Callers : InHand(x, d)'
    <3>1. CASE x \in snap
      BY <2>2, <2>3, <3>1
    <3>2. CASE x \notin snap
      <4>1. x \in tokens /\ up[x.epoch]
        BY <1>7, <2>4, <3>2
      <4>2. Kept(x) \/ \E d \in Callers : InHand(x, d)
        BY <2>1, <4>1 DEF LeakInv
      <4>3. \A d \in Callers : InHand(x, d) => InHand(x, d)'
        BY <1>1, <1>2 DEF InHand, OnlyCaller
      <4> QED
        BY <2>2, <4>2, <4>3
    <3> QED
      BY <3>1, <3>2
  <2>5. ASSUME NEW d \in Callers, caller'[d].pc = "granted", ~caller'[d].fresh,
               NEW x \in tokens', InHand(x, d)'
        PROVE  Kept(x)'
    <3>1. CASE x \in snap
      BY <2>2, <2>3, <3>1
    <3>2. CASE x \notin snap
      <4>1. x \in tokens /\ d # c
        BY <1>2, <1>7, <2>5, <3>2, FreeShape
      <4>2. caller'[d] = caller[d] /\ InHand(x, d)
        BY <1>2, <2>5, <4>1 DEF InHand, OnlyCaller
      <4> QED
        BY <2>1, <2>2, <2>5, <4>1, <4>2 DEF LeakInv
    <3> QED
      BY <3>1, <3>2
  <2>6. ASSUME NEW d \in Callers, caller'[d].pc = "register", caller'[d].rid = rid',
               reconciled'[EpochOf[caller'[d].sid]] # rid', NEW x \in caller'[d].snap
        PROVE  Kept(x)'
    <3>1. d # c
      BY <1>2, <2>6, FreeShape
    <3>2. caller'[d] = caller[d]
      BY <1>2, <3>1 DEF OnlyCaller
    <3>3. caller[d].sid \in Sids /\ EpochOf[caller[d].sid] \in Epochs
      BY <1>1, <2>6, <3>2, LeaseProtocolAssumption DEF PInv, RecOK
    <3>4. reconciled[EpochOf[caller[d].sid]] # rid
      BY <1>7, <2>6, <3>2, <3>3
    <3> QED
      BY <1>7, <2>1, <2>2, <2>6, <3>2, <3>4 DEF LeakInv
  <2> QED
    BY <2>4, <2>5, <2>6 DEF LeakInv
<1> QED
  BY <1>7, <1>8, <1>9, <1>10, <1>11 DEF LInv

LEMMA RegisterStep ==
  ASSUME LInv, NEW c \in Callers, Register(c)
  PROVE  LInv' /\ (Service!Next \/ UNCHANGED service)
<1>1. At(c, "register") /\ UNCHANGED <<up, outbox, sessions, monitor>>
  BY DEF Register
<1>2. PInv /\ OwnTypeOK /\ releases[c].out = {} /\ c \in Threads /\ caller[c].rid \in MaybeRid
  BY <1>1, InCall DEF OwnTypeOK, CallerRec
<1>3. PICK s \in Sids, e \in Epochs : s = caller[c].sid /\ e = EpochOf[s]
  <2>1. caller[c].sid \in Sids
    BY <1>1, InCall
  <2> QED
    BY <2>1, LeaseProtocolAssumption
<1>4. /\ known' \in [Epochs -> MaybeRid] /\ handshook' \in [Epochs -> MaybeRid]
      /\ \A e2 \in Epochs : known'[e2] \in {known[e2], rid}
  <2>1. Learn(e) \/ UNCHANGED known
    BY <1>3 DEF Register
  <2>2. known' \in [Epochs -> MaybeRid] /\ \A e2 \in Epochs : known'[e2] \in {known[e2], rid}
    BY <1>2, <2>1, LearnShape DEF OwnTypeOK
  <2>3. handshook' = [handshook EXCEPT ![e] = caller[c].rid] \/ UNCHANGED handshook
    BY <1>3 DEF Register
  <2> QED
    BY <1>2, <2>2, <2>3 DEF OwnTypeOK
<1>5. /\ OnlyReleases(c) /\ releases'[c].out = {}
      /\ Goto(c, "return") \/ (Return(c) /\ releases' = releases)
  <2>1. (ThenRelease(c, {}, TRUE) /\ Goto(c, "return")) \/ (Return(c) /\ releases' = releases)
    BY DEF Register
  <2>2. ThenRelease(c, {}, TRUE) => OnlyReleases(c) /\ releases'[c].out = {}
    BY <1>2, RetryShape
  <2>3. releases' = releases => OnlyReleases(c) /\ releases'[c].out = {}
    BY <1>2 DEF OwnTypeOK, OnlyReleases
  <2> QED
    BY <2>1, <2>2, <2>3
<1>6. UNCHANGED service \/ Service!RegisterSnapshot(e, caller[c].rid, caller[c].snap)
  BY <1>3 DEF Register
<1>7. CASE UNCHANGED service
  <2>1. UNCHANGED <<service, up, outbox, held, tokenAct, counter, phase, monitor>> /\ pending' = pending
    BY <1>1, <1>7 DEF sessions
  <2> QED
    BY <1>1, <1>4, <1>5, <1>7, <2>1, Leave
<1>8. CASE Service!RegisterSnapshot(e, caller[c].rid, caller[c].snap)
  BY <1>1, <1>3, <1>4, <1>5, <1>8, RegisterNew
<1> QED
  BY <1>6, <1>7, <1>8


-----------------------------------------------------------------------------
(* The steps of the monitor threads                                        *)

\* A monitor thread is named by its session.
LEMMA MonitorThread ==
  ASSUME NEW s \in Sids
  PROVE  s \in Threads /\ s \notin Callers /\ SidOf(s) = s /\ SidOf(s)' = s
BY LeaseProtocolAssumption DEF Threads, SidOf

\* A step of a monitor thread that gives tokens back at most.
LEMMA QuietMonitor ==
  ASSUME LInv, NEW s \in Sids, Ready(s), monitor[s] \notin {"none", "over"}, OwnTypeOK',
         UNCHANGED <<service, client, pending, caller>>, OnlyReleases(s),
         \A s2 \in Sids : s2 # s => /\ phase'[s2] = phase[s2] /\ monitor'[s2] = monitor[s2]
                                    /\ held'[s2] = held[s2] /\ counter'[s2] = counter[s2],
         phase'[s] \notin {"new", "starting"}, phase[s] = "gone" => phase'[s] = "gone",
         monitor'[s] = "notify" => counter'[s] < MaxAct,
         \A kind \in Service!Kinds : held'[s][kind] \in {held[s][kind], NoToken},
         \A t \in releases'[s].out :
           t # NoToken /\ (t = held[s]["active"] \/ (t = held[s]["live"] /\ ~HasPty(s)')),
         HasPty(s)' => HasPty(s) /\ held'[s]["live"] = held[s]["live"],
         NothingForgotten => \A kind \in Service!Kinds :
           held'[s][kind] = held[s][kind] \/ held[s][kind] \in releases'[s].out \cup {NoToken}
  PROVE  LInv'
<1>1. /\ PInv /\ OwnTypeOK /\ Orderly /\ releases[s].out = {}
      /\ s \in Threads /\ s \notin Callers /\ SidOf(s)' = s
  BY FreeShape, MonitorThread DEF LInv, PInv, Ready
<1>2. /\ UNCHANGED <<up, known, outbox>>
      /\ tokens' = tokens /\ rid' = rid /\ reconciled' = reconciled
  BY DEF service, client
<1>3. Minted' = Minted /\ Old' = Old
  BY <1>1, QuietFrame
<1>4. phase[s] \notin {"new", "starting"} /\ up[EpochOf[s]]
  BY <1>1 DEF Orderly, SessionOK
<1>5. PInv'
  <2>1. \A s2 \in Sids : \A kind \in Service!Kinds : held'[s2][kind] \in Old'
    BY <1>1, <1>3 DEF PInv, Old
  <2>2. \A th \in Threads : releases'[th].out \subseteq Minted'
    BY <1>1, <1>3, BothKinds DEF PInv, Old, OnlyReleases
  <2>3. \A d \in Callers : /\ caller'[d] = caller[d] \/ RecOK(caller[d])'
                           /\ caller'[d].pc = "none" => releases'[d] = Settled
    BY <1>1 DEF PInv, OnlyReleases, Threads
  <2>4. \A s2 \in Sids : monitor'[s2] = "notify" => counter'[s2] < MaxAct
    BY <1>1 DEF PInv
  <2>5. \A e \in Epochs : known'[e] \in {known[e], rid, NoRid} /\ outbox'[e] \subseteq Minted'
    BY <1>1, <1>2, <1>3 DEF PInv
  <2>6. \A x \in tokens' : x \in tokens \/ x.epoch = EpochOf[x.sid]
    BY <1>2
  <2> QED
    BY <1>1, <2>1, <2>2, <2>3, <2>4, <2>5, <2>6, BaseFrame
<1>6. Orderly'
  <2>1. ASSUME NEW d \in Callers PROVE CallOK(d)'
    <3>1. CallOK(d) /\ caller'[d] = caller[d] /\ up' = up /\ pending' = pending
      BY <1>1, <1>2 DEF Orderly
    <3>2. \A d2 \in Callers : (AtWork(d2)' <=> AtWork(d2)) /\ caller'[d2] = caller[d2]
      BY DEF AtWork
    <3>3. caller[d].pc # "none" => caller[d].sid \in Sids
      BY <1>1 DEF PInv, RecOK
    <3>4. CASE caller[d].sid = s
      BY <1>4, <3>1, <3>2, <3>4 DEF CallOK
    <3>5. CASE caller[d].sid # s /\ caller[d].pc # "none"
      BY <3>1, <3>2, <3>3, <3>5 DEF CallOK
    <3>6. CASE caller[d].pc = "none"
      BY <3>1, <3>6 DEF CallOK, AtWork, StartPcs, TurnPcs
    <3> QED
      BY <3>4, <3>5, <3>6
  <2>2. \A s2 \in Sids : SessionOK(s2)'
    BY <1>1, <1>2, <1>4 DEF Orderly, SessionOK
  <2> QED
    BY <2>1, <2>2 DEF Orderly
<1>7. \A d \in Callers : caller[d].pc \in {"spawn", "inserted"} => caller[d].sid # s
  BY <1>1, <1>4 DEF Orderly, CallOK
<1>8. ASSUME OneRouter PROVE PtyInv'
  <2>1. PtyInv
    BY <1>8 DEF LInv
  <2>2. \A s2 \in Sids : \A t \in MaybeToken : Guarded(t, s2)' => Guarded(t, s2)
    BY <1>7 DEF Guarded, HasPty
  <2>3. ~HasPty(s)' => \A t \in MaybeToken : ~Guarded(t, s)'
    BY <1>7 DEF Guarded
  <2>4. \A s2 \in Sids : phase'[s2] = "new" => phase[s2] = "new"
    OBVIOUS
  <2>5. \A d \in Callers : caller'[d] = caller[d]
    OBVIOUS
  <2>6. \A t \in releases'[s].out :
           \/ t = held[s]["active"]
           \/ t = held[s]["live"] /\ \A t2 \in MaybeToken : ~Guarded(t2, s)'
    BY <2>3
  <2> QED
    BY <1>1, <1>2, <2>1, <2>2, <2>4, <2>5, <2>6, ForgetPty
<1>9. ASSUME NothingForgotten PROVE LeakInv'
  <2>1. LeakInv
    BY <1>9 DEF LInv
  <2>2. \A kind \in Service!Kinds :
          held'[s][kind] = held[s][kind] \/ held[s][kind] \in releases'[s].out \cup {NoToken}
    BY <1>9
  <2>3. \A d \in Callers : caller'[d] = caller[d]
    OBVIOUS
  <2> QED
    BY <1>1, <1>2, <1>5, <1>6, <2>1, <2>2, <2>3, ForgetLeak
<1> QED
  BY <1>5, <1>6, <1>8, <1>9 DEF LInv

\* A step of the monitor that moves the session on and touches no token.
LEMMA MovesOn ==
  ASSUME LInv, NEW s \in Sids, MonitorAt(s, "run"), NEW p \in Phase, NEW q \in MonitorPc,
         phase' = [phase EXCEPT ![s] = p], monitor' = [monitor EXCEPT ![s] = q],
         p \notin {"new", "starting"}, phase[s] # "gone",
         q \in {"run", "unpersisted"} \/ (q = "notify" /\ counter[s] < MaxAct),
         UNCHANGED <<service, client, held, tokenAct, counter, pending, caller, releases>>
  PROVE  LInv'
<1>1. OwnTypeOK /\ monitor[s] = "run" /\ Ready(s) /\ releases[s].out = {} /\ s \in Threads
  BY FreeShape, MonitorThread DEF LInv, PInv, MonitorAt, Ready
<1>2. /\ phase' \in [Sids -> Phase] /\ monitor' \in [Sids -> MonitorPc]
      /\ phase'[s] = p /\ monitor'[s] = q
      /\ \A s2 \in Sids : s2 # s => phase'[s2] = phase[s2] /\ monitor'[s2] = monitor[s2]
  BY <1>1 DEF OwnTypeOK
<1>3. OwnTypeOK'
  BY <1>1, <1>2 DEF OwnTypeOK, client
<1>4. OnlyReleases(s) /\ releases'[s].out = {}
  BY <1>1 DEF OwnTypeOK, OnlyReleases
<1>5. HasPty(s)' => HasPty(s) /\ held'[s]["live"] = held[s]["live"]
  BY <1>1 DEF HasPty
<1>6. /\ monitor'[s] = "notify" => counter'[s] < MaxAct
      /\ phase'[s] \notin {"new", "starting"} /\ (phase[s] = "gone" => phase'[s] = "gone")
  BY <1>2
<1>7. \A s2 \in Sids : s2 # s => /\ phase'[s2] = phase[s2] /\ monitor'[s2] = monitor[s2]
                                 /\ held'[s2] = held[s2] /\ counter'[s2] = counter[s2]
  BY <1>2
<1>8. UNCHANGED <<service, client, pending, caller>>
  OBVIOUS
<1> QED
  BY <1>1, <1>3, <1>4, <1>5, <1>6, <1>7, <1>8, QuietMonitor

LEMMA TurnOverSteps ==
  ASSUME LInv, NEW s \in Sids, TurnDone(s) \/ TurnDoneByHook(s) \/ TurnByHook(s) \/ PersistFails(s)
  PROVE  LInv' /\ UNCHANGED service
<1>1. OwnTypeOK /\ {"busy", "idle", "closing", "popped"} \subseteq Phase
      /\ {"run", "notify", "unpersisted"} \subseteq MonitorPc
  BY DEF LInv, PInv, Phase, MonitorPc
<1>2. CASE TurnDone(s)
  BY <1>1, <1>2, MovesOn DEF TurnDone, SetPhase, MonitorGoto, MonitorAt
<1>3. CASE TurnDoneByHook(s) \/ TurnByHook(s)
  <2>1. MonitorAt(s, "run") /\ phase[s] \in {"busy", "idle"}
        /\ \E p \in {"busy", "idle"} : phase' = [phase EXCEPT ![s] = p]
        /\ UNCHANGED <<service, client, held, tokenAct, counter, pending, caller, releases>>
        /\ monitor' = monitor
    BY <1>3 DEF TurnDoneByHook, TurnByHook, SetPhase, threads
  <2>2. monitor' = [monitor EXCEPT ![s] = "run"]
    BY <1>1, <2>1 DEF MonitorAt, OwnTypeOK
  <2> QED
    BY <1>1, <2>1, <2>2, MovesOn
<1>4. CASE PersistFails(s)
  <2>1. MonitorAt(s, "run") /\ phase[s] \in {"busy", "idle", "popped"}
        /\ \E p \in {"popped", "closing"} : phase' = [phase EXCEPT ![s] = p]
        /\ UNCHANGED <<service, client, held, tokenAct, counter, pending, caller, releases>>
        /\ monitor' = [monitor EXCEPT ![s] = "unpersisted"]
    BY <1>4 DEF PersistFails, Ends, MonitorGoto
  <2> QED
    BY <1>1, <2>1, MovesOn
<1> QED
  BY <1>2, <1>3, <1>4 DEF TurnDone, TurnDoneByHook, TurnByHook, PersistFails


\* The session goes idle: its active token is given back.
LEMMA OnIdleStep ==
  ASSUME LInv, NEW s \in Sids, OnIdle(s)
  PROVE  LInv' /\ UNCHANGED service
<1>1. /\ PInv /\ OwnTypeOK /\ Orderly /\ monitor[s] = "notify" /\ Ready(s)
      /\ releases[s].out = {} /\ s \in Threads /\ counter[s] < MaxAct
  BY FreeShape, MonitorThread DEF LInv, PInv, OnIdle, MonitorAt, Ready
<1>2. UNCHANGED <<service, client, tokenAct, pending, phase, caller>>
  BY DEF OnIdle
<1>3. /\ held' \in [Sids -> [Service!Kinds -> MaybeToken]]
      /\ \A s2 \in Sids : s2 # s => held'[s2] = held[s2]
      /\ held'[s]["active"] = NoToken /\ held'[s]["live"] = held[s]["live"]
  <2>1. held' = [held EXCEPT ![s]["active"] = NoToken]
    BY DEF OnIdle, IdleReleases
  <2>2. held \in [Sids -> [Service!Kinds -> MaybeToken]] /\ NoToken \in MaybeToken
    BY <1>1 DEF OwnTypeOK, MaybeToken
  <2> QED
    BY <2>1, <2>2, BothKinds
<1>4. /\ counter' \in [Sids -> Acts] /\ \A s2 \in Sids : s2 # s => counter'[s2] = counter[s2]
  <2>1. counter' = [counter EXCEPT ![s] = IF phase[s] = "popped" THEN @ ELSE @ + 1]
    BY DEF OnIdle
  <2>2. counter[s] \in Acts /\ counter[s] + 1 \in Acts
    BY <1>1, LeaseProtocolAssumption DEF OwnTypeOK, Acts
  <2> QED
    BY <1>1, <2>1, <2>2 DEF OwnTypeOK
<1>5. /\ monitor' \in [Sids -> MonitorPc] /\ monitor'[s] = "run"
      /\ \A s2 \in Sids : s2 # s => monitor'[s2] = monitor[s2]
  BY <1>1 DEF OwnTypeOK, OnIdle, MonitorGoto, MonitorPc
<1>6. OnlyReleases(s) /\ releases'[s].out = {held[s]["active"]} \ {NoToken}
  <2>1. {held[s]["active"]} \in SUBSET MaybeToken /\ FALSE \in BOOLEAN
    BY <1>1, BothKinds DEF OwnTypeOK
  <2>2. ThenRelease(s, {held[s]["active"]}, FALSE)
    BY DEF OnIdle, IdleReleases
  <2> QED
    BY <1>1, <2>1, <2>2, ThenReleaseShape
<1>7. OwnTypeOK'
  BY <1>1, <1>2, <1>3, <1>4, <1>5, <1>6 DEF OwnTypeOK, OnlyReleases, client
<1>8. phase'[s] \notin {"new", "starting"} /\ (phase[s] = "gone" => phase'[s] = "gone")
  BY <1>1, <1>2 DEF Orderly, SessionOK
<1>9. HasPty(s)' => HasPty(s) /\ held'[s]["live"] = held[s]["live"]
  BY <1>1, <1>3 DEF HasPty
<1>10. \A kind \in Service!Kinds :
         /\ held'[s][kind] \in {held[s][kind], NoToken}
         /\ held'[s][kind] = held[s][kind] \/ held[s][kind] \in releases'[s].out \cup {NoToken}
  BY <1>3, <1>6, BothKinds
<1>11. \A t \in releases'[s].out :
         t # NoToken /\ (t = held[s]["active"] \/ (t = held[s]["live"] /\ ~HasPty(s)'))
  BY <1>6
<1>12. /\ \A s2 \in Sids : s2 # s => /\ phase'[s2] = phase[s2] /\ monitor'[s2] = monitor[s2]
                                     /\ held'[s2] = held[s2] /\ counter'[s2] = counter[s2]
       /\ monitor'[s] = "notify" => counter'[s] < MaxAct
  BY <1>2, <1>3, <1>4, <1>5
<1> QED
  BY <1>1, <1>2, <1>6, <1>7, <1>8, <1>9, <1>10, <1>11, <1>12, QuietMonitor

\* What a session that ends gives back: both tokens, or, when it has no
\* active one, nothing; or it forgets them.
EndOut(s, out) ==
  /\ held' \in {held, [held EXCEPT ![s] = Nothing]}
  /\ out \in {{}, {held[s]["active"], held[s]["live"]}}
  /\ OnlyReleases(s) /\ releases'[s].out = out \ {NoToken}
  /\ NothingForgotten /\ held' # held => out # {}

LEMMA EndsStep ==
  ASSUME LInv, NEW s \in Sids, Ready(s), monitor[s] \in {"run", "persisted", "unpersisted"},
         NEW out, EndOut(s, out),
         NEW p \in Phase, NEW q \in {"persisted", "over"},
         phase' = [phase EXCEPT ![s] = p], monitor' = [monitor EXCEPT ![s] = q],
         p \notin {"new", "starting"}, phase[s] = "gone" => p = "gone",
         UNCHANGED <<service, client, tokenAct, counter, pending, caller>>
  PROVE  LInv'
<1>1. PInv /\ OwnTypeOK /\ Orderly /\ releases[s].out = {} /\ s \in Threads
  BY FreeShape, MonitorThread DEF LInv, PInv, Ready
<1>2. /\ held' \in [Sids -> [Service!Kinds -> MaybeToken]]
      /\ \A s2 \in Sids : s2 # s => held'[s2] = held[s2]
      /\ held'[s] = held[s] \/ (held'[s] = Nothing /\ held' = [held EXCEPT ![s] = Nothing])
  <2>1. held' = held \/ held' = [held EXCEPT ![s] = Nothing]
    BY DEF EndOut
  <2> QED
    BY <1>1, <2>1, FreeShape DEF OwnTypeOK
<1>3. /\ phase' \in [Sids -> Phase] /\ phase'[s] = p
      /\ \A s2 \in Sids : s2 # s => phase'[s2] = phase[s2]
  BY <1>1 DEF OwnTypeOK
<1>4. /\ monitor' \in [Sids -> MonitorPc] /\ monitor'[s] = q
      /\ \A s2 \in Sids : s2 # s => monitor'[s2] = monitor[s2]
  <2>1. q \in MonitorPc
    BY DEF MonitorPc
  <2> QED
    BY <1>1, <2>1 DEF OwnTypeOK
<1>5. OnlyReleases(s) /\ releases'[s].out = out \ {NoToken}
  BY DEF EndOut
<1>6. OwnTypeOK'
  BY <1>1, <1>2, <1>3, <1>4, <1>5 DEF OwnTypeOK, OnlyReleases, client
<1>7. ~HasPty(s)' /\ monitor'[s] # "notify"
  BY <1>4 DEF HasPty
<1>8. \A kind \in Service!Kinds : held'[s][kind] \in {held[s][kind], NoToken}
  BY <1>2, FreeShape
<1>9. \A t \in releases'[s].out :
        t # NoToken /\ (t = held[s]["active"] \/ (t = held[s]["live"] /\ ~HasPty(s)'))
  BY <1>5, <1>7 DEF EndOut
<1>10. ASSUME NothingForgotten, NEW kind \in Service!Kinds
       PROVE  held'[s][kind] = held[s][kind] \/ held[s][kind] \in releases'[s].out \cup {NoToken}
  <2>1. held' = held \/ out = {held[s]["active"], held[s]["live"]}
    BY <1>10 DEF EndOut
  <2> QED
    BY <1>5, <2>1, BothKinds
<1>11. /\ \A s2 \in Sids : s2 # s => /\ phase'[s2] = phase[s2] /\ monitor'[s2] = monitor[s2]
                                     /\ held'[s2] = held[s2] /\ counter'[s2] = counter[s2]
       /\ phase'[s] \notin {"new", "starting"} /\ (phase[s] = "gone" => phase'[s] = "gone")
       /\ monitor[s] \notin {"none", "over"}
  BY <1>2, <1>3, <1>4
<1> QED
  BY <1>5, <1>6, <1>7, <1>8, <1>9, <1>10, <1>11, QuietMonitor

\* Both tokens are about to be released.
LEMMA BothReleased ==
  ASSUME OwnTypeOK, NEW s \in Sids, NEW retry \in BOOLEAN, ThenRelease(s, TerminalTokens(s), retry)
  PROVE  /\ OnlyReleases(s)
         /\ releases'[s].out = {held[s]["active"], held[s]["live"]} \ {NoToken}
<1>1. {held[s]["active"], held[s]["live"]} \in SUBSET MaybeToken /\ s \in Threads
  BY BothKinds, MonitorThread DEF OwnTypeOK
<1> QED
  BY <1>1, ThenReleaseShape DEF TerminalTokens

LEMMA PersistTerminalStep ==
  ASSUME LInv, NEW s \in Sids, PersistTerminal(s)
  PROVE  LInv' /\ UNCHANGED service
<1>1. OwnTypeOK
  BY DEF LInv, PInv
<1>2. /\ Ready(s) /\ monitor[s] = "run" /\ phase[s] \in {"busy", "idle", "popped"}
      /\ UNCHANGED <<service, client, tokenAct, counter, pending, caller>>
      /\ held' = [held EXCEPT ![s] = Nothing] /\ monitor' = [monitor EXCEPT ![s] = "persisted"]
      /\ phase' = [phase EXCEPT ![s] = IF @ = "popped" THEN @ ELSE "closing"]
  BY DEF PersistTerminal, Ends, MonitorAt, MonitorGoto
<1>3. PICK p \in {"popped", "closing"} : phase' = [phase EXCEPT ![s] = p]
  BY <1>2
<1>4. EndOut(s, TerminalTokens(s))
  <2>1. PICK retry \in BOOLEAN : ThenRelease(s, TerminalTokens(s), retry)
    <3>1. \E retry \in BOOLEAN : retry = (TerminalTokens(s) # {NoToken})
      BY Zenon
    <3> QED
      BY <3>1, Zenon DEF PersistTerminal
  <2> QED
    BY <1>1, <1>2, <2>1, BothReleased DEF EndOut, TerminalTokens
<1>5. p \in Phase
  BY DEF Phase
<1> QED
  BY <1>2, <1>3, <1>4, <1>5, EndsStep

LEMMA FreeSlotStep ==
  ASSUME LInv, NEW s \in Sids, FreeSlot(s)
  PROVE  LInv' /\ UNCHANGED service
<1>1. OwnTypeOK
  BY DEF LInv, PInv
<1>2. /\ Ready(s) /\ monitor[s] \in {"persisted", "unpersisted"}
      /\ UNCHANGED <<service, client, tokenAct, counter, pending, caller>>
      /\ held' \in {held, [held EXCEPT ![s] = Nothing]}
      /\ monitor' = [monitor EXCEPT ![s] = "over"] /\ phase' = [phase EXCEPT ![s] = "gone"]
  BY DEF FreeSlot, MonitorAt, MonitorGoto, SetPhase
<1>3. \E out : EndOut(s, out)
  <2>1. CASE Uncollected(s)
    <3>1. ThenRelease(s, TerminalTokens(s), TRUE) \/ ThenRelease(s, TerminalTokens(s), FALSE)
      BY <2>1 DEF FreeSlot, ThenRelease
    <3>2. /\ OnlyReleases(s)
          /\ releases'[s].out = {held[s]["active"], held[s]["live"]} \ {NoToken}
      BY <1>1, <3>1, BothReleased
    <3>3. EndOut(s, {held[s]["active"], held[s]["live"]})
      BY <1>2, <3>2 DEF EndOut
    <3> QED
      BY <3>3
  <2>2. CASE ~Uncollected(s)
    <3>1. \E retry \in BOOLEAN : ThenRelease(s, {}, retry)
      <4>1. \E retry \in BOOLEAN : retry = Uncollected(s)
        BY Zenon DEF Uncollected
      <4>2. ThenRelease(s, {}, Uncollected(s))
        BY <2>2 DEF FreeSlot, ThenRelease
      <4> QED
        BY <4>1, <4>2, Zenon
    <3>2. OnlyReleases(s) /\ releases'[s].out = {}
      <4>1. {} \in SUBSET MaybeToken /\ s \in Threads /\ {} \ {NoToken} = {}
        BY MonitorThread
      <4> QED
        BY <1>1, <3>1, <4>1, ThenReleaseShape
    <3>3. held' = held
      BY <2>2 DEF FreeSlot
    <3>4. EndOut(s, {})
      BY <3>2, <3>3 DEF EndOut
    <3> QED
      BY <3>4
  <2> QED
    BY <2>1, <2>2
<1>4. "gone" \in Phase
  BY DEF Phase
<1> QED
  BY <1>2, <1>3, <1>4, EndsStep

LEMMA FreeSlotRaisesStep ==
  ASSUME LInv, NEW s \in Sids, FreeSlotRaises(s)
  PROVE  LInv' /\ UNCHANGED service
<1>1. OwnTypeOK /\ releases \in [Threads -> ReleaseRec]
  BY DEF LInv, PInv, OwnTypeOK
<1>2. /\ Ready(s) /\ monitor[s] = "unpersisted" /\ phase[s] = "closing" /\ ~NothingForgotten
      /\ UNCHANGED <<service, client, tokenAct, counter, pending, caller>>
      /\ held' \in {held, [held EXCEPT ![s] = Nothing]}
      /\ monitor' = [monitor EXCEPT ![s] = "over"] /\ phase' = phase /\ releases' = releases
  BY DEF FreeSlotRaises, MonitorAt, MonitorGoto, NothingForgotten
<1>3. phase' = [phase EXCEPT ![s] = "closing"]
  BY <1>1, <1>2 DEF OwnTypeOK
<1>4. EndOut(s, {})
  BY <1>1, <1>2, FreeShape DEF EndOut, OnlyReleases, Ready
<1>5. "closing" \in Phase
  BY DEF Phase
<1> QED
  BY <1>2, <1>3, <1>4, <1>5, EndsStep


-----------------------------------------------------------------------------
(* The release calls                                                       *)

\* A thread with release calls open works for a session.
LEMMA Releasing ==
  ASSUME PInv, NEW th \in Threads, releases[th] # Settled
  PROVE  SidOf(th) \in Sids /\ EpochOf[SidOf(th)] \in Epochs
         /\ (th \in Callers => caller[th].pc # "none")
<1>1. CASE th \in Callers
  BY <1>1, LeaseProtocolAssumption DEF PInv, RecOK, SidOf
<1>2. CASE th \notin Callers
  BY <1>2, LeaseProtocolAssumption DEF Threads, SidOf
<1> QED
  BY <1>1, <1>2

\* What the release calls of a thread do: tokens that were to be released go
\* to the outbox, come back from it, or are gone from the account.
Moves(th, e) ==
  /\ tokens' \subseteq tokens
  /\ \A x \in tokens : x \in tokens' \/ (x.epoch = e /\ x.tid \in releases[th].out)
  /\ OnlyReleases(th) /\ releases'[th].out \subseteq releases[th].out \cup outbox[e]
  /\ outbox' \in [Epochs -> SUBSET Service!Tokens]
  /\ \A e2 \in Epochs : e2 # e => outbox'[e2] = outbox[e2]
  /\ outbox'[e] \subseteq outbox[e] \cup releases[th].out
  /\ \A x \in Service!Entry :
       x.epoch = e /\ (x \in tokens' \/ reconciled[e] # rid)
       /\ x.tid \in releases[th].out \cup outbox[e] => x.tid \in releases'[th].out \cup outbox'[e]

\* No token is lost on the way.
LEMMA MovesKeep ==
  ASSUME PInv, NEW th \in Threads, releases[th] # Settled, NEW e, e = EpochOf[SidOf(th)],
         Moves(th, e), UNCHANGED <<held, caller>>,
         NEW x \in Service!Entry, x \in tokens' \/ reconciled[x.epoch] # rid, Kept(x)
  PROVE  Kept(x)'
<1>1. x.epoch \in Epochs /\ SidOf(th) \in Sids
  BY Releasing DEF Service!Entry
<1>2. \A u : SidOf(u)' = SidOf(u)
  BY DEF SidOf
<1>3. x.epoch = e /\ x.tid \in releases'[th].out => ToGo(x)'
  BY <1>1, <1>2, ToGoNew
<1>4. CASE held[x.sid][x.kind] = x.tid
  BY <1>4 DEF Kept
<1>5. CASE ToGo(x)
  <2>1. PICK u \in Threads : /\ x.tid \in releases[u].out
                             /\ SidOf(u) \in Sids /\ EpochOf[SidOf(u)] = x.epoch
    BY <1>5 DEF ToGo, EpochOfThread
  <2>2. CASE u = th
    <3>1. x.epoch = e /\ x.tid \in releases'[th].out \cup outbox'[e]
      BY <2>1, <2>2 DEF Moves
    <3> QED
      BY <1>3, <3>1 DEF Kept
  <2>3. CASE u # th
    <3>1. x.tid \in releases'[u].out
      BY <2>1, <2>3 DEF Moves, OnlyReleases
    <3>2. ToGo(x)'
      BY <1>2, <2>1, <3>1, ToGoNew
    <3> QED
      BY <3>2 DEF Kept
  <2> QED
    BY <2>2, <2>3
<1>6. CASE x.tid \in outbox[x.epoch]
  <2>1. CASE x.epoch = e
    <3>1. x.tid \in releases'[th].out \cup outbox'[e]
      BY <1>6, <2>1 DEF Moves
    <3> QED
      BY <1>3, <2>1, <3>1 DEF Kept
  <2>2. CASE x.epoch # e
    BY <1>1, <1>6, <2>2 DEF Moves, Kept
  <2> QED
    BY <2>1, <2>2
<1> QED
  BY <1>4, <1>5, <1>6 DEF Kept

LEMMA MovesStep ==
  ASSUME LInv, NEW th \in Threads, releases[th] # Settled, NEW e, e = EpochOf[SidOf(th)],
         Moves(th, e), Service!Next \/ UNCHANGED service,
         rid' = rid, reconciled' = reconciled, minted' = minted,
         known' \in [Epochs -> MaybeRid], \A e2 \in Epochs : known'[e2] \in {known[e2], rid},
         UNCHANGED <<up, handshook, sessions, caller, monitor>>
  PROVE  LInv'
<1>1. /\ PInv /\ OwnTypeOK /\ Orderly /\ SidOf(th) \in Sids /\ e \in Epochs
      /\ th \in Callers => caller[th].pc # "none"
  <2>1. PInv /\ OwnTypeOK /\ Orderly
    BY DEF LInv, PInv
  <2> QED
    BY <2>1, Releasing
<1>2. UNCHANGED <<held, tokenAct, counter, pending, phase>>
  BY DEF sessions
<1>3. Minted' = Minted /\ Old' = Old /\ Past' = Past
  BY DEF Minted, Old, Past
<1>4. OwnTypeOK'
  BY <1>1, <1>2 DEF OwnTypeOK, Moves, OnlyReleases
<1>5. PInv'
  <2>1. \A x \in tokens' : x \in tokens \/ x.epoch = EpochOf[x.sid]
    BY DEF Moves
  <2>2. \A e2 \in Epochs : known'[e2] \in {known[e2], rid, NoRid} /\ outbox'[e2] \subseteq Minted'
    BY <1>1, <1>3 DEF PInv, Moves
  <2>3. \A s2 \in Sids : \A kind \in Service!Kinds : held'[s2][kind] \in Old'
    BY <1>1, <1>2, <1>3 DEF PInv
  <2>4. \A u \in Threads : releases'[u].out \subseteq Minted'
    BY <1>1, <1>3 DEF PInv, Moves, OnlyReleases
  <2>5. \A d \in Callers : /\ caller'[d] = caller[d] \/ RecOK(caller[d])'
                           /\ caller'[d].pc = "none" => releases'[d] = Settled
    BY <1>1 DEF PInv, Moves, OnlyReleases, Threads
  <2>6. \A s2 \in Sids : monitor'[s2] = "notify" => counter'[s2] < MaxAct
    BY <1>1, <1>2 DEF PInv
  <2> QED
    BY <1>1, <1>4, <2>1, <2>2, <2>3, <2>4, <2>5, <2>6, BaseFrame
<1>6. Orderly'
  <2>1. ASSUME NEW d \in Callers PROVE CallOK(d)'
    <3>1. caller' = caller /\ up' = up /\ pending' = pending /\ phase' = phase
      BY <1>2
    <3>2. \A d2 \in Callers : AtWork(d2)' <=> AtWork(d2)
      BY <3>1 DEF AtWork
    <3>3. CallOK(d)
      BY <1>1 DEF Orderly
    <3> QED
      BY <3>1, <3>2, <3>3 DEF CallOK
  <2>2. \A s \in Sids : SessionOK(s)' <=> SessionOK(s)
    BY <1>2 DEF SessionOK
  <2> QED
    BY <1>1, <2>1, <2>2 DEF Orderly
<1>7. ASSUME OneRouter PROVE PtyInv'
  <2>1. PtyInv /\ tokens' \subseteq tokens
    BY <1>7 DEF LInv, Moves
  <2>2. OnlyServed' /\ OneKey' /\ NewHasNone'
    BY <1>2, <2>1 DEF PtyInv, OnlyServed, OneKey, NewHasNone
  <2>3. ASSUME NEW s \in Sids, NEW t \in MaybeToken, Guarded(t, s)' PROVE Backed(t, s)'
    <3>1. Guarded(t, s)
      BY <1>2, <2>3 DEF Guarded, HasPty
    <3>2. Backed(t, s)
      BY <2>1, <3>1 DEF PtyInv, LiveBacked
    <3>3. InAccount(t, s)'
      BY <3>2 DEF Backed, InAccount, Sole, Moves
    <3>4. /\ \A u \in Threads : t \notin releases'[u].out
          /\ \A e2 \in Epochs : t \notin outbox'[e2]
      BY <1>1, <3>2 DEF Backed, Sole, Moves, OnlyReleases
    <3>5. Sole(t, s)'
      BY <1>2, <3>2, <3>4 DEF Backed, Sole
    <3> QED
      BY <3>3, <3>5 DEF Backed
  <2> QED
    BY <2>2, <2>3 DEF PtyInv, LiveBacked
<1>8. ASSUME NothingForgotten PROVE LeakInv'
  <2>1. LeakInv /\ tokens' \subseteq tokens
    BY <1>8 DEF LInv, Moves
  <2>2. \A x \in tokens : x \in Service!Entry
    BY <1>1 DEF PInv, Service!IInv, Service!TypeOK
  <2>3. \A x \in tokens' : Kept(x) => Kept(x)'
    BY <1>1, <1>2, <2>1, <2>2, MovesKeep
  <2>4. \A x \in tokens' : \A d \in Callers : InHand(x, d)' <=> InHand(x, d)
    BY DEF InHand
  <2>5. \A x \in tokens' : up'[x.epoch] => Kept(x)' \/ \E d \in Callers : InHand(x, d)'
    BY <2>1, <2>3, <2>4 DEF LeakInv
  <2>6. \A d \in Callers : caller'[d].pc = "granted" /\ ~caller'[d].fresh =>
          \A x \in tokens' : InHand(x, d)' => Kept(x)'
    BY <2>1, <2>3, <2>4 DEF LeakInv
  <2>7. ASSUME NEW d \in Callers, caller'[d].pc = "register", caller'[d].rid = rid',
               reconciled'[EpochOf[caller'[d].sid]] # rid', NEW x \in caller'[d].snap
        PROVE  Kept(x)'
    <3>1. x \in Service!Entry /\ x.epoch = EpochOf[caller[d].sid]
      BY <1>1, <2>7 DEF PInv, OwnTypeOK, CallerRec, RecOK
    <3>2. Kept(x)
      BY <2>1, <2>7 DEF LeakInv
    <3> QED
      BY <1>1, <1>2, <2>7, <3>1, <3>2, MovesKeep
  <2> QED
    BY <2>5, <2>6, <2>7 DEF LeakInv
<1> QED
  BY <1>5, <1>6, <1>7, <1>8 DEF LInv


\* The router gets a release call.
LEMMA RouterReleasesShape ==
  ASSUME PInv, NEW e \in Epochs, NEW t \in Service!Tokens, NEW r, RouterReleases(e, t, r)
  PROVE  /\ Service!Next \/ UNCHANGED service
         /\ rid' = rid /\ reconciled' = reconciled /\ minted' = minted
         /\ tokens' \subseteq tokens
         /\ \A x \in tokens : x \in tokens' \/ (x.epoch = e /\ x.tid = t)
         /\ Acks(e, r) => reconciled[e] = rid /\ \A x \in tokens' : ~(x.epoch = e /\ x.tid = t)
<1>1. CASE Acks(e, r) /\ Names(e, t)
  <2>1. Service!Release(e, t, r) /\ Service!IInv
    BY <1>1 DEF RouterReleases, PInv
  <2> QED
    BY <2>1, Frees
<1>2. CASE ~(Acks(e, r) /\ Names(e, t))
  <2>1. UNCHANGED service
    BY <1>2 DEF RouterReleases
  <2>2. tokens' = tokens /\ rid' = rid /\ reconciled' = reconciled /\ minted' = minted
    BY <2>1 DEF service
  <2>3. Acks(e, r) => reconciled[e] = rid /\ \A x \in tokens : ~(x.epoch = e /\ x.tid = t)
    BY <1>2 DEF Acks, Names, Service!Admits
  <2> QED
    BY <2>1, <2>2, <2>3
<1> QED
  BY <1>1, <1>2

LEMMA RetryOutboxStep ==
  ASSUME LInv, NEW th \in Threads, RetryOutbox(th)
  PROVE  LInv' /\ UNCHANGED service
<1>1. PInv /\ OwnTypeOK /\ releases[th] # Settled
  <2>1. PInv /\ OwnTypeOK
    BY DEF LInv, PInv
  <2>2. releases[th].retry /\ ~Settled.retry
    BY DEF RetryOutbox, Settled
  <2> QED
    BY <2>1, <2>2
<1>2. PICK e \in Epochs : e = EpochOf[SidOf(th)]
  BY <1>1, Releasing
<1>3. /\ releases[th].out = {} /\ UNCHANGED <<service, client, sessions, caller, monitor>>
      /\ releases' = [releases EXCEPT ![th] =
           IF outbox[e] = {} THEN Settled ELSE [out |-> outbox[e], retry |-> FALSE, via |-> known[e]]]
  BY <1>2 DEF RetryOutbox, EpochOfThread
<1>4. /\ UNCHANGED <<up, known, handshook, outbox>>
      /\ tokens' = tokens /\ rid' = rid /\ reconciled' = reconciled /\ minted' = minted
  BY <1>3 DEF client, service
<1>5. OnlyReleases(th) /\ releases'[th].out = outbox[e]
  <2>1. PICK w : /\ releases' = [releases EXCEPT ![th] = w]
                 /\ w = IF outbox[e] = {} THEN Settled
                        ELSE [out |-> outbox[e], retry |-> FALSE, via |-> known[e]]
    BY <1>3
  <2>2. w \in ReleaseRec /\ w.out = outbox[e]
    <3>1. outbox[e] \in SUBSET Service!Tokens /\ known[e] \in MaybeRid
      BY <1>1 DEF OwnTypeOK
    <3> QED
      BY <2>1, <3>1, FreeShape DEF ReleaseRec
  <2> HIDE DEF Settled
  <2> QED
    BY <1>1, <2>1, <2>2 DEF OwnTypeOK, OnlyReleases
<1>6. Moves(th, e)
  BY <1>1, <1>3, <1>4, <1>5 DEF Moves, OwnTypeOK
<1>7. known' \in [Epochs -> MaybeRid] /\ \A e2 \in Epochs : known'[e2] \in {known[e2], rid}
  BY <1>1, <1>4 DEF OwnTypeOK
<1> QED
  BY <1>1, <1>2, <1>3, <1>4, <1>6, <1>7, MovesStep

\* A token that is released leaves the account, or it is in the outbox.
LEMMA ReleaseOneStep ==
  ASSUME LInv, NEW th \in Threads, NEW t \in Service!Tokens, ReleaseOne(th, t)
  PROVE  LInv' /\ (Service!Next \/ UNCHANGED service)
<1>1. PInv /\ OwnTypeOK /\ t \in releases[th].out /\ releases[th] # Settled
  BY FreeShape DEF LInv, PInv, ReleaseOne
<1>2. PICK e \in Epochs : e = EpochOf[SidOf(th)]
  BY <1>1, Releasing
<1>3. PICK r : r = IF releases[th].via # NoRid THEN releases[th].via ELSE known[e]
  OBVIOUS
<1>4. /\ \/ /\ RouterReleases(e, t, r)
            /\ outbox' = [outbox EXCEPT ![e] = KeptInOutbox(e, t, r)]
            /\ Learn(e)
         \/ /\ RouterReleases(e, t, r) \/ UNCHANGED service
            /\ outbox' = [outbox EXCEPT ![e] = @ \cup {t}]
            /\ UNCHANGED known
      /\ UNCHANGED <<up, handshook, sessions, caller, monitor>>
  BY <1>2, <1>3 DEF ReleaseOne, EpochOfThread
<1>5. OnlyReleases(th) /\ releases'[th].out = releases[th].out \ {t}
  <2>1. PICK v : v = IF releases[th].out \ {t} = {} THEN NoRid ELSE releases[th].via
    OBVIOUS
  <2>2. releases' = [releases EXCEPT ![th].out = releases[th].out \ {t}, ![th].via = v]
    BY <1>1, <2>1 DEF ReleaseOne, OwnTypeOK, ReleaseRec
  <2>3. v \in MaybeRid
    BY <1>1, <2>1 DEF OwnTypeOK, ReleaseRec, MaybeRid
  <2> QED
    BY <1>1, <2>2, <2>3 DEF OwnTypeOK, ReleaseRec, OnlyReleases
<1>6. /\ Service!Next \/ UNCHANGED service
      /\ rid' = rid /\ reconciled' = reconciled /\ minted' = minted
      /\ tokens' \subseteq tokens
      /\ \A x \in tokens : x \in tokens' \/ (x.epoch = e /\ x.tid = t)
      /\ RouterReleases(e, t, r) /\ Acks(e, r) =>
           reconciled[e] = rid /\ \A x \in tokens' : ~(x.epoch = e /\ x.tid = t)
  <2>1. CASE RouterReleases(e, t, r)
    BY <1>1, <2>1, RouterReleasesShape
  <2>2. CASE UNCHANGED service /\ ~RouterReleases(e, t, r)
    BY <2>2 DEF service
  <2> QED
    BY <1>4, <2>1, <2>2
<1>7. /\ outbox' \in [Epochs -> SUBSET Service!Tokens]
      /\ \A e2 \in Epochs : e2 # e => outbox'[e2] = outbox[e2]
      /\ \/ outbox'[e] = outbox[e] \cup {t}
         \/ outbox'[e] = outbox[e] \ {t} /\ RouterReleases(e, t, r) /\ Acks(e, r)
  BY <1>1, <1>4 DEF OwnTypeOK, KeptInOutbox
<1>8. Moves(th, e)
  BY <1>1, <1>5, <1>6, <1>7 DEF Moves
<1>9. known' \in [Epochs -> MaybeRid] /\ \A e2 \in Epochs : known'[e2] \in {known[e2], rid}
  <2>1. known' \in [Epochs -> MaybeRid]
    BY <1>1, <1>4, LearnShape DEF OwnTypeOK
  <2>2. \A e2 \in Epochs : known'[e2] \in {known[e2], rid}
    BY <1>1, <1>4, LearnShape DEF OwnTypeOK
  <2> QED
    BY <2>1, <2>2
<1> QED
  BY <1>1, <1>2, <1>4, <1>6, <1>8, <1>9, MovesStep


-----------------------------------------------------------------------------
(* Crashes                                                                 *)

\* What the threads are doing stays in order when they do nothing.
LEMMA OrderlyStays ==
  ASSUME Orderly, UNCHANGED <<up, pending, phase, caller, monitor, held>>
  PROVE  Orderly'
<1>1. ASSUME NEW d \in Callers PROVE CallOK(d)'
  <2>1. caller' = caller /\ up' = up /\ pending' = pending /\ phase' = phase
    OBVIOUS
  <2>2. \A d2 \in Callers : AtWork(d2)' <=> AtWork(d2)
    BY <2>1 DEF AtWork
  <2>3. CallOK(d)
    BY DEF Orderly
  <2> QED
    BY <2>1, <2>2, <2>3 DEF CallOK
<1>2. \A s \in Sids : SessionOK(s)'
  BY DEF Orderly, SessionOK
<1> QED
  BY <1>1, <1>2 DEF Orderly

\* The base of the invariant, for a step of the service alone.
LEMMA ServiceOnly ==
  ASSUME PInv, Orderly, Service!Next, UNCHANGED <<client, sessions, threads>>,
         \A x \in tokens' : x \in tokens
  PROVE  PInv' /\ Orderly' /\ minted <= minted' /\ rid <= rid'
<1>1. /\ UNCHANGED <<up, known, handshook, outbox>>
      /\ UNCHANGED <<held, tokenAct, counter, pending, phase>>
      /\ UNCHANGED <<caller, monitor, releases>>
  BY DEF client, sessions, threads
<1>2. Service!IInv' /\ minted \in Nat /\ minted' \in Nat /\ minted <= minted' /\ rid <= rid'
  BY ServiceStep DEF PInv
<1>3. Minted \subseteq Minted' /\ Old \subseteq Old'
  BY <1>2 DEF Minted, Old
<1>4. OwnTypeOK'
  BY <1>1 DEF PInv, OwnTypeOK
<1>5. \A x \in tokens' : x \in tokens \/ x.epoch = EpochOf[x.sid]
  OBVIOUS
<1>6. \A e \in Epochs : known'[e] \in {known[e], rid, NoRid} /\ outbox'[e] \subseteq Minted'
  BY <1>1, <1>3 DEF PInv
<1>7. \A s \in Sids : \A kind \in Service!Kinds : held'[s][kind] \in Old'
  BY <1>1, <1>3 DEF PInv
<1>8. \A th \in Threads : releases'[th].out \subseteq Minted'
  BY <1>1, <1>3 DEF PInv
<1>9. \A c \in Callers : /\ caller'[c] = caller[c] \/ RecOK(caller[c])'
                         /\ caller'[c].pc = "none" => releases'[c] = Settled
  BY <1>1 DEF PInv
<1>10. \A s \in Sids : monitor'[s] = "notify" => counter'[s] < MaxAct
  BY <1>1 DEF PInv
<1>11. PInv'
  BY <1>4, <1>5, <1>6, <1>7, <1>8, <1>9, <1>10, BaseFrame
<1>12. Orderly'
  BY <1>1, OrderlyStays
<1> QED
  BY <1>2, <1>11, <1>12

LEMMA RouterRestartStep ==
  ASSUME LInv, RouterRestart
  PROVE  LInv' /\ Service!Next
<1>1. /\ PInv /\ Orderly /\ ~OneRouter
      /\ Service!Next /\ UNCHANGED <<client, sessions, threads>>
      /\ tokens' = {} /\ rid' = rid + 1 /\ rid < MaxRid
  BY DEF LInv, RouterRestart, OneRouter, Service!Next, Service!RouterRestart
<1>2. PInv' /\ Orderly'
  BY <1>1, ServiceOnly
<1>3. ASSUME NEW c \in Callers PROVE caller'[c].rid # rid'
  <2>1. caller' = caller
    BY <1>1 DEF threads
  <2>2. caller[c].rid \in (1..rid) \cup {NoRid} /\ rid \in 1..MaxRid
    BY <1>1 DEF PInv, RecOK, Past, Service!IInv, Service!TypeOK, Service!Rids
  <2>3. rid + 1 \in 1..MaxRid
    BY <1>1, <2>2, LeaseProtocolAssumption
  <2> QED
    BY <1>1, <2>1, <2>2, <2>3, LeaseProtocolAssumption
<1>4. LeakInv'
  BY <1>1, <1>3 DEF LeakInv
<1> QED
  BY <1>1, <1>2, <1>4 DEF LInv

\* The epoch of a dead daemon is retired: no thread had a token of it.
LEMMA RetireStep ==
  ASSUME LInv, NEW e \in Epochs, Retire(e)
  PROVE  LInv' /\ Service!Next
<1>1. /\ PInv /\ Orderly /\ ~up[e]
      /\ Service!Next /\ UNCHANGED <<client, sessions, threads>>
  BY DEF LInv, Retire, Service!Next
<1>2. /\ tokens' = {x \in tokens : x.epoch # e}
      /\ rid' = rid /\ reconciled' = reconciled /\ minted' = minted
  BY DEF Retire, Service!ReleaseEpoch, Service!Remove, Service!OfEpoch
<1>3. PInv' /\ Orderly'
  BY <1>1, <1>2, ServiceOnly
<1>4. /\ UNCHANGED <<up, known, handshook, outbox>>
      /\ UNCHANGED <<held, tokenAct, counter, pending, phase>>
      /\ UNCHANGED <<caller, monitor, releases>>
  BY <1>1 DEF client, sessions, threads
<1>5. ASSUME OneRouter PROVE PtyInv'
  <2>1. PtyInv
    BY <1>5 DEF LInv
  <2>2. OnlyServed' /\ OneKey' /\ NewHasNone'
    BY <1>2, <1>4, <2>1 DEF PtyInv, OnlyServed, OneKey, NewHasNone
  <2>3. ASSUME NEW s \in Sids, NEW t \in MaybeToken, Guarded(t, s)' PROVE Backed(t, s)'
    <3>1. Guarded(t, s)
      BY <1>4, <2>3 DEF Guarded, HasPty
    <3>2. Backed(t, s)
      BY <2>1, <3>1 DEF PtyInv, LiveBacked
    <3>3. EpochOf[s] # e
      BY <1>1, <3>1 DEF Guarded, HasPty, Orderly, SessionOK, CallOK
    <3>4. InAccount(t, s)'
      BY <1>1, <1>2, <3>2, <3>3 DEF Backed, InAccount, PInv
    <3>5. Sole(t, s)'
      BY <1>4, <3>2 DEF Backed, Sole
    <3> QED
      BY <3>4, <3>5 DEF Backed
  <2> QED
    BY <2>2, <2>3 DEF PtyInv, LiveBacked
<1>6. ASSUME NothingForgotten PROVE LeakInv'
  <2>1. LeakInv
    BY <1>6 DEF LInv
  <2>2. \A x : ToGo(x)' <=> ToGo(x)
    BY <1>4 DEF ToGo, EpochOfThread, SidOf
  <2>3. \A x : Kept(x)' <=> Kept(x)
    BY <1>4, <2>2 DEF Kept
  <2>4. \A x : \A c \in Callers : InHand(x, c)' <=> InHand(x, c)
    BY <1>4 DEF InHand
  <2> QED
    BY <1>2, <1>4, <2>1, <2>3, <2>4 DEF LeakInv
<1> QED
  BY <1>1, <1>3, <1>5, <1>6 DEF LInv


\* What a crash of the daemon of epoch e leaves: the sessions, calls and
\* release calls of the other daemons as they were.
Crashed(e) ==
  /\ up' = [up EXCEPT ![e] = FALSE]
  /\ \A s \in Sids :
       IF EpochOf[s] = e
       THEN phase'[s] = "gone" /\ monitor'[s] = "over" /\ held'[s] = Nothing
       ELSE phase'[s] = phase[s] /\ monitor'[s] = monitor[s] /\ held'[s] = held[s]
  /\ pending' = {s \in pending : EpochOf[s] # e}
  /\ \A c \in Callers : IF caller[c].sid # NoSid /\ EpochOf[caller[c].sid] = e
                        THEN caller'[c] = Free ELSE caller'[c] = caller[c]
  /\ \A th \in Threads : IF SidOf(th) # NoSid /\ EpochOf[SidOf(th)] = e
                         THEN releases'[th] = Settled ELSE releases'[th] = releases[th]
  /\ \A e2 \in Epochs : IF e2 = e THEN known'[e2] = NoRid /\ outbox'[e2] = {}
                        ELSE known'[e2] = known[e2] /\ outbox'[e2] = outbox[e2]
  /\ tokenAct' = tokenAct /\ counter' = counter

LEMMA CrashShape ==
  ASSUME OwnTypeOK, NEW e \in Epochs, DaemonCrash(e)
  PROVE  OwnTypeOK' /\ Crashed(e) /\ UNCHANGED service
<1>1. /\ up' = [up EXCEPT ![e] = FALSE]
      /\ known' = [known EXCEPT ![e] = NoRid] /\ handshook' = [handshook EXCEPT ![e] = NoRid]
      /\ outbox' = [outbox EXCEPT ![e] = {}]
      /\ held' = [s \in Sids |-> IF EpochOf[s] = e THEN Nothing ELSE held[s]]
      /\ phase' = [s \in Sids |-> IF EpochOf[s] = e THEN "gone" ELSE phase[s]]
      /\ monitor' = [s \in Sids |-> IF EpochOf[s] = e THEN "over" ELSE monitor[s]]
      /\ pending' = {s \in pending : EpochOf[s] # e}
      /\ UNCHANGED <<service, tokenAct, counter>>
  BY DEF DaemonCrash, OwnTypeOK
<1>2. /\ caller' = [c \in Callers |-> IF SidOf(c) # NoSid /\ EpochOf[SidOf(c)] = e
                                      THEN Free ELSE caller[c]]
      /\ releases' = [th \in Threads |-> IF SidOf(th) # NoSid /\ EpochOf[SidOf(th)] = e
                                         THEN Settled ELSE releases[th]]
  BY Zenon DEF DaemonCrash, EpochOfThread
<1>3. \A c \in Callers : SidOf(c) = caller[c].sid
  BY DEF SidOf
<1>4. Crashed(e)
  BY <1>1, <1>2, <1>3 DEF Crashed, OwnTypeOK
<1>5. caller' \in [Callers -> CallerRec] /\ releases' \in [Threads -> ReleaseRec]
  BY <1>2, FreeShape DEF OwnTypeOK
<1>6. "gone" \in Phase /\ "over" \in MonitorPc /\ NoRid \in MaybeRid
  BY DEF Phase, MonitorPc, MaybeRid
<1>7. OwnTypeOK'
  BY <1>1, <1>5, <1>6, FreeShape DEF OwnTypeOK
<1> QED
  BY <1>1, <1>4, <1>7

\* A daemon dies: its part of the invariant is about nothing any more.
LEMMA DaemonCrashStep ==
  ASSUME LInv, NEW e \in Epochs, DaemonCrash(e)
  PROVE  LInv' /\ UNCHANGED service
<1>1. /\ PInv /\ OwnTypeOK /\ Orderly /\ OwnTypeOK' /\ Crashed(e) /\ UNCHANGED service
      /\ \A s \in Sids : EpochOf[s] \in Epochs
  BY CrashShape, LeaseProtocolAssumption DEF LInv, PInv
<1>2. /\ tokens' = tokens /\ rid' = rid /\ reconciled' = reconciled
      /\ Minted' = Minted /\ Old' = Old /\ Past' = Past
  BY <1>1, QuietFrame
<1>3. /\ up'[e] = FALSE /\ \A e2 \in Epochs : e2 # e => up'[e2] = up[e2]
      /\ \A c \in Callers : /\ caller'[c] \in {Free, caller[c]}
                            /\ caller[c].pc = "none" => caller[c] = Free
                            /\ caller'[c].pc # "none" =>
                                 /\ caller'[c] = caller[c] /\ caller[c].sid \in Sids
                                 /\ EpochOf[caller[c].sid] # e
      /\ \A c \in Callers : caller[c].pc # "none" /\ EpochOf[caller[c].sid] # e => caller'[c] = caller[c]
      /\ \A th \in Threads : releases'[th] \in {Settled, releases[th]}
  <2>1. \A c \in Callers : /\ caller[c].pc = "none" => caller[c] = Free
                           /\ caller[c].pc # "none" => caller[c].sid \in Sids /\ caller[c].sid # NoSid
    BY <1>1, LeaseProtocolAssumption DEF PInv, RecOK
  <2> QED
    BY <1>1, <2>1, FreeShape DEF Crashed, OwnTypeOK
<1>4. PInv'
  <2>1. \A x \in tokens' : x \in tokens \/ x.epoch = EpochOf[x.sid]
    BY <1>2
  <2>2. \A e2 \in Epochs : known'[e2] \in {known[e2], rid, NoRid} /\ outbox'[e2] \subseteq Minted'
    BY <1>1, <1>2 DEF PInv, Crashed
  <2>3. \A s \in Sids : \A kind \in Service!Kinds : held'[s][kind] \in Old'
    BY <1>1, <1>2, FreeShape DEF PInv, Crashed, Old
  <2>4. \A th \in Threads : releases'[th].out \subseteq Minted'
    BY <1>1, <1>2, <1>3, FreeShape DEF PInv
  <2>5. ASSUME NEW c \in Callers
        PROVE  /\ caller'[c] = caller[c] \/ RecOK(caller[c])'
               /\ caller'[c].pc = "none" => releases'[c] = Settled
    <3>1. caller'[c] = Free => RecOK(caller[c])'
      BY <1>2, FreeShape DEF RecOK, Old, Past
    <3>2. c \in Threads /\ SidOf(c) = caller[c].sid
      BY DEF Threads, SidOf
    <3>3. caller'[c].pc = "none" => releases'[c] = Settled
      BY <1>1, <1>3, <3>2 DEF PInv, Crashed
    <3> QED
      BY <1>3, <3>1, <3>3
  <2>6. \A s \in Sids : monitor'[s] = "notify" => counter'[s] < MaxAct
    BY <1>1 DEF PInv, Crashed
  <2> QED
    BY <1>1, <2>1, <2>2, <2>3, <2>4, <2>5, <2>6, BaseFrame
<1>5. Orderly'
  <2>1. ASSUME NEW d \in Callers PROVE CallOK(d)'
    <3>1. CASE caller'[d].pc = "none"
      BY <3>1 DEF CallOK, AtWork, StartPcs, TurnPcs
    <3>2. CASE caller'[d].pc # "none"
      <4>1. /\ caller'[d] = caller[d] /\ caller[d].sid \in Sids /\ EpochOf[caller[d].sid] # e
            /\ phase'[caller[d].sid] = phase[caller[d].sid]
            /\ up'[EpochOf[caller[d].sid]] = up[EpochOf[caller[d].sid]]
            /\ caller[d].sid \in pending => caller[d].sid \in pending'
        BY <1>1, <1>3, <3>2 DEF Crashed
      <4>2. \A d2 \in Callers : AtWork(d2)' => AtWork(d2) /\ caller'[d2] = caller[d2]
        BY <1>3, FreeShape DEF AtWork, StartPcs, TurnPcs
      <4>3. CallOK(d)
        BY <1>1 DEF Orderly
      <4>4. ASSUME AtWork(d)', NEW d2 \in Callers, d2 # d, AtWork(d2)'
            PROVE  caller'[d2].sid # caller'[d].sid
        BY <4>1, <4>2, <4>3, <4>4 DEF CallOK
      <4> QED
        BY <4>1, <4>3, <4>4 DEF CallOK
    <3> QED
      BY <3>1, <3>2
  <2>2. \A s \in Sids : SessionOK(s)'
    BY <1>1, <1>3 DEF Orderly, SessionOK, Crashed
  <2> QED
    BY <2>1, <2>2 DEF Orderly
<1>6. ASSUME OneRouter PROVE PtyInv'
  <2>1. PtyInv
    BY <1>6 DEF LInv
  <2>2. OnlyServed'
    <3>1. \A c \in Callers : \A kind \in Service!Kinds :
            caller'[c].hand[kind] # NoToken => reconciled'[EpochOf[caller'[c].sid]] = rid'
      BY <1>2, <1>3, <2>1, FreeShape DEF PtyInv, OnlyServed
    <3>2. \A c \in Callers : caller'[c].snap # {} => reconciled'[EpochOf[caller'[c].sid]] = rid'
      BY <1>2, <1>3, <2>1, FreeShape DEF PtyInv, OnlyServed
    <3>3. \A s \in Sids : \A kind \in Service!Kinds :
            held'[s][kind] # NoToken => reconciled'[EpochOf[s]] = rid'
      BY <1>1, <1>2, <2>1, FreeShape DEF PtyInv, OnlyServed, Crashed
    <3> QED
      BY <3>1, <3>2, <3>3 DEF OnlyServed
  <2>3. NewHasNone'
    <3>1. ASSUME NEW x \in tokens', phase'[x.sid] = "new"
          PROVE  \E c \in Callers : caller'[c].pc \in {"spawn", "failed"} /\ caller'[c].sid = x.sid
      <4>1. x \in tokens /\ x.sid \in Sids
        BY <1>1, <1>2 DEF PInv, Service!IInv, Service!TypeOK, Service!Entry
      <4>2. EpochOf[x.sid] # e /\ phase[x.sid] = "new"
        BY <1>1, <3>1, <4>1 DEF Crashed
      <4>3. PICK c \in Callers : caller[c].pc \in {"spawn", "failed"} /\ caller[c].sid = x.sid
        BY <2>1, <4>1, <4>2 DEF PtyInv, NewHasNone
      <4>4. caller'[c] = caller[c]
        BY <1>3, <4>2, <4>3
      <4> QED
        BY <4>3, <4>4
    <3> QED
      BY <3>1 DEF NewHasNone
  <2>4. ASSUME NEW s \in Sids, NEW t \in MaybeToken, Guarded(t, s)'
        PROVE  Guarded(t, s) /\ (Sole(t, s) /\ t # NoToken => Sole(t, s)')
    <3>1. Guarded(t, s)
      <4>1. HasPty(s)' => HasPty(s) /\ held'[s] = held[s]
        BY <1>1 DEF HasPty, Crashed
      <4>2. \A c \in Callers : caller'[c].pc = "spawn" /\ caller'[c].sid = s => caller'[c] = caller[c]
        BY <1>3
      <4>3. \A c \in Callers : caller'[c].pc = "inserted" /\ caller'[c].sid = s =>
              caller'[c] = caller[c] /\ held'[s] = held[s]
        BY <1>1, <1>3 DEF Crashed
      <4> QED
        BY <2>4, <4>1, <4>2, <4>3 DEF Guarded
    <3>2. ASSUME Sole(t, s), t # NoToken PROVE Sole(t, s)'
      <4>1. \A s2 \in Sids : \A kind \in Service!Kinds :
              held'[s2][kind] = t => s2 = s /\ kind = "live"
        BY <1>1, <3>2, FreeShape DEF Sole, Crashed
      <4>2. \A c \in Callers : \A kind \in Service!Kinds : caller'[c].hand[kind] = t =>
              kind = "live" /\ caller'[c].sid = s /\ caller'[c].pc \in {"spawn", "inserted"}
        BY <1>3, <3>2, FreeShape DEF Sole
      <4>3. \A th \in Threads : t \notin releases'[th].out
        BY <1>3, <3>2, FreeShape DEF Sole
      <4>4. \A e2 \in Epochs : t \notin outbox'[e2]
        BY <1>1, <3>2 DEF Sole, Crashed
      <4> QED
        BY <4>1, <4>2, <4>3, <4>4 DEF Sole
    <3> QED
      BY <3>1, <3>2
  <2> QED
    BY <1>1, <1>2, <2>1, <2>2, <2>3, <2>4, PtyFrame
<1>7. ASSUME NothingForgotten PROVE LeakInv'
  <2>1. LeakInv
    BY <1>7 DEF LInv
  <2>2. \A e2 \in Epochs : up'[e2] => up[e2]
    BY <1>1, <1>3
  <2>3. ASSUME NEW x \in Service!Entry, x.epoch = EpochOf[x.sid], up'[x.epoch], Kept(x)
        PROVE  Kept(x)'
    <3>1. x.epoch # e /\ x.epoch \in Epochs /\ x.sid \in Sids
      BY <1>3, <2>3 DEF Service!Entry
    <3>2. held'[x.sid] = held[x.sid] /\ outbox'[x.epoch] = outbox[x.epoch]
      BY <1>1, <2>3, <3>1 DEF Crashed
    <3>3. ASSUME ToGo(x) PROVE ToGo(x)'
      <4>1. PICK th \in Threads : /\ x.tid \in releases[th].out
                                  /\ SidOf(th) \in Sids /\ EpochOf[SidOf(th)] = x.epoch
        BY <3>3 DEF ToGo, EpochOfThread
      <4>2. releases'[th] = releases[th]
        BY <1>1, <3>1, <4>1 DEF Crashed
      <4>3. SidOf(th)' = SidOf(th)
        <5>1. th \in Callers => caller'[th] = caller[th]
          BY <1>1, <3>1, <4>1 DEF Crashed, SidOf
        <5> QED
          BY <5>1 DEF SidOf
      <4> QED
        BY <4>1, <4>2, <4>3, ToGoNew
    <3> QED
      BY <2>3, <3>2, <3>3 DEF Kept
  <2>4. ASSUME NEW c \in Callers, NEW x \in tokens, up'[x.epoch], InHand(x, c)
        PROVE  InHand(x, c)' \/ Kept(x)'
    <3>1. EpochOf[caller[c].sid] # e /\ caller[c].pc # "none"
      BY <1>1, <1>3, <2>4 DEF InHand, PInv
    <3>2. caller'[c] = caller[c]
      BY <1>3, <3>1
    <3> QED
      BY <2>4, <3>2 DEF InHand
  <2>5. \A c \in Callers : /\ caller'[c].pc = "granted" => caller'[c] = caller[c]
                           /\ caller'[c].pc = "register" => caller'[c] = caller[c]
    BY <1>3
  <2> QED
    BY <1>1, <1>2, <1>4, <1>5, <2>1, <2>2, <2>3, <2>4, <2>5, LeakFrame
<1> QED
  BY <1>1, <1>4, <1>5, <1>6, <1>7 DEF LInv


-----------------------------------------------------------------------------
(* The invariant holds, and every step is one of the service or none       *)

LEMMA InitLInv ==
  ASSUME Init
  PROVE  LInv /\ Service!Init
<1>1. Service!Init /\ tokens = {} /\ minted = 0 /\ rid = 1
  BY DEF Init, Service!Init, Service!Fresh
<1>2. Service!IInv
  <2>1. Account!Init
    BY <1>1, SameNext
  <2>2. Account!IInv
    BY <2>1, Account!InitIInv, LeaseProtocolAssumption DEF Account!Rids, Account!Kinds
  <2> QED
    BY <2>2, SameIInv
<1>3. /\ NoRid \in Past /\ NoToken \in Old
      /\ \A c \in Callers : caller[c] = Free
      /\ \A th \in Threads : releases[th] = Settled
      /\ \A s \in Sids : held[s] = Nothing /\ phase[s] = "new" /\ monitor[s] = "none"
      /\ \A e \in Epochs : known[e] = NoRid /\ outbox[e] = {} /\ up[e]
  BY DEF Past, Old, Init
<1>4. OwnTypeOK
  <2>1. "new" \in Phase /\ "none" \in MonitorPc /\ 0 \in Acts /\ NoRid \in MaybeRid
    BY BothKinds DEF Phase, MonitorPc, MaybeRid
  <2> QED
    BY <2>1, FreeShape DEF Init, OwnTypeOK
<1>5. RecOK(Free)
  BY <1>3, FreeShape DEF RecOK
<1>6. PInv
  <2>1. \A c \in Callers : RecOK(caller[c]) /\ (caller[c].pc = "none" => releases[c] = Settled)
    BY <1>3, <1>5 DEF Threads
  <2>2. \A s \in Sids : \A kind \in Service!Kinds : held[s][kind] \in Old
    BY <1>3, FreeShape
  <2>3. \A th \in Threads : releases[th].out \subseteq Minted
    BY <1>3, FreeShape
  <2> QED
    BY <1>1, <1>2, <1>3, <1>4, <2>1, <2>2, <2>3 DEF PInv
<1>7. Orderly
  <2>1. \A c \in Callers : CallOK(c)
    BY <1>3, FreeShape DEF CallOK, AtWork, StartPcs, TurnPcs
  <2>2. \A s \in Sids : SessionOK(s)
    BY <1>3, LeaseProtocolAssumption DEF SessionOK
  <2> QED
    BY <2>1, <2>2 DEF Orderly
<1>8. PtyInv
  <2>1. OnlyServed
    BY <1>3, FreeShape DEF OnlyServed
  <2>2. \A s \in Sids : \A t \in MaybeToken : ~Guarded(t, s)
    BY <1>3, FreeShape DEF Guarded, HasPty
  <2> QED
    BY <1>1, <2>1, <2>2 DEF PtyInv, OneKey, NewHasNone, LiveBacked
<1>9. LeakInv
  BY <1>1, <1>3, FreeShape DEF LeakInv
<1> QED
  BY <1>1, <1>6, <1>7, <1>8, <1>9 DEF LInv

\* Nothing happens.
LEMMA StutterLInv ==
  ASSUME LInv, UNCHANGED vars
  PROVE  LInv' /\ UNCHANGED service
<1>1. /\ UNCHANGED <<service, client, sessions, threads>> /\ UNCHANGED service
      /\ UNCHANGED <<tokens, rid, reconciled, minted>>
      /\ UNCHANGED <<up, known, handshook, outbox>>
      /\ UNCHANGED <<held, tokenAct, counter, pending, phase>>
      /\ UNCHANGED <<caller, monitor, releases>>
  BY DEF vars, service, client, sessions, threads
<1>2. \A s \in Sids : HasPty(s)' <=> HasPty(s)
  BY <1>1 DEF HasPty
<1>3. \A x : Kept(x)' <=> Kept(x)
  BY <1>1 DEF Kept, ToGo, EpochOfThread, SidOf
<1>4. \A x : \A c \in Callers : InHand(x, c)' <=> InHand(x, c)
  BY <1>1 DEF InHand
<1>5. LeakInv => LeakInv'
  BY <1>1, <1>3, <1>4 DEF LeakInv
<1>6. PtyInv => PtyInv'
  <2>1. ASSUME PtyInv PROVE LiveBacked'
    <3>1. \A s \in Sids : \A t : Guarded(t, s)' <=> Guarded(t, s)
      BY <1>1, <1>2 DEF Guarded
    <3>2. \A s \in Sids : \A t : Backed(t, s) => Backed(t, s)'
      BY <1>1 DEF Backed, InAccount, Sole
    <3> QED
      BY <2>1, <3>1, <3>2 DEF PtyInv, LiveBacked
  <2> QED
    BY <1>1, <2>1 DEF PtyInv, OnlyServed, OneKey, NewHasNone
<1>7. Orderly => Orderly'
  BY <1>1, OrderlyStays
<1>8. PInv => PInv'
  <2>1. ASSUME PInv PROVE PInv'
    <3>1. Service!IInv'
      BY <1>1, <2>1, ServiceStep DEF PInv
    <3>2. \A c \in Callers : RecOK(caller[c])'
      BY <1>1, <2>1 DEF PInv, RecOK, Old, Past, Minted
    <3> QED
      BY <1>1, <2>1, <3>1, <3>2 DEF PInv, OwnTypeOK, Old, Past, Minted
  <2> QED
    BY <2>1
<1> QED
  BY <1>1, <1>5, <1>6, <1>7, <1>8 DEF LInv

\* Every step keeps the invariant and is one of the service, or none.
LEMMA NextLInv ==
  ASSUME LInv, [Next]_vars
  PROVE  LInv' /\ (Service!Next \/ UNCHANGED service)
<1>1. ASSUME NEW c \in Callers, CallerStep(c)
      PROVE  LInv' /\ (Service!Next \/ UNCHANGED service)
  BY <1>1, ReturnCallStep, RollbackRaisesStep, SpawnRefusedStep, UnwindStep, SendRaisesStep,
    TurnRejectedStep, LaunchStep, StartFailedStep, SendStep, ShakeBeginStep, StartAcquireStep,
    TurnAcquireStep, InsertStep, RollbackStep, SendRaisedStep, TurnCommitStep, RegisterStep, Zenon
  DEF CallerStep
<1>2. ASSUME NEW c \in Callers, NEW s \in Sids, StartBegin(c, s) \/ TurnBegin(c, s)
      PROVE  LInv' /\ (Service!Next \/ UNCHANGED service)
  BY <1>2, StartBeginStep, TurnBeginStep
<1>3. ASSUME NEW c \in Callers, NEW old \in Sids, NEW s \in Sids, RestartBegin(c, old, s)
      PROVE  LInv' /\ (Service!Next \/ UNCHANGED service)
  BY <1>3, RestartBeginStep
<1>4. ASSUME NEW s \in Sids, MonitorStep(s) \/ TurnDone(s) \/ TurnDoneByHook(s) \/ TurnByHook(s)
                             \/ PersistTerminal(s) \/ PersistFails(s)
      PROVE  LInv' /\ (Service!Next \/ UNCHANGED service)
  BY <1>4, OnIdleStep, FreeSlotStep, FreeSlotRaisesStep, TurnOverSteps, PersistTerminalStep, Zenon
  DEF MonitorStep
<1>5. ASSUME NEW th \in Threads, ReleaseStep(th)
      PROVE  LInv' /\ (Service!Next \/ UNCHANGED service)
  BY <1>5, RetryOutboxStep, ReleaseOneStep, Zenon DEF ReleaseStep
<1>6. CASE RouterRestart
  BY <1>6, RouterRestartStep
<1>7. ASSUME NEW e \in Epochs, DaemonCrash(e) \/ Retire(e)
      PROVE  LInv' /\ (Service!Next \/ UNCHANGED service)
  BY <1>7, DaemonCrashStep, RetireStep
<1>8. CASE UNCHANGED vars
  BY <1>8, StutterLInv
<1> QED
  BY <1>1, <1>2, <1>3, <1>4, <1>5, <1>6, <1>7, <1>8, Zenon DEF Next


-----------------------------------------------------------------------------
(* Theorems                                                                *)

\* The inductive invariant holds with every fault the model has: lost calls,
\* replies and grants, rejected input, an unavailable store, restarts of the
\* router and crashes of daemons.
THEOREM ClientInvariance == Spec => []LInv
<1>1. Init => LInv
  BY InitLInv
<1>2. LInv /\ [Next]_vars => LInv'
  BY NextLInv
<1> QED
  BY <1>1, <1>2, PTL DEF Spec

\* Whatever the daemons' threads do, in whatever order and with whatever
\* faults, every call that changes the router's account is a call the lease
\* service allows (LeaseService!Next): lease_client.py never registers a
\* snapshot with a token that nobody was ever given, nor one of another epoch.
THEOREM ClientsUseTheService == Spec => Service!Spec
<1>1. Init => Service!Init
  BY InitLInv
<1>2. LInv /\ [Next]_vars => [Service!Next]_(Service!service)
  BY NextLInv DEF service, Service!service
<1> QED
  BY <1>1, <1>2, ClientInvariance, PTL DEF Spec, Service!Spec

\* Type correctness.
THEOREM ClientTypes == Spec => []TypeOK
<1>1. LInv => TypeOK
  BY DEF LInv, PInv, OwnTypeOK, TypeOK, Service!IInv
<1> QED
  BY <1>1, ClientInvariance, PTL

\* The router's account stays sound with these clients: never more tokens
\* than a limit, counters equal to what they count, one entry per key.
THEOREM AccountStaysSound == Spec => []AccountSound
<1>1. LInv => AccountSound
  BY DEF LInv, PInv, AccountSound
<1> QED
  BY <1>1, ClientInvariance, PTL

\* Sessions with a PTY have live tokens of their own in the account.
LEMMA PtysAreBacked ==
  ASSUME LInv, OneRouter
  PROVE  PtyBound
<1> DEFINE P == {s \in Sids : HasPty(s)}
           L == Service!OfKind(tokens, "live")
<1>1. \A s \in P : \E x \in L : x.sid = s
  <2>1. ASSUME NEW s \in P PROVE \E x \in L : x.sid = s
    <3>1. held[s]["live"] \in MaybeToken
      BY BothKinds DEF LInv, PInv, OwnTypeOK
    <3>2. Guarded(held[s]["live"], s)
      BY DEF Guarded
    <3>3. InAccount(held[s]["live"], s)
      BY <3>1, <3>2 DEF LInv, PtyInv, LiveBacked, Backed
    <3> QED
      BY <3>3 DEF InAccount, Service!OfKind
  <2> QED
    BY <2>1
<1>2. PICK f \in [P -> L] : \A s \in P : f[s].sid = s
  <2>1. [s \in P |-> CHOOSE x \in L : x.sid = s] \in [P -> L]
    BY <1>1
  <2> QED
    BY <1>1, <2>1
<1>3. f \in Injection(P, L)
  BY <1>2 DEF Injection, IsInjective
<1>4. IsFiniteSet(L) /\ Cardinality(L) <= Limit["live"]
  <2>1. Service!IInv /\ IsFiniteSet(tokens)
    BY SameCardinality DEF LInv, PInv, Service!IInv
  <2>2. Service!Cardinality(L) <= Limit["live"]
    BY <2>1, BothKinds DEF Service!IInv, Service!Bounded
  <2>3. L \in SUBSET tokens
    BY DEF Service!OfKind
  <2> QED
    BY <2>1, <2>2, <2>3, SameCardinality, FS_Subset
<1>5. Cardinality(P) <= Cardinality(L) /\ IsFiniteSet(P)
  BY <1>3, <1>4, FS_Injection
<1>6. Cardinality(P) \in Nat /\ Cardinality(L) \in Nat /\ Limit["live"] \in Nat
  BY <1>4, <1>5, FS_CardinalityType, LeaseProtocolAssumption
<1> QED
  BY <1>4, <1>5, <1>6 DEF PtyBound

\* While one router lives, there are never more sessions with a PTY, over all
\* daemons, than live_pty_limit: with lost grants, rejected input, rows that
\* cannot be written, lost calls and daemon crashes.  After a restart of the
\* router it does not hold: it admits before every epoch has registered.
THEOREM PtysAreBounded ==
  ASSUME OneRouter
  PROVE  Spec => []PtyBound
<1>1. LInv => PtyBound
  BY PtysAreBacked
<1> QED
  BY <1>1, ClientInvariance, PTL

\* No slot is lost when calls or replies to a release or a snapshot are lost,
\* the router restarts or daemons die.  A lost grant, rejected input or an
\* unavailable store does lose slots: see the hazards of the README.
THEOREM NothingLeaks ==
  ASSUME NothingForgotten
  PROVE  Spec => []NoLeak
<1>1. ASSUME LInv, NEW x \in tokens, up[x.epoch] PROVE Accounted(x)
  <2>1. LeakInv
    BY <1>1 DEF LInv
  <2>2. Kept(x) \/ \E c \in Callers : InHand(x, c)
    BY <1>1, <2>1 DEF LeakInv
  <2> QED
    BY <2>2 DEF Kept, ToGo, InHand, Accounted
<1>2. LInv => NoLeak
  BY <1>1 DEF NoLeak
<1> QED
  BY <1>2, ClientInvariance, PTL


\* A thread begins to release tokens only when it has none left to release:
\* no release call is forgotten by what comes after it.
OnlyAdds == \A th \in Threads : releases[th].out \subseteq releases'[th].out

LEMMA BeginsToRelease ==
  ASSUME OwnTypeOK, NEW th \in Threads, Ready(th), NEW out, NEW retry, ThenRelease(th, out, retry)
  PROVE  OnlyAdds
BY FreeShape DEF OwnTypeOK, Ready, ThenRelease, OnlyAdds

LEMMA CallersAdd ==
  ASSUME OwnTypeOK, NEW c \in Callers,
         \/ CallerStep(c)
         \/ \E s \in Sids : StartBegin(c, s) \/ TurnBegin(c, s)
         \/ \E old, s \in Sids : RestartBegin(c, old, s)
  PROVE  OnlyAdds
<1>1. c \in Threads
  BY DEF Threads
<1>2. CASE releases' = releases
  BY <1>2 DEF OnlyAdds
<1>3. CASE Ready(c) /\ \E out, retry : ThenRelease(c, out, retry)
  BY <1>1, <1>3, BeginsToRelease
<1>4. CASE Launch(c) \/ Insert(c) \/ StartAcquire(c) \/ StartFailed(c) \/ RollbackRaises(c)
           \/ TurnAcquire(c) \/ Send(c) \/ SendRaised(c) \/ ShakeBegin(c) \/ ReturnCall(c)
           \/ \E old, s \in Sids : RestartBegin(c, old, s)
  <2>1. releases' = releases
    BY <1>4, Zenon DEF Launch, Insert, StartAcquire, StartFailed, RollbackRaises, TurnAcquire, Send,
      SendRaised, ShakeBegin, ReturnCall, RestartBegin
  <2> QED
    BY <1>2, <2>1
<1>5. CASE SpawnRefused(c) \/ Rollback(c) \/ Unwind(c) \/ TurnCommit(c) \/ TurnRejected(c)
           \/ SendRaises(c) \/ \E s \in Sids : StartBegin(c, s) \/ TurnBegin(c, s)
  BY <1>3, <1>5, Zenon DEF SpawnRefused, Rollback, Unwind, TurnCommit, TurnRejected, SendRaises,
    StartBegin, TurnBegin, At
<1>6. CASE Register(c)
  <2>1. Ready(c) /\ (releases' = releases \/ ThenRelease(c, {}, TRUE))
    BY <1>6 DEF Register, At
  <2> QED
    BY <1>2, <1>3, <2>1
<1> QED
  BY <1>4, <1>5, <1>6, Zenon DEF CallerStep

LEMMA MonitorsAdd ==
  ASSUME OwnTypeOK, NEW s \in Sids,
         \/ MonitorStep(s) \/ TurnDone(s) \/ TurnDoneByHook(s) \/ TurnByHook(s)
         \/ PersistTerminal(s) \/ PersistFails(s)
  PROVE  OnlyAdds
<1>1. s \in Threads
  BY DEF Threads
<1>2. CASE releases' = releases
  BY <1>2 DEF OnlyAdds
<1>3. CASE Ready(s) /\ \E out, retry : ThenRelease(s, out, retry)
  BY <1>1, <1>3, BeginsToRelease
<1>4. CASE TurnDone(s) \/ TurnDoneByHook(s) \/ TurnByHook(s) \/ PersistFails(s) \/ FreeSlotRaises(s)
  BY <1>2, <1>4 DEF TurnDone, TurnDoneByHook, TurnByHook, PersistFails, FreeSlotRaises, threads
<1>5. CASE OnIdle(s) \/ PersistTerminal(s)
  BY <1>3, <1>5, Zenon DEF OnIdle, PersistTerminal, Ends, MonitorAt
<1>6. CASE FreeSlot(s)
  BY <1>3, <1>6, Zenon DEF FreeSlot, MonitorAt
<1> QED
  BY <1>4, <1>5, <1>6 DEF MonitorStep

\* The call of one release: any other is left as it is.
LEMMA ReleaseCall ==
  ASSUME LInv, ClientNamesEpoch, "network" \notin Faults,
         NEW u \in Threads, NEW t2 \in Service!Tokens, ReleaseOne(u, t2),
         NEW th \in Threads, NEW t \in releases[th].out, t \notin releases'[th].out,
         NEW e, e = EpochOfThread(th),
         Service!Admits(e, known[e]), releases[th].via \in {NoRid, known[e]}
  PROVE  ~\E x \in tokens' : x.epoch = e /\ x.tid = t
<1>1. PInv /\ releases \in [Threads -> ReleaseRec]
  BY DEF LInv, PInv, OwnTypeOK
<1>2. PICK v : releases' = [releases EXCEPT ![u].out = releases[u].out \ {t2}, ![u].via = v]
  <2>1. PICK v : v = IF releases[u].out \ {t2} = {} THEN NoRid ELSE releases[u].via
    OBVIOUS
  <2> QED
    BY <1>1, <2>1 DEF ReleaseOne, ReleaseRec
<1>3. u = th /\ t2 = t
  BY <1>1, <1>2 DEF ReleaseRec
<1>4. releases[th] # Settled
  BY FreeShape
<1>5. e \in Epochs
  BY <1>1, <1>4, Releasing DEF EpochOfThread
<1>6. RouterReleases(e, t, known[e])
  <2>1. PICK r : r = IF releases[th].via # NoRid THEN releases[th].via ELSE known[e]
    OBVIOUS
  <2>2. RouterReleases(e, t, r)
    BY <1>3, <2>1 DEF ReleaseOne
  <2>3. r = known[e]
    BY <2>1
  <2> QED
    BY <2>2, <2>3
<1>7. Acks(e, known[e])
  BY DEF Acks
<1> QED
  BY <1>1, <1>3, <1>5, <1>6, <1>7, RouterReleasesShape

\* A release that the router gets and serves takes the token out of the
\* account, whatever other threads and daemons do: if the client names its
\* epoch.  (As the daemon builds it, it does not: run lease_client_epoch.)
THEOREM ReleasesFree ==
  ASSUME ClientNamesEpoch, Faults \cap {"network", "daemon"} = {}
  PROVE  Spec => ReleaseFrees
<1> DEFINE Freed == \A th \in Threads : \A t \in releases[th].out :
                      LET e == EpochOfThread(th)
                      IN /\ releases' # releases /\ t \notin releases'[th].out
                         /\ Service!Admits(e, known[e]) /\ releases[th].via \in {NoRid, known[e]}
                         => ~\E x \in tokens' : x.epoch = e /\ x.tid = t
<1>1. OnlyAdds => Freed
  BY DEF OnlyAdds
<1>2. releases' = releases => Freed
  OBVIOUS
<1>3. ASSUME LInv, NEW u \in Threads, NEW t2 \in Service!Tokens, ReleaseOne(u, t2) PROVE Freed
  BY <1>3, ReleaseCall
<1>4. ASSUME LInv, NEW u \in Threads, RetryOutbox(u) PROVE OnlyAdds
  BY <1>4 DEF LInv, PInv, OwnTypeOK, RetryOutbox, OnlyAdds
<1> HIDE DEF Freed
<1>5. LInv /\ [Next]_vars => [Freed]_vars
  <2> SUFFICES ASSUME LInv, Next PROVE Freed
    OBVIOUS
  <2>1. OwnTypeOK
    BY DEF LInv, PInv
  <2>2. ASSUME NEW c \in Callers,
               \/ CallerStep(c)
               \/ \E s \in Sids : StartBegin(c, s) \/ TurnBegin(c, s)
               \/ \E old, s \in Sids : RestartBegin(c, old, s)
        PROVE  Freed
    BY <1>1, <2>1, <2>2, CallersAdd
  <2>3. ASSUME NEW s \in Sids,
               \/ MonitorStep(s) \/ TurnDone(s) \/ TurnDoneByHook(s) \/ TurnByHook(s)
               \/ PersistTerminal(s) \/ PersistFails(s)
        PROVE  Freed
    BY <1>1, <2>1, <2>3, MonitorsAdd
  <2>4. ASSUME NEW th \in Threads, ReleaseStep(th) PROVE Freed
    BY <1>1, <1>3, <1>4, <2>4 DEF ReleaseStep
  <2>5. CASE RouterRestart
    BY <1>2, <2>5 DEF RouterRestart, threads
  <2>6. ASSUME NEW e \in Epochs, DaemonCrash(e) \/ Retire(e) PROVE Freed
    BY <1>2, <2>6 DEF DaemonCrash, Retire, threads
  <2> QED
    BY <2>2, <2>3, <2>4, <2>5, <2>6, Zenon DEF Next
<1> QED
  BY <1>5, ClientInvariance, PTL DEF Spec, ReleaseFrees, Freed
=============================================================================
