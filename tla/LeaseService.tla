---------------------------- MODULE LeaseService ----------------------------
(***************************************************************************)
(* router/leases.py: the router's account of the active and live-PTY slots *)
(* that the generation daemons hold, one account for all generations.  The *)
(* account is in memory only: a router restart empties it, and an epoch is *)
(* served again once it has registered a snapshot of what it holds.        *)
(*                                                                         *)
(* Every method runs under the service's lock, so each is one step.  A     *)
(* call that raises or that answers "absent" changes nothing.              *)
(***************************************************************************)
EXTENDS Integers, FiniteSets

CONSTANTS Epochs,   \* (generation id, generation epoch) pairs
          Sids,     \* session ids
          Acts,     \* activation ids
          Limit,    \* Limit[kind]: active_limit and live_pty_limit
          MaxToken, \* bound: the number of tokens ever minted
          MaxRid,   \* bound: the number of router incarnations
          NoRid     \* None

Kinds == {"active", "live"}

ASSUME LeaseAssumption ==
  /\ Limit \in [Kinds -> Nat]
  /\ MaxToken \in Nat
  /\ MaxRid \in Nat \ {0}

\* uuid4 returns fresh ids: numbering tokens and incarnations does the same.
Tokens == 1..MaxToken
Rids   == 1..MaxRid

ASSUME NoRidAssumption == NoRid \notin Rids

VARIABLES
  rid,         \* _reconciliation_id
  tokens,      \* the entries of all es.tokens
  byKindKey,   \* the entries of all es.by_kind_key
  count,       \* count[e][kind]: es.active_count, es.live_pty_count
  total,       \* total[kind]: _global_active_count, _global_live_pty_count
  reconciled,  \* reconciled[e]: es.reconciled_rid
  minted       \* how many token ids uuid4 has returned so far

service == <<rid, tokens, byKindKey, count, total, reconciled, minted>>

Entry == [tid : Tokens, epoch : Epochs, sid : Sids, act : Acts, kind : Kinds]

SameKey(x, y) == x.epoch = y.epoch /\ x.sid = y.sid /\ x.act = y.act /\ x.kind = y.kind
OfKind(S, kind) == {x \in S : x.kind = kind}
OfEpoch(S, e)   == {x \in S : x.epoch = e}

TypeOK ==
  /\ rid \in Rids
  /\ tokens \subseteq Entry
  /\ byKindKey \subseteq Entry
  /\ count \in [Epochs -> [Kinds -> Nat]]
  /\ total \in [Kinds -> Nat]
  /\ reconciled \in [Epochs -> Rids \cup {NoRid}]
  /\ minted \in 0..MaxToken

Zero == [kind \in Kinds |-> 0]

\* LeaseService.__init__
Fresh ==
  /\ tokens = {}
  /\ byKindKey = {}
  /\ count = [e \in Epochs |-> Zero]
  /\ total = Zero
  /\ reconciled = [e \in Epochs |-> NoRid]
Init == rid = 1 /\ minted = 0 /\ Fresh

-----------------------------------------------------------------------------
\* The two gates of acquire and release: the caller names this incarnation,
\* and this incarnation has the epoch's snapshot.
Admits(e, r) == r = rid /\ reconciled[e] = rid

\* The entry of a fenced key, if it has one.
Held(e, s, a, kind) ==
  {x \in byKindKey : x.epoch = e /\ x.sid = s /\ x.act = a /\ x.kind = kind}
Needs(e, s, a, kinds) == {kind \in kinds : Held(e, s, a, kind) = {}}

\* Mutant: a slot too many.
HasRoomInclusive(kind) == total[kind] <= Limit[kind]

HasRoom(kind) == total[kind] < Limit[kind]

\* Capacity of ALL requested kinds is checked before anything is minted.
CanAcquire(e, s, a, kinds, r) ==
  /\ Admits(e, r)
  /\ \A kind \in Needs(e, s, a, kinds) : HasRoom(kind)

\* The active token is minted first. uuid4 never repeats an id: taken for granted.
Mint(kind, needs) == minted + (IF needs = Kinds /\ kind = "live" THEN 2 ELSE 1)

\* The token ids of the reply: a key that has a token gets it again.
Granted(e, s, a, kinds) ==
  LET needs == Needs(e, s, a, kinds)
  IN [kind \in kinds |-> IF kind \in needs THEN Mint(kind, needs)
                         ELSE (CHOOSE x \in Held(e, s, a, kind) : TRUE).tid]

NewEntries(e, s, a, kinds) ==
  {[tid |-> Mint(kind, Needs(e, s, a, kinds)), epoch |-> e, sid |-> s, act |-> a, kind |-> kind] :
     kind \in Needs(e, s, a, kinds)}

\* acquire: the keys that have no token get a fresh one, and are counted.
Acquire(e, s, a, kinds, r) ==
  LET needs == Needs(e, s, a, kinds)
      new == NewEntries(e, s, a, kinds)
      n(kind) == IF kind \in needs THEN 1 ELSE 0
  IN /\ CanAcquire(e, s, a, kinds, r)
     /\ minted + Cardinality(needs) <= MaxToken
     /\ tokens' = tokens \cup new
     /\ byKindKey' = byKindKey \cup new
     /\ count' = [count EXCEPT ![e] = [kind \in Kinds |-> @[kind] + n(kind)]]
     /\ total' = [kind \in Kinds |-> total[kind] + n(kind)]
     /\ minted' = minted + Cardinality(needs)
     /\ UNCHANGED <<rid, reconciled>>

\* Mutant: the index keeps the key of a released token.
UnindexNothing(gone) == byKindKey

Unindex(gone) == {x \in byKindKey : \A y \in gone : ~SameKey(x, y)}

\* Mutant: the counters keep what was released.
LeftAll(n, gone, kind) == n

Left(n, gone, kind) == n - Cardinality(OfKind(gone, kind))

\* Mutant: only the index and the counters are updated.
RemoveKeepsTokens(e, gone) ==
  /\ byKindKey' = Unindex(gone)
  /\ count' = [count EXCEPT ![e] = [kind \in Kinds |-> Left(@[kind], gone, kind)]]
  /\ total' = [kind \in Kinds |-> Left(total[kind], gone, kind)]
  /\ UNCHANGED <<rid, tokens, reconciled, minted>>

\* Entries leave both dicts and both counters.
Remove(e, gone) ==
  /\ tokens' = tokens \ gone
  /\ byKindKey' = Unindex(gone)
  /\ count' = [count EXCEPT ![e] = [kind \in Kinds |-> Left(@[kind], gone, kind)]]
  /\ total' = [kind \in Kinds |-> Left(total[kind], gone, kind)]
  /\ UNCHANGED <<rid, reconciled, minted>>

\* release: the token leaves the account once; a duplicate finds no entry.
Release(e, t, r) ==
  /\ Admits(e, r)
  /\ \E x \in OfEpoch(tokens, e) : x.tid = t /\ Remove(e, {x})

\* release_epoch: crash reconciliation, for a daemon that is dead.
ReleaseEpoch(e) == Remove(e, OfEpoch(tokens, e))

\* _validate_snapshot_entry_batch and the duplicate checks, on two JSON lists.
ValidSnapshot(e, snap) ==
  /\ IsFiniteSet(snap)
  /\ \A x \in snap : x \in Entry /\ x.epoch = e
  /\ \A x, y \in snap : x.tid = y.tid \/ SameKey(x, y) => x = y

\* The global count once the epoch's old share is replaced.
Projected(e, snap, kind) == total[kind] - count[e][kind] + Cardinality(OfKind(snap, kind))

\* The snapshot is accepted: for this incarnation, well-formed, and it fits.
Fits(e, snap) ==
  ValidSnapshot(e, snap) /\ \A kind \in Kinds : Projected(e, snap, kind) <= Limit[kind]

\* register_snapshot: the account of one epoch is replaced by what it holds.
\* An epoch that this incarnation has already registered keeps its account.
RegisterSnapshot(e, r, snap) ==
  /\ r = rid /\ reconciled[e] # rid
  /\ Fits(e, snap)
  /\ tokens' = (tokens \ OfEpoch(tokens, e)) \cup snap
  /\ byKindKey' = (byKindKey \ OfEpoch(byKindKey, e)) \cup snap
  /\ count' = [count EXCEPT ![e] = [kind \in Kinds |-> Cardinality(OfKind(snap, kind))]]
  /\ total' = [kind \in Kinds |-> Projected(e, snap, kind)]
  /\ reconciled' = [reconciled EXCEPT ![e] = rid]
  /\ UNCHANGED <<rid, minted>>

\* A new router process: an empty account under a new id.
RouterRestart ==
  /\ rid < MaxRid
  /\ rid' = rid + 1
  /\ tokens' = {} /\ byKindKey' = {}
  /\ count' = [e \in Epochs |-> Zero]
  /\ total' = Zero
  /\ reconciled' = [e \in Epochs |-> NoRid]
  /\ UNCHANGED minted

\* Any caller and any arguments, but for token ids nobody was ever given and
\* for snapshots of another epoch, which are refused.
Next ==
  \/ \E e \in Epochs :
       \/ \E s \in Sids, a \in Acts, kinds \in (SUBSET Kinds) \ {{}}, r \in Rids :
            Acquire(e, s, a, kinds, r)
       \/ \E t \in Tokens, r \in Rids : Release(e, t, r)
       \/ \E r \in Rids, snap \in SUBSET {x \in OfEpoch(Entry, e) : x.tid <= minted} :
            RegisterSnapshot(e, r, snap)
       \/ ReleaseEpoch(e)
  \/ RouterRestart

Spec == Init /\ [][Next]_service

-----------------------------------------------------------------------------
(* Properties                                                              *)

\* The bound is on the tokens themselves, over all epochs together, whatever
\* is acquired, registered or released in whatever order (acquire,
\* register_snapshot).
Bounded == \A kind \in Kinds : Cardinality(OfKind(tokens, kind)) <= Limit[kind]

\* The counters that admission reads, kept by increments and decrements in
\* four methods, never drift from the tokens they count.
CountsMatch ==
  \A kind \in Kinds :
    /\ total[kind] = Cardinality(OfKind(tokens, kind))
    /\ \A e \in Epochs : count[e][kind] = Cardinality(OfKind(OfEpoch(tokens, e), kind))

\* tokens and by_kind_key list the same entries, a fenced key has one token
\* and a token one key: the same key is counted once (acquire's "fresh").
IndexAgrees ==
  /\ byKindKey = tokens
  /\ \A x, y \in tokens : SameKey(x, y) \/ (x.epoch = y.epoch /\ x.tid = y.tid) => x = y

\* What is in the account was minted, by an epoch that has registered.
Registered == \A x \in tokens : x.tid <= minted /\ reconciled[x.epoch] = rid

\* The inductive invariant.
IInv ==
  /\ TypeOK /\ IsFiniteSet(tokens) /\ Registered
  /\ Bounded /\ CountsMatch /\ IndexAgrees
=============================================================================
