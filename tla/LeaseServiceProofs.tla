------------------------- MODULE LeaseServiceProofs -------------------------
(***************************************************************************)
(* Proofs about the router's lease account, for any number of epochs,      *)
(* sessions, tokens and router incarnations and for any limits.            *)
(***************************************************************************)
EXTENDS LeaseService, FiniteSetTheorems, TLAPS

\* The entries of one kind, or of one epoch, of a finite set can be counted.
LEMMA Countable ==
  ASSUME NEW S, IsFiniteSet(S), NEW kind
  PROVE  /\ IsFiniteSet(OfKind(S, kind)) /\ Cardinality(OfKind(S, kind)) \in Nat
         /\ \A e : IsFiniteSet(OfEpoch(S, e))
<1>1. OfKind(S, kind) \in SUBSET S /\ \A e : OfEpoch(S, e) \in SUBSET S
  BY DEF OfKind, OfEpoch
<1> QED
  BY <1>1, FS_Subset, FS_CardinalityType

\* Disjoint finite sets add up.
LEMMA DisjointUnion ==
  ASSUME NEW A, NEW B, IsFiniteSet(A), IsFiniteSet(B), A \cap B = {}
  PROVE  Cardinality(A \cup B) = Cardinality(A) + Cardinality(B)
<1>1. Cardinality(A \cup B) = Cardinality(A) + Cardinality(B) - Cardinality(A \cap B)
  BY FS_Union
<1>2. Cardinality(A \cap B) = 0
  BY FS_EmptySet
<1>3. Cardinality(A) \in Nat /\ Cardinality(B) \in Nat
  BY FS_CardinalityType
<1> DEFINE a == Cardinality(A)
           b == Cardinality(B)
           u == Cardinality(A \cup B)
           i == Cardinality(A \cap B)
<1>4. u = a + b - i /\ i = 0 /\ a \in Nat /\ b \in Nat
  BY <1>1, <1>2, <1>3
<1> HIDE DEF a, b, u, i
<1>5. u = a + b
  BY <1>4
<1> QED
  BY <1>5 DEF a, b, u

\* Entries that were not there add up, kind by kind.
LEMMA Grow ==
  ASSUME NEW S, NEW T, IsFiniteSet(S), IsFiniteSet(T), S \cap T = {}, NEW kind
  PROVE  Cardinality(OfKind(S \cup T, kind)) =
           Cardinality(OfKind(S, kind)) + Cardinality(OfKind(T, kind))
<1>1. OfKind(S \cup T, kind) = OfKind(S, kind) \cup OfKind(T, kind)
  BY DEF OfKind
<1>2. OfKind(S, kind) \cap OfKind(T, kind) = {}
  BY DEF OfKind
<1>3. IsFiniteSet(OfKind(S, kind)) /\ Cardinality(OfKind(S, kind)) \in Nat
  BY Countable
<1>4. IsFiniteSet(OfKind(T, kind)) /\ Cardinality(OfKind(T, kind)) \in Nat
  BY Countable
<1> QED
  BY <1>1, <1>2, <1>3, <1>4, DisjointUnion

\* Entries that were there subtract, kind by kind.
LEMMA Shrink ==
  ASSUME NEW S, NEW T \in SUBSET S, IsFiniteSet(S), NEW kind
  PROVE  Cardinality(OfKind(S \ T, kind)) =
           Cardinality(OfKind(S, kind)) - Cardinality(OfKind(T, kind))
<1>1. IsFiniteSet(T) /\ IsFiniteSet(S \ T)
  BY FS_Subset
<1>2. (S \ T) \cup T = S /\ (S \ T) \cap T = {}
  OBVIOUS
<1>3. Cardinality(OfKind(S, kind)) =
        Cardinality(OfKind(S \ T, kind)) + Cardinality(OfKind(T, kind))
  BY <1>1, <1>2, Grow
<1>4. Cardinality(OfKind(S \ T, kind)) \in Nat /\ Cardinality(OfKind(T, kind)) \in Nat
  BY <1>1, Countable
<1> QED
  BY <1>3, <1>4

\* A fresh account is sound.
LEMMA FreshIsSound ==
  ASSUME Fresh
  PROVE  /\ IsFiniteSet(tokens) /\ Registered /\ Bounded /\ CountsMatch /\ IndexAgrees
         /\ tokens \subseteq Entry /\ byKindKey \subseteq Entry
         /\ count \in [Epochs -> [Kinds -> Nat]] /\ total \in [Kinds -> Nat]
         /\ reconciled \in [Epochs -> Rids \cup {NoRid}]
<1>1. tokens = {} /\ byKindKey = {}
  BY DEF Fresh
<1>2. \A e, kind : OfKind(tokens, kind) = {} /\ OfKind(OfEpoch(tokens, e), kind) = {}
  BY <1>1 DEF OfKind, OfEpoch
<1>3. Bounded
  BY <1>2, FS_EmptySet, LeaseAssumption DEF Bounded
<1>4. CountsMatch
  BY <1>2, FS_EmptySet DEF CountsMatch, Fresh, Zero
<1>5. IsFiniteSet(tokens) /\ Registered /\ IndexAgrees
  BY <1>1, FS_EmptySet DEF Registered, IndexAgrees
<1>6. count \in [Epochs -> [Kinds -> Nat]] /\ total \in [Kinds -> Nat]
  BY DEF Fresh, Zero
<1> QED
  BY <1>1, <1>3, <1>4, <1>5, <1>6 DEF Fresh

-----------------------------------------------------------------------------
\* The counters are natural numbers because they count.
LEMMA CountersTyped ==
  ASSUME NEW T, IsFiniteSet(T), NEW c, NEW n,
         c = [e \in Epochs |-> c[e]], \A e \in Epochs : c[e] = [kind \in Kinds |-> c[e][kind]],
         n = [kind \in Kinds |-> n[kind]],
         \A kind \in Kinds : n[kind] = Cardinality(OfKind(T, kind)),
         \A e \in Epochs, kind \in Kinds : c[e][kind] = Cardinality(OfKind(OfEpoch(T, e), kind))
  PROVE  c \in [Epochs -> [Kinds -> Nat]] /\ n \in [Kinds -> Nat]
<1>1. \A kind : Cardinality(OfKind(T, kind)) \in Nat
  BY Countable
<1>2. \A e : IsFiniteSet(OfEpoch(T, e))
  BY Countable
<1>3. \A e, kind : Cardinality(OfKind(OfEpoch(T, e), kind)) \in Nat
  BY <1>2, Countable
<1>4. n \in [Kinds -> Nat]
  BY <1>1
<1>5. ASSUME NEW e \in Epochs PROVE c[e] \in [Kinds -> Nat]
  <2>1. \A kind \in Kinds : c[e][kind] \in Nat
    BY <1>3
  <2>2. c[e] = [kind \in Kinds |-> c[e][kind]]
    OBVIOUS
  <2> QED BY <2>1, <2>2
<1> QED
  BY <1>4, <1>5

\* Entries of one epoch that leave the account leave it sound: the body of
\* release and of release_epoch.
LEMMA RemoveKeepsIInv ==
  ASSUME IInv, NEW e \in Epochs, NEW gone \in SUBSET OfEpoch(tokens, e), Remove(e, gone)
  PROVE  IInv'
<1>1. tokens' = tokens \ gone /\ rid' = rid /\ reconciled' = reconciled /\ minted' = minted
  BY DEF Remove
<1>2. IsFiniteSet(tokens) /\ TypeOK /\ Registered /\ Bounded /\ CountsMatch /\ IndexAgrees
  BY DEF IInv
<1>3. gone \in SUBSET tokens
  BY DEF OfEpoch
<1>4. IsFiniteSet(tokens')
  BY <1>1, <1>2, FS_Difference
<1>5. \A kind : Cardinality(OfKind(tokens', kind)) =
                 Cardinality(OfKind(tokens, kind)) - Cardinality(OfKind(gone, kind))
  BY <1>1, <1>2, <1>3, Shrink
<1>6. \A kind \in Kinds : total'[kind] = Cardinality(OfKind(tokens', kind))
  BY <1>2, <1>5 DEF Remove, Left, CountsMatch
<1>7. ASSUME NEW f \in Epochs, NEW kind \in Kinds
      PROVE  count'[f][kind] = Cardinality(OfKind(OfEpoch(tokens', f), kind))
  <2>0. count \in [Epochs -> [Kinds -> Nat]]
    BY <1>2 DEF TypeOK
  <2>1. count[f][kind] = Cardinality(OfKind(OfEpoch(tokens, f), kind))
    BY <1>2 DEF CountsMatch
  <2>2. CASE f = e
    <3>1. OfEpoch(tokens', e) = OfEpoch(tokens, e) \ gone
      BY <1>1 DEF OfEpoch
    <3>2. IsFiniteSet(OfEpoch(tokens, e))
      BY <1>2, Countable
    <3>3. Cardinality(OfKind(OfEpoch(tokens', e), kind)) =
            Cardinality(OfKind(OfEpoch(tokens, e), kind)) - Cardinality(OfKind(gone, kind))
      BY <3>1, <3>2, Shrink
    <3>4. count'[e][kind] = count[e][kind] - Cardinality(OfKind(gone, kind))
      BY <2>0 DEF Remove, Left
    <3> QED BY <2>1, <2>2, <3>3, <3>4
  <2>3. CASE f # e
    <3>1. OfEpoch(tokens', f) = OfEpoch(tokens, f)
      BY <1>1, <2>3 DEF OfEpoch
    <3>2. count'[f] = count[f]
      BY <2>0, <2>3 DEF Remove
    <3> QED BY <2>1, <3>1, <3>2
  <2> QED BY <2>2, <2>3
<1>8. count' \in [Epochs -> [Kinds -> Nat]] /\ total' \in [Kinds -> Nat]
  <2>1. count \in [Epochs -> [Kinds -> Nat]]
    BY <1>2 DEF TypeOK
  <2>2. count' = [f \in Epochs |-> count'[f]] /\ total' = [kind \in Kinds |-> total'[kind]]
    BY <2>1 DEF Remove
  <2>3. \A f \in Epochs : count'[f] = [kind \in Kinds |-> count'[f][kind]]
    BY <2>1 DEF Remove
  <2> QED BY <1>4, <1>6, <1>7, <2>2, <2>3, CountersTyped
<1>9. Bounded'
  <2>1. \A kind : /\ Cardinality(OfKind(tokens, kind)) \in Nat
                  /\ Cardinality(OfKind(gone, kind)) \in Nat
    BY <1>2, <1>3, FS_Subset, Countable
  <2> QED BY <1>2, <1>5, <2>1, LeaseAssumption DEF Bounded
<1>10. byKindKey' = tokens'
  <2>1. byKindKey = tokens
    BY <1>2 DEF IndexAgrees
  <2>2. \A x \in tokens, y \in gone : SameKey(x, y) <=> x = y
    BY <1>2, <1>3 DEF IndexAgrees, SameKey
  <2> QED BY <1>1, <2>1, <2>2 DEF Remove, Unindex
<1>11. IndexAgrees'
  BY <1>1, <1>2, <1>10 DEF IndexAgrees, SameKey
<1>12. CountsMatch'
  BY <1>6, <1>7 DEF CountsMatch
<1>13. Registered'
  BY <1>1, <1>2 DEF Registered
<1>14. TypeOK'
  BY <1>1, <1>2, <1>8, <1>10 DEF TypeOK
<1> QED
  BY <1>4, <1>9, <1>11, <1>12, <1>13, <1>14 DEF IInv

\* Entries with new keys and new ids, of an epoch that is registered now and
\* with room for them, leave the account sound: what acquire and
\* register_snapshot have in common.
LEMMA AddKeepsIInv ==
  ASSUME IInv, NEW e \in Epochs, NEW new \in SUBSET Entry, IsFiniteSet(new),
         \A x \in new : x.epoch = e /\ x.tid <= minted',
         \A x \in new, y \in tokens : ~SameKey(x, y) /\ ~(x.epoch = y.epoch /\ x.tid = y.tid),
         \A x, y \in new : x.tid = y.tid \/ SameKey(x, y) => x = y,
         \A kind \in Kinds : total[kind] + Cardinality(OfKind(new, kind)) <= Limit[kind],
         tokens' = tokens \cup new, byKindKey' = byKindKey \cup new,
         count' = [count EXCEPT ![e] =
                    [kind \in Kinds |-> count[e][kind] + Cardinality(OfKind(new, kind))]],
         total' = [kind \in Kinds |-> total[kind] + Cardinality(OfKind(new, kind))],
         rid' = rid, reconciled' = [reconciled EXCEPT ![e] = rid],
         minted' \in 0..MaxToken, minted <= minted'
  PROVE  IInv'
<1>2. IsFiniteSet(tokens) /\ TypeOK /\ Registered /\ Bounded /\ CountsMatch /\ IndexAgrees
  BY DEF IInv
<1>3. tokens \cap new = {}
  BY DEF SameKey
<1>4. IsFiniteSet(tokens')
  BY <1>2, FS_Union
<1>5. \A kind : Cardinality(OfKind(tokens', kind)) =
                 Cardinality(OfKind(tokens, kind)) + Cardinality(OfKind(new, kind))
  BY <1>2, <1>3, Grow
<1>6. \A kind \in Kinds : total'[kind] = Cardinality(OfKind(tokens', kind))
  BY <1>2, <1>5 DEF CountsMatch
<1>7. ASSUME NEW f \in Epochs, NEW kind \in Kinds
      PROVE  count'[f][kind] = Cardinality(OfKind(OfEpoch(tokens', f), kind))
  <2>0. count \in [Epochs -> [Kinds -> Nat]]
    BY <1>2 DEF TypeOK
  <2>1. count[f][kind] = Cardinality(OfKind(OfEpoch(tokens, f), kind))
    BY <1>2 DEF CountsMatch
  <2>2. CASE f = e
    <3>1. OfEpoch(tokens', e) = OfEpoch(tokens, e) \cup new
      BY DEF OfEpoch
    <3>2. IsFiniteSet(OfEpoch(tokens, e)) /\ OfEpoch(tokens, e) \cap new = {}
      BY <1>2, <1>3, Countable, ZenonT(60) DEF OfEpoch
    <3>3. Cardinality(OfKind(OfEpoch(tokens', e), kind)) =
            Cardinality(OfKind(OfEpoch(tokens, e), kind)) + Cardinality(OfKind(new, kind))
      <4> DEFINE X == OfEpoch(tokens, e)
      <4>1. IsFiniteSet(X) /\ X \cap new = {}
        BY <3>2
      <4> HIDE DEF X
      <4>2. Cardinality(OfKind(X \cup new, kind)) =
              Cardinality(OfKind(X, kind)) + Cardinality(OfKind(new, kind))
        BY <4>1, Grow
      <4> QED BY <3>1, <4>2 DEF X
    <3>4. count'[e][kind] = count[e][kind] + Cardinality(OfKind(new, kind))
      BY <2>0
    <3> QED BY <2>1, <2>2, <3>3, <3>4
  <2>3. CASE f # e
    <3>1. OfEpoch(tokens', f) = OfEpoch(tokens, f)
      BY <2>3 DEF OfEpoch
    <3>2. count'[f] = count[f]
      BY <2>0, <2>3
    <3> QED BY <2>1, <3>1, <3>2
  <2> QED BY <2>2, <2>3
<1>8. count' \in [Epochs -> [Kinds -> Nat]] /\ total' \in [Kinds -> Nat]
  <2>1. count \in [Epochs -> [Kinds -> Nat]]
    BY <1>2 DEF TypeOK
  <2>2. count' = [f \in Epochs |-> count'[f]] /\ total' = [kind \in Kinds |-> total'[kind]]
    BY <2>1
  <2>3. \A f \in Epochs : count'[f] = [kind \in Kinds |-> count'[f][kind]]
    BY <2>1
  <2> DEFINE T == tokens'
             c == count'
             m == total'
  <2>4. /\ IsFiniteSet(T)
        /\ c = [f \in Epochs |-> c[f]] /\ m = [kind \in Kinds |-> m[kind]]
        /\ \A f \in Epochs : c[f] = [kind \in Kinds |-> c[f][kind]]
        /\ \A kind \in Kinds : m[kind] = Cardinality(OfKind(T, kind))
        /\ \A f \in Epochs, kind \in Kinds : c[f][kind] = Cardinality(OfKind(OfEpoch(T, f), kind))
    BY <1>4, <1>6, <1>7, <2>2, <2>3
  <2> HIDE DEF T, c, m
  <2>5. c \in [Epochs -> [Kinds -> Nat]] /\ m \in [Kinds -> Nat]
    BY <2>4, CountersTyped
  <2> QED BY <2>5 DEF c, m
<1>9. Bounded'
  BY <1>6 DEF Bounded
<1>10. byKindKey' = tokens'
  BY <1>2 DEF IndexAgrees
<1>11. ASSUME NEW x \in tokens', NEW y \in tokens',
              SameKey(x, y) \/ (x.epoch = y.epoch /\ x.tid = y.tid)
       PROVE  x = y
  <2>1. CASE x \in tokens /\ y \in tokens
    BY <1>2, <1>11, <2>1 DEF IndexAgrees
  <2>2. CASE x \in new /\ y \in new
    BY <1>11, <2>2
  <2>3. CASE x \in new /\ y \in tokens
    BY <1>11, <2>3
  <2>4. CASE x \in tokens /\ y \in new
    BY <1>11, <2>4 DEF SameKey
  <2> QED BY <2>1, <2>2, <2>3, <2>4
<1>12. CountsMatch' /\ IndexAgrees'
  BY <1>6, <1>7, <1>10, <1>11 DEF CountsMatch, IndexAgrees, SameKey
<1>13. Registered'
  <2>1. reconciled \in [Epochs -> Rids \cup {NoRid}]
    BY <1>2 DEF TypeOK
  <2>2. \A f \in Epochs : reconciled[f] = rid => reconciled'[f] = rid'
    BY <2>1
  <2>3. minted \in Nat /\ minted' \in Nat /\ \A x \in tokens : x.tid \in Nat /\ x.epoch \in Epochs
    BY <1>2, LeaseAssumption DEF TypeOK, Entry, Tokens
  <2>4. \A x \in tokens : x.tid <= minted' /\ reconciled'[x.epoch] = rid'
    BY <1>2, <2>2, <2>3 DEF Registered
  <2>5. \A x \in new : x.tid <= minted' /\ reconciled'[x.epoch] = rid'
    BY <2>1
  <2> QED BY <2>4, <2>5 DEF Registered
<1>14. TypeOK'
  BY <1>2, <1>8 DEF TypeOK
<1> QED
  BY <1>4, <1>9, <1>12, <1>13, <1>14 DEF IInv

-----------------------------------------------------------------------------
\* The ids acquire mints are new, distinct and as many as are needed.
LEMMA MintIsFresh ==
  ASSUME NEW needs \in SUBSET Kinds, minted \in Nat
  PROVE  /\ Cardinality(needs) \in Nat
         /\ \A kind \in needs : /\ Mint(kind, needs) \in Nat /\ Mint(kind, needs) > minted
                                /\ Mint(kind, needs) <= minted + Cardinality(needs)
         /\ \A k, l \in needs : Mint(k, needs) = Mint(l, needs) => k = l
<1>1. CASE needs = {}
  BY <1>1, FS_EmptySet
<1>2. CASE \E k \in Kinds : needs = {k}
  <2>1. PICK k \in Kinds : needs = {k}
    BY <1>2
  <2>2. Cardinality(needs) = 1
    BY <2>1, FS_Singleton
  <2>3. needs # Kinds
    BY <2>1 DEF Kinds
  <2> QED BY <2>1, <2>2, <2>3 DEF Mint
<1>3. CASE needs = Kinds
  <2>1. Kinds = {"active"} \cup {"live"} /\ {"active"} \cap {"live"} = {}
    BY DEF Kinds
  <2>2. Cardinality({"active"}) = 1 /\ Cardinality({"live"}) = 1
        /\ IsFiniteSet({"active"}) /\ IsFiniteSet({"live"})
    BY FS_Singleton
  <2>3. Cardinality(Kinds) = Cardinality({"active"}) + Cardinality({"live"})
    BY <2>1, <2>2, DisjointUnion
  <2>4. Cardinality(needs) = 2
    BY <1>3, <2>2, <2>3
  <2> QED BY <1>3, <2>4 DEF Mint, Kinds
<1>4. needs = {} \/ needs = Kinds \/ \E k \in Kinds : needs = {k}
  BY DEF Kinds
<1> QED
  BY <1>1, <1>2, <1>3, <1>4

\* acquire keeps the account sound.
LEMMA AcquireKeepsIInv ==
  ASSUME IInv, NEW e \in Epochs, NEW s \in Sids, NEW a \in Acts,
         NEW kinds \in SUBSET Kinds, NEW r, Acquire(e, s, a, kinds, r)
  PROVE  IInv'
<1> DEFINE needs == Needs(e, s, a, kinds)
           new == NewEntries(e, s, a, kinds)
           n(kind) == IF kind \in needs THEN 1 ELSE 0
           entry(kind) == [tid |-> Mint(kind, needs), epoch |-> e, sid |-> s, act |-> a,
                           kind |-> kind]
<1>1. needs \in SUBSET Kinds
  BY DEF Needs
<1>2. TypeOK /\ Registered /\ IndexAgrees /\ minted \in Nat
  BY LeaseAssumption DEF IInv, TypeOK
<1>3. new = {entry(kind) : kind \in needs}
  BY DEF NewEntries
<1>4. /\ tokens' = tokens \cup new /\ byKindKey' = byKindKey \cup new
      /\ count' = [count EXCEPT ![e] = [kind \in Kinds |-> count[e][kind] + n(kind)]]
      /\ total' = [kind \in Kinds |-> total[kind] + n(kind)]
      /\ minted' = minted + Cardinality(needs) /\ minted' <= MaxToken
      /\ rid' = rid /\ reconciled' = reconciled
      /\ reconciled[e] = rid /\ \A kind \in needs : total[kind] < Limit[kind]
  BY DEF Acquire, CanAcquire, Admits, HasRoom
<1>5. /\ Cardinality(needs) \in Nat
      /\ \A kind \in needs : /\ Mint(kind, needs) \in Nat /\ Mint(kind, needs) > minted
                             /\ Mint(kind, needs) <= minted + Cardinality(needs)
      /\ \A k, l \in needs : Mint(k, needs) = Mint(l, needs) => k = l
  BY <1>1, <1>2, MintIsFresh
<1>6. minted' \in 0..MaxToken /\ minted <= minted'
  BY <1>2, <1>4, <1>5, LeaseAssumption
<1>7. \A kind \in Kinds : /\ IsFiniteSet(OfKind(new, kind))
                          /\ Cardinality(OfKind(new, kind)) = n(kind)
  <2> SUFFICES ASSUME NEW kind \in Kinds
               PROVE  /\ IsFiniteSet(OfKind(new, kind))
                      /\ Cardinality(OfKind(new, kind)) = n(kind)
    OBVIOUS
  <2>1. CASE kind \in needs
    <3>1. OfKind(new, kind) = {entry(kind)}
      BY <1>3, <2>1 DEF OfKind
    <3> QED BY <2>1, <3>1, FS_Singleton
  <2>2. CASE kind \notin needs
    <3>1. OfKind(new, kind) = {}
      BY <1>3, <2>2 DEF OfKind
    <3> QED BY <2>2, <3>1, FS_EmptySet
  <2> QED BY <2>1, <2>2
<1>8. new \in SUBSET Entry
  <2>1. \A kind \in needs : Mint(kind, needs) \in Tokens
    BY <1>2, <1>4, <1>5, LeaseAssumption DEF Tokens
  <2> QED BY <1>1, <1>3, <2>1 DEF Entry
<1>9. IsFiniteSet(new)
  <2>1. new = OfKind(new, "active") \cup OfKind(new, "live")
    BY <1>1, <1>3 DEF OfKind, Kinds
  <2>2. IsFiniteSet(OfKind(new, "active")) /\ IsFiniteSet(OfKind(new, "live"))
    BY <1>7 DEF Kinds
  <2>3. IsFiniteSet(OfKind(new, "active") \cup OfKind(new, "live"))
    BY <2>2, FS_Union
  <2> QED BY <2>1, <2>3
<1>10. \A x \in new : x.epoch = e /\ x.tid <= minted' /\ x.tid > minted
  BY <1>3, <1>4, <1>5
<1>11. \A x \in new, y \in tokens : ~SameKey(x, y) /\ ~(x.epoch = y.epoch /\ x.tid = y.tid)
  <2>1. \A y \in tokens : y.tid <= minted /\ y.tid \in Nat
    BY <1>2 DEF Registered, TypeOK, Entry, Tokens
  <2>2. \A kind \in needs : \A y \in tokens : ~SameKey(entry(kind), y)
    BY <1>2 DEF Needs, Held, IndexAgrees, SameKey
  <2>3. \A x \in new : x.tid \in Nat
    BY <1>3, <1>5
  <2>4. \A x \in new, y \in tokens : ~SameKey(x, y)
    BY <1>3, <2>2
  <2>5. \A x \in new, y \in tokens : x.tid # y.tid
    BY <1>2, <1>10, <2>1, <2>3
  <2> QED BY <2>4, <2>5
<1>12. \A x, y \in new : x.tid = y.tid \/ SameKey(x, y) => x = y
  BY <1>3, <1>5 DEF SameKey
<1>13. \A kind \in Kinds : total[kind] + Cardinality(OfKind(new, kind)) <= Limit[kind]
  <2>1. \A kind \in Kinds : total[kind] \in Nat /\ total[kind] <= Limit[kind] /\ Limit[kind] \in Nat
    BY LeaseAssumption DEF IInv, Bounded, CountsMatch, TypeOK
  <2> QED BY <1>4, <1>7, <2>1
<1>14. reconciled' = [reconciled EXCEPT ![e] = rid]
  BY <1>2, <1>4 DEF TypeOK
<1>15. count' = [count EXCEPT ![e] =
                  [kind \in Kinds |-> count[e][kind] + Cardinality(OfKind(new, kind))]]
       /\ total' = [kind \in Kinds |-> total[kind] + Cardinality(OfKind(new, kind))]
  BY <1>4, <1>7
<1> QED
  <2> HIDE DEF needs, new, n, entry
  <2> QED BY <1>4, <1>6, <1>8, <1>9, <1>10, <1>11, <1>12, <1>13, <1>14, <1>15, AddKeepsIInv

\* register_snapshot keeps the account sound: what it replaces is empty.
LEMMA RegisterKeepsIInv ==
  ASSUME IInv, NEW e \in Epochs, NEW r, NEW snap, \A x \in snap : x.tid <= minted,
         RegisterSnapshot(e, r, snap)
  PROVE  IInv'
<1>1. TypeOK /\ Registered /\ IndexAgrees /\ CountsMatch
  BY DEF IInv
<1>2. OfEpoch(tokens, e) = {} /\ OfEpoch(byKindKey, e) = {}
  BY <1>1 DEF RegisterSnapshot, Registered, IndexAgrees, OfEpoch
<1>3. \A kind \in Kinds : count[e][kind] = 0
  <2>1. \A kind : OfKind(OfEpoch(tokens, e), kind) = {}
    BY <1>2 DEF OfKind
  <2> QED BY <1>1, <2>1, FS_EmptySet DEF CountsMatch
<1>4. /\ IsFiniteSet(snap) /\ snap \in SUBSET Entry /\ \A x \in snap : x.epoch = e
      /\ \A x, y \in snap : x.tid = y.tid \/ SameKey(x, y) => x = y
      /\ \A kind \in Kinds : Projected(e, snap, kind) <= Limit[kind]
  BY DEF RegisterSnapshot, Fits, ValidSnapshot
<1>5. \A kind \in Kinds : /\ total[kind] \in Nat /\ Cardinality(OfKind(snap, kind)) \in Nat
                          /\ Projected(e, snap, kind) = total[kind] + Cardinality(OfKind(snap, kind))
  <2>1. \A kind \in Kinds : total[kind] \in Nat /\ Cardinality(OfKind(snap, kind)) \in Nat
    BY <1>1, <1>4, Countable DEF TypeOK
  <2> QED BY <1>3, <2>1 DEF Projected
<1>6. tokens' = tokens \cup snap /\ byKindKey' = byKindKey \cup snap
  BY <1>2 DEF RegisterSnapshot
<1>7. count' = [count EXCEPT ![e] =
                 [kind \in Kinds |-> count[e][kind] + Cardinality(OfKind(snap, kind))]]
  <2>1. \A kind \in Kinds : Cardinality(OfKind(snap, kind)) =
                            count[e][kind] + Cardinality(OfKind(snap, kind))
    BY <1>3, <1>5
  <2>2. [kind \in Kinds |-> Cardinality(OfKind(snap, kind))] =
          [kind \in Kinds |-> count[e][kind] + Cardinality(OfKind(snap, kind))]
    BY <2>1, Zenon
  <2> QED BY <2>2, Zenon DEF RegisterSnapshot
<1>8. total' = [kind \in Kinds |-> total[kind] + Cardinality(OfKind(snap, kind))]
  BY <1>5 DEF RegisterSnapshot
<1>9. \A x \in snap, y \in tokens : ~SameKey(x, y) /\ ~(x.epoch = y.epoch /\ x.tid = y.tid)
  BY <1>2, <1>4 DEF OfEpoch, SameKey
<1>10. rid' = rid /\ reconciled' = [reconciled EXCEPT ![e] = rid] /\ minted' = minted
  BY DEF RegisterSnapshot
<1>11. minted' \in 0..MaxToken /\ minted <= minted' /\ \A x \in snap : x.tid <= minted'
  BY <1>1, <1>10, LeaseAssumption DEF TypeOK
<1>12. \A kind \in Kinds : total[kind] + Cardinality(OfKind(snap, kind)) <= Limit[kind]
  BY <1>4, <1>5
<1> QED
  BY <1>4, <1>6, <1>7, <1>8, <1>9, <1>10, <1>11, <1>12, AddKeepsIInv

\* A router restart empties the account.
LEMMA RestartKeepsIInv ==
  ASSUME IInv, RouterRestart
  PROVE  IInv'
<1>1. tokens' = {} /\ byKindKey' = {} /\ minted' = minted
  BY DEF RouterRestart
<1>2. \A e, kind : OfKind(tokens', kind) = {} /\ OfKind(OfEpoch(tokens', e), kind) = {}
  BY <1>1 DEF OfKind, OfEpoch
<1>3. Bounded'
  BY <1>2, FS_EmptySet, LeaseAssumption DEF Bounded
<1>4. CountsMatch'
  BY <1>2, FS_EmptySet DEF CountsMatch, RouterRestart, Zero
<1>5. IsFiniteSet(tokens') /\ Registered' /\ IndexAgrees'
  BY <1>1, FS_EmptySet DEF Registered, IndexAgrees
<1>6. count' \in [Epochs -> [Kinds -> Nat]] /\ total' \in [Kinds -> Nat]
  BY DEF RouterRestart, Zero
<1>7. rid' \in Rids
  BY LeaseAssumption DEF IInv, TypeOK, RouterRestart, Rids
<1>8. TypeOK'
  BY <1>1, <1>6, <1>7 DEF IInv, TypeOK, RouterRestart
<1> QED
  BY <1>3, <1>4, <1>5, <1>8 DEF IInv

\* The account starts sound.
LEMMA InitIInv ==
  ASSUME Init
  PROVE  IInv
<1>1. Fresh /\ rid \in Rids /\ minted \in 0..MaxToken
  BY LeaseAssumption DEF Init, Rids
<1> QED
  BY <1>1, FreshIsSound DEF IInv, TypeOK

\* Every method, in every state, with every argument, keeps it sound.
LEMMA StepIInv ==
  ASSUME IInv, [Next]_service
  PROVE  IInv'
<1>1. ASSUME NEW e \in Epochs, NEW s \in Sids, NEW a \in Acts,
             NEW kinds \in (SUBSET Kinds) \ {{}}, NEW r \in Rids, Acquire(e, s, a, kinds, r)
      PROVE  IInv'
  BY <1>1, AcquireKeepsIInv
<1>2. ASSUME NEW e \in Epochs, NEW t \in Tokens, NEW r \in Rids, Release(e, t, r)
      PROVE  IInv'
  <2>1. PICK x \in OfEpoch(tokens, e) : Remove(e, {x})
    BY <1>2 DEF Release
  <2>2. {x} \in SUBSET OfEpoch(tokens, e)
    BY <2>1
  <2> QED BY <2>1, <2>2, RemoveKeepsIInv
<1>3. ASSUME NEW e \in Epochs, NEW r \in Rids,
             NEW snap \in SUBSET {x \in OfEpoch(Entry, e) : x.tid <= minted},
             RegisterSnapshot(e, r, snap)
      PROVE  IInv'
  BY <1>3, RegisterKeepsIInv
<1>4. ASSUME NEW e \in Epochs, ReleaseEpoch(e)
      PROVE  IInv'
  BY <1>4, RemoveKeepsIInv DEF ReleaseEpoch
<1>5. ASSUME RouterRestart
      PROVE  IInv'
  BY <1>5, RestartKeepsIInv
<1>6. CASE UNCHANGED service
  BY <1>6 DEF service, IInv, TypeOK, Registered, Bounded, CountsMatch, IndexAgrees, SameKey
<1> QED
  BY <1>1, <1>2, <1>3, <1>4, <1>5, <1>6 DEF Next

-----------------------------------------------------------------------------
(* What a caller of the service may rely on, method by method.             *)

\* acquire: the reply names, for each kind, a token of this session that is
\* now in the account, new if the key had none; nothing else is added.
LEMMA AcquireShape ==
  ASSUME IInv, NEW e \in Epochs, NEW s \in Sids, NEW a \in Acts,
         NEW kinds \in SUBSET Kinds, NEW r, Acquire(e, s, a, kinds, r)
  PROVE  /\ minted \in Nat /\ minted' \in Nat /\ minted <= minted' /\ minted' <= MaxToken
         /\ rid' = rid /\ reconciled' = reconciled /\ reconciled[e] = rid
         /\ tokens \subseteq tokens'
         /\ \A x \in tokens' \ tokens :
              /\ x \in Entry /\ x.epoch = e /\ x.sid = s /\ x.kind \in kinds
              /\ x.tid = Granted(e, s, a, kinds)[x.kind] /\ x.tid > minted
              /\ Held(e, s, a, x.kind) = {}
         /\ \A x, y \in tokens' \ tokens : x.tid = y.tid => x = y
         /\ \A kind \in kinds :
              /\ Granted(e, s, a, kinds)[kind] \in 1..minted'
              /\ \E x \in tokens' : /\ x.epoch = e /\ x.sid = s /\ x.kind = kind
                                    /\ x.tid = Granted(e, s, a, kinds)[kind]
                                    /\ Held(e, s, a, kind) # {} => x \in tokens
                                    /\ Held(e, s, a, kind) = {} => x.tid > minted
<1> DEFINE needs == Needs(e, s, a, kinds)
           g == Granted(e, s, a, kinds)
           entry(kind) == [tid |-> Mint(kind, needs), epoch |-> e, sid |-> s, act |-> a, kind |-> kind]
<1>1. needs \in SUBSET Kinds /\ minted \in Nat /\ MaxToken \in Nat
  BY LeaseAssumption DEF IInv, TypeOK, Needs
<1>2. /\ Cardinality(needs) \in Nat
      /\ \A kind \in needs : /\ Mint(kind, needs) \in Nat /\ Mint(kind, needs) > minted
                             /\ Mint(kind, needs) <= minted + Cardinality(needs)
      /\ \A k, l \in needs : Mint(k, needs) = Mint(l, needs) => k = l
  <2> HIDE DEF needs
  <2> QED BY <1>1, MintIsFresh
<1>3. minted' = minted + Cardinality(needs) /\ minted' <= MaxToken
  BY DEF Acquire
<1>4. /\ rid' = rid /\ reconciled' = reconciled /\ reconciled[e] = rid
      /\ tokens' = tokens \cup {entry(kind) : kind \in needs}
  BY DEF Acquire, CanAcquire, Admits, NewEntries
<1>5. /\ \A kind \in needs : g[kind] = Mint(kind, needs)
      /\ \A kind \in kinds \ needs : g[kind] = (CHOOSE x \in Held(e, s, a, kind) : TRUE).tid
  BY DEF Granted, Needs
<1>6. \A kind \in kinds : kind \in needs <=> Held(e, s, a, kind) = {}
  BY DEF Needs
<1>7. minted <= minted' /\ minted' \in Nat
  <2> DEFINE n == Cardinality(needs)
  <2>1. n \in Nat /\ minted' = minted + n
    BY <1>2, <1>3
  <2> HIDE DEF n
  <2> QED BY <1>1, <2>1
<1>8. \A kind \in needs : entry(kind).tid \in Tokens /\ entry(kind) \in Entry
  <2>1. \A kind \in needs : Mint(kind, needs) \in Tokens
    <3> DEFINE n == Cardinality(needs)
               m(kind) == Mint(kind, needs)
    <3>1. \A kind \in needs : m(kind) \in Nat /\ m(kind) > minted /\ m(kind) <= minted + n
      BY <1>2
    <3>2. n \in Nat /\ minted + n <= MaxToken
      BY <1>2, <1>3
    <3> HIDE DEF n, m, needs
    <3>3. \A kind \in needs : m(kind) \in 1..MaxToken
      BY <1>1, <3>1, <3>2
    <3> QED BY <3>3 DEF Tokens, m
  <2> HIDE DEF needs
  <2> QED BY <1>1, <2>1 DEF Entry
<1>9. ASSUME NEW x \in tokens' \ tokens
      PROVE  /\ x \in Entry /\ x.epoch = e /\ x.sid = s /\ x.kind \in kinds
             /\ x.tid = g[x.kind] /\ x.tid > minted
             /\ Held(e, s, a, x.kind) = {} /\ x.kind \in needs
             /\ x = entry(x.kind)
  <2>1. PICK kind \in needs : x = entry(kind)
    BY <1>4, <1>9
  <2>2. x.kind = kind /\ x.epoch = e /\ x.sid = s /\ x.tid = Mint(kind, needs)
    BY <2>1
  <2>3. kind \in kinds
    BY DEF Needs
  <2> HIDE DEF needs, g
  <2> QED BY <1>2, <1>5, <1>6, <1>8, <2>1, <2>2, <2>3
<1>10. ASSUME NEW x \in tokens' \ tokens, NEW y \in tokens' \ tokens, x.tid = y.tid
       PROVE  x = y
  <2>1. x = entry(x.kind) /\ y = entry(y.kind) /\ x.kind \in needs /\ y.kind \in needs
    BY <1>9
  <2>2. Mint(x.kind, needs) = Mint(y.kind, needs)
    BY <1>10, <2>1
  <2> QED BY <1>2, <2>1, <2>2
<1>11. ASSUME NEW kind \in kinds
       PROVE  /\ g[kind] \in 1..minted'
              /\ \E x \in tokens' : /\ x.epoch = e /\ x.sid = s /\ x.kind = kind
                                    /\ x.tid = g[kind]
                                    /\ Held(e, s, a, kind) # {} => x \in tokens
                                    /\ Held(e, s, a, kind) = {} => x.tid > minted
  <2>1. CASE kind \in needs
    <3>1. g[kind] = Mint(kind, needs) /\ Held(e, s, a, kind) = {}
      BY <1>5, <1>6, <2>1
    <3>2. g[kind] \in Nat /\ g[kind] > minted /\ g[kind] <= minted'
      BY <1>2, <1>3, <2>1, <3>1
    <3>3. entry(kind) \in tokens' /\ entry(kind).tid = g[kind]
      BY <1>4, <2>1, <3>1
    <3>4. entry(kind).epoch = e /\ entry(kind).sid = s /\ entry(kind).kind = kind
      OBVIOUS
    <3>5. g[kind] \in 1..minted'
      <4> HIDE DEF g
      <4> QED BY <1>1, <1>7, <3>2
    <3> HIDE DEF g, entry
    <3> QED BY <3>1, <3>2, <3>3, <3>4, <3>5
  <2>2. CASE kind \notin needs
    <3> DEFINE x == CHOOSE x \in Held(e, s, a, kind) : TRUE
    <3>1. Held(e, s, a, kind) # {} /\ g[kind] = x.tid
      BY <1>5, <1>6, <2>2
    <3>2. x \in Held(e, s, a, kind)
      BY <3>1
    <3>3. x \in byKindKey /\ x.epoch = e /\ x.sid = s /\ x.kind = kind
      BY <3>2 DEF Held
    <3>4. x \in tokens /\ x \in Entry /\ x.tid <= minted
      BY <3>3 DEF IInv, IndexAgrees, Registered, TypeOK
    <3>5. x.tid \in Tokens
      BY <3>4 DEF Entry
    <3> HIDE DEF x, g
    <3>6. x.tid \in 1..minted'
      BY <1>1, <1>7, <3>4, <3>5 DEF Tokens
    <3> QED BY <1>4, <3>1, <3>3, <3>4, <3>6
  <2> QED BY <2>1, <2>2
<1> HIDE DEF g, needs, entry
<1>12. tokens \subseteq tokens'
  BY <1>4
<1> QED
  BY <1>1, <1>3, <1>4, <1>7, <1>9, <1>10, <1>11, <1>12 DEF g

\* release: the one entry of the token is gone.
LEMMA ReleaseShape ==
  ASSUME IInv, NEW e \in Epochs, NEW t, NEW r, Release(e, t, r)
  PROVE  /\ rid' = rid /\ reconciled' = reconciled /\ minted' = minted
         /\ reconciled[e] = rid
         /\ tokens' = {x \in tokens : ~(x.epoch = e /\ x.tid = t)}
<1>1. PICK x \in OfEpoch(tokens, e) : x.tid = t /\ Remove(e, {x})
  BY DEF Release
<1>2. x \in tokens /\ x.epoch = e /\ x.tid = t
  BY <1>1 DEF OfEpoch
<1>3. \A y \in tokens : y.epoch = e /\ y.tid = t => y = x
  BY <1>2 DEF IInv, IndexAgrees
<1>4. tokens' = {y \in tokens : ~(y.epoch = e /\ y.tid = t)}
  BY <1>1, <1>2, <1>3 DEF Remove
<1> QED
  BY <1>1, <1>4 DEF Release, Remove, Admits

\* Ids are never taken back, neither of tokens nor of incarnations.
LEMMA StepGrows ==
  ASSUME IInv, [Next]_service
  PROVE  /\ minted \in Nat /\ minted' \in Nat /\ minted <= minted' /\ minted' <= MaxToken
         /\ rid \in Nat /\ rid' \in Nat /\ rid <= rid'
<1>1. minted \in 0..MaxToken /\ rid \in Rids /\ MaxToken \in Nat /\ MaxRid \in Nat
  BY LeaseAssumption DEF IInv, TypeOK
<1>2. ASSUME NEW e \in Epochs, NEW s \in Sids, NEW a \in Acts,
             NEW kinds \in (SUBSET Kinds) \ {{}}, NEW r \in Rids, Acquire(e, s, a, kinds, r)
      PROVE  minted' \in Nat /\ minted <= minted' /\ minted' <= MaxToken /\ rid' = rid
  BY <1>2, AcquireShape
<1>3. CASE minted' \in Nat /\ minted <= minted' /\ minted' <= MaxToken /\ rid' = rid
  BY <1>1, <1>3 DEF Rids
<1>4. CASE minted' = minted /\ rid' = rid
  BY <1>1, <1>4 DEF Rids
<1>5. CASE RouterRestart
  BY <1>1, <1>5 DEF RouterRestart, Rids
<1> QED
  BY <1>2, <1>3, <1>4, <1>5
  DEF Next, Release, Remove, ReleaseEpoch, RegisterSnapshot, service

-----------------------------------------------------------------------------
\* The invariant of the account holds in every reachable state of the
\* service, whoever calls what and however often the router restarts.
THEOREM AccountInvariance == Spec => []IInv
<1>1. Init => IInv
  BY InitIInv
<1>2. IInv /\ [Next]_service => IInv'
  BY StepIInv
<1> QED
  BY <1>1, <1>2, PTL DEF Spec

\* Over all generations together there are never more tokens of a kind than
\* its limit (acquire's capacity test, register_snapshot's projection).
THEOREM LimitsHold == Spec => []Bounded
<1>1. IInv => Bounded
  BY DEF IInv
<1> QED
  BY <1>1, AccountInvariance, PTL

\* The counters never drift from the tokens, and the two dicts never from one
\* another, so that what acquire decides on is what is held.
THEOREM BooksBalance == Spec => [](CountsMatch /\ IndexAgrees)
<1>1. IInv => CountsMatch /\ IndexAgrees
  BY DEF IInv
<1> QED
  BY <1>1, AccountInvariance, PTL
=============================================================================
