---------------------------- MODULE SyncerProofs ----------------------------
(***************************************************************************)
(* Proofs about Syncer: a block counts as DA included only when its pieces *)
(* are on the DA layer, and no block is lost between the DA layer and the  *)
(* store, for every placement of the chain on the DA layer, every channel  *)
(* capacity and every bound.                                               *)
(***************************************************************************)
EXTENDS SyncerFlowProofs, WellFoundedInduction

(***************************************************************************)
(* Numbers                                                                 *)
(***************************************************************************)

\* A set of natural numbers that is not empty has a least element.
LEMMA Least ==
  ASSUME NEW T, T \subseteq Nat, T # {}
  PROVE  \E x \in T : \A y \in T : x <= y
<1> DEFINE R == OpToRel(<, Nat)
<1>1. IsWellFoundedOn(R, Nat)
  BY NatLessThanWellFounded, Zenon
<1>2. \A x, y \in Nat : <<x, y>> \in R <=> x < y
  BY DEF OpToRel
<1> HIDE DEF R
<1>3. PICK x \in T : \A y \in T : ~ (<<y, x>> \in R)
  BY Zenon, <1>1, WFMin
<1>4. ASSUME NEW y \in T PROVE x <= y
  <2>1. ~ (<<y, x>> \in R) /\ x \in Nat /\ y \in Nat
    BY <1>3
  <2>2. ~ (y < x)
    BY <2>1, <1>2
  <2> QED BY <2>1, <2>2
<1> QED BY <1>4

\* One that is bounded has a greatest element (maxDAHeight after a restore).
LEMMA Greatest ==
  ASSUME NEW S, S \subseteq Nat, S # {}, NEW b \in Nat, \A x \in S : x <= b
  PROVE  \E x \in S : \A y \in S : x >= y
<1> DEFINE U == {n \in Nat : \A x \in S : x <= n}
<1>1. U \subseteq Nat /\ U # {}
  OBVIOUS
<1>2. PICK m \in U : \A n \in U : m <= n
  <2> HIDE DEF U
  <2> QED BY Zenon, <1>1, Least
<1>3. m \in Nat /\ \A x \in S : x <= m
  OBVIOUS
<1>4. m \in S
  <2> SUFFICES ASSUME m \notin S PROVE FALSE
    OBVIOUS
  <2>1. PICK s \in S : TRUE
    BY ZenonT(30)
  <2>2. s \in Nat /\ s <= m /\ s # m
    BY <1>3
  <2>3. m - 1 \in Nat
    BY <1>3, <2>2
  <2>4. ASSUME NEW x \in S PROVE x <= m - 1
    <3>1. x \in Nat /\ x <= m /\ x # m
      BY <1>3
    <3> QED BY <3>1, <1>3
  <2>5. m - 1 \in U
    BY <2>3, <2>4
  <2> QED BY <2>5, <1>2, <1>3
<1> QED BY <1>3, <1>4

(***************************************************************************)
(* What the caches say about the DA layer                                  *)
(***************************************************************************)

\* setMaxDAHeight touches one field.
LEMMA MaxFacts ==
  ASSUME NEW c, IsCache(c), c.maxDAHeight \in Nat, NEW da \in Nat
  PROVE  LET m == setMaxDAHeight(c, da)
         IN  /\ IsCache(m) /\ m.maxDAHeight \in Nat /\ m.seen = c.seen
             /\ m.hashByHeight = c.hashByHeight /\ m.daIncluded = c.daIncluded
<1> DEFINE x == Larger(c.maxDAHeight, da)
           m == [c EXCEPT !.maxDAHeight = x]
<1>1. setMaxDAHeight(c, da) = m
  BY DEF setMaxDAHeight
<1>2. x \in Nat
  BY DEF Larger
<1> HIDE DEF x
<1>3. /\ IsCache(m) /\ m.maxDAHeight = x /\ m.seen = c.seen
      /\ m.hashByHeight = c.hashByHeight /\ m.daIncluded = c.daIncluded
  BY Zenon DEF IsCache
<1> QED BY <1>1, <1>2, <1>3

\* A block that was applied is seen.
LEMMA SeenMarks ==
  ASSUME NEW k, NEW c, TrueMarks(c, k), NEW h
  PROVE  /\ TrueMarks(setSeen(c, HashKey(h), h), k)
         /\ setSeen(c, HashKey(h), h).seen = c.seen \cup {HashKey(h)}
<1> DEFINE a == c.seen \cup {HashKey(h)}
           b == Put(c.hashByHeight, h, HashKey(h))
           e == [c EXCEPT !.seen = a, !.hashByHeight = b]
<1>1. setSeen(c, HashKey(h), h) = e
  BY DEF setSeen
<1>2. \A g \in DOMAIN b : b[g] \in {HashKey(g), HeightPlaceholderKey(g)}
  BY DEF Put, TrueMarks
<1>3. IsCache(c)
  BY DEF TrueMarks
<1> HIDE DEF a, b
<1>4. /\ IsCache(e) /\ e.seen = a /\ e.hashByHeight = b
      /\ e.daIncluded = c.daIncluded /\ e.maxDAHeight = c.maxDAHeight
  BY <1>3, Zenon DEF IsCache
<1> HIDE DEF e
<1>5. TrueMarks(e, k)
  BY <1>2, <1>4 DEF TrueMarks
<1> QED BY <1>1, <1>4, <1>5 DEF a

\* Pieces at a DA height that is there are marked.
LEMMA IncludedMarks ==
  ASSUME daHead \in Nat, NEW k, NEW c, TrueMarks(c, k), NEW d \in 0..daHead,
         NEW hs, \A h \in hs : OnDA(k, h)
  PROVE  /\ TrueMarks(setAllDAIncluded(c, hs, d), k)
         /\ setAllDAIncluded(c, hs, d).seen = c.seen
<1>1. CASE hs = {}
  BY <1>1 DEF setAllDAIncluded
<1>2. CASE hs # {}
  <2> DEFINE keys  == {HashKey(h) : h \in hs}
             stale == {c.hashByHeight[h] : h \in hs \cap DOMAIN c.hashByHeight} \ keys
             a == [x \in (DOMAIN c.daIncluded \ stale) \cup keys |->
                     IF x \in keys THEN d ELSE c.daIncluded[x]]
             b == [h \in DOMAIN c.hashByHeight \cup hs |->
                     IF h \in hs THEN HashKey(h) ELSE c.hashByHeight[h]]
             e == [c EXCEPT !.daIncluded = a, !.hashByHeight = b]
  <2>1. setAllDAIncluded(c, hs, d) = setMaxDAHeight(e, d)
    BY <1>2 DEF setAllDAIncluded
  <2>2. \A g \in DOMAIN b : b[g] \in {HashKey(g), HeightPlaceholderKey(g)}
    BY DEF TrueMarks
  <2>3. ASSUME NEW x \in DOMAIN a PROVE a[x] \in 0..daHead /\ OnDA(k, x[2])
    <3>1. CASE x \in keys
      <4>1. PICK h \in hs : x = HashKey(h)
        BY <3>1
      <4>2. x[2] = h
        BY <4>1 DEF HashKey
      <4> QED BY <3>1, <4>2
    <3>2. CASE x \notin keys
      BY <3>2 DEF TrueMarks
    <3> QED BY <3>1, <3>2
  <2>4. IsCache(c) /\ c.maxDAHeight \in Nat /\ d \in Nat
    BY DEF TrueMarks
  <2> HIDE DEF a, b
  <2>5. /\ IsCache(e) /\ e.seen = c.seen /\ e.hashByHeight = b
        /\ e.daIncluded = a /\ e.maxDAHeight = c.maxDAHeight
    BY <2>4, Zenon DEF IsCache
  <2> HIDE DEF e
  <2>6. PICK m : m = setMaxDAHeight(e, d)
    OBVIOUS
  <2>7. /\ IsCache(m) /\ m.maxDAHeight \in Nat /\ m.seen = e.seen
        /\ m.hashByHeight = e.hashByHeight /\ m.daIncluded = e.daIncluded
    BY ZenonT(30), <2>4, <2>5, <2>6, MaxFacts
  <2>8. TrueMarks(m, k)
    BY <2>2, <2>3, <2>5, <2>7 DEF TrueMarks
  <2> QED BY <2>1, <2>5, <2>6, <2>7, <2>8
<1> QED BY <1>1, <1>2

\* What a finalised block leaves behind.
LEMMA DeletedMarks ==
  ASSUME NEW k, NEW c, TrueMarks(c, k), NEW h
  PROVE  /\ TrueMarks(deleteAllForHeight(c, h), k)
         /\ deleteAllForHeight(c, h).seen \subseteq c.seen
<1>1. CASE h \notin DOMAIN c.hashByHeight
  BY <1>1 DEF deleteAllForHeight
<1>2. CASE h \in DOMAIN c.hashByHeight
  <2> DEFINE key == c.hashByHeight[h]
             a == c.seen \ {key}
             b == Without(c.daIncluded, key)
             d == Without(c.hashByHeight, h)
             e == [c EXCEPT !.seen = a, !.daIncluded = b, !.hashByHeight = d]
  <2>1. deleteAllForHeight(c, h) = e
    BY <1>2 DEF deleteAllForHeight
  <2>2. /\ \A g \in DOMAIN d : g \in DOMAIN c.hashByHeight /\ d[g] = c.hashByHeight[g]
        /\ \A x \in DOMAIN b : x \in DOMAIN c.daIncluded /\ b[x] = c.daIncluded[x]
        /\ a \subseteq c.seen
    BY DEF Without
  <2>3. IsCache(c)
    BY DEF TrueMarks
  <2> HIDE DEF a, b, d
  <2>4. /\ IsCache(e) /\ e.seen = a /\ e.hashByHeight = d
        /\ e.daIncluded = b /\ e.maxDAHeight = c.maxDAHeight
    BY <2>3, Zenon DEF IsCache
  <2> HIDE DEF e
  <2>5. TrueMarks(e, k)
    BY <2>2, <2>4 DEF TrueMarks
  <2> QED BY <2>1, <2>2, <2>4, <2>5
<1> QED BY <1>1, <1>2

\* A snapshot says no more than its cache.
LEMMA SnapshotMarks ==
  ASSUME NEW k, NEW c, TrueMarks(c, k)
  PROVE  TrueSnap(Snapshot(c), k)
<1> SUFFICES ASSUME NEW h \in DOMAIN Snapshot(c)
             PROVE  Snapshot(c)[h] \in 0..daHead /\ OnDA(k, h)
  BY DEF TrueSnap
<1>1. /\ h \in DOMAIN c.hashByHeight /\ getDAIncludedByHeight(c, h) # 0
      /\ Snapshot(c)[h] = getDAIncludedByHeight(c, h)
  BY Zenon DEF Snapshot
<1>2. /\ c.hashByHeight[h] \in DOMAIN c.daIncluded
      /\ getDAIncludedByHeight(c, h) = c.daIncluded[c.hashByHeight[h]]
  BY <1>1 DEF getDAIncludedByHeight
<1>3. c.hashByHeight[h] \in {HashKey(h), HeightPlaceholderKey(h)}
  BY <1>1 DEF TrueMarks
<1>4. c.hashByHeight[h][2] = h
  BY <1>3 DEF HashKey, HeightPlaceholderKey
<1> QED BY <1>1, <1>2, <1>4 DEF TrueMarks

\* Nor does a cache that is restored from it.
LEMMA RestoredMarks ==
  ASSUME daHead \in Nat, NEW k, NEW s, TrueSnap(s, k), NEW d \in Nat
  PROVE  LET c == setMaxDAHeight(Restore(s), d)
         IN  /\ TrueMarks(c, k) /\ c.seen = {}
             /\ DOMAIN s = {} => c.maxDAHeight = d
<1> DEFINE a == [x \in {HeightPlaceholderKey(h) : h \in DOMAIN s} |-> s[x[2]]]
           b == [h \in DOMAIN s |-> HeightPlaceholderKey(h)]
           ds == {s[h] : h \in DOMAIN s}
           m == IF DOMAIN s = {} THEN 0
                ELSE CHOOSE y \in ds : \A h \in DOMAIN s : y >= s[h]
           e == [seen |-> {}, daIncluded |-> a, hashByHeight |-> b, maxDAHeight |-> m]
<1>1. Restore(s) = e
  BY DEF Restore
<1>2. m \in Nat /\ (DOMAIN s = {} => m = 0)
  <2>1. CASE DOMAIN s = {}
    BY <2>1
  <2>2. CASE DOMAIN s # {}
    <3>1. ds \subseteq Nat /\ ds # {} /\ \A x \in ds : x <= daHead
      BY <2>2 DEF TrueSnap
    <3>2. \E x \in ds : \A y \in ds : x >= y
      <4> HIDE DEF ds
      <4> QED BY ZenonT(30), <3>1, Greatest
    <3>3. \E y \in ds : \A h \in DOMAIN s : y >= s[h]
      BY <3>2
    <3>4. m = CHOOSE y \in ds : \A h \in DOMAIN s : y >= s[h]
      BY <2>2
    <3>5. m \in ds
      <4> HIDE DEF ds, m
      <4> QED BY <3>3, <3>4
    <3> QED BY ZenonT(30), <2>2, <3>1, <3>5
  <2> QED BY ZenonT(30), <2>1, <2>2
<1>3. \A g \in DOMAIN b : b[g] = HeightPlaceholderKey(g)
  OBVIOUS
<1>4. ASSUME NEW x \in DOMAIN a PROVE a[x] \in 0..daHead /\ OnDA(k, x[2])
  <2>1. PICK h \in DOMAIN s : x = HeightPlaceholderKey(h)
    OBVIOUS
  <2>2. x[2] = h
    BY <2>1 DEF HeightPlaceholderKey
  <2> QED BY <2>2 DEF TrueSnap
<1> HIDE DEF a, b, m
<1>5. /\ IsCache(e) /\ e.seen = {} /\ e.hashByHeight = b
      /\ e.daIncluded = a /\ e.maxDAHeight = m
  BY Zenon DEF IsCache
<1> HIDE DEF e
<1>6. PICK c : c = setMaxDAHeight(e, d)
  OBVIOUS
<1>7. /\ IsCache(c) /\ c.maxDAHeight \in Nat /\ c.seen = e.seen
      /\ c.hashByHeight = e.hashByHeight /\ c.daIncluded = e.daIncluded
  BY ZenonT(30), <1>2, <1>5, <1>6, MaxFacts
<1>8. TrueMarks(c, k)
  BY <1>3, <1>4, <1>5, <1>7 DEF TrueMarks
<1>9. DOMAIN s = {} => c.maxDAHeight = d
  <2>1. c.maxDAHeight = Larger(e.maxDAHeight, d)
    BY <1>5, <1>6, Zenon DEF setMaxDAHeight, IsCache
  <2> QED BY <1>2, <1>5, <2>1 DEF Larger
<1> QED BY <1>1, <1>5, <1>6, <1>7, <1>8, <1>9

\* The DA layer only grows.
LEMMA MarksGrow ==
  ASSUME setup' = setup, daHead \in Nat, daHead' \in Nat, daHead <= daHead',
         setup \in Setups
  PROVE  /\ \A k, h : OnDA(k, h) => OnDA(k, h)'
         /\ \A k, c : TrueMarks(c, k) => TrueMarks(c, k)'
         /\ \A k, s : TrueSnap(s, k) => TrueSnap(s, k)'
<1>1. ASSUME NEW k, NEW h, OnDA(k, h) PROVE OnDA(k, h)'
  <2>1. Blocks' = Blocks /\ h \in Blocks
    BY <1>1, SetupStays DEF OnDA
  <2>2. setup.headerAt[h] \in Nat /\ setup.dataAt[h] \in Nat
    BY <2>1, SetupFacts DEF Positive
  <2> QED BY <1>1, <2>1, <2>2 DEF OnDA
<1>2. 0..daHead \subseteq 0..daHead'
  OBVIOUS
<1>3. ASSUME NEW k, NEW c, TrueMarks(c, k) PROVE TrueMarks(c, k)'
  BY <1>1, <1>2, <1>3 DEF TrueMarks, IsCache
<1>4. ASSUME NEW k, NEW s, TrueSnap(s, k) PROVE TrueSnap(s, k)'
  BY <1>1, <1>2, <1>4 DEF TrueSnap
<1> QED BY <1>1, <1>3, <1>4

-----------------------------------------------------------------------------
\* What a step leaves in the caches and their snapshots, as of the DA layer before it.
GoodCaches ==
  /\ \A k \in Kinds : \E c : c = cache'[k] /\ TrueMarks(c, k)
  /\ \A k \in Kinds : \E s : s = snap'[k] /\ TrueSnap(s, k)
  /\ \A x \in cache'["header"].seen : x[2] \in 0..height'

\* A step that leaves the caches and their snapshots alone.
LEMMA SameCaches ==
  ASSUME MarkInv, SeenInv, UNCHANGED <<cache, snap, height>>
  PROVE  GoodCaches
<1>1. \A k \in Kinds : TrueMarks(cache[k], k) /\ TrueSnap(snap[k], k)
  BY DEF MarkInv
<1> QED BY <1>1 DEF GoodCaches, SeenInv

\* A new process has empty caches.
LEMMA EmptyCache ==
  /\ \A k : TrueMarks(NewCache, k)
  /\ NewCache.seen = {}
<1>1. /\ NewCache.seen = {} /\ NewCache.maxDAHeight = 0
      /\ NewCache.daIncluded = <<>> /\ NewCache.hashByHeight = <<>>
  BY DEF NewCache
<1>2. IsCache(NewCache)
  BY Zenon DEF IsCache, NewCache
<1> QED BY <1>1, <1>2 DEF TrueMarks

LEMMA NewCaches ==
  ASSUME cache' = [k \in Kinds |-> NewCache],
         \A k \in Kinds : \E s : s = snap'[k] /\ TrueSnap(s, k)
  PROVE  GoodCaches
<1>1. \A k \in Kinds : cache'[k] = NewCache
  BY Zenon
<1>2. "header" \in Kinds
  BY DEF Kinds
<1> QED BY <1>1, <1>2, EmptyCache DEF GoodCaches

\* The DA height of a finalised block is a number.
LEMMA FinalDAType ==
  ASSUME DiskInv, NEW k
  PROVE  FinalDA(k, included) \in Nat
<1>1. included = 0 \/ included \in Blocks
  BY SetupFacts DEF DiskInv
<1>2. \A h \in Blocks : setup.headerAt[h] \in Nat /\ setup.dataAt[h] \in Nat
  BY SetupFacts DEF DiskInv, Positive
<1> QED BY <1>1, <1>2 DEF FinalDA

LEMMA StartCaches ==
  ASSUME DiskInv, MarkInv, Start
  PROVE  /\ GoodCaches
         /\ \A k \in Kinds : /\ cache'[k].maxDAHeight \in Nat
                             /\ DOMAIN snap[k] = {} =>
                                  cache'[k].maxDAHeight = FinalDA(k, included)
<1>1. /\ cache' = [k \in Kinds |-> RestoredCache(k)] /\ snap' = snap
  BY DEF Start, disk
<1>2. ASSUME NEW k \in Kinds
      PROVE  \E c : /\ c = cache'[k] /\ TrueMarks(c, k) /\ c.seen = {}
                    /\ DOMAIN snap[k] = {} => c.maxDAHeight = FinalDA(k, included)
  <2>1. PICK s, d : s = snap[k] /\ d = FinalDA(k, included)
    OBVIOUS
  <2>2. TrueSnap(s, k) /\ d \in Nat /\ daHead \in Nat
    BY <2>1, FinalDAType DEF MarkInv, DiskInv
  <2>3. PICK c : c = setMaxDAHeight(Restore(s), d)
    OBVIOUS
  <2>4. TrueMarks(c, k) /\ c.seen = {} /\ (DOMAIN s = {} => c.maxDAHeight = d)
    BY <2>2, <2>3, RestoredMarks
  <2>5. cache'[k] = c
    BY <1>1, <2>1, <2>3, Zenon DEF RestoredCache
  <2> QED BY <2>1, <2>4, <2>5
<1>3. "header" \in Kinds
  BY DEF Kinds
<1>4. \A x \in cache'["header"].seen : x[2] \in 0..height'
  BY <1>2, <1>3
<1>5. \A k \in Kinds : \E s : s = snap'[k] /\ TrueSnap(s, k)
  BY <1>1 DEF MarkInv
<1>6. \A k \in Kinds : cache'[k].maxDAHeight \in Nat
  BY <1>2 DEF TrueMarks
<1> QED BY <1>2, <1>4, <1>5, <1>6 DEF GoodCaches

\* Blobs of a DA height that is there are marked.
LEMMA BlobCaches ==
  ASSUME DiskInv, MarkInv, SeenInv, UNCHANGED <<snap, height>>,
         NEW d \in 0..daHead, NEW blobs, blobs \subseteq BlobsAt(d), MarkIncluded(blobs, d)
  PROVE  GoodCaches
<1>1. ASSUME NEW k \in Kinds
      PROVE  \E c : c = cache'[k] /\ TrueMarks(c, k) /\ c.seen = cache[k].seen
  <2> DEFINE hs == {x[2] : x \in {y \in blobs : y[1] = k}}
  <2>1. cache'[k] = setAllDAIncluded(cache[k], hs, d)
    BY Zenon DEF MarkIncluded
  <2>2. ASSUME NEW h \in hs PROVE OnDA(k, h)
    <3>1. PICK x \in blobs : x[1] = k /\ x[2] = h
      OBVIOUS
    <3>2. /\ h \in Blocks
          /\ d = IF k = "header" THEN setup.headerAt[h] ELSE setup.dataAt[h]
      BY <3>1 DEF BlobsAt
    <3> QED BY <3>2 DEF OnDA, DiskInv
  <2>3. PICK c, t : c = cache[k] /\ t = hs
    BY ZenonT(30)
  <2>4. TrueMarks(c, k) /\ daHead \in Nat
    BY Zenon, <2>3 DEF MarkInv, DiskInv
  <2> HIDE DEF hs
  <2>5. /\ TrueMarks(setAllDAIncluded(c, t, d), k)
        /\ setAllDAIncluded(c, t, d).seen = c.seen
    BY <2>2, <2>3, <2>4, IncludedMarks
  <2> QED BY <2>1, <2>3, <2>5
<1>2. "header" \in Kinds
  BY DEF Kinds
<1>3. \A x \in cache'["header"].seen : x[2] \in 0..height'
  BY <1>1, <1>2 DEF SeenInv
<1>4. \A k \in Kinds : \E s : s = snap'[k] /\ TrueSnap(s, k)
  BY DEF MarkInv
<1> QED BY <1>1, <1>3, <1>4 DEF GoodCaches

LEMMA SyncedCaches ==
  ASSUME DiskInv, MarkInv, SeenInv, HandInv, TrySyncNextBlock
  PROVE  GoodCaches
<1>1. /\ inHand.height = height + 1 /\ height' = inHand.height /\ snap' = snap
      /\ cache' = SeenCache(inHand.height)
  BY DEF TrySyncNextBlock, HandInv
<1>2. PICK h \in Nat : h = inHand.height /\ h = height + 1
  BY <1>1 DEF DiskInv
<1>3. \A k \in Kinds : \E c : c = cache[k] /\ TrueMarks(c, k)
  BY DEF MarkInv
<1>4. "header" \in Kinds /\ "data" \in Kinds /\ \A k \in Kinds : k \in {"header", "data"}
  BY DEF Kinds
<1>5. PICK c : c = cache["header"] /\ TrueMarks(c, "header")
  BY <1>3, <1>4
<1>6. PICK e : e = cache["data"] /\ TrueMarks(e, "data")
  BY <1>3, <1>4
<1>7. /\ cache'["header"] = setSeen(c, HashKey(h), h)
      /\ cache'["data"] \in {e, setSeen(e, HashKey(h), h)}
  BY <1>1, <1>2, <1>5, <1>6 DEF SeenCache
<1>8. /\ TrueMarks(setSeen(c, HashKey(h), h), "header")
      /\ setSeen(c, HashKey(h), h).seen = c.seen \cup {HashKey(h)}
      /\ TrueMarks(setSeen(e, HashKey(h), h), "data")
  BY <1>5, <1>6, SeenMarks
<1>9. \A k \in Kinds : \E f : f = cache'[k] /\ TrueMarks(f, k)
  <2>1. \E f : f = cache'["header"] /\ TrueMarks(f, "header")
    BY <1>7, <1>8
  <2>2. \E f : f = cache'["data"] /\ TrueMarks(f, "data")
    BY <1>6, <1>7, <1>8
  <2> QED BY <1>4, <2>1, <2>2
<1>10. ASSUME NEW x \in cache'["header"].seen PROVE x[2] \in 0..height'
  <2>1. CASE x = HashKey(h)
    <3>1. x[2] = h /\ height' = h
      BY <1>1, <1>2, <2>1 DEF HashKey
    <3> QED BY <3>1
  <2>2. CASE x \in c.seen
    <3>1. x[2] \in 0..height
      BY <1>5, <2>2 DEF SeenInv
    <3>2. height' = height + 1 /\ height \in Nat
      BY <1>1 DEF DiskInv
    <3>3. x \in cache["header"].seen
      BY <1>5, <2>2
    <3> QED BY <3>1, <3>2
  <2> QED BY <1>7, <1>8, <2>1, <2>2
<1>11. \A k \in Kinds : \E s : s = snap'[k] /\ TrueSnap(s, k)
  BY <1>1 DEF MarkInv
<1> QED BY <1>9, <1>10, <1>11 DEF GoodCaches

\* A block that is final was marked.
LEMMA IncludedCaches ==
  ASSUME DiskInv, MarkInv, SeenInv, IncludeNext
  PROVE  /\ GoodCaches
         /\ setup.headerAt[included + 1] <= daHead /\ setup.dataAt[included + 1] <= daHead
<1>1. /\ included \in Nat /\ included + 1 \in Blocks /\ daHead \in Nat
  <2>1. included < height
    BY DEF IncludeNext
  <2> QED BY <2>1, SetupFacts DEF DiskInv
<1>2. /\ Marked(included + 1) /\ height' = height /\ snap' = snap
      /\ cache' = [k \in Kinds |-> deleteAllForHeight(cache[k], included + 1)]
  BY DEF IncludeNext
<1>3. ASSUME NEW k \in Kinds
      PROVE  \E c : c = cache'[k] /\ TrueMarks(c, k) /\ c.seen \subseteq cache[k].seen
  <2>1. PICK c, h : c = cache[k] /\ TrueMarks(c, k) /\ h = included + 1
    BY DEF MarkInv
  <2>2. cache'[k] = deleteAllForHeight(c, h)
    BY <1>2, <2>1, Zenon
  <2>3. /\ TrueMarks(deleteAllForHeight(c, h), k)
        /\ deleteAllForHeight(c, h).seen \subseteq c.seen
    BY <2>1, DeletedMarks
  <2> QED BY <2>1, <2>2, <2>3
<1>4. "header" \in Kinds /\ "data" \in Kinds
  BY DEF Kinds
<1>5. \A x \in cache'["header"].seen : x[2] \in 0..height'
  BY Zenon, <1>2, <1>3, <1>4 DEF SeenInv
<1>6. \A k \in Kinds : \E s : s = snap'[k] /\ TrueSnap(s, k)
  BY SMTT(30), <1>2 DEF MarkInv
<1>7. ASSUME NEW k \in Kinds, getDAIncludedByHeight(cache[k], included + 1) # 0
      PROVE  OnDA(k, included + 1)
  <2>1. PICK c, h : c = cache[k] /\ TrueMarks(c, k) /\ h = included + 1
    BY ZenonT(40) DEF MarkInv
  <2>2. h \in DOMAIN c.hashByHeight /\ c.hashByHeight[h] \in DOMAIN c.daIncluded
    BY SMTT(30), <1>7, <2>1 DEF getDAIncludedByHeight
  <2>3. c.hashByHeight[h] \in {HashKey(h), HeightPlaceholderKey(h)}
    BY <2>1, <2>2 DEF TrueMarks
  <2>4. c.hashByHeight[h][2] = h
    BY SMTT(30), <2>3 DEF HashKey, HeightPlaceholderKey
  <2> QED BY <2>1, <2>2, <2>4 DEF TrueMarks
<1>8. setup.headerAt[included + 1] <= daHead
  BY <1>2, <1>4, <1>7 DEF Marked, OnDA
<1>9. setup.dataAt[included + 1] <= daHead
  <2>1. CASE Empty(included + 1)
    BY <1>1, <2>1 DEF Empty
  <2>2. CASE ~Empty(included + 1)
    <3>1. OnDA("data", included + 1)
      BY SMTT(30), <1>2, <1>4, <1>7, <2>2 DEF Marked
    <3> QED BY <3>1 DEF OnDA
  <2> QED BY <2>1, <2>2
<1> QED BY <1>3, <1>5, <1>6, <1>8, <1>9 DEF GoodCaches

\* The caches, whatever the step; the DA layer and the finalised height only grow.
LEMMA CacheStep ==
  ASSUME DiskInv, MarkInv, SeenInv, HandInv, LoopInv, Next
  PROVE  /\ GoodCaches /\ daHead' \in Nat /\ daHead <= daHead'
         /\ included' = included \/ IncludeNext
<1>1. daHead \in Nat
  BY DEF DiskInv
<1>2. ASSUME UNCHANGED <<cache, snap, height, included, daHead>>
      PROVE  /\ GoodCaches /\ daHead' \in Nat /\ daHead <= daHead' /\ included' = included
  BY SMTT(30), <1>1, <1>2, SameCaches
<1>3. CASE Start
  BY <1>1, <1>3, StartCaches DEF Start, disk
<1>4. CASE Stop
  BY <1>2, <1>4 DEF Stop, CancelWorkers, disk
<1>5. CASE StopEnd
  <2>1. /\ snap' = [k \in Kinds |-> Snapshot(cache[k])]
        /\ cache' = [k \in Kinds |-> NewCache]
        /\ included' = included /\ daHead' = daHead
    BY <1>5 DEF StopEnd
  <2>2. ASSUME NEW k \in Kinds PROVE \E s : s = snap'[k] /\ TrueSnap(s, k)
    <3>1. PICK c : c = cache[k] /\ TrueMarks(c, k)
      BY DEF MarkInv
    <3>2. TrueSnap(Snapshot(c), k)
      BY <3>1, SnapshotMarks
    <3>3. snap'[k] = Snapshot(c)
      BY <2>1, <3>1, Zenon
    <3> QED BY <3>2, <3>3
  <2> QED BY <1>1, <2>1, <2>2, NewCaches
<1>6. CASE Crash
  <2>1. /\ cache' = [k \in Kinds |-> NewCache] /\ snap' = snap
        /\ included' = included /\ daHead' = daHead
    BY <1>6 DEF Crash, disk
  <2>2. \A k \in Kinds : \E s : s = snap'[k] /\ TrueSnap(s, k)
    BY <2>1 DEF MarkInv
  <2> QED BY <1>1, <2>1, <2>2, NewCaches
<1>7. CASE EndCatchup
  BY <1>2, <1>7 DEF EndCatchup, CancelWorkers, disk
<1>8. CASE StartProducing
  BY <1>2, <1>8 DEF StartProducing, disk
<1>9. CASE CatchupTimeout
  BY <1>2, <1>9 DEF CatchupTimeout, disk
<1>10. CASE ProcessLoop
  <2>1. CASE TrySyncNextBlock
    BY <1>1, <1>10, <2>1, SyncedCaches, ProcessSteps DEF TrySyncNextBlock
  <2>2. CASE ~TrySyncNextBlock
    <3>1. UNCHANGED <<disk, daHead>>
      BY <1>10, <2>2, ProcessSteps
    <3>2. UNCHANGED cache
      BY <1>10, <2>2 DEF ProcessLoop, BeginSync, CommitFails, ExecutionFails
    <3> QED BY <1>2, <3>1, <3>2 DEF disk
  <2> QED BY SMTT(30), <2>1, <2>2
<1>11. CASE PendingWorker \/ P2PWorker
  <2>1. UNCHANGED <<disk, daHead>>
    BY <1>11, WorkerSteps
  <2>2. UNCHANGED cache
    BY <1>11 DEF PendingWorker, P2PWorker
  <2> QED BY <1>2, <2>1, <2>2 DEF disk
<1>12. CASE FollowLoop
  <2>1. UNCHANGED <<disk, daHead>>
    BY <1>12, WorkerSteps
  <2>2. CASE FollowInline
    <3>1. PICK d, blobs : d = follow.da /\ blobs = follow.blobs
      OBVIOUS
    <3>2. follow.pc = "inline" /\ MarkIncluded(blobs, d)
      BY <2>2, <3>1 DEF FollowInline, ProcessBlobs
    <3>3. d \in 0..daHead /\ blobs \subseteq BlobsAt(d)
      BY <1>1, <3>1, <3>2 DEF LoopInv, FollowInv
    <3>4. GoodCaches
      BY <2>1, <3>2, <3>3, BlobCaches DEF disk
    <3> QED BY <1>1, <2>1, <3>4 DEF disk
  <2>3. CASE ~FollowInline
    <3>1. UNCHANGED cache
      BY <1>12, <2>3 DEF FollowLoop, FollowEvent, FollowClaim, FollowRollback, Resubscribe
    <3> QED BY <1>2, <2>1, <3>1 DEF disk
  <2> QED BY <2>2, <2>3
<1>13. CASE CatchupLoop
  <2>1. UNCHANGED <<disk, daHead>>
    BY <1>13, WorkerSteps
  <2>2. CASE CatchupFetch
    <3>1. PICK d : d = catchup.da
      BY SMTT(90)
    <3>2. catchup.da <= daHead /\ MarkIncluded(BlobsAt(d), d)
      BY <2>2, <3>1 DEF CatchupFetch, ProcessBlobs
    <3>3. d \in 0..daHead
      BY <1>1, <3>1, <3>2 DEF LoopInv, FetchInv
    <3>4. PICK blobs : blobs = BlobsAt(d)
      OBVIOUS
    <3>5. GoodCaches
      BY <2>1, <3>2, <3>3, <3>4, BlobCaches DEF disk
    <3> QED BY <1>1, <2>1, <3>5 DEF disk
  <2>3. CASE ~CatchupFetch
    <3>1. UNCHANGED cache
      BY SMTT(30), <1>13, <2>3 DEF CatchupLoop
    <3> QED BY <1>2, <2>1, <3>1 DEF disk
  <2> QED BY <2>2, <2>3
<1>14. CASE IncludeNext
  BY <1>1, <1>14, IncludedCaches DEF IncludeNext
<1>15. CASE DAGrows
  <2>1. UNCHANGED <<cache, snap, height, included>> /\ daHead' = daHead + 1
    BY Zenon, <1>15 DEF DAGrows, disk
  <2> QED BY <1>1, <2>1, SameCaches
<1>16. CASE P2PGrows
  BY SMTT(30), <1>2, <1>16 DEF P2PGrows, disk
<1> QED BY <1>3, <1>4, <1>5, <1>6, <1>7, <1>8, <1>9, <1>10, <1>11, <1>12, <1>13, <1>14,
           <1>15, <1>16 DEF Next

LEMMA MarkStep ==
  ASSUME DiskInv, MarkInv, SeenInv, HandInv, LoopInv, Next, setup' = setup
  PROVE  MarkInv' /\ SeenInv'
<1>1. GoodCaches /\ daHead' \in Nat /\ daHead <= daHead' /\ (included' = included \/ IncludeNext)
  BY Zenon, CacheStep
<1>2. /\ \A k, c : TrueMarks(c, k) => TrueMarks(c, k)'
      /\ \A k, s : TrueSnap(s, k) => TrueSnap(s, k)'
      /\ daHead \in Nat /\ setup \in Setups
  BY Zenon, <1>1, MarksGrow DEF DiskInv
<1>3. \A k \in Kinds : TrueMarks(cache[k], k)' /\ TrueSnap(snap[k], k)'
  BY Zenon, <1>1, <1>2 DEF GoodCaches
<1>4. \A h \in Blocks : setup.headerAt[h] \in Nat /\ setup.dataAt[h] \in Nat
  BY ZenonT(40), <1>2, SetupFacts DEF Positive
<1>5. 1..included \subseteq Blocks /\ included \in Nat
  BY SMTT(30), <1>2, SetupFacts DEF DiskInv
<1>6. \A h \in 1..included : setup.headerAt[h] <= daHead' /\ setup.dataAt[h] <= daHead'
  BY <1>1, <1>2, <1>4, <1>5 DEF MarkInv, InclusionTrue
<1>7. InclusionTrue'
  <2>1. CASE included' = included
    BY <1>6, <2>1 DEF InclusionTrue
  <2>2. CASE IncludeNext
    <3>1. setup.headerAt[included + 1] <= daHead /\ setup.dataAt[included + 1] <= daHead
      BY <2>2, IncludedCaches
    <3>2. included' = included + 1 /\ daHead' = daHead
      BY <2>2 DEF IncludeNext
    <3>3. \A h \in 1..(included + 1) : h \in 1..included \/ h = included + 1
      BY <1>5
    <3> QED BY <1>6, <3>1, <3>2, <3>3 DEF InclusionTrue
  <2> QED BY Zenon, <1>1, <2>1, <2>2
<1>8. SeenInv'
  BY <1>1 DEF GoodCaches, SeenInv
<1> QED BY <1>3, <1>7, <1>8 DEF MarkInv

(***************************************************************************)
(* The pipeline and the follower                                           *)
(***************************************************************************)

\* Where retrieval starts is a number, and not 0.
LEMMA StartLocal ==
  ASSUME DiskInv, MarkInv, Start
  PROVE  local' \in Positive
<1> DEFINE c == [k \in Kinds |-> RestoredCache(k)]
           d == RestartDA(c)
<1>1. cache' = c /\ local' = Larger(1, StartDAHeight(d))
  BY DEF Start
<1>2. c["header"].maxDAHeight \in Nat /\ c["data"].maxDAHeight \in Nat
  BY Zenon, <1>1, StartCaches DEF Kinds
<1>3. setup.daStart \in Nat /\ stateDA \in Nat /\ daHead \in Nat
  BY SMTT(30), SetupFacts DEF DiskInv
<1> HIDE DEF c
<1>4. d \in Nat
  BY <1>2, <1>3 DEF RestartDA, Larger
<1> HIDE DEF d
<1>5. StartDAHeight(d) \in Nat
  BY SMTT(30), <1>3, <1>4 DEF StartDAHeight
<1> QED BY <1>1, <1>5 DEF Larger, Positive

LEMMA FlowStep ==
  ASSUME DiskInv, PipeInv, LoopInv, MarkInv, Next, setup' = setup
  PROVE  PipeInv' /\ LoopInv'
<1>1. setup \in Setups /\ daHead \in Nat /\ daHead + 1 \in Positive
  BY SMTT(30) DEF DiskInv, Positive
<1>2. /\ sub \in [Namespaces -> Positive] /\ 1 \in Positive
      /\ [ns \in Namespaces |-> daHead + 1] \in [Namespaces -> Positive]
  BY <1>1 DEF LoopInv, CountInv, Positive
<1>3. CASE Start
  <2>1. Fresh /\ sub' = [ns \in Namespaces |-> daHead + 1] /\ local' \in Positive
    BY <1>3, StartLocal DEF Start
  <2> QED BY SMTT(30), <1>1, <1>2, <2>1, FreshPipe, FreshLoops
<1>4. CASE Stop \/ EndCatchup
  BY <1>4, Cancelled DEF Stop, EndCatchup
<1>5. CASE StopEnd
  BY <1>1, <1>2, <1>5, FreshPipe, FreshLoops DEF StopEnd
<1>6. CASE Crash
  BY <1>1, <1>2, <1>6, FreshPipe, FreshLoops DEF Crash
<1>7. ASSUME UNCHANGED <<height, daHead, pipe, hand, gossip, follower, prio>>
      PROVE  PipeInv' /\ LoopInv'
  BY SMTT(30), <1>1, <1>7, SameTypes DEF PipeInv, gossip
<1>8. CASE StartProducing \/ CatchupTimeout
  BY <1>7, <1>8 DEF StartProducing, CatchupTimeout, disk
<1>9. CASE ProcessLoop
  BY <1>9, ProcessStep, ProcessRest DEF PipeInv
<1>10. CASE PendingWorker
  <2>1. UNCHANGED <<height, daHead, hand, p2p, follower, prio>>
    BY <1>10 DEF PendingWorker, disk, gossip
  <2>2. QueueInv'
    BY Zenon, <1>10, PendingStep DEF PipeInv
  <2> QED BY <1>1, <2>1, <2>2, SameTypes DEF PipeInv
<1>11. CASE P2PWorker
  <2>1. UNCHANGED <<height, daHead, hand, follower, prio>>
    BY <1>11 DEF P2PWorker, disk
  <2>2. QueueInv' /\ P2PInv'
    BY Zenon, <1>11, P2PStep DEF PipeInv
  <2> QED BY <1>1, <2>1, <2>2, SameTypes DEF PipeInv
<1>12. CASE FollowLoop \/ CatchupLoop
  <2>1. UNCHANGED <<height, daHead, hand, p2p>>
    BY <1>12 DEF FollowLoop, CatchupLoop, disk, gossip
  <2>2. QueueInv' /\ LoopInv'
    BY Zenon, <1>12, FollowStep, CatchupStep DEF PipeInv
  <2> QED BY SMTT(30), <1>1, <2>1, <2>2, SameTypes DEF PipeInv
<1>13. CASE IncludeNext
  <2>1. /\ UNCHANGED <<height, daHead, hand, p2p, follower, prio, chan>>
        /\ pending' = Without(pending, included + 1)
    BY Zenon, <1>13 DEF IncludeNext, gossip
  <2>2. QueueInv'
    BY Zenon, <2>1, SetupStays DEF PipeInv, QueueInv, Without
  <2> QED BY <1>1, <2>1, <2>2, SameTypes DEF PipeInv
<1>14. CASE DAGrows
  <2>1. UNCHANGED <<height, pipe, hand, p2p, follower, prio>> /\ daHead' = daHead + 1
    BY Zenon, <1>14 DEF DAGrows, disk, gossip
  <2> QED BY <1>1, <2>1, SameTypes DEF PipeInv
<1>15. CASE P2PGrows
  <2>1. UNCHANGED <<height, daHead, pipe, hand, p2p, follower, prio>>
    BY Zenon, <1>15 DEF P2PGrows, disk
  <2> QED BY <1>1, <2>1, SameTypes DEF PipeInv
<1> QED BY <1>3, <1>4, <1>5, <1>6, <1>8, <1>9, <1>10, <1>11, <1>12, <1>13, <1>14, <1>15
        DEF Next

(***************************************************************************)
(* No block is lost                                                        *)
(***************************************************************************)

\* The DA height of a piece.
At(k, h) == IF k = "header" THEN setup.headerAt[h] ELSE setup.dataAt[h]

\* A step of a loop loses no piece: what was held is held, or its block is piped.
HoldsOn ==
  \A h \in Blocks, k \in Kinds :
     Held(k, h, At(k, h)) => Held(k, h, At(k, h))' \/ InPipeline(h)'

LEMMA BlobsAtPieces ==
  ASSUME NEW h \in Blocks, NEW k \in Kinds, NEW d
  PROVE  <<k, h>> \in BlobsAt(d) <=> At(k, h) = d
BY ZenonT(40) DEF BlobsAt, At, Kinds

\* A loop that processes all blobs of the DA height it holds.
LEMMA ProcessedHeld ==
  ASSUME DiskInv, QueueInv, LoopInv, setup' = setup, inHand' = inHand, local' = local,
         NEW d \in Positive, ProcessBlobs(BlobsAt(d), d),
         \/ follow' = follow
         \/ follow.pc = "inline" /\ follow.da = d,
         \/ catchup' = catchup
         \/ catchup.pc = "fetch" /\ catchup.da = d
  PROVE  HoldsOn
<1> SUFFICES ASSUME NEW h \in Blocks, NEW k \in Kinds, Held(k, h, At(k, h)),
                    ~InPipeline(h)'
             PROVE  Held(k, h, At(k, h))'
  BY Zenon DEF HoldsOn
<1>1. k = "header" \/ k = "data"
  BY Zenon DEF Kinds
<1>2. /\ headers \subseteq Blocks /\ data \subseteq Blocks /\ setup \in Setups
      /\ Aligned => headers = {} /\ data = {} /\ BlobsAt(d) = BlobsAt(d)
  BY ZenonT(30) DEF LoopInv, KeptInv, DiskInv
<1>3. PICK evs \in Seq(Event) :
        /\ PipeAll(evs)
        /\ \A g : g \in headers \/ <<"header", g>> \in BlobsAt(d)
                    => g \in headers' \/ InSeq(evs, g)
        /\ \A g : g \in data \/ <<"data", g>> \in BlobsAt(d)
                    => g \in data' \/ InSeq(evs, g)
  BY Zenon, <1>2, BlobsProcessed
<1>4. ~InSeq(evs, h)
  BY Zenon, <1>3, PipingStep
<1>5. At(k, h)' = At(k, h)
  BY Zenon DEF At
<1>6. <<k, h>> \in BlobsAt(d) <=> At(k, h) = d
  BY ZenonT(40), BlobsAtPieces
<1>7. CASE At(k, h) = d \/ h \in IF k = "header" THEN headers ELSE data
  BY SMTT(30), <1>1, <1>3, <1>4, <1>6, <1>7 DEF Held
<1>8. CASE At(k, h) >= local
  BY <1>5, <1>8 DEF Held
<1>9. CASE catchup.pc = "fetch" /\ ~catchup.prio /\ catchup.da = At(k, h)
  <2>1. CASE catchup' = catchup
    BY <1>5, <1>9, <2>1 DEF Held
  <2> QED BY ZenonT(40), <1>7, <1>9, <2>1
<1>10. CASE follow.pc = "inline" /\ follow.da = At(k, h)
  <2>1. CASE follow' = follow
    BY Zenon, <1>5, <1>10, <2>1 DEF Held
  <2> QED BY Zenon, <1>7, <1>10, <2>1
<1> QED BY <1>7, <1>8, <1>9, <1>10 DEF Held

\* A loop that leaves the pieces kept alone, and what the other loop holds.
LEMMA LocalHeld ==
  ASSUME DiskInv, setup' = setup, UNCHANGED <<headers, data>>,
         local \in Positive, local' \in Positive,
         \A d \in Nat :
            \/ d >= local
            \/ catchup.pc = "fetch" /\ ~catchup.prio /\ catchup.da = d
            \/ follow.pc = "inline" /\ follow.da = d
            => \/ d >= local'
               \/ catchup'.pc = "fetch" /\ ~catchup'.prio /\ catchup'.da = d
               \/ follow'.pc = "inline" /\ follow'.da = d
  PROVE  HoldsOn
<1> SUFFICES ASSUME NEW h \in Blocks, NEW k \in Kinds, Held(k, h, At(k, h))
             PROVE  Held(k, h, At(k, h))'
  BY SMTT(30) DEF HoldsOn
<1>1. At(k, h) \in Nat /\ At(k, h)' = At(k, h)
  BY SetupFacts DEF At, DiskInv, Positive
<1> QED BY Zenon, <1>1 DEF Held

LEMMA FollowHeld ==
  ASSUME DiskInv, QueueInv, LoopInv, Covered, ClaimInv, FollowLoop
  PROVE  HoldsOn /\ ClaimInv'
<1>1. setup' = setup /\ inHand' = inHand
  BY DEF FollowLoop, hand
<1>2. local \in Positive /\ local \in Nat /\ catchup.da \in Nat
  BY Zenon DEF LoopInv, CountInv, FetchInv, Positive
<1>3. ASSUME follow.pc # "idle" PROVE Aligned
  BY Zenon, <1>3 DEF LoopInv, FollowInv, Covered
<1>4. UNCHANGED catchup
  BY DEF FollowLoop, FollowEvent, FollowClaim, FollowInline, FollowRollback, Resubscribe
<1>5. ASSUME NEW ns \in Namespaces, FollowEvent(ns) PROVE HoldsOn /\ ClaimInv'
  <2>1. follow.pc = "idle" /\ UNCHANGED <<local, headers, data>>
    BY Zenon, <1>5, IdleLoops DEF FollowEvent, retriever
  <2>2. HoldsOn
    BY <1>1, <1>2, <1>4, <2>1, LocalHeld
  <2> QED BY Zenon, <1>4, <2>1, <2>2 DEF ClaimInv
<1>6. CASE FollowClaim
  <2>1. follow.pc = "claim" /\ UNCHANGED <<headers, data>>
    BY <1>6 DEF FollowClaim, retriever
  <2>2. CASE local = follow.da
    <3>1. local' = local + 1 /\ follow' = [follow EXCEPT !.pc = "inline"]
      BY <1>6, <2>2 DEF FollowClaim
    <3>2. PICK q \in {"idle", "claim", "inline", "rollback"} : q = "inline"
      OBVIOUS
    <3>3. follow \in FollowType /\ follow' = [follow EXCEPT !.pc = q]
      BY <3>1, <3>2 DEF LoopInv, FollowInv
    <3>4. follow'.pc = "inline" /\ follow'.da = local
      BY <2>2, <3>2, <3>3 DEF FollowType
    <3>5. local' \in Positive
      BY <1>2, <3>1 DEF Positive
    <3>6. \A d \in Nat : d >= local => d >= local' \/ d = local
      BY <1>2, <3>1
    <3>7. HoldsOn
      BY <1>1, <1>2, <1>4, <2>1, <3>4, <3>5, <3>6, LocalHeld
    <3>8. ClaimInv'
      BY <1>2, <1>4, <3>1 DEF ClaimInv
    <3> QED BY <3>7, <3>8
  <2>3. CASE local # follow.da
    <3>1. local' = local
      BY Zenon, <1>6, <2>3 DEF FollowClaim
    <3>2. HoldsOn
      BY Zenon, <1>1, <1>2, <1>4, <2>1, <3>1, LocalHeld
    <3> QED BY <1>4, <3>1, <3>2 DEF ClaimInv
  <2> QED BY <2>2, <2>3
<1>7. CASE FollowInline
  <2>1. /\ follow.pc = "inline" /\ local' = local
        /\ ProcessBlobs(follow.blobs, follow.da)
    BY <1>7 DEF FollowInline
  <2>2. PICK d : d = follow.da
    BY SMTT(30)
  <2>3. d \in Positive /\ follow.blobs = BlobsAt(d)
    BY <1>3, <2>1, <2>2 DEF LoopInv, FollowInv, DiskInv, Positive
  <2>4. ProcessBlobs(BlobsAt(d), d)
    BY ZenonT(40), <2>1, <2>2, <2>3
  <2>5. HoldsOn
    BY SMTT(30), <1>1, <1>4, <2>1, <2>2, <2>3, <2>4, ProcessedHeld
  <2> QED BY <1>4, <2>1, <2>5 DEF ClaimInv
<1>8. CASE FollowRollback
  BY <1>3, <1>8 DEF FollowRollback, LoopInv, FollowInv
<1>9. CASE Resubscribe
  <2>1. UNCHANGED <<local, follow, headers, data>>
    BY Zenon, <1>9 DEF Resubscribe, retriever
  <2>2. HoldsOn
    BY ZenonT(40), <1>1, <1>2, <1>4, <2>1, LocalHeld
  <2> QED BY <1>4, <2>1, <2>2 DEF ClaimInv
<1> QED BY <1>5, <1>6, <1>7, <1>8, <1>9 DEF FollowLoop

LEMMA CatchupHeld ==
  ASSUME DiskInv, QueueInv, LoopInv, ClaimInv, CatchupLoop
  PROVE  HoldsOn /\ ClaimInv'
<1>1. setup' = setup /\ inHand' = inHand
  BY DEF CatchupLoop, hand
<1>2. local \in Positive /\ local \in Nat /\ catchup.da \in Nat
  BY Zenon DEF LoopInv, CountInv, FetchInv, Positive
<1>3. ASSUME UNCHANGED <<local, follow, retriever>>, catchup.pc # "fetch"
      PROVE  HoldsOn
  <2>1. UNCHANGED <<headers, data>>
    BY Zenon, <1>3 DEF retriever
  <2> QED BY <1>1, <1>2, <1>3, <2>1, LocalHeld
<1>4. ASSUME catchup' = CatchupRun \/ catchup' = CatchupIdle PROVE ClaimInv'
  BY Zenon, <1>4, IdleLoops DEF ClaimInv
<1>5. CASE CatchupWake /\ UNCHANGED <<retriever, cache, pipe, faults>>
  <2>1. UNCHANGED <<local, follow>> /\ catchup.pc = "idle" /\ catchup' = CatchupRun
    BY <1>5, IdleLoops DEF CatchupWake
  <2> QED BY <1>3, <1>4, <1>5, <2>1
<1>6. CASE CatchupPriority /\ UNCHANGED <<retriever, cache, pipe, faults>>
  <2>1. UNCHANGED <<local, follow>> /\ catchup.pc = "run"
    BY ZenonT(40), <1>6, IdleLoops DEF CatchupPriority
  <2>2. PICK d \in prio : catchup' = [pc |-> "fetch", da |-> d, prio |-> TRUE]
    BY ZenonT(30), <1>6 DEF CatchupPriority
  <2>3. ClaimInv'
    <3>1. catchup'.prio
      BY SMTT(30), <2>2
    <3> QED BY <3>1 DEF ClaimInv
  <2> QED BY Zenon, <1>3, <1>6, <2>1, <2>3
<1>7. CASE CatchupDone /\ UNCHANGED <<retriever, cache, pipe, faults>>
  <2>1. UNCHANGED <<local, follow>> /\ catchup.pc = "run" /\ catchup' = CatchupIdle
    BY <1>7, IdleLoops DEF CatchupDone
  <2> QED BY <1>3, <1>4, <1>7, <2>1
<1>8. CASE CatchupClaim /\ UNCHANGED <<retriever, cache, pipe, faults>>
  <2>1. /\ catchup.pc = "run" /\ local' = local + 1 /\ UNCHANGED <<follow, headers, data>>
        /\ catchup' = [pc |-> "fetch", da |-> local, prio |-> FALSE]
    BY Zenon, <1>8, IdleLoops DEF CatchupClaim, retriever
  <2>2. catchup'.pc = "fetch" /\ catchup'.da = local /\ ~catchup'.prio
    BY Zenon, <2>1
  <2>3. local' \in Positive /\ \A d \in Nat : d >= local => d >= local' \/ d = local
    BY SMTT(30), <1>2, <2>1 DEF Positive
  <2>4. HoldsOn
    BY SMTT(30), <1>1, <1>2, <2>1, <2>2, <2>3, LocalHeld
  <2>5. ClaimInv'
    BY <1>2, <2>1, <2>2 DEF ClaimInv
  <2> QED BY Zenon, <2>4, <2>5
<1>9. CASE CatchupFetch /\ UNCHANGED <<prio, faults>>
  <2>1. /\ catchup.pc = "fetch" /\ catchup' = CatchupRun /\ UNCHANGED <<local, follow>>
        /\ ProcessBlobs(BlobsAt(catchup.da), catchup.da)
    BY <1>9 DEF CatchupFetch
  <2>2. PICK d \in Positive : d = catchup.da
    BY <2>1 DEF LoopInv, FetchInv, Positive
  <2>3. ProcessBlobs(BlobsAt(d), d)
    BY SMTT(30), <2>1, <2>2
  <2>4. HoldsOn
    BY <1>1, <2>1, <2>2, <2>3, ProcessedHeld
  <2> QED BY <1>4, <2>1, <2>4
<1>10. ASSUME catchup.pc = "fetch", GiveBack, catchup' = CatchupRun,
              UNCHANGED <<follow, retriever>>
       PROVE  HoldsOn /\ ClaimInv'
  <2>1. UNCHANGED <<headers, data>> /\ catchup.prio \in BOOLEAN
    BY <1>10 DEF retriever, LoopInv, FetchInv
  <2>2. CASE catchup.prio
    <3>1. local' = local
      BY SMTT(30), <1>10, <2>2 DEF GiveBack
    <3>2. HoldsOn
      BY <1>1, <1>2, <1>10, <2>1, <2>2, <3>1, LocalHeld
    <3> QED BY <1>4, <1>10, <3>2
  <2>3. CASE ~catchup.prio
    <3>1. local' = catchup.da /\ catchup.da < local /\ local' \in Positive
      BY <1>2, <1>10, <2>3 DEF GiveBack, ClaimInv, LoopInv, FetchInv, Positive
    <3>2. \A d \in Nat : d >= local \/ d = catchup.da => d >= local'
      BY SMTT(30), <1>2, <3>1
    <3>3. HoldsOn
      BY <1>1, <1>2, <1>10, <2>1, <3>1, <3>2, LocalHeld
    <3> QED BY <1>4, <1>10, <3>3
  <2> QED BY <2>1, <2>2, <2>3
<1>11. CASE CatchupFuture /\ UNCHANGED <<retriever, cache, pipe, prio, faults>>
  BY <1>10, <1>11 DEF CatchupFuture
<1>12. CASE CatchupError /\ UNCHANGED <<retriever, cache, pipe, prio>>
  BY <1>10, <1>12 DEF CatchupError
<1> QED BY SMTT(30), <1>5, <1>6, <1>7, <1>8, <1>9, <1>11, <1>12 DEF CatchupLoop

\* A node that starts has every block above its height ahead of it.
LEMMA StartHeld ==
  ASSUME DiskInv, MarkInv, Covered, RestartInv, Start, setup' = setup
  PROVE  HeldInv' /\ ClaimInv'
<1>1. /\ setup \in Setups /\ stateDA \in Nat /\ included \in Nat /\ included <= height
      /\ height \in Nat /\ height <= Len(setup.headerAt)
  BY SMTT(30), SetupFacts DEF DiskInv
<1>2. /\ setup.daStart \in Nat /\ setup.daStart > 0 /\ Len(setup.headerAt) \in Nat
      /\ Blocks = 1..Len(setup.headerAt)
      /\ \A h \in Blocks : setup.headerAt[h] \in Positive /\ setup.dataAt[h] \in Nat
  BY Zenon, <1>1, SetupFacts DEF Covered, FromGenesis
<1> DEFINE c == [k \in Kinds |-> RestoredCache(k)]
           d == RestartDA(c)
<1>3. /\ cache' = c /\ local' = Larger(1, StartDAHeight(d)) /\ height' = height
      /\ catchup' = CatchupIdle /\ phase = "down"
  BY Zenon DEF Start, Fresh, disk
<1>4. /\ c["header"].maxDAHeight = FinalDA("header", included)
      /\ c["data"].maxDAHeight = FinalDA("data", included)
      /\ FinalDA("header", included) \in Nat /\ FinalDA("data", included) \in Nat
  <2>1. /\ "header" \in Kinds /\ "data" \in Kinds
        /\ \A k \in Kinds : DOMAIN snap[k] = {}
    BY SMTT(30) DEF Kinds, RestartInv
  <2>2. \A k \in Kinds : cache'[k].maxDAHeight = FinalDA(k, included)
    BY <2>1, StartCaches
  <2>3. FinalDA("header", included) \in Nat /\ FinalDA("data", included) \in Nat
    BY SMTT(30), FinalDAType
  <2> HIDE DEF c
  <2> QED BY Zenon, <1>3, <2>1, <2>2, <2>3
<1> HIDE DEF c
<1>5. ASSUME NEW x \in Nat, setup.daStart <= x, stateDA <= x, 1 <= x,
             FinalDA("header", included) <= x, FinalDA("data", included) <= x
      PROVE  local' <= x
  <2>1. d \in Nat /\ d <= x /\ d > 0
    BY <1>1, <1>2, <1>4, <1>5 DEF RestartDA, Larger
  <2> HIDE DEF d
  <2>2. StartDAHeight(d) = d
    BY SMTT(30), <2>1 DEF StartDAHeight
  <2> QED BY SMTT(90), <1>3, <1>5, <2>1, <2>2 DEF Larger
<1>6. ASSUME NEW h \in (height + 1)..Len(setup.headerAt)
      PROVE  /\ local' <= setup.headerAt[h]
             /\ Empty(h) \/ local' <= setup.dataAt[h]
  <2>1. h \in Blocks /\ h > height /\ h \in Nat
    BY <1>1, <1>2
  <2>2. /\ stateDA <= setup.headerAt[h] /\ setup.daStart <= setup.headerAt[h]
        /\ Empty(h) \/ (stateDA <= setup.dataAt[h] /\ setup.daStart <= setup.dataAt[h])
    BY Zenon, <1>3, <2>1 DEF RestartInv, Covered, FromGenesis
  <2>3. /\ setup.headerAt[h] \in Nat /\ setup.headerAt[h] >= 1
        /\ Empty(h) \/ (setup.dataAt[h] \in Nat /\ setup.dataAt[h] >= 1)
    BY SMTT(30), <1>2, <2>1 DEF Positive, Empty
  <2>4. CASE included = 0
    <3>1. FinalDA("header", included) = 0 /\ FinalDA("data", included) = 0
      BY ZenonT(40), <2>4 DEF FinalDA
    <3>2. local' <= setup.headerAt[h]
      BY SMTT(30), <1>5, <2>2, <2>3, <3>1
    <3>3. Empty(h) \/ local' <= setup.dataAt[h]
      BY <1>5, <2>2, <2>3, <3>1
    <3> QED BY Zenon, <3>2, <3>3
  <2>5. CASE included # 0
    <3>1. setup.mayCrash
      BY <1>1, <1>3, <2>5 DEF RestartInv
    <3>2. Aligned /\ InOrder
      BY Zenon, <3>1 DEF Covered
    <3>3. included \in Blocks /\ included < h
      BY <1>1, <1>2, <2>1, <2>5
    <3>4. setup.headerAt[included] <= setup.headerAt[h]
      BY Zenon, <2>1, <3>2, <3>3 DEF InOrder
    <3>5. /\ FinalDA("header", included) = setup.headerAt[included]
          /\ FinalDA("data", included) = setup.headerAt[included]
      <4>1. setup.dataAt[included] \in {0, setup.headerAt[included]}
        BY ZenonT(40), <3>2, <3>3 DEF Aligned
      <4> QED BY Zenon, <2>5, <4>1 DEF FinalDA, Empty
    <3>6. local' <= setup.headerAt[h]
      BY SMTT(30), <1>5, <2>2, <2>3, <3>4, <3>5
    <3>7. Empty(h) \/ setup.dataAt[h] = setup.headerAt[h]
      BY <2>1, <3>2 DEF Aligned, Empty
    <3> QED BY SMTT(30), <3>6, <3>7
  <2> QED BY SMTT(30), <2>4, <2>5
<1>7. local' \in Nat
  BY Zenon, StartLocal DEF Positive
<1>8. HeldInv'
  <2> SUFFICES ASSUME NEW h \in (height + 1)..Len(setup.headerAt)
               PROVE  /\ Held("header", h, setup.headerAt[h])'
                      /\ Empty(h)' \/ Held("data", h, setup.dataAt[h])'
    BY Zenon, <1>3 DEF HeldInv
  <2>1. setup.headerAt[h] \in Nat /\ setup.dataAt[h] \in Nat
    BY SMTT(30), <1>1, <1>2 DEF Positive
  <2>2. setup.headerAt[h] >= local' /\ (Empty(h) \/ setup.dataAt[h] >= local')
    BY Zenon, <1>6, <1>7, <2>1
  <2> QED BY Zenon, <2>2 DEF Held, Empty
<1>9. ClaimInv'
  BY Zenon, <1>3, IdleLoops DEF ClaimInv
<1> QED BY Zenon, <1>8, <1>9

\* When the pipeline keeps its events and the loops their pieces, so does the node.
LEMMA HeldOn ==
  ASSUME DiskInv, HeldInv, setup' = setup, Up' => Up, height' \in Nat, height <= height',
         \A h \in Nat : InPipeline(h) => InPipeline(h)' \/ h <= height',
         HoldsOn
  PROVE  HeldInv'
<1> SUFFICES ASSUME Up', NEW h \in (height' + 1)..Len(setup.headerAt), ~InPipeline(h)'
             PROVE  /\ Held("header", h, setup.headerAt[h])'
                    /\ Empty(h)' \/ Held("data", h, setup.dataAt[h])'
  BY ZenonT(40) DEF HeldInv
<1>1. height \in Nat /\ Len(setup.headerAt) \in Nat /\ Blocks = 1..Len(setup.headerAt)
  BY SMTT(30), SetupFacts DEF DiskInv
<1>2. h \in (height + 1)..Len(setup.headerAt) /\ h \in Blocks /\ h \in Nat /\ ~(h <= height')
  <2>1. height' \in Nat /\ height <= height' /\ h \in (height' + 1)..Len(setup.headerAt)
    BY Zenon
  <2>2. PICK a, b, n \in Nat : a = height /\ b = height' /\ n = Len(setup.headerAt)
    BY Zenon, <1>1, <2>1
  <2>3. h \in (b + 1)..n /\ a <= b
    BY Zenon, <2>1, <2>2
  <2>4. h \in (a + 1)..n /\ h \in 1..n /\ h \in Nat /\ ~(h <= b)
    BY ONLY a \in Nat, b \in Nat, n \in Nat, <2>3
  <2> QED BY <1>1, <2>2, <2>4
<1>3. ~InPipeline(h)
  BY Zenon, <1>2
<1>4. /\ Held("header", h, setup.headerAt[h])
      /\ Empty(h) \/ Held("data", h, setup.dataAt[h])
  BY Zenon, <1>2, <1>3 DEF HeldInv
<1>5. At("header", h) = setup.headerAt[h] /\ At("data", h) = setup.dataAt[h]
  BY Zenon DEF At
<1>6. "header" \in Kinds /\ "data" \in Kinds /\ "data" # "header"
  BY Zenon DEF Kinds
<1>7. Held("header", h, setup.headerAt[h])'
  <2>1. Held("header", h, At("header", h))
    BY Zenon, <1>4, <1>5
  <2>2. Held("header", h, At("header", h))'
    BY Zenon, <1>2, <1>6, <2>1 DEF HoldsOn
  <2> QED BY Zenon, <2>2 DEF At
<1>8. ASSUME ~Empty(h) PROVE Held("data", h, setup.dataAt[h])'
  <2>1. Held("data", h, At("data", h))
    BY Zenon, <1>4, <1>5, <1>8
  <2>2. Held("data", h, At("data", h))'
    BY ZenonT(40), <1>2, <1>6, <2>1 DEF HoldsOn
  <2> QED BY Zenon, <1>6, <2>2 DEF At
<1> QED BY Zenon, <1>7, <1>8 DEF Empty

\* The loops stand still.
LEMMA StillHeld ==
  ASSUME setup' = setup, UNCHANGED follower
  PROVE  HoldsOn /\ (ClaimInv => ClaimInv')
<1>1. UNCHANGED <<local, headers, data, catchup, follow>>
  BY DEF follower, retriever, loops
<1> QED BY <1>1 DEF HoldsOn, Held, At, ClaimInv

\* What the process loop drops is applied already.
LEMMA ProcessHeld ==
  ASSUME SyncInv, Covered, ProcessLoop, setup' = setup, height' \in Nat
  PROVE  /\ \A h \in Nat : InPipeline(h) => InPipeline(h)' \/ h <= height'
         /\ height <= height'
<1>1. DiskInv /\ QueueInv /\ HandInv /\ SeenInv /\ ~setup.mayStop /\ height \in Nat
  BY DEF SyncInv, PipeInv, MissInv, Covered, DiskInv
<1>2. KeepsPipe
  BY <1>1, ProcessStep
<1>3. height <= height'
  <2>1. CASE TrySyncNextBlock
    <3>1. height' = height + 1
      BY <1>1, <2>1 DEF TrySyncNextBlock, HandInv
    <3> QED BY SMTT(30), <1>1, <3>1
  <2>2. CASE UNCHANGED disk
    BY <1>1, <2>2 DEF disk
  <2> QED BY <2>1, <2>2, ProcessSteps
<1>4. ASSUME stage = "counted", Known(inHand) PROVE inHand.height <= height
  <2>1. CASE isSeen(cache["header"], HashKey(inHand.height))
    <3>1. HashKey(inHand.height)[2] \in 0..height
      BY <1>1, <2>1 DEF SeenInv, isSeen
    <3>2. HashKey(inHand.height)[2] = inHand.height
      BY DEF HashKey
    <3>3. inHand.height \in 0..height
      BY <3>1, <3>2
    <3> QED BY SMTT(30), <1>1, <3>3
  <2> QED BY <1>4, <2>1 DEF Known
<1>5. ASSUME NEW h \in Nat, Passed(h) PROVE h <= height'
  <2>1. CASE h <= height'
    BY <2>1
  <2>2. CASE inHand.height = h /\ stage = "counted" /\ Known(inHand)
    <3>1. h <= height
      BY SMTT(30), <1>4, <2>2
    <3> QED BY ONLY <1>1, <1>3, <3>1, h \in Nat, height' \in Nat
  <2> QED BY <1>1, <1>5, <2>1, <2>2 DEF Passed
<1> QED BY Zenon, <1>2, <1>3, <1>5 DEF KeepsPipe

\* Where a running node stands with the blocks it has not applied.
LEMMA HeldStep ==
  ASSUME SyncInv, Covered, Next, setup' = setup, height' \in Nat
  PROVE  HeldInv' /\ ClaimInv'
<1>1. DiskInv /\ QueueInv /\ HandInv /\ P2PInv /\ LoopInv /\ MarkInv
  BY Zenon DEF SyncInv, PipeInv
<1>2. HeldInv /\ ClaimInv /\ RestartInv /\ height \in Nat
  BY DEF SyncInv, MissInv, DiskInv
<1>3. ASSUME Keeps, UNCHANGED <<phase, height>>, HoldsOn PROVE HeldInv'
  <2>1. \A h \in Nat : InPipeline(h) => InPipeline(h)' \/ h <= height'
    BY <1>3 DEF Keeps
  <2>2. Up' => Up
    BY <1>3 DEF Up
  <2>3. height <= height'
    BY SMTT(30), <1>2, <1>3
  <2> QED BY <1>1, <1>2, <1>3, <2>1, <2>2, <2>3, HeldOn
<1>4. ASSUME ~Up' PROVE HeldInv'
  BY Zenon, <1>4 DEF HeldInv
<1>5. ASSUME catchup' = CatchupIdle PROVE ClaimInv'
  BY SMTT(30), <1>5, IdleLoops DEF ClaimInv
<1>6. ASSUME UNCHANGED <<pipe, hand>> PROVE Keeps
  BY <1>6 DEF Keeps, InPipeline, pipe, hand
<1>7. CASE Start
  BY Zenon, <1>1, <1>2, <1>7, StartHeld
<1>8. CASE Stop
  BY Zenon, <1>4, <1>5, <1>8 DEF Stop, CancelWorkers, Up
<1>9. CASE StopEnd
  BY Zenon, <1>4, <1>5, <1>9 DEF StopEnd, Fresh, Up
<1>10. CASE Crash
  BY Zenon, <1>4, <1>5, <1>10 DEF Crash, Fresh, Up
<1>11. CASE EndCatchup
  BY Zenon, <1>4, <1>5, <1>11 DEF EndCatchup, CancelWorkers, Up
<1>12. CASE StartProducing
  <2>1. UNCHANGED follower /\ ~Up'
    BY Zenon, <1>12 DEF StartProducing, Up
  <2> QED BY Zenon, <1>2, <1>4, <2>1, StillHeld
<1>13. CASE CatchupTimeout \/ DAGrows \/ P2PGrows
  <2>1. UNCHANGED <<follower, phase, height, pipe, hand>>
    BY Zenon, <1>13 DEF CatchupTimeout, DAGrows, P2PGrows, disk
  <2> QED BY Zenon, <1>2, <1>3, <1>6, <2>1, StillHeld
<1>14. CASE ProcessLoop
  <2>1. UNCHANGED <<phase, follower>>
    BY <1>14, ProcessSteps
  <2>2. HoldsOn /\ ClaimInv' /\ (Up' => Up)
    BY <1>2, <2>1, StillHeld DEF Up
  <2>3. /\ \A h \in Nat : InPipeline(h) => InPipeline(h)' \/ h <= height'
        /\ height <= height'
    BY <1>14, ProcessHeld
  <2> QED BY <1>1, <1>2, <2>2, <2>3, HeldOn
<1>15. CASE PendingWorker
  <2>1. UNCHANGED <<follower, phase, height>>
    BY <1>15 DEF PendingWorker, disk
  <2>2. Keeps
    BY <1>1, <1>15, PendingStep
  <2> QED BY <1>2, <1>3, <2>1, <2>2, StillHeld
<1>16. CASE P2PWorker
  <2>1. UNCHANGED <<follower, phase, height>>
    BY <1>16 DEF P2PWorker, disk
  <2>2. Keeps
    BY Zenon, <1>1, <1>16, P2PStep
  <2> QED BY <1>2, <1>3, <2>1, <2>2, StillHeld
<1>17. CASE FollowLoop
  <2>1. UNCHANGED <<phase, height>>
    BY <1>17 DEF FollowLoop, disk
  <2>2. Keeps /\ HoldsOn /\ ClaimInv'
    BY Zenon, <1>1, <1>2, <1>17, FollowStep, FollowHeld
  <2> QED BY Zenon, <1>3, <2>1, <2>2
<1>18. CASE CatchupLoop
  <2>1. UNCHANGED <<phase, height>>
    BY <1>18 DEF CatchupLoop, disk
  <2>2. Keeps /\ HoldsOn /\ ClaimInv'
    BY Zenon, <1>1, <1>2, <1>18, CatchupStep, CatchupHeld
  <2> QED BY SMTT(30), <1>3, <2>1, <2>2
<1>19. CASE IncludeNext
  <2>1. /\ UNCHANGED <<follower, phase, height, chan, inHand>> /\ included < height
        /\ pending' = Without(pending, included + 1)
    BY Zenon, <1>19 DEF IncludeNext, hand
  <2>2. included + 1 <= height
    BY SMTT(30), <2>1 DEF SyncInv, DiskInv
  <2>3. Keeps
    BY <2>1, <2>2 DEF Keeps, InPipeline, Without
  <2> QED BY Zenon, <1>2, <1>3, <2>1, <2>3, StillHeld
<1> QED BY <1>7, <1>8, <1>9, <1>10, <1>11, <1>12, <1>13, <1>14, <1>15, <1>16, <1>17, <1>18,
           <1>19 DEF Next

\* A crash finds no block below the DA height that the next start begins with.
LEMMA RestartStep ==
  ASSUME SyncInv, Covered, Next, setup' = setup, height' \in Nat
  PROVE  RestartInv'
<1> DEFINE Bound ==
             \A h \in (height + 1)..Len(setup.headerAt) :
                /\ stateDA <= setup.headerAt[h]
                /\ Empty(h) \/ stateDA <= setup.dataAt[h]
<1>1. /\ DiskInv /\ HandInv /\ RestartInv /\ ~setup.mayStop
      /\ setup \in Setups /\ height \in Nat /\ stateDA \in Nat
  BY SMTT(30) DEF SyncInv, PipeInv, MissInv, Covered, DiskInv
<1>2. /\ \A k \in Kinds : DOMAIN snap[k] = {}
      /\ phase # "stopping" /\ (phase = "down" => stage = "idle")
      /\ setup.mayCrash \/ phase = "down" => Bound
      /\ ~setup.mayCrash /\ phase = "down" => height = 0
  BY Zenon, <1>1, Zenon DEF RestartInv
<1>3. ASSUME UNCHANGED disk, phase' # "stopping", phase' = "down" => stage' = "idle",
             phase' = "down" => phase = "down" \/ setup.mayCrash
      PROVE  RestartInv'
  BY Zenon, <1>2, <1>3 DEF RestartInv, disk, Empty
<1>4. CASE Start
  BY Zenon, <1>3, <1>4 DEF Start
<1>5. CASE Stop \/ StopEnd
  BY Zenon, <1>1, <1>2, <1>5 DEF Stop, StopEnd
<1>6. CASE Crash
  BY Zenon, <1>3, <1>6 DEF Crash, Fresh, DoneWithEvent
<1>7. CASE EndCatchup
  BY Zenon, <1>3, <1>7 DEF EndCatchup, CancelWorkers
<1>8. ASSUME UNCHANGED <<disk, phase, hand>> PROVE RestartInv'
  BY Zenon, <1>2, <1>3, <1>8 DEF hand
<1>9. CASE StartProducing
  BY Zenon, <1>3, <1>9 DEF StartProducing
<1>10. CASE CatchupTimeout \/ DAGrows \/ P2PGrows
  BY Zenon, <1>8, <1>10 DEF CatchupTimeout, DAGrows, P2PGrows
<1>11. CASE PendingWorker \/ P2PWorker \/ FollowLoop \/ CatchupLoop
  BY Zenon, <1>8, <1>11, WorkerSteps
<1>12. CASE IncludeNext
  <2>1. UNCHANGED <<phase, height, stateDA, snap, hand>>
    BY Zenon, <1>12 DEF IncludeNext
  <2> QED BY Zenon, <1>2, <2>1 DEF RestartInv, Empty, hand
<1>13. CASE ProcessLoop
  <2>1. phase' = phase
    BY <1>13, ProcessSteps
  <2>2. phase # "down"
    BY ZenonT(40), <1>2, <1>13 DEF ProcessLoop, Receive, Up, Stopping, CountInFlight, Skip, ParkEarly,
                       BeginSync, TrySyncNextBlock, CommitFails, ExecutionFails
  <2>3. CASE UNCHANGED disk
    BY <1>2, <1>3, <2>1, <2>2, <2>3
  <2>4. CASE TrySyncNextBlock
    <3>1. /\ height' = height + 1 /\ inHand.height = height + 1 /\ snap' = snap
          /\ stateDA' = Larger(stateDA, inHand.da) /\ inHand \in Event
      BY SMTT(30), <1>1, <2>4 DEF TrySyncNextBlock, HandInv
    <3>2. ASSUME setup.mayCrash, NEW h \in (height + 2)..Len(setup.headerAt)
          PROVE  /\ stateDA' <= setup.headerAt[h]
                 /\ Empty(h) \/ stateDA' <= setup.dataAt[h]
      <4>0. Len(setup.headerAt) \in Nat /\ Blocks = 1..Len(setup.headerAt) /\ height \in Nat
        BY Zenon, <1>1, SetupFacts
      <4>1. /\ h \in Blocks /\ h \in Nat
            /\ h \in (height + 1)..Len(setup.headerAt) /\ height + 1 < h
        BY ONLY <3>2, <4>0
      <4>2. Aligned /\ InOrder
        BY Zenon, <3>2 DEF Covered
      <4>3. inHand.height \in Blocks /\ inHand.da \in {0, setup.headerAt[inHand.height]}
        BY Zenon, <3>1, <4>2, EventFacts
      <4>4. setup.headerAt[inHand.height] \in Nat /\ setup.headerAt[h] \in Nat
        BY Zenon, <1>1, <4>1, <4>3, SetupFacts DEF Positive
      <4>5. setup.headerAt[inHand.height] <= setup.headerAt[h]
        BY Zenon, <3>1, <4>1, <4>2, <4>3 DEF InOrder
      <4>6. stateDA <= setup.headerAt[h]
        BY ZenonT(40), <1>2, <3>2, <4>1
      <4>7. stateDA' <= setup.headerAt[h]
        BY SMTT(30), <1>1, <3>1, <4>3, <4>4, <4>5, <4>6 DEF Larger
      <4>8. Empty(h) \/ setup.dataAt[h] = setup.headerAt[h]
        BY Zenon, <4>1, <4>2 DEF Aligned, Empty
      <4> QED BY <4>7, <4>8
    <3>3. (height' + 1)..Len(setup.headerAt) = (height + 2)..Len(setup.headerAt)
      BY SMTT(30), <1>1, <3>1
    <3>4. setup.mayCrash => Bound'
      BY Zenon, <3>2, <3>3 DEF Empty
    <3> QED BY ZenonT(40), <1>2, <2>1, <2>2, <3>1, <3>4 DEF RestartInv, Empty
  <2> QED BY <1>13, <2>3, <2>4, ProcessSteps
<1> QED BY <1>4, <1>5, <1>6, <1>7, <1>9, <1>10, <1>11, <1>12, <1>13 DEF Next

(***************************************************************************)
(* The invariant, and what follows from it                                 *)
(***************************************************************************)

LEMMA InitInv ==
  ASSUME Init
  PROVE  SyncInv
<1>1. /\ setup \in Setups /\ phase = "down" /\ height = 0 /\ stateDA = setup.daStart
      /\ included = 0 /\ snap = [k \in Kinds |-> <<>>] /\ cache = [k \in Kinds |-> NewCache]
      /\ chan = <<>> /\ pending = <<>> /\ inHand = NoEvent /\ stage = "idle" /\ prio = {}
      /\ p2pHead = 0 /\ p2p = P2PIdle /\ daHead = 0 /\ local = 1
      /\ sub = [ns \in Namespaces |-> 1]
      /\ catchup = CatchupIdle /\ follow = FollowIdle /\ headers = {} /\ data = {}
  BY SMTT(30) DEF Init
<1>2. Len(setup.headerAt) \in Nat /\ setup.daStart \in Nat /\ setup.capacity \in Positive
  BY SMTT(30), <1>1, SetupFacts
<1>3. DiskInv
  BY <1>1, <1>2 DEF DiskInv
<1>4. PipeInv
  <2>1. QueueInv
    BY SMTT(30), <1>1, <1>2 DEF QueueInv, Positive
  <2>2. HandInv
    BY Zenon, <1>1 DEF HandInv
  <2>3. P2PInv
    <3>1. PICK r \in [pc : {"idle", "get", "wait"}, target : Nat] : r = P2PIdle
      BY Zenon DEF P2PIdle
    <3>2. P2PIdle.pc = "idle"
      BY Zenon DEF P2PIdle
    <3> QED BY Zenon, <1>1, <3>1, <3>2 DEF P2PInv
  <2> QED BY ZenonT(40), <2>1, <2>2, <2>3 DEF PipeInv
<1>5. LoopInv
  <2>1. CountInv /\ KeptInv
    BY SMTT(30), <1>1 DEF CountInv, KeptInv, Positive
  <2>2. FetchInv /\ FollowInv
    BY <1>1, IdleLoops DEF FetchInv, FollowInv
  <2> QED BY <2>1, <2>2 DEF LoopInv
<1>6. \A k \in Kinds : cache[k] = NewCache /\ snap[k] = <<>>
  BY Zenon, <1>1
<1>7. MarkInv
  <2>1. \A k \in Kinds : TrueMarks(cache[k], k) /\ TrueSnap(snap[k], k)
    BY SMTT(30), <1>6, EmptyCache DEF TrueSnap
  <2>2. InclusionTrue
    BY SMTT(30), <1>1 DEF InclusionTrue
  <2> QED BY ZenonT(40), <2>1, <2>2 DEF MarkInv
<1>8. SeenInv
  BY Zenon, <1>6, EmptyCache DEF SeenInv, Kinds
<1>9. HeldInv /\ ClaimInv
  BY ZenonT(40), <1>1, IdleLoops DEF HeldInv, Up, ClaimInv
<1>10. ASSUME Covered PROVE RestartInv
  <2>1. ASSUME NEW h \in (height + 1)..Len(setup.headerAt)
        PROVE  /\ stateDA <= setup.headerAt[h]
               /\ Empty(h) \/ stateDA <= setup.dataAt[h]
    <3>1. h \in Blocks /\ setup.headerAt[h] \in Nat /\ setup.dataAt[h] \in Nat
      BY <1>1, SetupFacts DEF Positive
    <3> QED BY ZenonT(30), <1>1, <1>2, <1>10, <3>1 DEF Covered, FromGenesis
  <2> QED BY SMTT(30), <1>1, <1>6, <2>1 DEF RestartInv
<1> QED BY SMTT(30), <1>3, <1>4, <1>5, <1>7, <1>8, <1>9, <1>10 DEF SyncInv, MissInv

LEMMA NextInv ==
  ASSUME SyncInv, [Next]_vars
  PROVE  SyncInv'
<1>1. CASE Next
  <2>1. DiskInv /\ PipeInv /\ HandInv /\ LoopInv /\ MarkInv /\ SeenInv
    BY DEF SyncInv, PipeInv, MissInv
  <2>2. DiskInv' /\ setup' = setup
    BY <1>1, <2>1, DiskStep
  <2>3. height' \in Nat
    BY <2>2 DEF DiskInv
  <2>4. PipeInv' /\ LoopInv'
    BY Zenon, <1>1, <2>1, <2>2, FlowStep
  <2>5. MarkInv' /\ SeenInv'
    BY Zenon, <1>1, <2>1, <2>2, MarkStep
  <2>6. ASSUME Covered' PROVE HeldInv' /\ ClaimInv' /\ RestartInv'
    <3>1. Covered
      BY Zenon, <2>2, <2>6, SetupStays
    <3> QED BY Zenon, <1>1, <2>2, <2>3, <3>1, HeldStep, RestartStep
  <2> QED BY <2>2, <2>4, <2>5, <2>6 DEF SyncInv, MissInv
<1>2. CASE UNCHANGED vars
  <2>1. UNCHANGED <<setup, phase, height, stateDA, included, snap, cache, chan, pending,
                    inHand, stage, prio, p2pHead, p2p, daHead, sub, local, catchup, follow,
                    headers, data>>
    BY <1>2 DEF vars, disk, pipe, hand, gossip, follower, retriever, loops
  <2>2. DiskInv' /\ PipeInv' /\ LoopInv'
    <3>1. /\ Event' = Event /\ Namespaces' = Namespaces /\ Blocks' = Blocks
          /\ Aligned' = Aligned /\ FollowType' = FollowType
          /\ \A d : BlobsAt(d)' = BlobsAt(d)
      BY Zenon, <2>1, SetupStays DEF FollowType
    <3>2. DiskInv'
      BY Zenon, <2>1 DEF SyncInv, DiskInv
    <3>3. PipeInv'
      BY Zenon, <2>1, <3>1 DEF SyncInv, PipeInv, QueueInv, HandInv, P2PInv
    <3>4. CountInv' /\ FetchInv' /\ KeptInv'
      BY Zenon, <2>1, <3>1 DEF SyncInv, LoopInv, CountInv, FetchInv, KeptInv
    <3>5. FollowInv'
      BY Zenon, <2>1, <3>1 DEF SyncInv, LoopInv, FollowInv
    <3> QED BY Zenon, <3>2, <3>3, <3>4, <3>5 DEF LoopInv
  <2>3. MarkInv'
    BY Zenon, <2>1 DEF SyncInv, MarkInv, TrueMarks, TrueSnap, OnDA, Blocks, InclusionTrue
  <2>4. MissInv'
    <3>1. Covered' = Covered
      BY Zenon, <2>1, SetupStays
    <3>2. SeenInv'
      BY Zenon, <2>1 DEF SyncInv, MissInv, SeenInv
    <3>3. HeldInv => HeldInv'
      BY Zenon, <2>1 DEF HeldInv, Held, InPipeline, Up, Empty
    <3>4. ClaimInv => ClaimInv'
      BY Zenon, <2>1 DEF ClaimInv
    <3>5. RestartInv => RestartInv'
      BY Zenon, <2>1 DEF RestartInv, Empty
    <3> QED BY Zenon, <3>1, <3>2, <3>3, <3>4, <3>5 DEF SyncInv, MissInv
  <2> QED BY SMTT(30), <2>2, <2>3, <2>4 DEF SyncInv
<1> QED BY Zenon, <1>1, <1>2

\* Store, pipeline, follower and caches of a syncing node agree after every step:
\* of its workers, of a crash, a stop or a restart (syncer.go, da_follower.go,
\* da_retriever.go, generic_cache.go).
THEOREM SyncInvariance == Spec => []SyncInv
<1>1. Init => SyncInv
  BY InitInv
<1>2. SyncInv /\ [Next]_vars => SyncInv'
  BY NextInv
<1> QED BY <1>1, <1>2, PTL DEF Spec

\* A node that did not submit a block counts it as DA included (IsHeightDAIncluded
\* over its caches) only when header and data are on the DA layer, also after
\* restarts that rebuild the caches from their snapshots.
THEOREM IncludedIsOnDA == Spec => []InclusionTrue
<1>1. SyncInv => InclusionTrue
  BY DEF SyncInv, MarkInv
<1> QED BY <1>1, SyncInvariance, PTL

\* The two loops of the DA follower, which claim a DA height by compare-and-swap and
\* give it back by a plain store, the retriever and the pipeline lose no block.
THEOREM NothingMissed == Spec => []NoBlockMissed
<1>1. SyncInv => NoBlockMissed
  <2> SUFFICES ASSUME SyncInv, Covered PROVE BlocksAwaited
    BY DEF NoBlockMissed, Covered
  <2>1. HeldInv
    BY SMTT(30) DEF SyncInv, MissInv
  <2>2. \A k, h, d : Held(k, h, d) => Awaited(k, h, d)
    BY DEF Held, Awaited
  <2> QED BY <2>1, <2>2 DEF HeldInv, BlocksAwaited
<1> QED BY <1>1, SyncInvariance, PTL
=============================================================================
