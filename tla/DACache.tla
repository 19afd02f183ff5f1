------------------------------ MODULE DACache ------------------------------
(***************************************************************************)
(* Cache[T] of block/internal/cache/generic_cache.go as a value: what a    *)
(* node knows about which headers (or data) it has seen and which of them  *)
(* are on the DA layer.  The node keeps one for headers, keyed by header   *)
(* hash, and one for data, keyed by DA commitment.  The LRU bounds are far *)
(* above the heights in flight and are left out.                           *)
(***************************************************************************)
EXTENDS Naturals

\* Keys are content hashes, or height placeholders after a restore.
HashKey(c)              == <<"hash", c>>
HeightPlaceholderKey(h) == <<"height", h>>

NewCache ==
  [seen |-> {}, daIncluded |-> <<>>, hashByHeight |-> <<>>, maxDAHeight |-> 0]

\* Put and Without: Add and Remove of an LRU map, here a function on the keys present.
Put(f, k, v) == [x \in DOMAIN f \cup {k} |-> IF x = k THEN v ELSE f[x]]
Without(f, k) == [x \in DOMAIN f \ {k} |-> f[x]]

Larger(a, b) == IF a > b THEN a ELSE b

setMaxDAHeight(c, da) == [c EXCEPT !.maxDAHeight = Larger(@, da)]

isSeen(c, k) == k \in c.seen

setSeen(c, k, h) ==
  [c EXCEPT !.seen = @ \cup {k}, !.hashByHeight = Put(@, h, k)]

\* The DA height recorded for block height h, 0 if there is none.
getDAIncludedByHeight(c, h) ==
  IF h \in DOMAIN c.hashByHeight /\ c.hashByHeight[h] \in DOMAIN c.daIncluded
  THEN c.daIncluded[c.hashByHeight[h]] ELSE 0

\* An entry the height had under another key is evicted.
setDAIncluded(c, k, da, h) ==
  LET stale == IF h \in DOMAIN c.hashByHeight THEN {c.hashByHeight[h]} \ {k}
               ELSE {}
      kept  == [x \in DOMAIN c.daIncluded \ stale |-> c.daIncluded[x]]
  IN  setMaxDAHeight([c EXCEPT !.daIncluded = Put(kept, k, da),
                               !.hashByHeight = Put(@, h, k)], da)

\* The same for the blocks of several heights under their hashes, one after the other.
setAllDAIncluded(c, hs, da) ==
  LET keys  == {HashKey(h) : h \in hs}
      stale == {c.hashByHeight[h] : h \in hs \cap DOMAIN c.hashByHeight} \ keys
  IN  IF hs = {} THEN c
      ELSE setMaxDAHeight(
             [c EXCEPT !.daIncluded =
                          [x \in (DOMAIN @ \ stale) \cup keys |->
                             IF x \in keys THEN da ELSE @[x]],
                       !.hashByHeight =
                          [h \in DOMAIN @ \cup hs |->
                             IF h \in hs THEN HashKey(h) ELSE @[h]]], da)

removeDAIncluded(c, k) == [c EXCEPT !.daIncluded = Without(@, k)]

deleteAllForHeight(c, h) ==
  IF h \in DOMAIN c.hashByHeight
  THEN LET k == c.hashByHeight[h]
       IN  [c EXCEPT !.seen = @ \ {k}, !.daIncluded = Without(@, k),
                     !.hashByHeight = Without(@, h)]
  ELSE c

\* persistSnapshot: the heights in flight with their DA heights.
Snapshot(c) ==
  LET hs == {h \in DOMAIN c.hashByHeight : getDAIncludedByHeight(c, h) # 0}
  IN  [h \in hs |-> getDAIncludedByHeight(c, h)]

\* RestoreFromStore on a new cache: a placeholder for every height of the
\* snapshot.
Restore(snap) ==
  [seen |-> {},
   daIncluded |-> [k \in {HeightPlaceholderKey(h) : h \in DOMAIN snap}
                     |-> snap[k[2]]],
   hashByHeight |-> [h \in DOMAIN snap |-> HeightPlaceholderKey(h)],
   maxDAHeight |-> IF DOMAIN snap = {} THEN 0
                   ELSE CHOOSE d \in {snap[h] : h \in DOMAIN snap} :
                          \A h \in DOMAIN snap : d >= snap[h]]
=============================================================================
