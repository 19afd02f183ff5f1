----------------------------- MODULE BlockStore -----------------------------
(***************************************************************************)
(* The node's block store (pkg/store: store.go, batch.go, cached_store.go) *)
(* with its read caches, its rollback and the pruner                       *)
(* (block/internal/pruner) that empties it from below while others read.   *)
(*                                                                         *)
(* Header, data, signature, index entry and DA hints of a height are       *)
(* written and deleted in one batch: they are one entry of block, and its  *)
(* content is the number of rollbacks before it was written.  Metadata     *)
(* that was never written is 0.                                            *)
(***************************************************************************)
EXTENDS Integers, FiniteSets, Functions

CONSTANT Setups   \* variants of the store, its configuration and its faults

VARIABLES setup,
          height,           \* the height key
          block,            \* height -> block, the heights that have one
          states,           \* heights with a state
          meta,             \* DA included height, last pruned block and state
          headerCache,      \* height -> block, as a reader last found it
          blockDataCache,
          miss,             \* the reader between its read and the cache
          pruner,           \* the pruner's tick
          mode,             \* the pruning mode of this process
          rollbacks, peak,  \* rollbacks so far; the highest height there was
          crashes

db == <<height, block, states, meta>>
caches == <<headerCache, blockDataCache>>
storeVars == <<setup, db, caches, miss, pruner, mode, rollbacks, peak, crashes>>

Heights == 1..setup.maxHeight
Present == DOMAIN block
NoEntry == [h \in {} |-> 0]
NoMiss == [kind |-> "none", h |-> 0, found |-> 0]
PrunerIdle == [pc |-> "idle", end |-> 0]

\* GetState finds the state of the height of the store.
GetState == height \in states

StoreTypeOK ==
  /\ setup \in Setups /\ mode \in setup.modes
  /\ height \in 0..setup.maxHeight /\ peak \in height..setup.maxHeight
  /\ Present \subseteq Heights /\ states \subseteq 0..setup.maxHeight
  /\ meta \in [included : 0..setup.maxHeight, block : 0..setup.maxHeight,
               state : 0..setup.maxHeight]
  /\ DOMAIN headerCache \subseteq Heights /\ DOMAIN blockDataCache \subseteq Heights
  /\ miss.kind \in {"none", "header", "data"}
  /\ pruner.pc \in {"idle", "prune", "invalidate", "states", "record"}
  /\ rollbacks \in 0..setup.maxRollbacks /\ crashes \in 0..setup.maxCrashes

\* The state of genesis is the first thing in the store.
StoreInit ==
  /\ setup \in Setups /\ mode \in setup.modes
  /\ height = 0 /\ block = NoEntry /\ states = {0}
  /\ meta = [included |-> 0, block |-> 0, state |-> 0]
  /\ headerCache = NoEntry /\ blockDataCache = NoEntry /\ miss = NoMiss
  /\ pruner = PrunerIdle
  /\ rollbacks = 0 /\ peak = 0 /\ crashes = 0

-----------------------------------------------------------------------------
\* Writers.

SaveBlockData(h) == block' = [x \in Present \cup {h} |->
                                IF x = h THEN rollbacks ELSE block[x]]

\* Block, height and state of the next block, in one batch.
CommitBatch ==
  /\ height < setup.maxHeight
  /\ SaveBlockData(height + 1)
  /\ height' = height + 1
  /\ states' = states \cup {height + 1}
  /\ peak' = IF height + 1 > peak THEN height + 1 ELSE peak
  /\ UNCHANGED <<setup, meta, caches, miss, pruner, mode, rollbacks, crashes>>

\* The submitter records the next block as included.
IncludeNext ==
  /\ setup.da /\ meta.included < height
  /\ meta' = [meta EXCEPT !.included = @ + 1]
  /\ UNCHANGED <<setup, height, block, states, caches, miss, pruner, mode,
                 rollbacks, peak, crashes>>

Without(f, S) == Restrict(f, DOMAIN f \ S)

InvalidateRange(from, to) ==
  /\ headerCache' = Without(headerCache, from..to)
  /\ blockDataCache' = Without(blockDataCache, from..to)


\* DefaultStore.Rollback refuses when a header is missing or, on an aggregator,
\* a block is final; CachedStore.Rollback then drops the heights from its caches.
StoreRollback(target) ==
  /\ \A h \in (target + 1)..height : h \in Present
  /\ meta.included > target => ~setup.aggregator
  /\ meta' = [meta EXCEPT !.included = IF @ > target THEN target ELSE @]
  /\ block' = Without(block, (target + 1)..height)
  /\ states' = states \ ((target + 1)..height)
  /\ height' = target
  /\ InvalidateRange(target + 1, height)

\* A rollback while nothing else uses the store.
Rollback ==
  /\ rollbacks < setup.maxRollbacks
  /\ pruner.pc = "idle" /\ miss = NoMiss
  /\ \E target \in 0..(height - 1) : StoreRollback(target)
  /\ rollbacks' = rollbacks + 1
  /\ UNCHANGED <<setup, miss, pruner, mode, peak, crashes>>

-----------------------------------------------------------------------------
\* Readers go through the caches; a miss is read from the database and then added,
\* which may push out any other entry.

Added(cache, h, b) ==
  {Restrict(full, kept) :
     kept \in {S \in SUBSET (DOMAIN cache \cup {h}) :
                 h \in S /\ Cardinality(S) <= setup.cacheSize},
     full \in {[x \in DOMAIN cache \cup {h} |-> IF x = h THEN b ELSE cache[x]]}}

ReadMiss(kind, cache) ==
  /\ setup.reads /\ miss = NoMiss
  /\ \E h \in Present \ DOMAIN cache :
       miss' = [kind |-> kind, h |-> h, found |-> block[h]]
  /\ UNCHANGED <<setup, db, caches, pruner, mode, rollbacks, peak, crashes>>

GetHeader == ReadMiss("header", headerCache)
GetBlockData == ReadMiss("data", blockDataCache)

AddToCache ==
  /\ miss # NoMiss
  /\ headerCache' \in Added(headerCache, miss.h, miss.found)
  /\ blockDataCache' \in IF miss.kind = "data"
                         THEN Added(blockDataCache, miss.h, miss.found)
                         ELSE {blockDataCache}
  /\ miss' = NoMiss
  /\ UNCHANGED <<setup, db, pruner, mode, rollbacks, peak, crashes>>

-----------------------------------------------------------------------------
\* The pruner.

Least(a, b) == IF a < b THEN a ELSE b

\* The highest block that may go.
PruneTarget ==
  (IF setup.da THEN Least(height, meta.included) ELSE height) - setup.keepRecent

\* pruneBlocks: nothing is pruned before something is included.
PruneBlocksTick ==
  /\ mode = "all" /\ pruner.pc = "idle"
  /\ PruneTarget > 0
  /\ pruner' = [pc |-> "prune", end |-> Least(meta.block + setup.batch, PruneTarget)]
  /\ UNCHANGED <<setup, db, caches, miss, mode, rollbacks, peak, crashes>>

\* DefaultStore.PruneBlocks, one batch; an end that is not beyond the last one
\* changes nothing.
PruneBlocks ==
  /\ pruner.pc = "prune"
  /\ IF pruner.end <= meta.block THEN UNCHANGED <<block, meta>>
     ELSE /\ block' = Without(block, (meta.block + 1)..pruner.end)
          /\ meta' = [meta EXCEPT !.block = pruner.end]
  /\ pruner' = [pruner EXCEPT !.pc = "invalidate"]
  /\ UNCHANGED <<setup, height, states, caches, miss, mode, rollbacks, peak, crashes>>

PruneInvalidate ==
  /\ pruner.pc = "invalidate"
  /\ InvalidateRange(1, pruner.end)
  /\ pruner' = PrunerIdle
  /\ UNCHANGED <<setup, db, miss, mode, rollbacks, peak, crashes>>

LastPrunedState == IF meta.block > meta.state THEN meta.block ELSE meta.state

\* Slip: the block that is the head's keepRecent-th goes, too.
PruneMetadataTickOneMore ==
  /\ mode = "metadata" /\ pruner.pc = "idle"
  /\ height >= setup.keepRecent /\ height - setup.keepRecent + 1 > LastPrunedState
  /\ pruner' = [pc |-> "states",
                end |-> Least(LastPrunedState + setup.batch,
                              height - setup.keepRecent + 1)]
  /\ UNCHANGED <<setup, db, caches, miss, mode, rollbacks, peak, crashes>>

PruneMetadataTick ==
  /\ mode = "metadata" /\ pruner.pc = "idle"
  /\ height > setup.keepRecent /\ height - setup.keepRecent > LastPrunedState
  /\ pruner' = [pc |-> "states",
                end |-> Least(LastPrunedState + setup.batch, height - setup.keepRecent)]
  /\ UNCHANGED <<setup, db, caches, miss, mode, rollbacks, peak, crashes>>

\* The states go one by one, in ascending order, and not in a batch,
DeleteStates ==
  /\ pruner.pc = "states"
  /\ LET rest == states \cap ((LastPrunedState + 1)..pruner.end)
     IN  IF rest = {} THEN pruner' = [pruner EXCEPT !.pc = "record"] /\ UNCHANGED states
         ELSE /\ \E h \in rest : (\A x \in rest : h <= x) /\ states' = states \ {h}
              /\ UNCHANGED pruner
  /\ UNCHANGED <<setup, height, block, meta, caches, miss, mode, rollbacks, peak, crashes>>

\* and then the height is recorded.
RecordPrunedState ==
  /\ pruner.pc = "record"
  /\ meta' = [meta EXCEPT !.state = pruner.end]
  /\ pruner' = PrunerIdle
  /\ UNCHANGED <<setup, height, block, states, caches, miss, mode, rollbacks, peak, crashes>>

PrunerSteps ==
  \/ PruneBlocksTick \/ PruneBlocks \/ PruneInvalidate
  \/ PruneMetadataTick \/ DeleteStates \/ RecordPrunedState

\* The process ends at any moment and starts again, perhaps with another mode.
StoreCrash ==
  /\ crashes < setup.maxCrashes
  /\ headerCache' = NoEntry /\ blockDataCache' = NoEntry /\ miss' = NoMiss
  /\ pruner' = PrunerIdle
  /\ mode' \in setup.modes
  /\ crashes' = crashes + 1
  /\ UNCHANGED <<setup, db, rollbacks, peak>>

StoreNext ==
  \/ IncludeNext \/ Rollback \/ GetHeader \/ GetBlockData \/ AddToCache \/ PrunerSteps

StoreSpec == StoreInit /\ [][CommitBatch \/ StoreNext \/ StoreCrash]_storeVars

-----------------------------------------------------------------------------
\* The store has the blocks from the one after the last pruned one to its
\* height, without a hole; pruning leaves the last keepRecent blocks, counted from
\* the highest included one where there is a DA layer, whatever is committed
\* between the pruner's look at the heights and its batch.
OnlyOldPruned ==
  /\ Present = (meta.block + 1)..height
  /\ meta.block <= peak - setup.keepRecent \/ meta.block = 0
  /\ rollbacks = 0 /\ setup.da /\ meta.block > 0 =>
       meta.block + setup.keepRecent <= meta.included

\* GetState and the lookup of the last block succeed after every restart, and
\* also after a rollback that is not deeper than what pruning keeps.
TipUsable ==
  peak - height < setup.keepRecent =>
    GetState /\ (height = 0 \/ height \in Present)

=============================================================================
