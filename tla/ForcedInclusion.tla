-------------------------- MODULE ForcedInclusion --------------------------
(***************************************************************************)
(* A full node that checks whether the sequencer has included the          *)
(* transactions of the forced-inclusion namespace in time                  *)
(* (Syncer.VerifyForcedInclusionTxs), over the retriever of an epoch's     *)
(* transactions (forced_inclusion_retriever.go), its prefetching cache     *)
(* (async_block_retriever.go) and the DA client (block/internal/da).       *)
(*                                                                         *)
(* Init chooses what the DA layer holds: the height at which a user forces *)
(* a transaction, and the blocks that include it.  The node reads the      *)
(* blocks from the DA layer, or gets one from a peer before that.          *)
(***************************************************************************)
EXTENDS Epochs, FiniteSets, FiniteSetsExt, TLC

CONSTANTS Tx, Setups

VARIABLES setup,
          plan,      \* tx -> its DA height in the forced namespace, and its blocks
          applied,   \* height of the store
          daHeight,  \* DAHeight of the node's state
          seen,      \* seenBlockTxs
          seenAt,    \* seenBlockTxsByHeight, whose keys are those of daBlockBytes
          checked,   \* lastCheckedEpochEnd
          epoch,     \* end of the epoch that the verification looks at, or None
          missing,   \* maliciousCount
          halted,    \* a critical error has stopped the node
          cache,     \* DA height -> what the prefetcher found
          current,   \* currentDAHeight of the prefetcher
          faults,    \* failed calls and restarts so far
          skipped    \* the epochs up to here are not checked because of a start

nodeVars == <<applied, daHeight, seen, seenAt, checked, epoch, missing, halted>>
fetchVars == <<cache, current>>
vars == <<setup, plan, nodeVars, fetchVars, faults, skipped>>

None == -1

baseGracePeriodEpochs == 1
maxGracePeriodEpochs == 4

\* Sizes are in fifths of DefaultMaxBlobSize, so fullnessThreshold is 4.
Threshold == 4

-----------------------------------------------------------------------------
\* The DA layer.

DAHeights == setup.start .. setup.start + setup.heights - 1
Blocks == 1 .. setup.heights * setup.perHeight
DAHeightOf(block) == setup.start + (block - 1) \div setup.perHeight

TxsOf(block) == {t \in Tx : block \in plan[t].blocks}
EndOf(h) == EpochEnd(h, setup.start, setup.epochSize)

\* An honest sequencer includes a forced transaction after the end of its epoch and
\* within the grace period.
Honest(p) ==
  \A t \in Tx \ setup.invalid :
    LET end == EndOf(p[t].forced)
    IN  p[t].forced # None =>
          \E b \in p[t].blocks :
            DAHeightOf(b) \in end + 1 .. end + baseGracePeriodEpochs * setup.epochSize

\* Without setup.twice a transaction is in one block at most, after its epoch.
Plans ==
  LET PlanOf == {p \in [forced : DAHeights \cup {None}, blocks : SUBSET Blocks] :
                   /\ Cardinality(p.blocks) <= IF setup.twice THEN 2 ELSE 1
                   /\ ~setup.twice =>
                        \A b \in p.blocks : p.forced # None /\ DAHeightOf(b) > EndOf(p.forced)}
  IN  {p \in [Tx -> PlanOf] : setup.honest => Honest(p)}

\* Retrieve in the forced namespace: StatusSuccess, or StatusNotFound for no blobs.
Retrieve(h) == {t \in Tx : plan[t].forced = h}

Fails(kind) ==
  /\ faults[kind] < setup.max[kind]
  /\ faults' = [faults EXCEPT ![kind] = @ + 1]

-----------------------------------------------------------------------------
\* The prefetcher.

prefetchWindow == 2 * setup.epochSize

UpdateCurrentHeight(h) == current' = Max({current, h})

\* cleanupOldBlocks
Kept(c) ==
  IF current < prefetchWindow THEN c
  ELSE [h \in {x \in DOMAIN c : x >= current - prefetchWindow} |-> c[h]]

\* Slip: a failed fetch is cached like an empty height.
FetchAndCacheAll(failed) ==
  LET targets == (DAHeights \cap current .. current + prefetchWindow - 1) \ DOMAIN cache
  IN  [h \in targets |-> IF h \in failed THEN {} ELSE Retrieve(h)] @@ cache

\* fetchAndCacheBlock for the heights of the window that are not cached yet; heights
\* from the future and failed ones stay out.
FetchAndCache(failed) ==
  LET targets == (DAHeights \cap current .. current + prefetchWindow - 1) \ DOMAIN cache
  IN  [h \in targets \ failed |-> Retrieve(h)] @@ cache

\* A tick of the background loop; at most one fetch fails.
prefetchBlocks ==
  /\ \/ cache' = Kept(FetchAndCache({})) /\ UNCHANGED faults
     \/ /\ Fails("prefetch")
        /\ \E h \in DAHeights : cache' = Kept(FetchAndCache({h}))
  /\ cache' # cache
  /\ UNCHANGED <<setup, plan, nodeVars, current, skipped>>

-----------------------------------------------------------------------------
\* The syncer.

\* initializeState: the last epoch whose end is not above the state's DA height.
Resumed(h) ==
  LET first == setup.start + setup.epochSize - 1
  IN  IF h < first THEN 0
      ELSE first + ((h - first) \div setup.epochSize) * setup.epochSize

Init ==
  /\ setup \in Setups
  /\ plan \in Plans
  /\ applied = 0 /\ daHeight = setup.start
  /\ seen = {} /\ seenAt = <<>> /\ cache = <<>>
  /\ checked = Resumed(setup.start) /\ skipped = Resumed(setup.start)
  /\ epoch = None /\ missing = 0 /\ halted = FALSE
  /\ current = setup.start
  /\ faults = [prefetch |-> 0, errors |-> 0, restarts |-> 0]

\* A new process knows the state and nothing of what it has seen.
Restart ==
  /\ Fails("restarts")
  /\ seen' = {} /\ seenAt' = <<>> /\ cache' = <<>>
  /\ checked' = Resumed(daHeight) /\ skipped' = Max({skipped, Resumed(daHeight)})
  /\ epoch' = None /\ missing' = 0 /\ halted' = FALSE
  /\ current' = setup.start
  /\ UNCHANGED <<setup, plan, applied, daHeight>>

\* The first epoch end that is not checked yet.
StartEpochEnd ==
  LET first == setup.start + setup.epochSize - 1
  IN  IF checked = 0 \/ checked < first THEN first ELSE checked + setup.epochSize

\* TrySyncNextBlock with a block from the DA layer: its transactions are recorded, over
\* what another block of the DA height has left there.
TrySyncNextBlock ==
  LET block == applied + 1
      h == DAHeightOf(block)
  IN  /\ ~halted /\ epoch = None /\ block \in Blocks
      /\ seen' = seen \cup TxsOf(block)
      /\ seenAt' = h :> TxsOf(block) @@ seenAt
      /\ epoch' = StartEpochEnd
      /\ UNCHANGED <<setup, plan, applied, daHeight, checked, missing, halted, fetchVars,
                     faults, skipped>>

\* A block that a peer sends is applied without the check.
FromPeer ==
  /\ setup.p2p
  /\ ~halted /\ epoch = None /\ applied + 1 \in Blocks
  /\ applied' = applied + 1
  /\ UNCHANGED <<setup, plan, daHeight, seen, seenAt, checked, epoch, missing, halted,
                 fetchVars, faults, skipped>>

\* gracePeriodForEpoch; daBlockBytes has the size of the last block of a DA height.
gracePeriodForEpoch(end) ==
  LET heights == end - setup.epochSize + 1 .. end
      avg == (Cardinality(heights \cap DOMAIN seenAt) * setup.blockSize) \div setup.epochSize
      extra == IF avg > Threshold THEN (avg - Threshold) \div Threshold ELSE 0
  IN  Min({baseGracePeriodEpochs + extra, maxGracePeriodEpochs})

GraceBoundary(end) == end + gracePeriodForEpoch(end) * setup.epochSize


Elapsed(end) == GraceBoundary(end) < DAHeightOf(applied + 1)

GetCachedBlock(h) == IF h \in DOMAIN cache THEN cache[h] ELSE Retrieve(h)

\* RetrieveForcedIncludedTxs: the heights of the epoch from the cache or from the DA
\* layer.  When one of these fetches fails, the event has no transactions.
RetrieveForcedIncludedTxs(end, txs) ==
  LET heights == EpochStart(end, setup.start, setup.epochSize) .. end
  IN  /\ UpdateCurrentHeight(end)
      /\ UNCHANGED cache
      /\ \/ /\ txs = UNION {GetCachedBlock(h) : h \in heights}
            /\ UNCHANGED faults
         \/ /\ ~(heights \subseteq DOMAIN cache)
            /\ Fails("errors")
            /\ txs = {}

\* pruneUpTo
Pruned(end) == {h \in DOMAIN seenAt : h \in checked .. end}
pruneUpTo(end) ==
  IF end > checked
  THEN /\ seen' = seen \ UNION {seenAt[h] : h \in Pruned(end)}
       /\ seenAt' = [h \in DOMAIN seenAt \ Pruned(end) |-> seenAt[h]]
       /\ checked' = end
  ELSE UNCHANGED <<seen, seenAt, checked>>

\* One round of VerifyForcedInclusionTxs.
VerifyEpoch ==
  /\ epoch # None /\ Elapsed(epoch)
  /\ \E txs \in SUBSET Tx :
       /\ RetrieveForcedIncludedTxs(epoch, txs)
       /\ missing' = missing + Cardinality((txs \ setup.invalid) \ seen)
  /\ pruneUpTo(epoch)
  /\ epoch' = epoch + setup.epochSize
  /\ UNCHANGED <<setup, plan, applied, daHeight, halted, skipped>>

ApplyBlock ==
  /\ applied' = applied + 1
  /\ daHeight' = Max({daHeight, DAHeightOf(applied + 1)})
  /\ epoch' = None /\ missing' = 0

\* No further epoch is due: the block is applied, or the node stops.
EndVerification ==
  /\ epoch # None /\ ~Elapsed(epoch)
  /\ IF missing = 0 THEN ApplyBlock /\ UNCHANGED halted
     ELSE halted' = TRUE /\ epoch' = None /\ missing' = 0 /\ UNCHANGED <<applied, daHeight>>
  /\ UNCHANGED <<setup, plan, seen, seenAt, checked, fetchVars, faults, skipped>>

\* GetExecutionInfo, the retriever or FilterTxs fail: TrySyncNextBlock goes on.
VerificationFails ==
  /\ epoch # None /\ Fails("errors")
  /\ ApplyBlock
  /\ UNCHANGED <<setup, plan, seen, seenAt, checked, halted, fetchVars, skipped>>

Next ==
  \/ prefetchBlocks \/ Restart \/ TrySyncNextBlock \/ FromPeer
  \/ VerifyEpoch \/ EndVerification \/ VerificationFails

Spec == Init /\ [][Next]_vars

-----------------------------------------------------------------------------
TypeOK ==
  /\ plan \in Plans /\ applied \in {0} \cup Blocks /\ daHeight \in DAHeights
  /\ seen \subseteq Tx /\ DOMAIN seenAt \subseteq DAHeights /\ DOMAIN cache \subseteq DAHeights
  /\ epoch \in Int /\ missing \in Nat /\ halted \in BOOLEAN

Included == UNION {TxsOf(b) : b \in 1 .. applied + IF epoch = None THEN 0 ELSE 1}


\* A valid forced transaction that no block has when the verification is done with its
\* epoch stops the node, unless a call of the verification failed or a start has
\* skipped the epoch; failed prefetches do not matter.
CensorshipFound ==
  faults.errors = 0 /\ ~halted /\ missing = 0 =>
    \A t \in Tx \ setup.invalid :
      plan[t].forced # None /\ EndOf(plan[t].forced) \in skipped + 1 .. checked =>
        t \in Included
=============================================================================
