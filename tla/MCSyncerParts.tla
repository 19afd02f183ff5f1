-------------------------- MODULE MCSyncerParts --------------------------
(***************************************************************************)
(* Small instances of a full node that follows the DA layer and peers      *)
(* (Syncer) and of its stores (P2PStore). A behaviour is one of a single   *)
(* part; the others stay in an initial state.                              *)
(***************************************************************************)
EXTENDS MCSyncer

VARIABLES
  part,
  pSetup, pHeight, pBlock, pStates, pMeta, pHeaderCache, pBlockDataCache, pMiss,
  pPruner, pMode, pRollbacks, pPeak, pCrashes, pPeerHead, pPending, pHeightSub,
  pService, pAppend, pPoll, pGet

-----------------------------------------------------------------------------
\* A node that follows peers, with a crash.
Following ==
  [maxHeight |-> 4, keepRecent |-> 1, batch |-> 1, da |-> FALSE, aggregator |-> FALSE,
   modes |-> {"disabled"}, cacheSize |-> 1, reads |-> FALSE, maxRollbacks |-> 0,
   maxCrashes |-> 1, fromDA |-> FALSE, p2p |-> TRUE, peers |-> TRUE,
   producer |-> FALSE, polls |-> FALSE, mayTimeOut |-> FALSE, maxPending |-> 2,
   light |-> FALSE]

\* Height is called at any moment.
Polled == [Following EXCEPT !.polls = TRUE, !.maxHeight = 2, !.maxCrashes = 0]

\* Blocks also come from the DA layer and are pruned.
FollowingDA ==
  [Following EXCEPT !.maxHeight = 2, !.da = TRUE, !.fromDA = TRUE,
                    !.modes = {"all"}, !.maxCrashes = 0]

\* The same with a full pending cache and without pruning.
DAAhead == [Following EXCEPT !.maxHeight = 3, !.fromDA = TRUE, !.maxCrashes = 0]

\* A producer whose store is read, pruned in both modes and rolled back.
Producing ==
  [Following EXCEPT !.maxHeight = 3, !.keepRecent = 2, !.modes = {"all", "metadata"},
                    !.reads = TRUE, !.maxRollbacks = 1, !.p2p = FALSE,
                    !.producer = TRUE]

\* The same with a DA layer, and an aggregator that must not roll back final blocks.
ProducingDA ==
  [Producing EXCEPT !.keepRecent = 1, !.modes = {"all"}, !.da = TRUE, !.aggregator = TRUE]

\* The same with services that broadcast.
Broadcasting ==
  [Producing EXCEPT !.maxHeight = 2, !.modes = {"disabled"}, !.reads = FALSE,
                    !.maxRollbacks = 0, !.p2p = TRUE, !.peers = FALSE]

\* A node that starts when no peer answers in time.
Alone == [FollowingDA EXCEPT !.mayTimeOut = TRUE, !.modes = {"disabled"}]

\* A light node.
Light == [Following EXCEPT !.light = TRUE]

StorageSetups == {Light, Following, Polled, FollowingDA, DAAhead, Producing, ProducingDA,
                Broadcasting, Alone}

-----------------------------------------------------------------------------
storageVars ==
  <<pSetup, pHeight, pBlock, pStates, pMeta, pHeaderCache, pBlockDataCache, pMiss,
    pPruner, pMode, pRollbacks, pPeak, pCrashes, pPeerHead, pPending, pHeightSub,
    pService, pAppend, pPoll, pGet>>

Storage == INSTANCE P2PStore WITH
       Setups <- StorageSetups, setup <- pSetup, height <- pHeight, block <- pBlock,
       states <- pStates, meta <- pMeta, headerCache <- pHeaderCache, blockDataCache
       <- pBlockDataCache, miss <- pMiss, pruner <- pPruner, mode <- pMode, rollbacks
       <- pRollbacks, peak <- pPeak, crashes <- pCrashes, peerHead <- pPeerHead,
       pending <- pPending, heightSub <- pHeightSub, service <- pService, append <-
       pAppend, poll <- pPoll, get <- pGet

-----------------------------------------------------------------------------
\* A part that is not looked at rests in one of its initial states.
MCInit ==
  /\ part \in {"syncer", "storage"}
  /\ (part # "syncer" => setup = CHOOSE s \in Setups : TRUE) /\ Init
  /\ (part # "storage" => pSetup = (CHOOSE s \in StorageSetups : TRUE) /\ pMode = (CHOOSE m \in pSetup.modes : TRUE)) /\ Storage!Init

MCVars == <<part, vars, storageVars>>

MCNext ==
  /\ UNCHANGED part
  /\ \/ part = "syncer" /\ Next /\ UNCHANGED storageVars
     \/ part = "storage" /\ Storage!Next /\ UNCHANGED vars

\* The fairness of each part, see its specification.
SyncerFairness ==
  WF_vars(part = "syncer" /\ Workers) /\ WF_vars(part = "syncer" /\ CatchupLoop)

StorageFairness ==
  /\ WF_storageVars(part = "storage" /\ Storage!WorkerSteps)
  /\ \A k \in Storage!Kinds :
       /\ WF_storageVars(part = "storage" /\ Storage!ServiceSteps(k))
       /\ WF_storageVars(part = "storage" /\ Storage!AppendSteps(k))
       /\ WF_storageVars(part = "storage" /\ Storage!WriteHeight(k))

MCSpec == MCInit /\ [][MCNext]_MCVars

-----------------------------------------------------------------------------
\* The properties of the parts, each for the behaviours of its part.

\* Every block of the chain is applied in the end.
SyncedInTheEnd == SyncerFairness /\ part = "syncer" => EventuallySynced

\* The catch-up of an aggregator from the DA layer ends.
CaughtUpInTheEnd == SyncerFairness /\ part = "syncer" => CatchupFromDAEnds

\* The blocks at the tip, which the node needs, are there.
TipUsable == part = "storage" => Storage!TipUsable


\* A range between tail and head is answered in full.
ServedRange == part = "storage" => Storage!ServedRange

\* Every block that peers have comes into the store.
EventuallyApplied == StorageFairness /\ part = "storage" => Storage!EventuallyApplied
=============================================================================
