------------------------------- MODULE Syncer -------------------------------
(***************************************************************************)
(* A node that follows the chain: the pipeline, the DA follower and its    *)
(* life from start to stop, crash and restart (syncer.go, components.go,   *)
(* manager.go), with the part of the submitter that finalises blocks on    *)
(* such a node and the catch-up phase of an aggregator (node/failover.go). *)
(***************************************************************************)
EXTENDS DAFollower

VARIABLE ignoreP2P   \* waitForCatchup: the P2P timeout has passed

follower == <<local, headReached, retriever, loops>>
vars == <<setup, phase, disk, cache, pipe, hand, startDA, prio, critical, gossip,
          faults, daHead, follower, ignoreP2P>>

Events == [height : Blocks, da : 0..daHead, hints : SUBSET (Kinds \X (1..daHead))]

TypeOK ==
  /\ setup \in Setups
  /\ phase \in {"down", "running", "catchup", "stopping", "handover", "producing"}
  /\ height \in 0..Len(setup.headerAt) /\ included \in 0..height
  /\ stateDA \in Nat /\ startDA \in Nat
  /\ DOMAIN snap = Kinds /\ DOMAIN cache = Kinds
  /\ Len(chan) <= setup.capacity /\ \A i \in DOMAIN chan : chan[i] \in Events
  /\ inHand \in Events \cup {NoEvent}
  /\ stage \in {"idle", "received", "counted", "syncing"}
  /\ \A h \in DOMAIN pending : pending[h] \in Events /\ pending[h].height = h
  /\ critical \in BOOLEAN /\ ignoreP2P \in BOOLEAN /\ faults \in Nat
  /\ p2pHead \in 0..Len(setup.headerAt) /\ processed \in 0..Len(setup.headerAt)
  /\ p2p \in [pc : {"idle", "get", "wait"}, target : Nat]
  /\ daHead \in 0..setup.maxDA /\ local \in Nat /\ highest \in 0..daHead
  /\ headReached \in BOOLEAN /\ signal \in BOOLEAN
  /\ catchup.pc \in {"idle", "run", "fetch"}
  /\ follow.pc \in {"idle", "claim", "inline", "rollback"}
  /\ headers \subseteq Blocks /\ data \subseteq Blocks /\ prio \subseteq Nat

\* What a process starts with, apart from what Start reads from the store.
Fresh ==
  /\ chan' = <<>> /\ pending' = <<>>
  /\ DoneWithEvent
  /\ prio' = {} /\ critical' = FALSE
  /\ p2p' = P2PIdle
  /\ headReached' = FALSE
  /\ highest' = 0 /\ catchup' = CatchupIdle /\ follow' = FollowIdle
  /\ headers' = {} /\ data' = {}
  /\ ignoreP2P' = FALSE

Init ==
  /\ setup \in Setups
  /\ phase = "down"
  /\ height = 0 /\ stateDA = setup.daStart /\ included = 0
  /\ snap = [k \in Kinds |-> <<>>] /\ cache = [k \in Kinds |-> NewCache]
  /\ chan = <<>> /\ pending = <<>> /\ inHand = NoEvent /\ stage = "idle"
  /\ prio = {} /\ critical = FALSE /\ startDA = 0
  /\ p2pHead = 0 /\ p2p = P2PIdle /\ processed = 0
  /\ daHead = 0 /\ sub = [ns \in Namespaces |-> 1] /\ local = 1
  /\ headReached = FALSE /\ highest = 0 /\ signal = FALSE
  /\ catchup = CatchupIdle /\ follow = FollowIdle
  /\ headers = {} /\ data = {}
  /\ ignoreP2P = FALSE /\ faults = 0

-----------------------------------------------------------------------------
\* The DA height that the store records for a finalised block.
FinalDA(k, h) ==
  IF h = 0 THEN 0
  ELSE IF k = "header" \/ Empty(h) THEN setup.headerAt[h] ELSE setup.dataAt[h]

\* The caches are rebuilt from their snapshots, then the DA height of the last
\* finalised block is added.
RestoredCache(k) == setMaxDAHeight(Restore(snap[k]), FinalDA(k, included))

\* Where retrieval starts.
RestartDA(c) ==
  Larger(setup.daStart,
         Larger(Larger(c["header"].maxDAHeight, c["data"].maxDAHeight), stateDA))

\* The DA head is asked for when there is no height to start from.
StartDAHeight(d) == IF d = 0 THEN daHead ELSE d

Start ==
  LET restored == [k \in Kinds |-> RestoredCache(k)]
  IN  /\ phase = "down"
      /\ phase' = IF setup.catchup THEN "catchup" ELSE "running"
      /\ Fresh
      /\ cache' = restored
      /\ startDA' = StartDAHeight(RestartDA(restored))
      /\ local' = Larger(1, StartDAHeight(RestartDA(restored)))
      /\ processed' = height
      /\ sub' = [ns \in Namespaces |-> daHead + 1] /\ signal' = TRUE
      /\ UNCHANGED <<setup, disk, p2pHead, daHead, faults>>

\* Stop cancels the workers.  The event in hand is applied if the cancellation
\* comes late enough, otherwise it is left behind.
CancelWorkers ==
  /\ DoneWithEvent \/ (inHand # NoEvent /\ UNCHANGED hand)
  /\ catchup' = CatchupIdle /\ follow' = FollowIdle /\ p2p' = P2PIdle
  /\ UNCHANGED <<setup, disk, cache, pipe, startDA, prio, critical, p2pHead, processed,
                 daHead, local, headReached, retriever, sub, highest, signal, ignoreP2P>>

Stop ==
  /\ Up /\ setup.mayStop
  /\ phase' = "stopping"
  /\ IF critical THEN faults' = faults ELSE Fault
  /\ CancelWorkers

\* The channel is drained (Receive and what follows), for 5 seconds at most,
\* and the caches are saved; a critical error skips the draining.
StopEnd ==
  /\ phase = "stopping" /\ inHand = NoEvent
  /\ phase' = "down"
  /\ snap' = [k \in Kinds |-> Snapshot(cache[k])]
  /\ cache' = [k \in Kinds |-> NewCache]
  /\ Fresh
  /\ startDA' = 0 /\ processed' = 0 /\ local' = 1 /\ signal' = FALSE
  /\ UNCHANGED <<setup, height, stateDA, included, p2pHead, daHead, sub, faults>>

Crash ==
  /\ phase \notin {"down", "producing"} /\ setup.mayCrash /\ Fault
  /\ phase' = "down"
  /\ Fresh
  /\ cache' = [k \in Kinds |-> NewCache]
  /\ startDA' = 0 /\ processed' = 0 /\ local' = 1 /\ signal' = FALSE
  /\ UNCHANGED <<setup, disk, p2pHead, daHead, sub>>

\* Slip: the P2P timeout is not looked at.
CaughtUpWithPeers ==
  headReached /\ p2pHead > 0 /\ height >= p2pHead /\ PendingCount = 0

\* waitForCatchup: both sources are caught up and the pipeline is empty.
CaughtUp ==
  /\ headReached
  /\ ignoreP2P \/ (p2pHead > 0 /\ height >= p2pHead)
  /\ PendingCount = 0

EndCatchup ==
  /\ phase = "catchup" /\ CaughtUp
  /\ phase' = "handover"
  /\ CancelWorkers /\ UNCHANGED faults

StartProducing ==
  /\ phase = "handover" /\ inHand = NoEvent /\ chan = <<>>
  /\ phase' = "producing"
  /\ UNCHANGED <<setup, disk, cache, pipe, hand, startDA, prio, critical, gossip,
                 faults, daHead, follower, ignoreP2P>>

CatchupTimeout ==
  /\ phase = "catchup" /\ ~ignoreP2P
  /\ ignoreP2P' = TRUE
  /\ UNCHANGED <<setup, phase, disk, cache, pipe, hand, startDA, prio, critical, gossip,
                 faults, daHead, follower>>

-----------------------------------------------------------------------------
\* Slip: a header is enough.
HeaderMarked(h) == getDAIncludedByHeight(cache["header"], h) # 0

\* The submitter finalises the next block once its pieces are known to be on
\* the DA layer, and drops what the caches hold for it.  It does not run during
\* the catch-up phase.
Marked(h) ==
  /\ getDAIncludedByHeight(cache["header"], h) # 0
  /\ Empty(h) \/ getDAIncludedByHeight(cache["data"], h) # 0

IncludeNext ==
  /\ phase = "running" /\ included < height /\ Marked(included + 1)
  /\ included' = included + 1
  /\ cache' = [k \in Kinds |-> deleteAllForHeight(cache[k], included + 1)]
  /\ pending' = Without(pending, included + 1)
  /\ UNCHANGED <<setup, phase, height, stateDA, snap, chan, hand, startDA, prio,
                 critical, gossip, faults, daHead, follower, ignoreP2P>>

\* The DA layer grows; peers hear of a block.
DAGrows ==
  /\ daHead < setup.maxDA /\ daHead' = daHead + 1
  /\ UNCHANGED <<setup, phase, disk, cache, pipe, hand, startDA, prio, critical, gossip,
                 faults, follower, ignoreP2P>>

P2PGrows ==
  /\ setup.p2p /\ p2pHead < Len(setup.headerAt) /\ p2pHead' = p2pHead + 1
  /\ UNCHANGED <<setup, phase, disk, cache, pipe, hand, startDA, prio, critical, p2p,
                 processed, faults, daHead, follower, ignoreP2P>>

\* The hints a peer may have appended: DA heights of pieces that are there.
Hints(h) ==
  {x \in Kinds \X (1..daHead) : <<x[1], h>> \in BlobsAt(x[2])}

-----------------------------------------------------------------------------
ProcessLoop ==
  /\ \/ /\ Receive \/ CountInFlight \/ Skip \/ ParkEarly
        /\ UNCHANGED <<disk, cache, prio, critical, p2p, processed, faults>>
     \/ BeginSync \/ TrySyncNextBlock \/ CommitFails \/ ExecutionFails
  /\ UNCHANGED <<setup, phase, startDA, p2pHead, daHead, follower, ignoreP2P>>

PendingWorker ==
  /\ ProcessPendingEvents
  /\ UNCHANGED <<setup, phase, disk, cache, hand, startDA, prio, critical, gossip,
                 faults, daHead, follower, ignoreP2P>>

P2PWorker ==
  /\ \/ P2PTarget \/ P2PAlready \/ WaitForStoreHeight
     \/ \E hints \in SUBSET Hints(p2p.target) : p2p.pc = "get" /\ ProcessHeight(hints)
  /\ UNCHANGED <<setup, phase, disk, cache, hand, startDA, prio, critical, p2pHead,
                 faults, daHead, follower, ignoreP2P>>

FollowLoop ==
  /\ \/ /\ (\E ns \in Namespaces : FollowEvent(ns))
           \/ FollowClaim \/ FollowInline \/ FollowRollback
        /\ UNCHANGED faults
     \/ Resubscribe
  /\ UNCHANGED <<setup, phase, disk, hand, startDA, prio, critical, gossip, daHead,
                 ignoreP2P>>

CatchupLoop ==
  /\ \/ /\ CatchupWake \/ CatchupPriority \/ CatchupDone \/ CatchupClaim
        /\ UNCHANGED <<retriever, cache, pipe, faults>>
     \/ CatchupFetch /\ UNCHANGED <<prio, faults>>
     \/ CatchupFuture /\ UNCHANGED <<retriever, cache, pipe, prio, faults>>
     \/ CatchupError /\ UNCHANGED <<retriever, cache, pipe, prio>>
  /\ UNCHANGED <<setup, phase, disk, hand, startDA, critical, gossip, daHead, ignoreP2P>>

Next ==
  \/ Start \/ Stop \/ StopEnd \/ Crash
  \/ EndCatchup \/ StartProducing \/ CatchupTimeout
  \/ ProcessLoop \/ PendingWorker \/ P2PWorker \/ FollowLoop \/ CatchupLoop
  \/ IncludeNext \/ DAGrows \/ P2PGrows

Spec == Init /\ [][Next]_vars

\* The goroutines of the node keep running, a stopped node is started again, the
\* DA layer grows and peers hear of every block.  Only the catch-up loop can run
\* for ever without waiting for the others, so the others share one condition.
Lifecycle ==
  Start \/ (critical /\ Stop) \/ StopEnd \/ EndCatchup \/ StartProducing \/ CatchupTimeout

Workers ==
  Lifecycle \/ ProcessLoop \/ PendingWorker \/ P2PWorker \/ FollowLoop \/ IncludeNext
    \/ DAGrows \/ P2PGrows

Fairness == WF_vars(Workers) /\ WF_vars(CatchupLoop)

FairSpec == Spec /\ Fairness

-----------------------------------------------------------------------------
InPipeline(h) ==
  \/ inHand.height = h
  \/ h \in DOMAIN pending
  \/ \E i \in DOMAIN chan : chan[i].height = h

\* A piece at DA height d will still be looked at, or is kept by the retriever.
Awaited(k, h, d) ==
  \/ d >= local
  \/ catchup.pc = "fetch" /\ catchup.da = d
  \/ follow.pc \in {"inline", "rollback"} /\ follow.da = d
  \/ h \in IF k = "header" THEN headers ELSE data

\* No block is lost between the DA layer and the store: a block that is not
\* applied is in the pipeline, or each of its pieces is kept by the retriever, or
\* is at a DA height that a loop of the follower holds or has yet to come to.
BlocksAwaited ==
  Up => \A h \in (height + 1)..Len(setup.headerAt) :
          \/ InPipeline(h)
          \/ /\ Awaited("header", h, setup.headerAt[h])
             /\ Empty(h) \/ Awaited("data", h, setup.dataAt[h])

\* Every DA block holds whole blocks of the chain.
Aligned ==
  ~setup.split /\ \A h \in Blocks : setup.dataAt[h] \in {0, setup.headerAt[h]}

Restarts == setup.mayCrash \/ setup.mayStop

\* The chain is on the DA layer from the DA height that genesis names on.
FromGenesis ==
  /\ setup.daStart > 0
  /\ \A h \in Blocks : /\ setup.headerAt[h] >= setup.daStart
                       /\ Empty(h) \/ setup.dataAt[h] >= setup.daStart

\* Its headers are there in order.
InOrder == \A g, h \in Blocks : g < h => setup.headerAt[g] <= setup.headerAt[h]

\* The follower, the retriever and the pipeline lose no block, whatever the two
\* loops of the follower do at the same time, with failing fetches and commits, a
\* full channel and blocks out of order: when DA blocks hold whole blocks, in
\* order, also across crashes, otherwise as long as subscription events carry no
\* blobs and the node keeps running.
NoBlockMissed ==
  /\ FromGenesis
  /\ Aligned \/ ~setup.inline
  /\ ~setup.mayStop /\ (setup.mayCrash => Aligned /\ InOrder)
  => BlocksAwaited

\* Both loops give a DA height they claimed back when it has to be retried
\* (handleSubscriptionEvent, runCatchup): it is retried.
RolledBackIsRetried == ~Restarts => BlocksAwaited

\* The retriever's unmatched pieces are not saved; a restarted node fetches them
\* again (da_retriever.go): no block is below the DA height it starts from.
RestartRefetches == [][phase = "down" /\ phase' # "down" => BlocksAwaited']_vars

\* A block counts as DA included (IsHeightDAIncluded on a node that did not
\* submit it) only when its header and its data are on the DA layer.
InclusionTrue ==
  \A h \in 1..included : setup.headerAt[h] <= daHead /\ setup.dataAt[h] <= daHead

\* A node that keeps running applies every block and learns that it is on the
\* DA layer.
EventuallyIncluded ==
  ~Restarts /\ ~setup.catchup /\ (Aligned \/ ~setup.inline)
    => []<>(included = Len(setup.headerAt))

\* A node with peers, or one that dies and restarts over whole blocks, applies
\* every block.
EventuallySynced ==
  ~setup.catchup /\ (setup.p2p \/ (Aligned /\ ~setup.mayStop))
    => []<>(height = Len(setup.headerAt))

\* The catch-up phase of an aggregator ends (runCatchupPhase): it waits until the
\* DA head is reached and no event is left to process.
CatchupEnds == setup.catchup => <>(phase = "producing")

\* It does when nothing fails and blocks come from the DA layer only.
CatchupFromDAEnds == ~setup.p2p /\ setup.maxFaults = 0 => CatchupEnds
=============================================================================
