---------------------------- MODULE SyncPipeline ----------------------------
(***************************************************************************)
(* How a block reaches the store of a node that does not produce it        *)
(* (block/internal/syncing/syncer.go, p2p_handler.go): events wait in the  *)
(* channel heightInCh or, out of order or when it is full, in the pending  *)
(* events; the process loop applies the next height; a worker feeds        *)
(* pending events back and another one asks the P2P stores for the next    *)
(* block.  A block is its height: the aggregator signs one block for each. *)
(***************************************************************************)
EXTENDS Integers, Sequences, FiniteSets, Functions, DACache

CONSTANT Setups   \* the conditions under which the node is looked at

\* headerAt and dataAt place the chain on the DA layer: the DA height of the
\* header and of the data of each block, 0 for the data of an empty block.
\* capacity is that of heightInCh; split: headers and data have namespaces of
\* their own; inline: subscription events carry the blobs; p2p: peers gossip the
\* chain; catchup: an aggregator that syncs before it produces.  maxDA and
\* maxFaults are bounds.
SetupType ==
  [headerAt : Seq(Nat \ {0}), dataAt : Seq(Nat), daStart : Nat,
   capacity : Nat \ {0}, split : BOOLEAN, inline : BOOLEAN, p2p : BOOLEAN,
   catchup : BOOLEAN, mayCrash : BOOLEAN, mayStop : BOOLEAN, maxDA : Nat,
   maxFaults : Nat]

ASSUME SyncAssumption ==
  \A s \in Setups : s \in SetupType /\ Len(s.headerAt) = Len(s.dataAt)

VARIABLES
  setup,      \* the setup of this behaviour
  phase,      \* where the life of the node is
  height,     \* store: height of the last block applied
  stateDA,    \* store: State.DAHeight
  included,   \* store: DAIncludedHeightKey
  snap,       \* store: snapshots of the two caches
  cache,      \* header and data cache
  chan,       \* heightInCh
  inHand,     \* the event the process loop has received
  stage,      \* how far the process loop is with it
  pending,    \* pending events, by height
  startDA,    \* Syncer.daRetrieverHeight
  prio,       \* daRetriever.priorityHeights
  critical,   \* Syncer.hasCriticalError
  p2pHead,    \* height of the P2P stores
  p2p,        \* the P2P worker
  processed,  \* P2PHandler.processedHeight
  faults      \* faults so far

disk     == <<height, stateDA, included, snap>>
pipe     == <<chan, pending>>
hand     == <<inHand, stage>>
gossip   == <<p2pHead, p2p, processed>>

Blocks   == 1..Len(setup.headerAt)
Empty(h) == setup.dataAt[h] = 0
Up       == phase \in {"running", "catchup"}
Stopping == phase \in {"stopping", "handover"}

\* One sort of event: P2P events have no DA height, DA events no hints.
NoEvent == [height |-> 0, da |-> 0, hints |-> {}]
DAEvent(h, da)     == [height |-> h, da |-> da, hints |-> {}]
P2PEvent(h, hints) == [height |-> h, da |-> 0, hints |-> hints]

Fault == faults < setup.maxFaults /\ faults' = faults + 1

\* The next loop iteration of the P2P worker starts from P2PIdle.
P2PIdle == [pc |-> "idle", target |-> 0]

-----------------------------------------------------------------------------
\* The events, each for a height of its own, are sent one after the other without
\* blocking while the channel has room; the rest is kept as pending.
PipeAll(evs) ==
  LET room == setup.capacity - Len(chan)
      sent == IF Len(evs) <= room THEN Len(evs) ELSE room
      kept == {evs[i] : i \in (sent + 1)..Len(evs)}
      hs   == {e.height : e \in kept}
  IN  /\ chan' = chan \o SubSeq(evs, 1, sent)
      /\ pending' = [h \in DOMAIN pending \cup hs |->
                       IF h \in hs THEN CHOOSE e \in kept : e.height = h
                       ELSE pending[h]]

Park(e) == pending' = Put(pending, e.height, e)

\* The DA heights worth a targeted retrieval: those of the pieces not known to
\* be on the DA layer.
QueueHints(e) ==
  prio' = prio \cup
    {d \in {x[2] : x \in {x \in e.hints :
                            getDAIncludedByHeight(cache[x[1]], e.height) = 0}} :
       d >= startDA}

\* A wait of the P2P worker for this height, or a lower one, ends.
CancelP2PWait(h) ==
  p2p' = IF p2p.pc = "get" /\ p2p.target <= h THEN P2PIdle ELSE p2p

\* The process loop takes an event off the channel, and then counts it.  Only the
\* catch-up phase reads the count: elsewhere the two are one step.
Receive ==
  /\ Up \/ (Stopping /\ ~critical)
  /\ stage = "idle" /\ chan # <<>>
  /\ inHand' = Head(chan) /\ chan' = Tail(chan)
  /\ stage' = IF phase = "catchup" THEN "received" ELSE "counted"
  /\ UNCHANGED pending

CountInFlight ==
  /\ stage = "received"
  /\ stage' = "counted" /\ UNCHANGED <<inHand, pipe>>

\* Syncer.inFlight
InFlight == stage \in {"counted", "syncing"}

DoneWithEvent == inHand' = NoEvent /\ stage' = "idle"

\* An event for a height that the store already has.
Known(e) == e.height <= height \/ isSeen(cache["header"], HashKey(e.height))

Skip == stage = "counted" /\ Known(inHand) /\ DoneWithEvent /\ UNCHANGED pipe

ParkEarly ==
  /\ stage = "counted" /\ ~Known(inHand) /\ inHand.height # height + 1
  /\ Park(inHand)
  /\ DoneWithEvent /\ UNCHANGED chan

\* The next block: its hints are queued, and a wait of the P2P worker for it ends.
BeginSync ==
  /\ stage = "counted" /\ ~Known(inHand) /\ inHand.height = height + 1
  /\ stage' = "syncing"
  /\ QueueHints(inHand) /\ CancelP2PWait(inHand.height)
  /\ UNCHANGED <<inHand, pipe, disk, cache, processed, critical, faults>>

\* It is validated, executed and committed with the new state; the caches learn
\* it afterwards.
SeenCache(h) ==
  [header |-> setSeen(cache["header"], HashKey(h), h),
   data   |-> IF Empty(h) THEN cache["data"]
              ELSE setSeen(cache["data"], HashKey(h), h)]

TrySyncNextBlock ==
  /\ stage = "syncing"
  /\ height' = inHand.height
  /\ stateDA' = Larger(stateDA, inHand.da)
  /\ cache' = SeenCache(inHand.height)
  /\ processed' = Larger(processed, inHand.height)
  /\ DoneWithEvent
  /\ UNCHANGED <<pipe, included, snap, prio, p2p, critical, faults>>

\* The batch cannot be committed: the event is kept for another try.
CommitFails ==
  /\ stage = "syncing" /\ Fault
  /\ Park(inHand)
  /\ DoneWithEvent
  /\ UNCHANGED <<chan, disk, cache, prio, p2p, processed, critical>>

\* The execution client fails MaxRetriesBeforeHalt times: the node halts.
ExecutionFails ==
  /\ stage = "syncing" /\ Fault /\ setup.mayStop
  /\ critical' = TRUE
  /\ DoneWithEvent
  /\ UNCHANGED <<pipe, disk, cache, prio, p2p, processed>>

-----------------------------------------------------------------------------
\* One round of the pending worker: the events from the next height on, while
\* they are consecutive and fit; a rebuilt event has no hints.
Movable ==
  {n \in 0..(setup.capacity - Len(chan)) :
     \A i \in 1..n : height + i \in DOMAIN pending}

ProcessPendingEvents ==
  /\ Up /\ height + 1 \in DOMAIN pending /\ Len(chan) < setup.capacity
  /\ \E n \in Movable :
       /\ \A m \in Movable : m <= n
       /\ chan' = chan \o [i \in 1..n |-> [pending[height + i] EXCEPT !.hints = {}]]
       /\ pending' = [h \in DOMAIN pending \ (height + 1)..(height + n)
                        |-> pending[h]]

\* The P2P worker asks for the block after the store's height,
P2PTarget ==
  /\ Up /\ setup.p2p /\ p2p = P2PIdle
  /\ p2p' = [pc |-> "get", target |-> height + 1]
  /\ UNCHANGED <<pipe, processed>>

\* is done at once when it piped that height before,
P2PAlready ==
  /\ Up /\ p2p.pc = "get" /\ p2p.target <= processed
  /\ p2p' = [p2p EXCEPT !.pc = "wait"]
  /\ UNCHANGED <<pipe, processed>>

\* pipes it once the stores have it, with the DA heights its sender knew,
ProcessHeight(hints) ==
  /\ Up /\ p2p.pc = "get" /\ p2p.target > processed /\ p2p.target <= p2pHead
  /\ PipeAll(<<P2PEvent(p2p.target, hints)>>)
  /\ processed' = p2p.target
  /\ p2p' = [p2p EXCEPT !.pc = "wait"]

\* and waits for the store.
WaitForStoreHeight ==
  /\ Up /\ p2p.pc = "wait" /\ height >= p2p.target
  /\ p2p' = P2PIdle
  /\ UNCHANGED <<pipe, processed>>

\* PendingCount: what the catch-up of an aggregator takes as unprocessed.
PendingCount ==
  Len(chan) + (IF InFlight THEN 1 ELSE 0) + Cardinality(DOMAIN pending)
=============================================================================
