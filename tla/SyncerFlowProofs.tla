-------------------------- MODULE SyncerFlowProofs --------------------------
(***************************************************************************)
(* The inductive invariant of Syncer, and what the steps of the pipeline   *)
(* and of the DA follower do to it.  SyncerProofs has the caches, the      *)
(* blocks still to come and the theorems.                                  *)
(***************************************************************************)
EXTENDS Syncer, TLAPS

Positive == Nat \ {0}

\* The setups NoBlockMissed speaks of.
Covered ==
  /\ FromGenesis
  /\ Aligned \/ ~setup.inline
  /\ ~setup.mayStop /\ (setup.mayCrash => Aligned /\ InOrder)

\* An event is for a block of the chain; over whole blocks it has the DA height of
\* that block or none.
Event ==
  {e \in [height : Blocks, da : Nat, hints : SUBSET (Kinds \X Positive)] :
     Aligned => e.da \in {0, setup.headerAt[e.height]}}

-----------------------------------------------------------------------------
\* The store.
DiskInv ==
  /\ setup \in Setups
  /\ phase \in {"down", "running", "catchup", "stopping", "handover", "producing"}
  /\ height \in 0..Len(setup.headerAt) /\ included \in 0..height
  /\ stateDA \in Nat /\ daHead \in Nat /\ p2pHead \in 0..Len(setup.headerAt)

\* The pipeline: the process loop has an event exactly when it is not idle, and
\* the event it applies is that of the next block.
QueueInv ==
  /\ chan \in Seq(Event) /\ Len(chan) <= setup.capacity
  /\ \A h \in DOMAIN pending : pending[h] \in Event /\ pending[h].height = h

HandInv ==
  /\ stage \in {"idle", "received", "counted", "syncing"}
  /\ stage = "idle" => inHand = NoEvent
  /\ stage # "idle" => inHand \in Event
  /\ stage = "syncing" => inHand.height = height + 1

P2PInv ==
  /\ p2p \in [pc : {"idle", "get", "wait"}, target : Nat]
  /\ p2p.pc # "idle" => p2p.target > 0

PipeInv == QueueInv /\ HandInv /\ P2PInv

\* The two loops of the follower.  Over whole blocks the retriever keeps nothing
\* and the follow loop gives no height back.
CountInv ==
  local \in Positive /\ prio \subseteq Positive /\ sub \in [Namespaces -> Positive]

FetchInv ==
  /\ catchup \in [pc : {"idle", "run", "fetch"}, da : Nat, prio : BOOLEAN]
  /\ catchup.pc = "fetch" => catchup.da > 0

FollowType ==
  [pc : {"idle", "claim", "inline", "rollback"}, da : Nat, blobs : SUBSET (Kinds \X Blocks)]

FollowInv ==
  /\ follow \in FollowType
  /\ follow.pc # "idle" => /\ setup.inline /\ follow.da \in 1..daHead
                           /\ follow.blobs # {} /\ follow.blobs \subseteq BlobsAt(follow.da)
  /\ Aligned => /\ follow.pc # "rollback"
                /\ follow.pc # "idle" => follow.blobs = BlobsAt(follow.da)

KeptInv ==
  /\ headers \subseteq Blocks /\ data \subseteq Blocks
  /\ Aligned => headers = {} /\ data = {}

LoopInv == CountInv /\ FetchInv /\ FollowInv /\ KeptInv

\* What the caches and their snapshots say is on the DA layer is there.
OnDA(k, h) ==
  h \in Blocks /\ (IF k = "header" THEN setup.headerAt[h] ELSE setup.dataAt[h]) <= daHead

\* A cache is a record with the four fields of Cache.
IsCache(c) ==
  c \in [seen : {c.seen}, daIncluded : {c.daIncluded},
         hashByHeight : {c.hashByHeight}, maxDAHeight : {c.maxDAHeight}]

TrueMarks(c, k) ==
  /\ IsCache(c) /\ c.maxDAHeight \in Nat
  /\ \A h \in DOMAIN c.hashByHeight :
       c.hashByHeight[h] \in {HashKey(h), HeightPlaceholderKey(h)}
  /\ \A x \in DOMAIN c.daIncluded : c.daIncluded[x] \in 0..daHead /\ OnDA(k, x[2])

TrueSnap(s, k) == \A h \in DOMAIN s : s[h] \in 0..daHead /\ OnDA(k, h)

MarkInv ==
  /\ \A k \in Kinds : TrueMarks(cache[k], k) /\ TrueSnap(snap[k], k)
  /\ InclusionTrue

-----------------------------------------------------------------------------
\* Only applied blocks are seen.
SeenInv == \A x \in cache["header"].seen : x[2] \in 0..height

\* A piece is still to come: a fetch that was not claimed does not count.
Held(k, h, d) ==
  \/ d >= local
  \/ catchup.pc = "fetch" /\ ~catchup.prio /\ catchup.da = d
  \/ follow.pc = "inline" /\ follow.da = d
  \/ h \in IF k = "header" THEN headers ELSE data

HeldInv ==
  Up => \A h \in (height + 1)..Len(setup.headerAt) :
          \/ InPipeline(h)
          \/ /\ Held("header", h, setup.headerAt[h])
             /\ Empty(h) \/ Held("data", h, setup.dataAt[h])

\* A height that the catch-up loop claimed is below localNextDAHeight.
ClaimInv == catchup.pc = "fetch" /\ ~catchup.prio => catchup.da < local

\* A node that starts finds no block above its height at a DA height below the one
\* it starts from.
RestartInv ==
  /\ \A k \in Kinds : DOMAIN snap[k] = {}
  /\ phase # "stopping" /\ (phase = "down" => stage = "idle")
  /\ setup.mayCrash \/ phase = "down" =>
       \A h \in (height + 1)..Len(setup.headerAt) :
          /\ stateDA <= setup.headerAt[h]
          /\ Empty(h) \/ stateDA <= setup.dataAt[h]
  /\ ~setup.mayCrash /\ phase = "down" => height = 0

MissInv ==
  SeenInv /\ (Covered => HeldInv /\ ClaimInv /\ RestartInv)

SyncInv == DiskInv /\ PipeInv /\ LoopInv /\ MarkInv /\ MissInv

(***************************************************************************)
(* Setups                                                                  *)
(***************************************************************************)

\* Two sequences one after the other.
LEMMA ConcatFacts ==
  ASSUME NEW S, NEW s \in Seq(S), NEW t \in Seq(S)
  PROVE  /\ s \o t \in Seq(S) /\ Len(s \o t) = Len(s) + Len(t)
         /\ \A i \in 1..Len(s) : (s \o t)[i] = s[i]
         /\ \A i \in 1..Len(t) : (s \o t)[Len(s) + i] = t[i]
OBVIOUS

\* What a setup consists of.
LEMMA SetupFacts ==
  ASSUME setup \in Setups
  PROVE  /\ Len(setup.headerAt) \in Nat /\ Blocks = 1..Len(setup.headerAt)
         /\ \A h \in Blocks : setup.headerAt[h] \in Positive /\ setup.dataAt[h] \in Nat
         /\ setup.daStart \in Nat /\ setup.capacity \in Positive
         /\ setup.split \in BOOLEAN /\ setup.inline \in BOOLEAN
         /\ setup.catchup \in BOOLEAN /\ setup.mayCrash \in BOOLEAN
         /\ setup.mayStop \in BOOLEAN
<1>1. setup \in SetupType /\ Len(setup.headerAt) = Len(setup.dataAt)
  BY SyncAssumption
<1>2. /\ setup.headerAt \in Seq(Nat \ {0}) /\ setup.dataAt \in Seq(Nat)
      /\ setup.daStart \in Nat /\ setup.capacity \in Nat \ {0}
      /\ setup.split \in BOOLEAN /\ setup.inline \in BOOLEAN
      /\ setup.catchup \in BOOLEAN /\ setup.mayCrash \in BOOLEAN
      /\ setup.mayStop \in BOOLEAN
  BY <1>1 DEF SetupType
<1>3. Len(setup.headerAt) \in Nat /\ Blocks = 1..Len(setup.headerAt)
  BY <1>2 DEF Blocks
<1>4. ASSUME NEW h \in Blocks
      PROVE  setup.headerAt[h] \in Positive /\ setup.dataAt[h] \in Nat
  BY <1>1, <1>2, <1>3 DEF Positive
<1>5. setup.capacity \in Positive
  BY <1>2 DEF Positive
<1> QED BY <1>2, <1>3, <1>4, <1>5, Zenon

\* The setup, and with it what depends on it only, stays.
LEMMA SetupStays ==
  ASSUME setup' = setup
  PROVE  /\ Blocks' = Blocks /\ Event' = Event /\ Aligned' = Aligned
         /\ InOrder' = InOrder /\ FromGenesis' = FromGenesis /\ Covered' = Covered
         /\ Namespaces' = Namespaces
         /\ \A h : Empty(h)' = Empty(h)
         /\ \A d : BlobsAt(d)' = BlobsAt(d)
BY DEF Blocks, Event, Aligned, InOrder, FromGenesis, Covered, Namespaces, Empty, BlobsAt

(***************************************************************************)
(* The pipeline                                                            *)
(***************************************************************************)

\* h is the height of an event of a sequence.
InSeq(s, h) == \E i \in DOMAIN s : s[i].height = h

\* Piping events keeps the channel within its capacity and every event, old or new,
\* in the channel or among the pending events.
LEMMA PipeAllKeeps ==
  ASSUME setup \in Setups, chan \in Seq(Event), Len(chan) <= setup.capacity,
         \A h \in DOMAIN pending : pending[h] \in Event /\ pending[h].height = h,
         NEW evs \in Seq(Event), PipeAll(evs)
  PROVE  /\ chan' \in Seq(Event) /\ Len(chan') <= setup.capacity
         /\ \A h \in DOMAIN pending' : pending'[h] \in Event /\ pending'[h].height = h
         /\ \A h : InSeq(chan, h) \/ h \in DOMAIN pending \/ InSeq(evs, h)
                     => InSeq(chan', h) \/ h \in DOMAIN pending'
<1> DEFINE room == setup.capacity - Len(chan)
           sent == IF Len(evs) <= room THEN Len(evs) ELSE room
           kept == {evs[i] : i \in (sent + 1)..Len(evs)}
           hs   == {e.height : e \in kept}
<1>1. /\ chan' = chan \o SubSeq(evs, 1, sent)
      /\ pending' = [h \in DOMAIN pending \cup hs |->
                       IF h \in hs THEN CHOOSE e \in kept : e.height = h
                       ELSE pending[h]]
  BY Zenon DEF PipeAll
<1>2. setup.capacity \in Nat /\ Len(chan) \in Nat /\ Len(evs) \in Nat
  BY SetupFacts DEF Positive
<1>3. sent \in Nat /\ sent <= Len(evs) /\ Len(chan) + sent <= setup.capacity
  BY <1>2
<1>4. kept \subseteq Event
  BY <1>3
<1> HIDE DEF sent
<1>5. chan' \in Seq(Event) /\ Len(chan') = Len(chan) + sent
  BY <1>1, <1>2, <1>3
<1>6. ASSUME NEW h \in DOMAIN pending'
      PROVE  pending'[h] \in Event /\ pending'[h].height = h
  <2>1. CASE h \in hs
    <3>1. \E e \in kept : e.height = h
      BY <2>1
    <3>2. pending'[h] = CHOOSE e \in kept : e.height = h
      BY <1>1, <2>1, Zenon
    <3> HIDE DEF kept
    <3>3. pending'[h] \in kept /\ pending'[h].height = h
      BY <3>1, <3>2
    <3> QED BY <3>3, <1>4
  <2>2. CASE h \notin hs
    <3>1. h \in DOMAIN pending /\ pending'[h] = pending[h]
      BY <1>1, <2>2, Zenon
    <3> QED BY <3>1
  <2> QED BY <2>1, <2>2
<1>7. DOMAIN pending' = DOMAIN pending \cup hs
  BY <1>1, Zenon
<1>8. ASSUME NEW h, InSeq(chan, h) PROVE InSeq(chan', h)
  <2>1. PICK i \in DOMAIN chan : chan[i].height = h
    BY <1>8 DEF InSeq
  <2>2. i \in DOMAIN chan' /\ chan'[i] = chan[i]
    BY <1>1, <1>2, <1>3, <1>5
  <2> QED BY <2>1, <2>2 DEF InSeq
<1>9. ASSUME NEW h, InSeq(evs, h) PROVE InSeq(chan', h) \/ h \in hs
  <2>1. PICK i \in DOMAIN evs : evs[i].height = h
    BY <1>9 DEF InSeq
  <2>2. i \in 1..Len(evs)
    OBVIOUS
  <2>3. CASE i <= sent
    <3>1. Len(chan) + i \in DOMAIN chan' /\ chan'[Len(chan) + i] = evs[i]
      BY <1>1, <1>2, <1>3, <1>5, <2>2, <2>3
    <3> QED BY <2>1, <3>1 DEF InSeq
  <2>4. CASE ~(i <= sent)
    <3>1. i \in (sent + 1)..Len(evs)
      BY <1>2, <1>3, <2>2, <2>4
    <3>2. evs[i] \in kept
      BY <3>1
    <3> QED BY <2>1, <3>2
  <2> QED BY <2>3, <2>4
<1>10. Len(chan') <= setup.capacity
  BY <1>3, <1>5
<1> HIDE DEF hs
<1> QED BY <1>5, <1>6, <1>7, <1>8, <1>9, <1>10, Zenon

\* The pieces that blobs bring join the ones kept; each of them stays or its block
\* is piped.  Over whole blocks nothing stays.
LEMMA BlobsProcessed ==
  ASSUME setup \in Setups, headers \subseteq Blocks, data \subseteq Blocks,
         NEW d \in Positive, NEW blobs, blobs \subseteq BlobsAt(d),
         Aligned => headers = {} /\ data = {} /\ blobs = BlobsAt(d),
         ProcessBlobs(blobs, d)
  PROVE  /\ headers' \subseteq Blocks /\ data' \subseteq Blocks
         /\ Aligned => headers' = {} /\ data' = {}
         /\ \E evs \in Seq(Event) :
              /\ PipeAll(evs)
              /\ \A h : h \in headers \/ <<"header", h>> \in blobs
                          => h \in headers' \/ InSeq(evs, h)
              /\ \A h : h \in data \/ <<"data", h>> \in blobs
                          => h \in data' \/ InSeq(evs, h)
<1> DEFINE hs   == headers \cup {x[2] : x \in {y \in blobs : y[1] = "header"}}
           ds   == data \cup {x[2] : x \in {y \in blobs : y[1] = "data"}}
           done == {h \in hs : Empty(h) \/ h \in ds}
<1>1. /\ headers' = hs \ done /\ data' = ds \ done
      /\ \E s \in Orders(hs \ (hs \ done)) : PipeAll([i \in DOMAIN s |-> DAEvent(s[i], d)])
  BY Zenon DEF ProcessBlobs, Left
<1>2. hs \ (hs \ done) = done
  OBVIOUS
<1>3. blobs \subseteq Kinds \X Blocks
  BY DEF BlobsAt
<1>4. \A h : /\ h \in hs <=> h \in headers \/ <<"header", h>> \in blobs
             /\ h \in ds <=> h \in data \/ <<"data", h>> \in blobs
  BY <1>3 DEF Kinds
<1>5. hs \subseteq Blocks /\ ds \subseteq Blocks
  BY <1>3
<1>6. \A h \in Blocks : setup.headerAt[h] \in Positive /\ setup.dataAt[h] \in Nat
  BY SetupFacts
<1>7. \A h \in Blocks : /\ <<"header", h>> \in BlobsAt(d) <=> setup.headerAt[h] = d
                        /\ <<"data", h>> \in BlobsAt(d) <=> setup.dataAt[h] = d
  BY <1>6 DEF BlobsAt, Kinds
<1> HIDE DEF hs, ds
<1>8. ASSUME Aligned
      PROVE  /\ hs = done /\ ds \subseteq done
             /\ \A h \in hs : setup.headerAt[h] = d
  <2>1. \A h \in Blocks : setup.dataAt[h] \in {0, setup.headerAt[h]}
    BY <1>8 DEF Aligned
  <2>2. \A h \in Blocks : /\ h \in hs <=> setup.headerAt[h] = d
                          /\ h \in ds <=> setup.dataAt[h] = d
    BY Zenon, <1>4, <1>7, <1>8
  <2>3. ASSUME NEW h \in hs PROVE Empty(h) \/ h \in ds
    BY <1>5, <2>1, <2>2 DEF Empty
  <2>4. ASSUME NEW h \in ds PROVE h \in hs
    BY <1>5, <2>1, <2>2 DEF Positive
  <2> QED BY <1>5, <2>2, <2>3, <2>4
<1>9. PICK s \in Orders(done) : PipeAll([i \in DOMAIN s |-> DAEvent(s[i], d)])
  BY ZenonT(30), <1>1, <1>2
<1> DEFINE evs == [i \in DOMAIN s |-> DAEvent(s[i], d)]
<1>10. PICK n \in 0..Len(setup.headerAt) : s \in Bijection(1..n, done)
  BY Zenon, <1>9 DEF Orders
<1>11. /\ n \in Nat /\ s \in [1..n -> done]
       /\ \A h \in done : \E i \in 1..n : s[i] = h
  BY <1>10, SetupFacts DEF Bijection, Surjection, Injection
<1>12. \A h \in done : DAEvent(h, d) \in Event
  <2> SUFFICES ASSUME NEW h \in done PROVE DAEvent(h, d) \in Event
    OBVIOUS
  <2>1. h \in Blocks /\ d \in Nat /\ {} \in SUBSET (Kinds \X Positive)
    BY <1>5 DEF Positive
  <2>2. DAEvent(h, d) \in [height : Blocks, da : Nat, hints : SUBSET (Kinds \X Positive)]
    BY <2>1 DEF DAEvent
  <2>3. DAEvent(h, d).height = h /\ DAEvent(h, d).da = d
    BY DEF DAEvent
  <2>4. Aligned => setup.headerAt[h] = d
    BY <1>8
  <2> QED BY <2>2, <2>3, <2>4 DEF Event
<1> HIDE DEF done
<1>13. evs \in Seq(Event) /\ \A i \in 1..n : evs[i] = DAEvent(s[i], d)
  <2>1. evs = [i \in 1..n |-> DAEvent(s[i], d)]
    BY <1>11
  <2>2. evs \in [1..n -> Event]
    BY <2>1, <1>11, <1>12
  <2> QED BY <2>1, <2>2, <1>11
<1>14. ASSUME NEW h \in done PROVE InSeq(evs, h)
  <2>1. PICK i \in 1..n : s[i] = h
    BY <1>11
  <2>2. i \in DOMAIN evs /\ evs[i].height = h
    BY <1>11, <2>1 DEF DAEvent
  <2> QED BY <2>2 DEF InSeq
<1>15. PipeAll(evs)
  BY <1>9
<1> HIDE DEF evs
<1>16. /\ \A h : h \in headers \/ <<"header", h>> \in blobs => h \in headers' \/ InSeq(evs, h)
       /\ \A h : h \in data \/ <<"data", h>> \in blobs => h \in data' \/ InSeq(evs, h)
  BY <1>1, <1>4, <1>14, Zenon
<1>17. evs \in Seq(Event)
  BY <1>13
<1>18. headers' \subseteq Blocks /\ data' \subseteq Blocks
  BY <1>1, <1>5
<1>19. Aligned => headers' = {} /\ data' = {}
  BY <1>1, <1>8
<1> QED BY Zenon, <1>15, <1>16, <1>17, <1>18, <1>19

(***************************************************************************)
(* Every step keeps the store as it should be                              *)
(***************************************************************************)

\* What an event consists of.
LEMMA EventFacts ==
  ASSUME NEW e \in Event
  PROVE  /\ e \in [height : Blocks, da : Nat, hints : SUBSET (Kinds \X Positive)]
         /\ e.height \in Blocks /\ e.da \in Nat /\ e.hints \subseteq Kinds \X Positive
         /\ Aligned => e.da \in {0, setup.headerAt[e.height]}
BY DEF Event

\* The variables of the store in the steps of the workers.
LEMMA WorkerSteps ==
  ASSUME PendingWorker \/ P2PWorker \/ FollowLoop \/ CatchupLoop
  PROVE  UNCHANGED <<setup, phase, disk, hand, p2pHead, daHead>>
<1>1. CASE PendingWorker
  BY <1>1 DEF PendingWorker, gossip
<1>2. CASE P2PWorker
  BY <1>2 DEF P2PWorker
<1>3. CASE FollowLoop
  BY <1>3 DEF FollowLoop, gossip
<1>4. CASE CatchupLoop
  BY <1>4 DEF CatchupLoop, gossip
<1> QED BY <1>1, <1>2, <1>3, <1>4

\* No step of the process loop but TrySyncNextBlock writes to the store.
LEMMA ProcessSteps ==
  ASSUME ProcessLoop
  PROVE  /\ UNCHANGED <<setup, phase, startDA, p2pHead, daHead, follower, ignoreP2P>>
         /\ TrySyncNextBlock \/ UNCHANGED disk
<1>1. CASE UNCHANGED <<disk, cache, prio, critical, p2p, processed, faults>>
  BY <1>1 DEF ProcessLoop
<1>2. CASE BeginSync
  BY <1>2 DEF ProcessLoop, BeginSync
<1>3. CASE CommitFails \/ ExecutionFails
  BY SMTT(30), <1>3 DEF ProcessLoop, CommitFails, ExecutionFails
<1> QED BY <1>1, <1>2, <1>3 DEF ProcessLoop

LEMMA DiskStep ==
  ASSUME DiskInv, PipeInv, Next
  PROVE  DiskInv' /\ setup' = setup
<1> USE DEF DiskInv
<1>1. CASE Start
  BY <1>1 DEF Start, disk
<1>2. CASE Stop
  BY <1>2 DEF Stop, CancelWorkers, disk
<1>3. CASE StopEnd
  BY <1>3 DEF StopEnd
<1>4. CASE Crash
  BY <1>4 DEF Crash, disk
<1>5. CASE EndCatchup
  BY <1>5 DEF EndCatchup, CancelWorkers, disk
<1>6. CASE StartProducing
  BY <1>6 DEF StartProducing, disk, gossip
<1>7. CASE CatchupTimeout
  BY <1>7 DEF CatchupTimeout, disk, gossip
<1>8. CASE ProcessLoop
  <2>1. CASE TrySyncNextBlock
    <3>1. inHand \in Event /\ inHand.height = height + 1
      BY <2>1 DEF PipeInv, HandInv, TrySyncNextBlock
    <3>2. inHand.height \in 1..Len(setup.headerAt) /\ inHand.da \in Nat
      BY <3>1, EventFacts DEF Blocks
    <3>3. /\ height' = height + 1 /\ stateDA' = Larger(stateDA, inHand.da)
          /\ included' = included
      BY <2>1, <3>1 DEF TrySyncNextBlock
    <3>4. stateDA' \in Nat
      BY <3>2, <3>3 DEF Larger
    <3>5. included' \in 0..height' /\ height' \in 0..Len(setup.headerAt)
      BY <3>1, <3>2, <3>3
    <3> QED BY <1>8, <3>4, <3>5, ProcessSteps
  <2>2. CASE ~TrySyncNextBlock
    BY <1>8, <2>2, ProcessSteps DEF disk
  <2> QED BY <2>1, <2>2
<1>9. CASE PendingWorker \/ P2PWorker \/ FollowLoop \/ CatchupLoop
  BY <1>9, WorkerSteps DEF disk
<1>10. CASE IncludeNext
  <2>1. included' = included + 1 /\ included < height
    BY <1>10 DEF IncludeNext
  <2>2. included' \in 0..height
    BY <2>1
  <2> QED BY <1>10, <2>2 DEF IncludeNext, gossip
<1>11. CASE DAGrows
  BY <1>11 DEF DAGrows, disk, gossip
<1>12. CASE P2PGrows
  BY <1>12, SetupFacts DEF P2PGrows, disk
<1> QED BY <1>1, <1>2, <1>3, <1>4, <1>5, <1>6, <1>7, <1>8, <1>9, <1>10, <1>11, <1>12
        DEF Next

(***************************************************************************)
(* Every step keeps the pipeline as it should be                           *)
(***************************************************************************)

\* A node that starts, or is down, has an empty pipeline.
LEMMA FreshPipe ==
  ASSUME setup' = setup, setup \in Setups, Fresh
  PROVE  PipeInv'
<1>1. Event' = Event /\ setup.capacity \in Positive
  BY SetupStays, SetupFacts
<1>2. chan' = <<>> /\ pending' = <<>> /\ inHand' = NoEvent /\ stage' = "idle" /\ p2p' = P2PIdle
  BY DEF Fresh, DoneWithEvent
<1>3. QueueInv'
  BY <1>1, <1>2 DEF QueueInv, Positive
<1>4. HandInv'
  BY <1>2 DEF HandInv
<1>5. P2PInv'
  <2>1. PICK r \in [pc : {"idle", "get", "wait"}, target : Nat] : r = P2PIdle
    BY ZenonT(30) DEF P2PIdle
  <2>2. P2PIdle.pc = "idle"
    BY DEF P2PIdle
  <2> QED BY <1>2, <2>1, <2>2 DEF P2PInv
<1> QED BY <1>3, <1>4, <1>5 DEF PipeInv

\* Parking an event keeps it.
LEMMA ParkKeeps ==
  ASSUME QueueInv, NEW e \in Event, Park(e)
  PROVE  /\ \A h \in DOMAIN pending' : pending'[h] \in Event /\ pending'[h].height = h
         /\ DOMAIN pending' = DOMAIN pending \cup {e.height}
BY DEF QueueInv, Park, Put

\* What a step of the process loop may take out of the pipeline: an event of a
\* height that is applied, or one that is known or fails.
Passed(h) ==
  \/ h <= height'
  \/ inHand.height = h /\ (setup.mayStop \/ (stage = "counted" /\ Known(inHand)))

KeepsPipe == \A h \in Nat : InPipeline(h) => InPipeline(h)' \/ Passed(h)

LEMMA ReceiveStep ==
  ASSUME setup \in Setups, setup' = setup, height \in Nat, height' = height,
         QueueInv, HandInv, Receive
  PROVE  QueueInv' /\ HandInv' /\ KeepsPipe
<1>1. Event' = Event /\ setup.capacity \in Nat
  BY Zenon, SetupStays, SetupFacts DEF Positive
<1>2. /\ chan # <<>> /\ inHand' = Head(chan) /\ chan' = Tail(chan) /\ pending' = pending
      /\ stage' \in {"received", "counted"} /\ stage = "idle"
  BY DEF Receive
<1>3. /\ chan \in Seq(Event) /\ Len(chan) <= setup.capacity /\ inHand = NoEvent
      /\ Len(chan) \in Nat
  BY <1>2 DEF QueueInv, HandInv
<1>4. /\ inHand' \in Event /\ inHand' = chan[1] /\ chan' \in Seq(Event)
      /\ Len(chan') = Len(chan) - 1
      /\ \A i \in 1..(Len(chan) - 1) : chan'[i] = chan[i + 1]
  BY <1>2, <1>3
<1>5. QueueInv'
  <2>1. Len(chan') <= setup.capacity
    BY <1>1, <1>3, <1>4
  <2> QED BY Zenon, <1>1, <1>2, <1>4, <2>1 DEF QueueInv
<1>6. HandInv'
  BY <1>1, <1>2, <1>4 DEF HandInv
<1>7. KeepsPipe
  <2> SUFFICES ASSUME NEW h \in Nat, InPipeline(h), ~(h <= height)
               PROVE  InPipeline(h)'
    BY DEF KeepsPipe, Passed
  <2>1. CASE inHand.height = h
    BY <1>3, <2>1 DEF NoEvent
  <2>2. CASE h \in DOMAIN pending
    BY <1>2, <2>2 DEF InPipeline
  <2>3. CASE \E i \in DOMAIN chan : chan[i].height = h
    <3>1. PICK i \in 1..Len(chan) : chan[i].height = h
      BY <1>3, <2>3
    <3>2. CASE i = 1
      BY <1>4, <3>1, <3>2 DEF InPipeline
    <3>3. CASE i # 1
      <4>1. i - 1 \in 1..(Len(chan) - 1) /\ i = (i - 1) + 1
        BY <1>3, <3>1, <3>3
      <4>2. i - 1 \in DOMAIN chan' /\ chan'[i - 1] = chan[i]
        BY <1>3, <1>4, <4>1
      <4> QED BY <3>1, <4>2 DEF InPipeline
    <3> QED BY <3>2, <3>3
  <2> QED BY <2>1, <2>2, <2>3 DEF InPipeline
<1> QED BY <1>5, <1>6, <1>7

LEMMA ProcessStep ==
  ASSUME DiskInv, QueueInv, HandInv, ProcessLoop, setup' = setup
  PROVE  QueueInv' /\ HandInv' /\ KeepsPipe
<1>1. Event' = Event /\ height \in Nat /\ setup \in Setups
  BY SetupStays DEF DiskInv
<1>2. ASSUME UNCHANGED pipe PROVE QueueInv'
  BY <1>1, <1>2 DEF QueueInv, pipe
<1>3. ASSUME DoneWithEvent PROVE HandInv'
  BY <1>3 DEF HandInv, DoneWithEvent
<1>4. ASSUME UNCHANGED pipe, NEW h, InPipeline(h)
      PROVE  inHand.height = h \/ InPipeline(h)'
  BY <1>4 DEF pipe, InPipeline
<1>5. ASSUME Park(inHand), inHand \in Event, UNCHANGED chan, DoneWithEvent
      PROVE  QueueInv' /\ KeepsPipe
  <2>1. /\ \A h \in DOMAIN pending' : pending'[h] \in Event /\ pending'[h].height = h
        /\ DOMAIN pending' = DOMAIN pending \cup {inHand.height}
    BY <1>5, ParkKeeps
  <2>2. QueueInv'
    BY <1>1, <1>5, <2>1 DEF QueueInv
  <2>3. KeepsPipe
    BY <1>5, <2>1 DEF KeepsPipe, InPipeline
  <2> QED BY <2>2, <2>3
<1>6. stage # "idle" => inHand \in Event
  BY DEF HandInv
<1>7. CASE Receive
  <2>1. CASE height' = height
    BY <1>1, <1>7, <2>1, ReceiveStep
  <2>2. CASE height' # height
    BY <1>7, <2>2, ProcessSteps DEF TrySyncNextBlock, Receive, disk
  <2> QED BY <2>1, <2>2
<1>8. CASE CountInFlight /\ UNCHANGED disk
  <2>1. HandInv'
    BY <1>1, <1>8 DEF CountInFlight, HandInv, disk
  <2>2. QueueInv'
    BY <1>2, <1>8 DEF CountInFlight
  <2>3. KeepsPipe
    BY <1>8 DEF CountInFlight, KeepsPipe, InPipeline, pipe
  <2> QED BY <2>1, <2>2, <2>3
<1>9. CASE Skip
  <2>1. stage = "counted" /\ Known(inHand) /\ DoneWithEvent /\ UNCHANGED pipe
    BY <1>9 DEF Skip
  <2>2. KeepsPipe
    BY <1>4, <2>1 DEF KeepsPipe, Passed
  <2> QED BY <1>2, <1>3, <2>1, <2>2
<1>10. CASE ParkEarly
  <2>1. Park(inHand) /\ stage # "idle" /\ DoneWithEvent /\ UNCHANGED chan
    BY <1>10 DEF ParkEarly
  <2> QED BY <1>3, <1>5, <1>6, <2>1
<1>11. CASE BeginSync
  <2>1. /\ stage = "counted" /\ inHand.height = height + 1 /\ stage' = "syncing"
        /\ inHand' = inHand /\ UNCHANGED pipe /\ height' = height
    BY <1>11 DEF BeginSync, disk
  <2>2. HandInv'
    BY <1>1, <2>1 DEF HandInv
  <2>3. KeepsPipe
    BY <2>1 DEF KeepsPipe, InPipeline, pipe
  <2> QED BY <1>2, <2>1, <2>2, <2>3
<1>12. CASE TrySyncNextBlock
  <2>1. UNCHANGED pipe /\ DoneWithEvent /\ height' = inHand.height /\ height' = height + 1
    BY <1>12 DEF TrySyncNextBlock, HandInv
  <2>2. KeepsPipe
    <3> SUFFICES ASSUME NEW h \in Nat, InPipeline(h) PROVE InPipeline(h)' \/ h <= height'
      BY DEF KeepsPipe, Passed
    <3>1. CASE inHand.height = h
      <4>1. height' = h
        BY Zenon, <2>1, <3>1
      <4> QED BY <4>1
    <3> QED BY <1>4, <2>1, <3>1
  <2> QED BY Zenon, <1>2, <1>3, <2>1, <2>2
<1>13. CASE CommitFails
  <2>1. Park(inHand) /\ stage # "idle" /\ DoneWithEvent /\ UNCHANGED chan
    BY <1>13 DEF CommitFails
  <2> QED BY <1>3, <1>5, <1>6, <2>1
<1>14. CASE ExecutionFails
  <2>1. setup.mayStop /\ DoneWithEvent /\ UNCHANGED pipe
    BY <1>14 DEF ExecutionFails
  <2>2. KeepsPipe
    BY <1>4, <2>1 DEF KeepsPipe, Passed
  <2> QED BY <1>2, <1>3, <2>1, <2>2
<1> QED BY <1>7, <1>8, <1>9, <1>10, <1>11, <1>12, <1>13, <1>14 DEF ProcessLoop

\* The pending worker moves events, the others add some or take out those of a
\* height that is final.
Keeps == \A h \in Nat : InPipeline(h) => InPipeline(h)' \/ h <= height

LEMMA PendingStep ==
  ASSUME DiskInv, QueueInv, PendingWorker
  PROVE  QueueInv' /\ Keeps
<1>1. setup' = setup /\ inHand' = inHand /\ ProcessPendingEvents
  BY SMTT(30) DEF PendingWorker, hand
<1>2. /\ Event' = Event /\ setup.capacity \in Nat /\ Len(chan) \in Nat /\ height \in Nat
      /\ chan \in Seq(Event)
  BY <1>1, SetupStays, SetupFacts DEF DiskInv, QueueInv, Positive
<1>3. PICK n \in Movable :
        /\ chan' = chan \o [i \in 1..n |-> [pending[height + i] EXCEPT !.hints = {}]]
        /\ pending' = [h \in DOMAIN pending \ (height + 1)..(height + n) |-> pending[h]]
  BY Zenon, <1>1 DEF ProcessPendingEvents
<1>4. /\ n \in Nat /\ Len(chan) + n <= setup.capacity
      /\ \A i \in 1..n : height + i \in DOMAIN pending
  BY <1>2, <1>3 DEF Movable
<1> DEFINE e(i) == [pending[height + i] EXCEPT !.hints = {}]
           s == [i \in 1..n |-> e(i)]
<1>5. ASSUME NEW i \in 1..n PROVE e(i) \in Event /\ e(i).height = height + i
  <2>1. pending[height + i] \in Event /\ pending[height + i].height = height + i
    BY <1>4 DEF QueueInv
  <2>2. PICK p \in Event : p = pending[height + i]
    BY Zenon, <2>1
  <2>3. p \in [height : Blocks, da : Nat, hints : SUBSET (Kinds \X Positive)]
    BY EventFacts
  <2>4. PICK q : q = [p EXCEPT !.hints = {}]
    BY ZenonT(30)
  <2>5. q \in [height : Blocks, da : Nat, hints : SUBSET (Kinds \X Positive)]
    BY <2>3, <2>4
  <2>6. q.height = p.height /\ q.da = p.da
    BY <2>3, <2>4
  <2>7. q \in Event
    BY Zenon, <2>5, <2>6 DEF Event
  <2> QED BY <2>1, <2>2, <2>4, <2>6, <2>7
<1>6. s \in Seq(Event) /\ Len(s) = n /\ \A i \in 1..n : s[i] = e(i)
  <2> HIDE DEF e
  <2> QED BY <1>4, <1>5
<1> HIDE DEF s
<1>7. chan' = chan \o s
  BY <1>3 DEF s
<1>8. /\ chan' \in Seq(Event) /\ Len(chan') = Len(chan) + n
      /\ \A i \in 1..Len(chan) : chan'[i] = chan[i]
      /\ \A i \in 1..n : chan'[Len(chan) + i] = s[i]
  <2>1. s \in Seq(Event) /\ Len(s) = n
    BY <1>6
  <2>2. PICK a, b, S : a = chan /\ b = s /\ S = Event
    BY Zenon
  <2>3. /\ a \o b \in Seq(S) /\ Len(a \o b) = Len(a) + Len(b)
        /\ \A i \in 1..Len(a) : (a \o b)[i] = a[i]
        /\ \A i \in 1..Len(b) : (a \o b)[Len(a) + i] = b[i]
    BY <1>2, <2>1, <2>2, ConcatFacts
  <2> QED BY <1>7, <2>1, <2>2, <2>3, Zenon
<1>9. /\ DOMAIN pending' = DOMAIN pending \ (height + 1)..(height + n)
      /\ \A h \in DOMAIN pending' : pending'[h] = pending[h] /\ h \in DOMAIN pending
  BY <1>3, Zenon
<1>10. QueueInv'
  <2>1. Len(chan') <= setup.capacity
    BY Zenon, <1>4, <1>8
  <2> QED BY <1>1, <1>2, <1>8, <1>9, <2>1 DEF QueueInv
<1>11. Keeps
  <2> SUFFICES ASSUME NEW h \in Nat, InPipeline(h) PROVE InPipeline(h)'
    BY DEF Keeps
  <2>1. CASE inHand.height = h
    BY Zenon, <1>1, <2>1 DEF InPipeline
  <2>2. CASE \E i \in DOMAIN chan : chan[i].height = h
    <3>1. PICK i \in 1..Len(chan) : chan[i].height = h
      BY SMTT(30), <1>2, <2>2
    <3>2. i \in DOMAIN chan'
      BY SMTT(30), <1>2, <1>4, <1>8, <3>1
    <3> QED BY Zenon, <1>8, <3>1, <3>2 DEF InPipeline
  <2>3. CASE h \in DOMAIN pending /\ h \notin (height + 1)..(height + n)
    BY <1>9, <2>3 DEF InPipeline
  <2>4. CASE h \in (height + 1)..(height + n)
    <3>1. h - height \in 1..n /\ h = height + (h - height)
      BY <1>2, <1>4, <2>4
    <3>2. PICK i \in 1..n : h = height + i
      BY <3>1
    <3>3. Len(chan) + i \in DOMAIN chan'
      BY <1>2, <1>4, <1>8
    <3>4. chan'[Len(chan) + i] = e(i) /\ e(i).height = h
      <4> HIDE DEF e
      <4> QED BY <1>5, <1>6, <1>8, <3>2
    <3> QED BY ZenonT(30), <3>3, <3>4 DEF InPipeline
  <2> QED BY <2>1, <2>2, <2>3, <2>4 DEF InPipeline
<1> QED BY <1>10, <1>11

\* Piping keeps what is in the pipeline.
LEMMA PipingStep ==
  ASSUME DiskInv, QueueInv, setup' = setup, inHand' = inHand,
         NEW evs \in Seq(Event), PipeAll(evs)
  PROVE  /\ QueueInv' /\ Keeps
         /\ \A h : InSeq(evs, h) => InPipeline(h)'
<1>1. Event' = Event
  BY Zenon, SetupStays
<1>2. /\ chan' \in Seq(Event) /\ Len(chan') <= setup.capacity
      /\ \A h \in DOMAIN pending' : pending'[h] \in Event /\ pending'[h].height = h
      /\ \A h : InSeq(chan, h) \/ h \in DOMAIN pending \/ InSeq(evs, h)
                  => InSeq(chan', h) \/ h \in DOMAIN pending'
  BY Zenon, PipeAllKeeps DEF DiskInv, QueueInv
<1>3. QueueInv'
  BY Zenon, <1>1, <1>2 DEF QueueInv
<1>4. \A h : InPipeline(h) => InPipeline(h)'
  BY Zenon, <1>2 DEF InPipeline, InSeq
<1>5. \A h : InSeq(evs, h) => InPipeline(h)'
  BY Zenon, <1>2 DEF InPipeline, InSeq
<1> QED BY <1>3, <1>4, <1>5 DEF Keeps

LEMMA P2PStep ==
  ASSUME DiskInv, QueueInv, P2PInv, P2PWorker
  PROVE  QueueInv' /\ P2PInv' /\ Keeps
<1>1. setup' = setup /\ inHand' = inHand /\ height' = height
  BY DEF P2PWorker, hand, disk
<1>2. Event' = Event /\ height \in Nat
  BY SMTT(30), <1>1, SetupStays DEF DiskInv
<1>3. ASSUME UNCHANGED pipe PROVE QueueInv' /\ Keeps
  BY <1>1, <1>2, <1>3 DEF QueueInv, pipe, Keeps, InPipeline
<1> DEFINE Type == [pc : {"idle", "get", "wait"}, target : Nat]
<1>4. P2PIdle \in Type /\ P2PIdle.pc = "idle"
  BY DEF P2PIdle
<1>5. ASSUME p2p' = P2PIdle PROVE P2PInv'
  BY <1>4, <1>5 DEF P2PInv
<1>6. ASSUME p2p' = [p2p EXCEPT !.pc = "wait"], p2p.pc = "get" PROVE P2PInv'
  <2>1. p2p \in Type /\ p2p.target > 0
    BY <1>6 DEF P2PInv
  <2>2. PICK w \in {"idle", "get", "wait"} : w = "wait"
    OBVIOUS
  <2>3. p2p' = [p2p EXCEPT !.pc = w]
    BY <1>6, <2>2
  <2>4. p2p' \in Type
    BY <2>1, <2>3
  <2>5. p2p'.target = p2p.target
    BY <2>1, <2>3
  <2> QED BY <2>1, <2>4, <2>5 DEF P2PInv
<1>7. CASE P2PTarget
  <2>1. p2p' = [pc |-> "get", target |-> height + 1] /\ UNCHANGED pipe
    BY <1>7 DEF P2PTarget
  <2>2. height + 1 \in Nat /\ height + 1 > 0
    BY <1>2
  <2>3. p2p' \in Type
    BY <2>1, <2>2
  <2>4. p2p'.target = height + 1
    BY <2>1
  <2> QED BY <1>3, <2>1, <2>2, <2>3, <2>4 DEF P2PInv
<1>8. CASE P2PAlready
  BY <1>3, <1>6, <1>8 DEF P2PAlready
<1>9. CASE WaitForStoreHeight
  BY <1>3, <1>5, <1>9 DEF WaitForStoreHeight
<1>10. ASSUME NEW hints \in SUBSET Hints(p2p.target), ProcessHeight(hints)
       PROVE  QueueInv' /\ P2PInv' /\ Keeps
  <2>1. /\ p2p.pc = "get" /\ p2p.target <= p2pHead
        /\ PipeAll(<<P2PEvent(p2p.target, hints)>>)
        /\ p2p' = [p2p EXCEPT !.pc = "wait"]
    BY <1>10 DEF ProcessHeight
  <2>2. p2p.target \in Blocks
    BY <2>1, SetupFacts DEF P2PInv, DiskInv
  <2>3. hints \in SUBSET (Kinds \X Positive)
    <3>1. hints \subseteq Kinds \X (1..daHead)
      BY Zenon DEF Hints
    <3>2. 1..daHead \subseteq Positive
      BY DEF DiskInv, Positive
    <3> QED BY <3>1, <3>2
  <2>4. P2PEvent(p2p.target, hints) \in
          [height : Blocks, da : Nat, hints : SUBSET (Kinds \X Positive)]
    BY Zenon, <2>2, <2>3 DEF P2PEvent
  <2>5. P2PEvent(p2p.target, hints).da = 0
    BY Zenon DEF P2PEvent
  <2>6. <<P2PEvent(p2p.target, hints)>> \in Seq(Event)
    BY <2>4, <2>5 DEF Event
  <2>7. QueueInv' /\ Keeps
    BY Zenon, <1>1, <2>1, <2>6, PipingStep
  <2> QED BY <1>6, <2>1, <2>7
<1> QED BY <1>7, <1>8, <1>9, <1>10 DEF P2PWorker

(***************************************************************************)
(* Every step keeps the follower as it should be                           *)
(***************************************************************************)

\* The idle states of the loops.
LEMMA IdleLoops ==
  /\ FollowIdle \in FollowType /\ FollowIdle.pc = "idle"
  /\ CatchupIdle \in [pc : {"idle", "run", "fetch"}, da : Nat, prio : BOOLEAN]
  /\ CatchupRun \in [pc : {"idle", "run", "fetch"}, da : Nat, prio : BOOLEAN]
  /\ CatchupIdle.pc = "idle" /\ CatchupRun.pc = "run"
<1>1. FollowIdle \in FollowType /\ FollowIdle.pc = "idle"
  <2>1. {} \in SUBSET (Kinds \X Blocks)
    OBVIOUS
  <2>2. FollowIdle \in FollowType
    BY <2>1 DEF FollowIdle, FollowType
  <2>3. FollowIdle.pc = "idle"
    BY DEF FollowIdle
  <2> QED BY <2>2, <2>3
<1>2. CatchupIdle \in [pc : {"idle", "run", "fetch"}, da : Nat, prio : BOOLEAN]
  BY DEF CatchupIdle
<1>3. CatchupRun \in [pc : {"idle", "run", "fetch"}, da : Nat, prio : BOOLEAN]
  BY DEF CatchupRun
<1>4. CatchupIdle.pc = "idle" /\ CatchupRun.pc = "run"
  BY Zenon DEF CatchupIdle, CatchupRun
<1> QED BY Zenon, <1>1, <1>2, <1>3, <1>4

LEMMA FollowIdles ==
  ASSUME setup' = setup, follow' = FollowIdle
  PROVE  FollowInv'
<1>1. FollowType' = FollowType
  BY Zenon, SetupStays DEF FollowType
<1>2. FollowIdle \in FollowType /\ FollowIdle.pc = "idle"
  BY IdleLoops
<1> QED BY <1>1, <1>2 DEF FollowInv

\* Over whole blocks the blobs of a DA height complete a block.
LEMMA WholeCompletes ==
  ASSUME setup \in Setups, Aligned, NEW d \in Positive, BlobsAt(d) # {}
  PROVE  Completes(BlobsAt(d))
<1>1. PICK x \in BlobsAt(d) : TRUE
  OBVIOUS
<1>2. x \in Kinds \X Blocks
  BY DEF BlobsAt
<1>3. PICK k \in Kinds, h \in Blocks : x = <<k, h>>
  BY SMTT(30), <1>2
<1>4. setup.headerAt[h] \in Positive /\ setup.dataAt[h] \in {0, setup.headerAt[h]}
  BY SetupFacts DEF Aligned
<1>5. d = IF k = "header" THEN setup.headerAt[h] ELSE setup.dataAt[h]
  BY Zenon, <1>1, <1>3 DEF BlobsAt
<1>6. d = setup.headerAt[h]
  BY Zenon, <1>4, <1>5 DEF Positive
<1>7. <<"header", h>> \in BlobsAt(d)
  BY Zenon, <1>6 DEF BlobsAt, Kinds
<1>8. Empty(h) \/ <<"data", h>> \in BlobsAt(d)
  BY Zenon, <1>4, <1>6 DEF BlobsAt, Kinds, Empty
<1> QED BY <1>7, <1>8 DEF Completes

LEMMA FollowStep ==
  ASSUME DiskInv, QueueInv, LoopInv, FollowLoop
  PROVE  QueueInv' /\ LoopInv' /\ Keeps
<1>1. /\ setup' = setup /\ inHand' = inHand /\ height' = height /\ prio' = prio
      /\ daHead' = daHead
  BY Zenon DEF FollowLoop, hand, disk
<1>2. /\ Event' = Event /\ Blocks' = Blocks /\ Aligned' = Aligned
      /\ Namespaces' = Namespaces /\ FollowType' = FollowType
      /\ \A d : BlobsAt(d)' = BlobsAt(d)
  BY Zenon, <1>1, SetupStays DEF FollowType
<1>3. /\ daHead \in Nat /\ setup \in Setups
      /\ local \in Positive /\ prio \subseteq Positive /\ sub \in [Namespaces -> Positive]
      /\ setup.split \in BOOLEAN /\ setup.inline \in BOOLEAN
  BY ZenonT(40), SetupFacts DEF DiskInv, LoopInv, CountInv
<1>4. ASSUME UNCHANGED pipe PROVE QueueInv' /\ Keeps
  BY <1>1, <1>2, <1>4 DEF QueueInv, pipe, Keeps, InPipeline
<1>5. ASSUME UNCHANGED retriever PROVE KeptInv'
  BY <1>2, <1>5 DEF LoopInv, KeptInv, retriever
<1>6. ASSUME UNCHANGED catchup PROVE FetchInv'
  BY Zenon, <1>6 DEF LoopInv, FetchInv
<1>7. ASSUME local' \in Positive, sub' \in [Namespaces -> Positive] PROVE CountInv'
  BY <1>1, <1>2, <1>3, <1>7 DEF CountInv
<1>8. ASSUME NEW q \in {"claim", "inline", "rollback"}, follow.pc # "idle",
             Aligned => q # "rollback", follow' = [follow EXCEPT !.pc = q]
      PROVE  FollowInv'
  <2>1. follow \in FollowType
    BY DEF LoopInv, FollowInv
  <2>2. follow' \in FollowType
    BY <1>8, <2>1 DEF FollowType
  <2>3. follow'.pc = q /\ follow'.da = follow.da /\ follow'.blobs = follow.blobs
    BY Zenon, <1>8, <2>1 DEF FollowType
  <2> QED BY Zenon, <1>1, <1>2, <1>8, <2>2, <2>3 DEF LoopInv, FollowInv
<1>9. ASSUME NEW ns \in Namespaces, FollowEvent(ns)
      PROVE  QueueInv' /\ LoopInv' /\ Keeps
  <2>1. /\ sub' = [sub EXCEPT ![ns] = @ + 1] /\ sub[ns] <= daHead
        /\ UNCHANGED <<catchup, local, retriever, pipe>>
    BY Zenon, <1>9 DEF FollowEvent
  <2>2. sub' \in [Namespaces -> Positive]
    BY <1>3, <2>1 DEF Positive
  <2>3. PICK d \in 1..daHead : d = sub[ns]
    BY <1>3, <2>1 DEF Positive
  <2>4. FollowInv'
    <3>1. CASE BlobsIn(ns, d) = {}
      BY <1>1, <1>9, <2>3, <3>1, FollowIdles DEF FollowEvent
    <3>2. CASE BlobsIn(ns, d) # {}
      <4>1. PICK q \in {"idle", "claim", "inline", "rollback"} : q = "claim"
        BY Zenon
      <4>2. follow' = [pc |-> q, da |-> d, blobs |-> BlobsIn(ns, d)]
        BY Zenon, <1>9, <2>3, <3>2, <4>1 DEF FollowEvent
      <4>3. /\ BlobsIn(ns, d) \subseteq BlobsAt(d) /\ setup.inline
            /\ Aligned => BlobsIn(ns, d) = BlobsAt(d)
        BY Zenon, <3>2 DEF BlobsIn, Aligned
      <4>4. BlobsAt(d) \subseteq Kinds \X Blocks
        BY Zenon DEF BlobsAt
      <4>5. follow' \in FollowType
        BY <4>2, <4>3, <4>4, <1>3 DEF FollowType
      <4>6. follow'.pc = q /\ follow'.da = d /\ follow'.blobs = BlobsIn(ns, d)
        BY Zenon, <4>2
      <4> QED BY Zenon, <1>1, <1>2, <3>2, <4>1, <4>3, <4>5, <4>6 DEF FollowInv
    <3> QED BY ZenonT(40), <3>1, <3>2
  <2> QED BY Zenon, <1>3, <1>4, <1>5, <1>6, <1>7, <2>1, <2>2, <2>4 DEF LoopInv
<1>10. CASE FollowClaim
  <2>1. follow.pc = "claim" /\ UNCHANGED <<sub, catchup, retriever, pipe>>
    BY <1>10 DEF FollowClaim
  <2>2. local' \in Positive
    BY <1>3, <1>10 DEF FollowClaim, Positive
  <2>3. FollowInv'
    <3>1. CASE local = follow.da
      BY <1>8, <1>10, <2>1, <3>1 DEF FollowClaim
    <3>2. CASE local # follow.da
      BY Zenon, <1>1, <1>10, <3>2, FollowIdles DEF FollowClaim
    <3> QED BY <3>1, <3>2
  <2> QED BY <1>3, <1>4, <1>5, <1>6, <1>7, <2>1, <2>2, <2>3 DEF LoopInv
<1>11. CASE FollowInline
  <2>1. /\ follow.pc = "inline" /\ ProcessBlobs(follow.blobs, follow.da)
        /\ UNCHANGED <<sub, catchup, local>>
    BY <1>11 DEF FollowInline
  <2>2. PICK d, blobs : d = follow.da /\ blobs = follow.blobs
    BY Zenon
  <2>3. /\ d \in Positive /\ blobs \subseteq BlobsAt(d) /\ blobs # {}
        /\ Aligned => blobs = BlobsAt(d)
    <3>1. follow.pc # "idle"
      BY Zenon, <2>1
    <3>2. /\ d \in 1..daHead /\ blobs \subseteq BlobsAt(d) /\ blobs # {}
          /\ Aligned => blobs = BlobsAt(d)
      BY Zenon, <2>2, <3>1 DEF LoopInv, FollowInv
    <3>3. PICK n \in Nat : n = daHead
      BY Zenon, <1>3
    <3>4. d \in 1..n
      BY Zenon, <3>2, <3>3
    <3>5. d \in Positive
      BY ONLY SMTT(30), <3>4, n \in Nat DEF Positive
    <3> QED BY Zenon, <3>2, <3>5
  <2>4. /\ headers' \subseteq Blocks /\ data' \subseteq Blocks
        /\ Aligned => headers' = {} /\ data' = {}
        /\ \E evs \in Seq(Event) : PipeAll(evs)
    <3>1. /\ headers \subseteq Blocks /\ data \subseteq Blocks
          /\ Aligned => headers = {} /\ data = {} /\ blobs = BlobsAt(d)
      BY <2>3 DEF LoopInv, KeptInv
    <3>2. ProcessBlobs(blobs, d)
      BY <2>1, <2>2
    <3> QED BY <1>3, <2>3, <3>1, <3>2, BlobsProcessed
  <2>5. QueueInv' /\ Keeps
    <3>1. PICK evs \in Seq(Event) : PipeAll(evs)
      BY <2>4
    <3> QED BY <1>1, <3>1, PipingStep
  <2>6. KeptInv'
    BY <1>2, <2>4 DEF KeptInv
  <2>7. FollowInv'
    <3>1. CASE Completes(follow.blobs)
      BY <1>1, <1>11, <3>1, FollowIdles DEF FollowInline
    <3>2. CASE ~Completes(follow.blobs)
      <4>1. ~Aligned
        BY <1>3, <2>2, <2>3, <3>2, WholeCompletes
      <4>2. follow' = [follow EXCEPT !.pc = "rollback"]
        BY Zenon, <1>11, <3>2 DEF FollowInline
      <4> QED BY ZenonT(40), <1>8, <2>1, <4>1, <4>2
    <3> QED BY <3>1, <3>2
  <2> QED BY <1>3, <1>6, <1>7, <2>1, <2>5, <2>6, <2>7 DEF LoopInv
<1>12. CASE FollowRollback
  <2>1. /\ follow.pc = "rollback" /\ local' = follow.da /\ follow' = FollowIdle
        /\ UNCHANGED <<sub, catchup, retriever, pipe>>
    BY SMTT(30), <1>12 DEF FollowRollback
  <2>2. local' \in Positive
    BY <1>3, <2>1 DEF LoopInv, FollowInv, Positive
  <2>3. FollowInv'
    BY Zenon, <1>1, <2>1, FollowIdles
  <2> QED BY <1>3, <1>4, <1>5, <1>6, <1>7, <2>1, <2>2, <2>3 DEF LoopInv
<1>13. CASE Resubscribe
  <2>1. /\ sub' = [ns \in Namespaces |-> daHead + 1] /\ follow' = follow
        /\ UNCHANGED <<catchup, local, retriever, pipe>>
    BY Zenon, <1>13 DEF Resubscribe
  <2>2. sub' \in [Namespaces -> Positive]
    BY <1>3, <2>1 DEF Positive
  <2>3. FollowInv'
    BY Zenon, <1>1, <1>2, <2>1 DEF LoopInv, FollowInv
  <2> QED BY Zenon, <1>3, <1>4, <1>5, <1>6, <1>7, <2>1, <2>2, <2>3 DEF LoopInv
<1> QED BY <1>9, <1>10, <1>11, <1>12, <1>13 DEF FollowLoop

LEMMA CatchupStep ==
  ASSUME DiskInv, QueueInv, LoopInv, CatchupLoop
  PROVE  QueueInv' /\ LoopInv' /\ Keeps
<1>1. /\ setup' = setup /\ inHand' = inHand /\ height' = height /\ daHead' = daHead
  BY Zenon DEF CatchupLoop, hand, disk
<1>2. /\ Event' = Event /\ Blocks' = Blocks /\ Aligned' = Aligned
      /\ Namespaces' = Namespaces /\ FollowType' = FollowType
      /\ \A d : BlobsAt(d)' = BlobsAt(d)
  BY Zenon, <1>1, SetupStays DEF FollowType
<1>3. /\ setup \in Setups
      /\ local \in Positive /\ prio \subseteq Positive /\ sub \in [Namespaces -> Positive]
  BY SMTT(30) DEF DiskInv, LoopInv, CountInv
<1>4. ASSUME UNCHANGED pipe PROVE QueueInv' /\ Keeps
  BY <1>1, <1>2, <1>4 DEF QueueInv, pipe, Keeps, InPipeline
<1>5. ASSUME UNCHANGED retriever PROVE KeptInv'
  BY ZenonT(40), <1>2, <1>5 DEF LoopInv, KeptInv, retriever
<1>6. ASSUME UNCHANGED follow PROVE FollowInv'
  BY <1>1, <1>2, <1>6 DEF LoopInv, FollowInv
<1>7. ASSUME local' \in Positive, prio' \subseteq Positive, sub' = sub PROVE CountInv'
  BY <1>2, <1>3, <1>7 DEF CountInv
<1>8. ASSUME catchup' = CatchupRun \/ catchup' = CatchupIdle PROVE FetchInv'
  BY <1>8, IdleLoops DEF FetchInv
<1>9. ASSUME NEW d \in Positive, NEW b \in BOOLEAN,
             catchup' = [pc |-> "fetch", da |-> d, prio |-> b]
      PROVE  FetchInv'
  <2>1. d \in Nat /\ d > 0
    BY DEF Positive
  <2>2. catchup' \in [pc : {"idle", "run", "fetch"}, da : Nat, prio : BOOLEAN]
    BY Zenon, <1>9, <2>1
  <2>3. catchup'.da = d
    BY <1>9
  <2> QED BY <2>1, <2>2, <2>3 DEF FetchInv
<1>10. CASE CatchupWake /\ UNCHANGED <<retriever, cache, pipe, faults>>
  <2>1. catchup' = CatchupRun /\ UNCHANGED <<sub, follow, local, prio>>
    BY Zenon, <1>10 DEF CatchupWake
  <2> QED BY <1>3, <1>4, <1>5, <1>6, <1>7, <1>8, <1>10, <2>1 DEF LoopInv
<1>11. CASE CatchupPriority /\ UNCHANGED <<retriever, cache, pipe, faults>>
  <2>1. PICK d \in prio : /\ catchup' = [pc |-> "fetch", da |-> d, prio |-> TRUE]
                          /\ prio' \subseteq prio
    BY Zenon, <1>11 DEF CatchupPriority
  <2>2. UNCHANGED <<sub, follow, local>>
    BY Zenon, <1>11 DEF CatchupPriority
  <2>3. FetchInv'
    BY Zenon, <1>3, <1>9, <2>1
  <2> QED BY Zenon, <1>3, <1>4, <1>5, <1>6, <1>7, <1>11, <2>1, <2>2, <2>3 DEF LoopInv
<1>12. CASE CatchupDone /\ UNCHANGED <<retriever, cache, pipe, faults>>
  <2>1. catchup' = CatchupIdle /\ prio' = {} /\ UNCHANGED <<sub, follow, local>>
    BY <1>12 DEF CatchupDone
  <2> QED BY <1>3, <1>4, <1>5, <1>6, <1>7, <1>8, <1>12, <2>1 DEF LoopInv
<1>13. CASE CatchupClaim /\ UNCHANGED <<retriever, cache, pipe, faults>>
  <2>1. /\ catchup' = [pc |-> "fetch", da |-> local, prio |-> FALSE]
        /\ local' = local + 1 /\ prio' = {} /\ UNCHANGED <<sub, follow>>
    BY Zenon, <1>13 DEF CatchupClaim
  <2>2. local' \in Positive
    BY SMTT(30), <1>3, <2>1 DEF Positive
  <2>3. FetchInv'
    BY Zenon, <1>3, <1>9, <2>1
  <2> QED BY Zenon, <1>4, <1>5, <1>6, <1>7, <1>13, <2>1, <2>2, <2>3 DEF LoopInv
<1>14. CASE CatchupFetch /\ UNCHANGED <<prio, faults>>
  <2>1. /\ catchup.pc = "fetch" /\ ProcessBlobs(BlobsAt(catchup.da), catchup.da)
        /\ catchup' = CatchupRun /\ UNCHANGED <<sub, follow, local>>
    BY Zenon, <1>14 DEF CatchupFetch
  <2>2. PICK d \in Positive : d = catchup.da
    BY <2>1 DEF LoopInv, FetchInv, Positive
  <2>3. /\ headers \subseteq Blocks /\ data \subseteq Blocks
        /\ Aligned => headers = {} /\ data = {} /\ BlobsAt(d) = BlobsAt(d)
    BY Zenon DEF LoopInv, KeptInv
  <2>4. BlobsAt(d) \subseteq BlobsAt(d) /\ ProcessBlobs(BlobsAt(d), d)
    BY Zenon, <2>1, <2>2
  <2>5. /\ headers' \subseteq Blocks /\ data' \subseteq Blocks
        /\ Aligned => headers' = {} /\ data' = {}
        /\ \E evs \in Seq(Event) : PipeAll(evs)
    BY <1>3, <2>3, <2>4, BlobsProcessed
  <2>6. QueueInv' /\ Keeps
    <3>1. PICK evs \in Seq(Event) : PipeAll(evs)
      BY <2>5
    <3> QED BY <1>1, <3>1, PipingStep
  <2>7. KeptInv'
    BY <1>2, <2>5 DEF KeptInv
  <2> QED BY Zenon, <1>3, <1>6, <1>7, <1>8, <1>14, <2>1, <2>6, <2>7 DEF LoopInv
<1>15. ASSUME Up, catchup.pc = "fetch", GiveBack PROVE local' \in Positive
  BY <1>3, <1>15 DEF GiveBack, LoopInv, FetchInv, Positive
<1>16. CASE CatchupFuture /\ UNCHANGED <<retriever, cache, pipe, prio, faults>>
  <2>1. /\ Up /\ catchup.pc = "fetch" /\ GiveBack
        /\ catchup' = CatchupRun /\ UNCHANGED <<sub, follow>>
    BY Zenon, <1>16 DEF CatchupFuture
  <2> QED BY <1>3, <1>4, <1>5, <1>6, <1>7, <1>8, <1>15, <1>16, <2>1 DEF LoopInv
<1>17. CASE CatchupError /\ UNCHANGED <<retriever, cache, pipe, prio>>
  <2>1. /\ Up /\ catchup.pc = "fetch" /\ GiveBack
        /\ catchup' = CatchupRun /\ UNCHANGED <<sub, follow>>
    BY <1>17 DEF CatchupError
  <2> QED BY <1>3, <1>4, <1>5, <1>6, <1>7, <1>8, <1>15, <1>17, <2>1 DEF LoopInv
<1> QED BY Zenon, <1>10, <1>11, <1>12, <1>13, <1>14, <1>16, <1>17 DEF CatchupLoop

(***************************************************************************)
(* The types of the pipeline and the follower                              *)
(***************************************************************************)

LEMMA FreshLoops ==
  ASSUME setup' = setup, Fresh, local' \in Positive, sub' \in [Namespaces -> Positive]
  PROVE  LoopInv'
<1>1. /\ prio' = {} /\ catchup' = CatchupIdle /\ follow' = FollowIdle
      /\ headers' = {} /\ data' = {}
  BY DEF Fresh
<1>2. Namespaces' = Namespaces
  BY SetupStays
<1>3. CountInv'
  BY Zenon, <1>1, <1>2 DEF CountInv
<1>4. FetchInv'
  BY <1>1, IdleLoops DEF FetchInv
<1>5. FollowInv'
  BY <1>1, FollowIdles
<1>6. KeptInv'
  BY Zenon, <1>1 DEF KeptInv
<1> QED BY <1>3, <1>4, <1>5, <1>6 DEF LoopInv

LEMMA Cancelled ==
  ASSUME DiskInv, PipeInv, LoopInv, CancelWorkers
  PROVE  PipeInv' /\ LoopInv'
<1>1. /\ setup' = setup /\ UNCHANGED <<height, chan, pending, prio, local, headers, data, sub>>
      /\ catchup' = CatchupIdle /\ follow' = FollowIdle /\ p2p' = P2PIdle
      /\ DoneWithEvent \/ UNCHANGED <<inHand, stage>>
  BY Zenon DEF CancelWorkers, disk, pipe, retriever, hand
<1>2. Event' = Event /\ Namespaces' = Namespaces /\ Blocks' = Blocks /\ Aligned' = Aligned
  BY Zenon, <1>1, SetupStays
<1>3. QueueInv'
  BY Zenon, <1>1, <1>2 DEF PipeInv, QueueInv
<1>4. HandInv'
  BY Zenon, <1>1, <1>2 DEF PipeInv, HandInv, DoneWithEvent
<1>5. P2PInv'
  <2>1. PICK r \in [pc : {"idle", "get", "wait"}, target : Nat] : r = P2PIdle
    BY Zenon DEF P2PIdle
  <2>2. P2PIdle.pc = "idle"
    BY Zenon DEF P2PIdle
  <2> QED BY Zenon, <1>1, <2>1, <2>2 DEF P2PInv
<1>6. CountInv' /\ KeptInv'
  BY Zenon, <1>1, <1>2 DEF LoopInv, CountInv, KeptInv
<1>7. FetchInv'
  BY <1>1, IdleLoops DEF FetchInv
<1>8. FollowInv'
  BY <1>1, FollowIdles
<1> QED BY Zenon, <1>3, <1>4, <1>5, <1>6, <1>7, <1>8 DEF PipeInv, LoopInv

\* The hints of the next block are DA heights.
LEMMA ProcessRest ==
  ASSUME DiskInv, PipeInv, LoopInv, ProcessLoop, setup' = setup
  PROVE  P2PInv' /\ LoopInv'
<1>1. UNCHANGED <<local, headers, data, sub, catchup, follow, daHead>>
  BY Zenon, ProcessSteps DEF follower, retriever, loops
<1>2. Namespaces' = Namespaces /\ Blocks' = Blocks /\ Aligned' = Aligned
      /\ FollowType' = FollowType /\ \A d : BlobsAt(d)' = BlobsAt(d)
  BY Zenon, SetupStays DEF FollowType
<1>3. KeptInv' /\ FetchInv'
  BY SMTT(30), <1>1, <1>2 DEF LoopInv, KeptInv, FetchInv
<1>4. FollowInv'
  BY <1>1, <1>2 DEF LoopInv, FollowInv
<1>5. CASE BeginSync
  <2>1. QueueHints(inHand) /\ CancelP2PWait(inHand.height) /\ stage = "counted"
    BY Zenon, <1>5 DEF BeginSync
  <2>2. inHand.hints \subseteq Kinds \X Positive
    BY Zenon, <2>1, EventFacts DEF PipeInv, HandInv
  <2>3. prio' \subseteq Positive
    BY Zenon, <2>1, <2>2 DEF QueueHints, LoopInv, CountInv
  <2>4. CountInv'
    BY <1>1, <1>2, <2>3 DEF LoopInv, CountInv
  <2>5. P2PInv'
    <3>1. CASE p2p' = p2p
      BY <3>1 DEF PipeInv, P2PInv
    <3>2. CASE p2p' = P2PIdle
      <4>1. PICK r \in [pc : {"idle", "get", "wait"}, target : Nat] : r = P2PIdle
        BY Zenon DEF P2PIdle
      <4>2. P2PIdle.pc = "idle"
        BY Zenon DEF P2PIdle
      <4> QED BY Zenon, <3>2, <4>1, <4>2 DEF P2PInv
    <3> QED BY <2>1, <3>1, <3>2 DEF CancelP2PWait
  <2> QED BY <1>3, <1>4, <2>4, <2>5 DEF LoopInv
<1>6. CASE ~BeginSync
  <2>1. UNCHANGED <<prio, p2p>>
    BY <1>6 DEF ProcessLoop, TrySyncNextBlock, CommitFails, ExecutionFails
  <2>2. CountInv' /\ P2PInv'
    BY Zenon, <1>1, <1>2, <2>1 DEF LoopInv, CountInv, PipeInv, P2PInv
  <2> QED BY SMTT(30), <1>3, <1>4, <2>2 DEF LoopInv
<1> QED BY Zenon, <1>5, <1>6

\* A step that changes neither.
LEMMA SameTypes ==
  ASSUME DiskInv, PipeInv, LoopInv, setup' = setup, height' = height,
         daHead' \in Nat, daHead <= daHead'
  PROVE  /\ UNCHANGED hand => HandInv'
         /\ UNCHANGED pipe => QueueInv'
         /\ UNCHANGED p2p => P2PInv'
         /\ UNCHANGED <<follower, prio>> => LoopInv'
<1>1. Event' = Event /\ Namespaces' = Namespaces /\ Blocks' = Blocks /\ Aligned' = Aligned
      /\ FollowType' = FollowType /\ \A d : BlobsAt(d)' = BlobsAt(d)
  BY Zenon, SetupStays DEF FollowType
<1>2. ASSUME UNCHANGED hand PROVE HandInv'
  BY SMTT(30), <1>1, <1>2 DEF hand, PipeInv, HandInv
<1>3. ASSUME UNCHANGED pipe PROVE QueueInv'
  BY <1>1, <1>3 DEF pipe, PipeInv, QueueInv
<1>4. ASSUME UNCHANGED p2p PROVE P2PInv'
  BY <1>4 DEF PipeInv, P2PInv
<1>5. ASSUME UNCHANGED <<follower, prio>> PROVE LoopInv'
  <2>1. UNCHANGED <<local, headers, data, sub, catchup, follow, prio>>
    BY Zenon, <1>5 DEF follower, retriever, loops
  <2>2. CountInv' /\ FetchInv' /\ KeptInv'
    BY Zenon, <1>1, <2>1 DEF LoopInv, CountInv, FetchInv, KeptInv
  <2>3. \A d \in 1..daHead : d \in 1..daHead'
    BY SMTT(30) DEF DiskInv
  <2>4. FollowInv'
    BY ZenonT(30), <1>1, <2>1, <2>3 DEF LoopInv, FollowInv
  <2> QED BY Zenon, <2>2, <2>4 DEF LoopInv
<1> QED BY Zenon, <1>2, <1>3, <1>4, <1>5

=============================================================================
