----------------------------- MODULE Sequencer -----------------------------
(***************************************************************************)
(* The single sequencer (pkg/sequencers/single) and the based sequencer    *)
(* (pkg/sequencers/based): batches are made of the transactions that users *)
(* force through the DA layer and, for the single sequencer, of those that *)
(* wait in its queue.  The executor saves a batch as pending block and     *)
(* commits it; the submitter may set the sequencer's DA height when the    *)
(* first block becomes final.                                              *)
(*                                                                         *)
(* GetNextBatch is cut where it has written to the database.  A forced     *)
(* transaction is <<DA height, index>>; time is counted in milliseconds.   *)
(***************************************************************************)
EXTENDS Integers, Sequences, SequencesExt, Epochs

CONSTANT Setups   \* the nodes and surroundings that are looked at

\* What differs between setups: the kind of sequencer (the based one has no
\* queue); genesis.DAStartHeight, 0 if it is known only once a block is on DA,
\* and genesis.DAEpochForcedInclusion; the transactions that reach the queue;
\* whether forced transactions may not all fit in one block, the DA node may
\* fail to return a block, the process may die, the submitter sets the DA height
\* of the first final block; the least time between two DA blocks; and bounds
\* on the forced transactions of a DA block, on DA blocks, time and faults.
SetupType ==
  [based : BOOLEAN, daStart : {0, 1}, epochSize : Nat \ {0},
   mempool : SUBSET (Nat \X Nat), mayPostpone : BOOLEAN, mayFailFetch : BOOLEAN,
   mayCrash : BOOLEAN, submitterSets : BOOLEAN, daSpacing : Nat,
   maxForced : Nat, maxDA : Nat, maxTime : Nat, maxFaults : Nat]

ASSUME SequencerAssumption ==
  \A s \in Setups : s \in SetupType /\ (s.based => s.daStart = 1)

VARIABLES
  setup,      \* the setup of this behaviour
  da,         \* DA layer: forced transactions and time of each block
  now,        \* wall clock
  queue,      \* BatchQueue, durable, of batches of one transaction
  offered,    \* transactions handed to SubmitBatchTxs so far
  diskCkpt,   \* CheckpointStore: what was last saved
  stateDA,    \* store: State.DAHeight of the last block
  stateTime,  \* store: State.LastBlockTime
  pend,       \* store: the pending block, a sequence of at most one batch
  begun,      \* store: there is a first block
  chain,      \* store: transactions of the committed blocks
  first,      \* store: GenesisDAHeightKey, 0 if it is not set
  final,      \* store: the submitter has recorded the first block as included
  pc,         \* where GetNextBatch and ProduceBlock are
  ckpt,       \* checkpoint
  cached,     \* cachedForcedInclusionTxs, currentBatchTxs
  epochTxs,   \* currentEpochTxCount
  endTime,    \* currentDAEndTime
  seqDA,      \* Sequencer.daHeight
  catchUp,    \* catchUpState
  fiStart,    \* daStartHeight of the forced inclusion retriever
  head,       \* DA height when this life looked for missed epochs
  cur,        \* GetNextBatch: DA height in hand, queue transactions, the batch
  given,      \* forced transactions handed out so far, in order
  faults      \* crashes and failed fetches so far

disk == <<diskCkpt, stateDA, stateTime, pend, begun, chain, first, final>>
mem  == <<ckpt, cached, epochTxs, endTime, seqDA, catchUp, fiStart, head>>
env  == <<da, now, queue, offered>>
vars == <<setup, env, disk, pc, mem, cur, given, faults>>

Based     == setup.based
DAStart   == setup.daStart
EpochSize == setup.epochSize

NoCkpt == [da |-> 0, idx |-> 0]
NoCur  == [da |-> 0, mem |-> <<>>, txs |-> <<>>, time |-> 0]

\* The forced transactions of a range of DA blocks, in DA order.
TxsOf(h) == [i \in 1..da[h].n |-> <<h, i>>]
ForcedIn(lo, hi) ==
  FoldLeft(LAMBDA acc, h : acc \o TxsOf(h), <<>>, [i \in 1..(hi - lo + 1) |-> lo + i - 1])

\* The forced transactions a checkpoint says are dealt with: those of the
\* finished epochs, then the first idx of the epoch it is in.
ForcedBefore(c) ==
  LET start == EpochStart(c.da, fiStart, EpochSize)
      done  == IF start - 1 <= Len(da) THEN start - 1 ELSE Len(da)
      epoch == IF c.idx = 0 THEN <<>>
               ELSE ForcedIn(start, EpochEnd(c.da, fiStart, EpochSize))
  IN  ForcedIn(fiStart, done) \o SubSeq(epoch, 1, c.idx)

TypeOK ==
  /\ setup \in Setups
  /\ da \in Seq([n : 0..setup.maxForced, time : 0..setup.maxTime])
  /\ now \in 0..setup.maxTime
  /\ ToSet(queue) \subseteq offered /\ offered \subseteq setup.mempool
  /\ {ckpt.da, ckpt.idx, diskCkpt.da, diskCkpt.idx, seqDA, stateDA} \subseteq Nat
  /\ pc \in {"down", "idle", "taken", "batch", "pending"}
  /\ catchUp \in {"unchecked", "inProgress", "done"}
  /\ cached = <<>> \/ ckpt.idx < Len(cached)
  /\ Len(pend) <= 1 /\ (pc = "pending" => pend # <<>>)
  /\ {first, fiStart, head} \subseteq 0..setup.maxDA + 1
  /\ begun \in BOOLEAN /\ final \in BOOLEAN /\ faults \in 0..setup.maxFaults

Init ==
  /\ setup \in Setups
  /\ da = <<>> /\ now = 0 /\ queue = <<>> /\ offered = {}
  /\ diskCkpt = NoCkpt /\ stateDA = DAStart /\ stateTime = 0
  /\ pend = <<>> /\ begun = FALSE /\ chain = <<>> /\ first = 0 /\ final = FALSE
  /\ pc = "idle"
  /\ ckpt = [da |-> DAStart, idx |-> 0] /\ cached = <<>> /\ epochTxs = 0
  /\ endTime = 0 /\ seqDA = DAStart /\ catchUp = "unchecked"
  /\ fiStart = DAStart /\ head = 0
  /\ cur = NoCur /\ given = <<>> /\ faults = 0

(***************************************************************************)
(* The world outside                                                       *)
(***************************************************************************)

\* A DA block, at the current time.
DABlock ==
  /\ Len(da) < setup.maxDA
  /\ da # <<>> => now >= Last(da).time + setup.daSpacing
  /\ \E n \in 0..setup.maxForced : da' = Append(da, [n |-> n, time |-> now])
  /\ UNCHANGED <<setup, now, queue, offered, disk, pc, mem, cur, given, faults>>

Tick ==
  /\ now < setup.maxTime
  /\ now' = now + 1
  /\ UNCHANGED <<setup, da, queue, offered, disk, pc, mem, cur, given, faults>>

\* SubmitBatchTxs of the single sequencer; the based one ignores its argument.
SubmitBatchTxs ==
  /\ ~Based /\ pc # "down"
  /\ \E t \in setup.mempool \ offered :
       /\ offered' = offered \cup {t}
       /\ queue' = Append(queue, t)
  /\ UNCHANGED <<setup, da, now, disk, pc, mem, cur, given, faults>>

\* setNodeHeightToDAHeight of the first block, which is on DA at height h.
SetDAHeight ==
  /\ setup.submitterSets /\ ~final /\ begun /\ pc # "down"
  /\ \E h \in IF first = 0 THEN 1..Len(da) ELSE {first} :
       first' = h /\ seqDA' = h
  /\ UNCHANGED <<setup, env, diskCkpt, stateDA, stateTime, pend, begun, chain,
                 final, pc, ckpt, cached, epochTxs, endTime, catchUp, fiStart, head,
                 cur, given, faults>>

\* The inclusion loop stores that the first block is included.
SaveIncluded ==
  /\ first > 0 /\ ~final /\ pc # "down"
  /\ final' = TRUE
  /\ UNCHANGED <<setup, env, diskCkpt, stateDA, stateTime, pend, begun, chain,
                 first, pc, mem, cur, given, faults>>

(***************************************************************************)
(* GetNextBatch: fetch the next epoch, take from the queue                 *)
(***************************************************************************)

\* The checkpoint init path: the DA height has become known.
Bootstrapping == seqDA > 0 /\ ckpt.da = 0

CkptAtFetch == IF Bootstrapping THEN [da |-> seqDA, idx |-> 0] ELSE ckpt

\* getInitialDAStartHeight, kept once it is known.
FiStartAtFetch == IF Bootstrapping /\ fiStart = 0 THEN first ELSE fiStart

Later(a, b) == IF a > b THEN a ELSE b

Epoch(h) == CalculateEpochNumber(h, DAStart, EpochSize)

\* updateCatchUpState: at the first fetch of a life the single sequencer looks
\* for the epochs it has missed.
Missed ==
  /\ catchUp = "unchecked"
  /\ Len(da) > CkptAtFetch.da /\ Epoch(Len(da)) > Epoch(CkptAtFetch.da)

CatchUpAtFetch ==
  IF Missed THEN "inProgress" ELSE IF catchUp = "unchecked" THEN "done" ELSE catchUp

\* The floor for the times of the catch-up blocks.
EndTimeAtFetch == IF Missed THEN Later(endTime, stateTime) ELSE endTime

\* RetrieveForcedIncludedTxs: what it may answer for a height.  Between epoch ends
\* there is nothing to retrieve, and no look at the DA; if a DA block of the epoch
\* cannot be retrieved the event has no transactions, and there is no error.
Answers(h, firstHeight, start) ==
  IF h # EpochEnd(h, start, EpochSize) THEN {[txs |-> <<>>, time |-> 0, failed |-> 0]}
  ELSE IF h > Len(da) THEN {}
  ELSE {[txs |-> ForcedIn(firstHeight, h), time |-> da[h].time, failed |-> 0]} \cup
       (IF setup.mayFailFetch /\ faults < setup.maxFaults
        THEN {[txs |-> <<>>, time |-> t, failed |-> 1] :
                t \in {0} \cup {da[g].time : g \in firstHeight..h}}
        ELSE {})

\* Slip: the epoch's transactions from the asked height only.
RetrievedLastBlock(h, start) == Answers(h, h, start)

Retrieved(h, start) == Answers(h, EpochStart(h, start, EpochSize), start)

\* ErrHeightFromFuture: the epoch is not complete.
FromFuture(h, start) == Retrieved(h, start) = {}

\* A fetch is due when the cached epoch is used up.
FetchDue == seqDA > 0 /\ (cached = <<>> \/ CkptAtFetch.idx >= Len(cached))

FirstBatch(q) == IF q = <<>> THEN <<>> ELSE <<Head(q)>>

\* queue.Next, or nothing during catch-up.
FromQueue(q) == IF catchUp' = "inProgress" THEN <<>> ELSE FirstBatch(q)

\* The DA height and the batch of the queue that GetNextBatch has in hand.
InHand(h) == cur' = [NoCur EXCEPT !.da = h, !.mem = FromQueue(queue)]

\* fetchNextDAEpoch: the epoch is cached, with the time of its end.
FetchEpoch ==
  /\ FetchDue
  /\ \E e \in Retrieved(CkptAtFetch.da, FiStartAtFetch) :
       /\ cached' = e.txs /\ epochTxs' = Len(e.txs)
       /\ endTime' = Later(EndTimeAtFetch, e.time)
       /\ faults' = faults + e.failed
  /\ catchUp' = CatchUpAtFetch
  /\ InHand(CkptAtFetch.da)

\* An epoch from the future ends the catch-up.
FetchFuture ==
  /\ FetchDue /\ FromFuture(CkptAtFetch.da, FiStartAtFetch)
  /\ catchUp' = "done"
  /\ endTime' = EndTimeAtFetch
  /\ InHand(0)
  /\ UNCHANGED <<cached, epochTxs, faults>>

NoFetch ==
  /\ ~FetchDue
  /\ UNCHANGED <<cached, epochTxs, endTime, catchUp, faults>>
  /\ InHand(seqDA)


\* The log entry goes with the entry in memory.
DropTaken(q) == IF cur'.mem = <<>> THEN q ELSE Tail(q)

TakeTxs ==
  /\ ~Based /\ pc = "idle"
  /\ FetchEpoch \/ FetchFuture \/ NoFetch
  /\ ckpt' = CkptAtFetch /\ fiStart' = FiStartAtFetch
  /\ head' = IF FetchDue /\ catchUp = "unchecked" THEN Len(da) ELSE head
  /\ queue' = DropTaken(queue)
  /\ pc' = "taken"
  /\ UNCHANGED <<setup, da, now, offered, disk, seqDA, given>>

\* fetchNextDAEpoch of the based sequencer: an epoch from the future leaves it
\* where it is, without a DA height in hand.
BasedFetch ==
  \/ /\ FromFuture(ckpt.da, fiStart)
     /\ cur' = NoCur
     /\ UNCHANGED <<cached, epochTxs, endTime, faults>>
  \/ \E e \in Retrieved(ckpt.da, fiStart) :
       /\ cached' = e.txs /\ epochTxs' = Len(e.txs) /\ endTime' = Later(endTime, e.time)
       /\ faults' = faults + e.failed
       /\ cur' = [NoCur EXCEPT !.da = ckpt.da]

\* GetNextBatch of the based sequencer up to the filter: DA is its only queue.
BasedTakeTxs ==
  /\ Based /\ pc = "idle"
  /\ IF cached = <<>> \/ ckpt.idx >= Len(cached) THEN BasedFetch
     ELSE /\ cur' = [NoCur EXCEPT !.da = seqDA]
          /\ UNCHANGED <<cached, epochTxs, endTime, faults>>
  /\ pc' = "taken"
  /\ UNCHANGED <<setup, env, disk, ckpt, seqDA, catchUp, fiStart, head, given>>

(***************************************************************************)
(* GetNextBatch: filter, return to the queue, save the checkpoint          *)
(***************************************************************************)

Forced == SubSeq(cached, ckpt.idx + 1, Len(cached))

\* How many of the forced transactions the filter lets through: the first one
\* fits into a block, later ones may have to wait.
Admitted ==
  IF Forced = <<>> THEN {0}
  ELSE IF setup.mayPostpone THEN 1..Len(Forced) ELSE {Len(Forced)}

\* The checkpoint after k more transactions, at DA height h.
Consumed(c, k, h) ==
  IF c.idx + k >= Len(cached) THEN [da |-> h + 1, idx |-> 0]
  ELSE [c EXCEPT !.idx = c.idx + k]

Touched == cur.da > 0 \/ Forced # <<>>
EpochDone(k) == Touched /\ ckpt.idx + k >= Len(cached)

\* Slip: the index counts after the reset.
TimeAfterReset(k) ==
  endTime - epochTxs + (IF EpochDone(k) THEN 0 ELSE ckpt.idx + k)

\* Batches are spread over the last milliseconds of their epoch; the index is taken
\* before the reset, so that the last one has the epoch's end time.
DATime(k) == endTime - epochTxs + (IF Touched THEN ckpt.idx + k ELSE 0)

\* A batch with forced transactions, or of a catch-up, is dated by the DA.
BatchTime(k) == IF catchUp = "inProgress" \/ k > 0 THEN DATime(k) ELSE now

\* Prepend: a postponed transaction is the next one of the queue.
Returned(q, fits) == IF fits THEN q ELSE cur.mem \o q

\* CheckpointStore.Save
Save(c) == diskCkpt' = c

\* The checkpoint is moved past k transactions and saved; an epoch that is used up
\* leaves the cache, and the sequencer moves on to the next height.
Advance(k) ==
  /\ ckpt' = IF Touched THEN Consumed(ckpt, k, cur.da) ELSE ckpt
  /\ IF Touched THEN Save(ckpt') ELSE UNCHANGED diskCkpt
  /\ cached' = IF EpochDone(k) THEN <<>> ELSE cached
  /\ seqDA' = IF EpochDone(k) THEN ckpt'.da ELSE seqDA
  /\ given' = given \o SubSeq(Forced, 1, k)

\* The batch for the executor, or ErrNoBatch.
Hand(none, txs, time) ==
  /\ pc' = IF none THEN "idle" ELSE "batch"
  /\ cur' = IF none THEN NoCur ELSE [NoCur EXCEPT !.txs = txs, !.time = time]

\* k forced transactions go into the batch, and the queue's if `fits`.
SaveCheckpoint ==
  /\ ~Based /\ pc = "taken"
  /\ \E k \in Admitted, fits \in (IF setup.mayPostpone THEN BOOLEAN ELSE {TRUE}) :
       LET txs == SubSeq(Forced, 1, k) \o (IF fits THEN cur.mem ELSE <<>>)
       IN  /\ fits \/ (k > 0 /\ cur.mem # <<>>)
           /\ queue' = Returned(queue, fits)
           /\ Advance(k)
           /\ Hand(txs = <<>> /\ catchUp = "inProgress", txs, BatchTime(k))
  /\ UNCHANGED <<setup, da, now, offered, stateDA, stateTime, pend, begun, chain,
                 first, final, epochTxs, endTime, catchUp, fiStart, head, faults>>

\* The rest of the based sequencer's GetNextBatch: there is no batch without forced
\* transactions, and every batch is dated by the DA.
BasedSaveCheckpoint ==
  /\ Based /\ pc = "taken"
  /\ \E k \in Admitted :
       LET txs == SubSeq(Forced, 1, k)
       IN  Advance(k) /\ Hand(txs = <<>>, txs, DATime(k))
  /\ UNCHANGED <<setup, env, stateDA, stateTime, pend, begun, chain, first, final,
                 epochTxs, endTime, catchUp, fiStart, head, faults>>

(***************************************************************************)
(* The executor: pending block, commit, restart                            *)
(***************************************************************************)

\* CreateBlock and savePendingBlock; the first block has the genesis time.
SavePending ==
  /\ pc = "batch"
  /\ pend' = << [txs |-> cur.txs, time |-> IF begun THEN cur.time ELSE 0] >>
  /\ pc' = "pending" /\ cur' = NoCur
  /\ UNCHANGED <<setup, env, diskCkpt, stateDA, stateTime, begun, chain, first,
                 final, mem, given, faults>>

\* The batch commit of ProduceBlock.  AssertValidSequence refuses a block dated
\* before the last one; it stays pending, and is what every later call retries.
Commit ==
  /\ pc = "pending" /\ pend[1].time >= stateTime
  /\ chain' = chain \o pend[1].txs
  /\ stateTime' = pend[1].time /\ stateDA' = seqDA
  /\ begun' = TRUE /\ pend' = <<>>
  /\ pc' = "idle"
  /\ UNCHANGED <<setup, env, diskCkpt, first, final, mem, cur, given, faults>>

Crash ==
  /\ setup.mayCrash /\ pc # "down" /\ faults < setup.maxFaults
  /\ pc' = "down"
  /\ ckpt' = NoCkpt /\ cached' = <<>> /\ epochTxs' = 0 /\ endTime' = 0
  /\ seqDA' = 0 /\ catchUp' = "unchecked" /\ fiStart' = DAStart /\ head' = 0
  /\ cur' = NoCur
  /\ faults' = faults + 1
  /\ UNCHANGED <<setup, env, disk, given>>

\* The saved checkpoint, or one at the height the sequencer starts from.
LoadCheckpoint(saved, start) ==
  IF saved # NoCkpt THEN saved ELSE [da |-> start, idx |-> 0]

\* The executor's initializeState sets the DA height and takes up a pending block.
InitializeState ==
  /\ seqDA' = stateDA
  /\ pc' = IF pend = <<>> THEN "idle" ELSE "pending"
  /\ UNCHANGED <<setup, env, disk, cached, epochTxs, endTime, catchUp, head, cur,
                 given, faults>>

NewSequencer ==
  /\ ~Based /\ pc = "down"
  /\ ckpt' = LoadCheckpoint(diskCkpt, DAStart)
  /\ fiStart' = IF DAStart # 0 THEN DAStart ELSE first
  /\ InitializeState

\* The based sequencer starts where the chain's last block left off, whichever
\* sequencer made it.
NewBasedSequencer ==
  /\ Based /\ pc = "down"
  /\ ckpt' = LoadCheckpoint(diskCkpt, IF stateDA > 0 THEN stateDA ELSE DAStart)
  /\ fiStart' = DAStart
  /\ InitializeState

Restart == NewSequencer \/ NewBasedSequencer

World == DABlock \/ Tick \/ SubmitBatchTxs \/ SetDAHeight \/ SaveIncluded
Step ==
  \/ TakeTxs \/ SaveCheckpoint \/ BasedTakeTxs \/ BasedSaveCheckpoint \/ SavePending
  \/ Commit \/ Restart
Next == World \/ Step \/ Crash

Spec == Init /\ [][Next]_vars

\* The execution loop calls ProduceBlock at every tick of its timer; a fetch
\* that can succeed is not answered with an error for ever.
FairSpec == Spec /\ WF_vars(Step)

(***************************************************************************)
(* Properties                                                              *)
(***************************************************************************)



\* Without a crash a transaction that the queue accepted is never lost,
\* postponement by the filter included (Prepend, sequencer.go:310).
MempoolKept ==
  ~setup.mayCrash => offered \subseteq
    ToSet(queue \o cur.mem \o cur.txs
          \o (IF pend = <<>> THEN <<>> ELSE pend[1].txs) \o chain)

\* The sequencer takes nothing from its queue before it has gone through the
\* epochs that were over when this life began ("During catch-up, only forced
\* inclusion txs are returned", sequencer.go:185).
MissedEpochsFirst == cur.mem # <<>> => Epoch(ckpt.da) >= Epoch(head)

\* A based sequencer never dates a block before the one it follows, which
\* AssertValidSequence would refuse ("for monotonically increasing timestamps",
\* based/sequencer.go:195), when DA blocks are at least as many milliseconds
\* apart as they have forced transactions.
BasedTimesMonotone ==
  Based /\ setup.daSpacing >= setup.maxForced
    => (pend # <<>> => pend[1].time >= stateTime)

\* The chain of a based sequencer has the forced transactions of every epoch
\* that is complete on the DA layer, sooner or later: those of all DA blocks
\* that can appear, once no more appear.  A crash between the checkpoint and the
\* pending block loses the transactions of one batch, so crashes are left out.
ForcedEventually ==
  Based /\ ~setup.mayCrash => []<>(\A h \in 1..Len(da) :
                  EpochEnd(h, DAStart, EpochSize) <= Len(da)
                    => ToSet(TxsOf(h)) \subseteq ToSet(chain))

\* forced_inclusion_retriever.go 224: "any error during process, need to retry
\* at next call".  So no forced transaction before the checkpoint has been
\* passed over.
NoneSkipped ==
  pc # "down" /\ ckpt.da > 0 => ToSet(ForcedBefore(ckpt)) \subseteq ToSet(given)
=============================================================================
