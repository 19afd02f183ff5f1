--------------------------- MODULE BlockProducer ---------------------------
(***************************************************************************)
(* Block production by an aggregator (block/internal/executing/executor.go *)
(* and pending.go) together with the three things it drives: the           *)
(* sequencer's queue it takes batches from, the execution layer, which is  *)
(* another process, and the optional raft cluster.                         *)
(*                                                                         *)
(* ProduceBlock is cut at every point where a crash leaves a different     *)
(* durable state, and initializeState at the points where it can fail.     *)
(* The chain starts at InitialHeight = 1.                                  *)
(***************************************************************************)
EXTENDS Naturals, Sequences

CONSTANTS
  Batches,      \* non-empty batches of transactions, each submitted once
  NoTxs,        \* the empty batch
  NoBlock,      \* absence of a block
  NoHash,       \* the empty LastHeaderHash of the genesis state
  NoRaft,       \* raftNode = nil
  MaxHeight,    \* bound: blocks are produced up to this height
  MaxTime,      \* bound: blocks created over all lives of the node
  MaxFaults     \* bound: crashes, failed calls and stop requests

ASSUME ConstantsAssumption ==
  /\ NoTxs \notin Batches
  /\ MaxHeight \in Nat /\ MaxTime \in Nat /\ MaxFaults \in Nat

VARIABLES
  blocks,      \* store: committed blocks, blocks[h] at height h
  pending,     \* store: metadata pending_header and pending_data
  queue,       \* sequencer: batches waiting
  submitted,   \* batches the reaper has handed to the sequencer
  execLog,     \* execution layer: payloads executed so far, its state root
  raft,        \* raft FSM: the last block state the cluster agreed on
  flushes,     \* the execution layer flushes a block before it answers
  pc,          \* where the executor is in Start, ProduceBlock or Stop
  halting,     \* the executor's context is cancelled
  cur,         \* ProduceBlock: header and data being produced
  hasPending,  \* Executor.hasPendingBlock
  lastState,   \* Executor.lastState (and lastBlockInfo)
  gossip,      \* what went out over P2P: <<kind, header hash>>
  clock,       \* time of the latest batch
  faults       \* faults so far

store == <<blocks, pending>>
env   == <<queue, submitted, clock, flushes>>
vars  == <<blocks, pending, queue, submitted, execLog, raft, flushes, pc, halting,
           cur, hasPending, lastState, gossip, clock, faults>>

Payloads == [txs : Batches \cup {NoTxs}, time : Nat]
Hashes   == [height : Nat, txs : Batches \cup {NoTxs}, time : Nat]
Blocks   == [height : Nat, txs : Batches \cup {NoTxs}, time : Nat,
             app : Seq(Payloads), last : Hashes \cup {NoHash}]
States   == [height : Nat, app : Seq(Payloads), last : Hashes \cup {NoHash}]

\* What execution and hashing see of a block.
Payload(b) == [txs |-> b.txs, time |-> b.time]
Hash(b)    == [height |-> b.height, txs |-> b.txs, time |-> b.time]

\* The state root after executing the blocks s, as the history it commits to.
Root(s) == [i \in 1..Len(s) |-> Payload(s[i])]

\* types.State after the blocks s (NextState folded over s).
StateAfter(s) ==
  [height |-> Len(s), app |-> Root(s),
   last |-> IF Len(s) = 0 THEN NoHash ELSE Hash(s[Len(s)])]

UseRaft == raft # NoRaft

\* Raft has agreed on a block.
RaftAgreed == raft \notin {NoRaft, NoBlock}

RaftHeight == IF RaftAgreed THEN raft.height ELSE 0

TypeOK ==
  /\ blocks \in Seq(Blocks)
  /\ pending \in Blocks \cup {NoBlock}
  /\ queue \in Seq(Batches)
  /\ submitted \subseteq Batches
  /\ execLog \in Seq(Payloads)
  /\ raft \in Blocks \cup {NoBlock, NoRaft}
  /\ flushes \in BOOLEAN
  /\ pc \in {"down", "boot", "sync", "idle", "create", "saved", "apply",
             "sign", "propose", "commit", "header", "data"}
  /\ halting \in BOOLEAN
  /\ cur \in Blocks \cup {NoBlock}
  /\ hasPending \in BOOLEAN
  /\ lastState \in States
  /\ gossip \subseteq ({"header", "data"} \X Hashes)
  /\ clock \in Nat
  /\ faults \in Nat

Init ==
  /\ blocks = <<>> /\ pending = NoBlock
  /\ queue = <<>> /\ submitted = {}
  /\ execLog = <<>> /\ raft \in {NoBlock, NoRaft} /\ flushes \in BOOLEAN
  /\ pc = "down" /\ halting = FALSE /\ cur = NoBlock
  /\ hasPending = FALSE /\ lastState = StateAfter(<<>>)
  /\ gossip = {} /\ clock = 0 /\ faults = 0

(***************************************************************************)
(* The sequencer and the execution layer                                   *)
(***************************************************************************)

\* The reaper hands a batch to the sequencer.
SubmitBatch ==
  \E b \in Batches \ submitted :
    /\ queue' = Append(queue, b)
    /\ submitted' = submitted \cup {b}
    /\ UNCHANGED <<store, execLog, raft, pc, halting, cur, hasPending,
                   lastState, gossip, clock, flushes, faults>>

\* GetNextBatch as RetrieveBatch sees it: the head of the queue, or an empty
\* batch, which is a batch too (ErrNoTransactionsInBatch does not stop the
\* block).
NextTxs == IF queue = <<>> THEN NoTxs ELSE Head(queue)

\* Slip: the batch is handed out and stays in the queue.
QueueNotShortened == queue

RestOfQueue == IF queue = <<>> THEN queue ELSE Tail(queue)

\* Slip: the execution layer takes any block.
ExecAcceptsAny(b, prevRoot) == Len(prevRoot) >= 0 /\ b.height >= 1

\* CosmosExecutor.ExecuteTxs runs a block only on top of the root the caller
\* names and only at the height after its last one.
ExecAccepts(b, prevRoot) ==
  /\ execLog = prevRoot
  /\ b.height = Len(execLog) + 1

(***************************************************************************)
(* Start: initializeState and the replayer                                 *)
(***************************************************************************)

\* Start, down to the raft checks: the state is read from the store.
Boot ==
  /\ pc = "down"
  /\ pc' = "boot" /\ halting' = FALSE /\ cur' = NoBlock /\ hasPending' = FALSE
  /\ UNCHANGED <<store, env, execLog, raft, lastState, gossip, faults>>

\* The local tip may not be ahead of raft, nor differ from it.
RaftAllowsStart ==
  RaftAgreed =>
    /\ Len(blocks) <= raft.height
    /\ Len(blocks) = raft.height => Hash(blocks[Len(blocks)]) = Hash(raft)

\* lastState is loaded, hasPendingBlock is set from the store.
LoadState ==
  /\ pc = "boot" /\ RaftAllowsStart
  /\ lastState' = StateAfter(blocks)
  /\ hasPending' = (pending # NoBlock)
  /\ pc' = "sync"
  /\ UNCHANGED <<store, env, execLog, raft, halting, cur, gossip, faults>>

\* The height SyncToHeight is called with: raft's if the node is behind it.
SyncTarget == IF RaftHeight > Len(blocks) THEN RaftHeight ELSE Len(blocks)

\* SyncToHeight returns without looking at the execution layer at genesis.
SyncSkipped ==
  /\ pc = "sync" /\ SyncTarget < 1
  /\ pc' = "idle"
  /\ UNCHANGED <<store, env, execLog, raft, halting, cur, hasPending,
                 lastState, gossip, faults>>

SyncInSync ==
  /\ pc = "sync" /\ SyncTarget >= 1 /\ Len(execLog) = SyncTarget
  /\ pc' = "idle"
  /\ UNCHANGED <<store, env, execLog, raft, halting, cur, hasPending,
                 lastState, gossip, faults>>

\* Slip: an execution layer that is ahead is left alone.
SyncRollbackForgotten ==
  /\ pc = "sync" /\ SyncTarget >= 1 /\ Len(execLog) > SyncTarget
  /\ pc' = "idle"
  /\ UNCHANGED <<store, env, execLog, raft, halting, cur, hasPending,
                 lastState, gossip, faults>>

\* The execution layer is ahead: it rolls back to the target.
SyncRollback ==
  /\ pc = "sync" /\ SyncTarget >= 1 /\ Len(execLog) > SyncTarget
  /\ execLog' = SubSeq(execLog, 1, SyncTarget)
  /\ pc' = "idle"
  /\ UNCHANGED <<store, env, raft, halting, cur, hasPending, lastState,
                 gossip, faults>>

\* The execution layer is behind: replayBlock, one block at a time.
SyncReplay ==
  LET b == blocks[Len(execLog) + 1] IN
  /\ pc = "sync" /\ Len(execLog) < SyncTarget
  /\ SyncTarget <= Len(blocks)
  /\ ExecAccepts(b, Root(SubSeq(blocks, 1, Len(execLog))))
  /\ execLog' = Append(execLog, Payload(b))
  /\ UNCHANGED <<store, env, raft, pc, halting, cur, hasPending, lastState,
                 gossip, faults>>

\* "block not found in store (store may be behind Raft consensus)": Start
\* fails, Stop finds the flag as LoadState left it.
SyncImpossible ==
  /\ pc = "sync" /\ Len(execLog) < SyncTarget /\ SyncTarget > Len(blocks)
  /\ pc' = "down"
  /\ pending' = IF hasPending THEN pending ELSE NoBlock
  /\ UNCHANGED <<blocks, env, execLog, raft, halting, cur, hasPending,
                 lastState, gossip, faults>>

(***************************************************************************)
(* ProduceBlock                                                            *)
(***************************************************************************)

\* The checks at the top: context alive, and the next height.
MayProduce ==
  /\ pc = "idle" /\ ~halting
  /\ lastState.height < MaxHeight

\* getPendingBlock found a block for the next height.
PendingUsable ==
  /\ hasPending
  /\ pending # NoBlock
  /\ pending.height = lastState.height + 1

UsePending ==
  /\ MayProduce /\ PendingUsable
  /\ cur' = pending
  /\ pc' = "saved"
  /\ UNCHANGED <<store, env, execLog, raft, halting, hasPending, lastState,
                 gossip, faults>>

\* CreateBlock: genesis time at the initial height, else the batch's time.
CreateBlock(txs, time) ==
  [height |-> lastState.height + 1, txs |-> txs,
   time |-> IF lastState.height = 0 THEN 0 ELSE time,
   app |-> lastState.app, last |-> lastState.last]

\* RetrieveBatch and CreateBlock: the batch leaves the sequencer's queue and
\* its write-ahead log here, and exists in memory only until SavePending.
\* (The first block does not use the batch's time, so the clock stands still.)
TakeBatch ==
  /\ MayProduce /\ ~PendingUsable /\ clock < MaxTime
  /\ clock' = IF lastState.height = 0 THEN clock ELSE clock + 1
  /\ queue' = RestOfQueue
  /\ cur' = CreateBlock(NextTxs, clock + 1)
  /\ pc' = "create"
  /\ UNCHANGED <<store, submitted, flushes, execLog, raft, halting, hasPending,
                 lastState, gossip, faults>>

\* savePendingBlock writes both keys in one batch; hasPendingBlock is left
\* as it is.
SavePending ==
  /\ pc = "create"
  /\ pending' = cur
  /\ pc' = "saved"
  /\ UNCHANGED <<blocks, env, execLog, raft, halting, cur, hasPending,
                 lastState, gossip, faults>>

\* The second quorum check passes.
StartApply ==
  /\ pc = "saved"
  /\ pc' = "apply"
  /\ UNCHANGED <<store, env, execLog, raft, halting, cur, hasPending,
                 lastState, gossip, faults>>

\* ApplyBlock: the execution layer runs the block and answers.
ApplyBlock ==
  /\ pc = "apply" /\ ExecAccepts(cur, lastState.app)
  /\ execLog' = Append(execLog, Payload(cur))
  /\ pc' = "sign"
  /\ UNCHANGED <<store, env, raft, halting, cur, hasPending, lastState,
                 gossip, faults>>

\* executeTxsWithRetry runs out of attempts: a critical error, which makes
\* Components.Start stop the node.
ApplyRejected ==
  /\ pc = "apply" /\ ~ExecAccepts(cur, lastState.app)
  /\ pc' = "idle" /\ halting' = TRUE /\ cur' = NoBlock
  /\ UNCHANGED <<store, env, execLog, raft, hasPending, lastState, gossip,
                 faults>>

\* State.AssertValidSequence on the block about to be committed.  It lets the
\* first wrong header hash of a process pass, so the hash decides nothing here;
\* batch times only grow.
ValidSequence(s, b) ==
  s.last # NoHash =>
    /\ b.height = s.height + 1
    /\ b.app = s.app

\* signHeader, then AssertValidSequence.
SignHeader ==
  /\ pc = "sign" /\ ValidSequence(lastState, cur)
  /\ pc' = IF UseRaft THEN "propose" ELSE "commit"
  /\ UNCHANGED <<store, env, execLog, raft, halting, cur, hasPending,
                 lastState, gossip, faults>>

\* FSM.Apply keeps a state that is not newer than its own; Broadcast does not
\* look at the FSM's response, so the proposer cannot tell.
RaftAfter(b) ==
  IF ~RaftAgreed \/ (b.height > raft.height /\ b.time > raft.time)
    THEN b ELSE raft

Propose ==
  /\ pc = "propose"
  /\ raft' = RaftAfter(cur)
  /\ pc' = "commit"
  /\ UNCHANGED <<store, env, execLog, halting, cur, hasPending, lastState,
                 gossip, faults>>

\* batch.Commit: block, height and state in one write, then the in-memory
\* state.
Commit ==
  /\ pc = "commit"
  /\ blocks' = Append(blocks, cur)
  /\ hasPending' = FALSE
  /\ lastState' = [height |-> cur.height,
                   app |-> Append(lastState.app, Payload(cur)),
                   last |-> Hash(cur)]
  /\ pc' = "header"
  /\ UNCHANGED <<pending, env, execLog, raft, halting, cur, gossip, faults>>

\* The two P2P broadcasts, header first; a failure is logged and ignored.
BroadcastHeader ==
  /\ pc = "header"
  /\ gossip' = gossip \cup {<<"header", Hash(cur)>>}
  /\ pc' = "data"
  /\ UNCHANGED <<store, env, execLog, raft, halting, cur, hasPending,
                 lastState, faults>>

BroadcastData ==
  /\ pc = "data"
  /\ gossip' = gossip \cup {<<"data", Hash(cur)>>}
  /\ pc' = "idle" /\ cur' = NoBlock
  /\ UNCHANGED <<store, env, execLog, raft, halting, hasPending, lastState,
                 faults>>

\* Stop, once the execution loop has returned.
StopExecutor ==
  /\ pc = "idle" /\ halting
  /\ pending' = IF hasPending THEN pending ELSE NoBlock
  /\ pc' = "down"
  /\ UNCHANGED <<blocks, env, execLog, raft, halting, cur, hasPending,
                 lastState, gossip, faults>>

(***************************************************************************)
(* Faults                                                                  *)
(***************************************************************************)

Fault == faults < MaxFaults /\ faults' = faults + 1

\* The process dies; the store, the sequencer's log, the execution layer and
\* raft survive.
Crash ==
  /\ pc # "down" /\ Fault
  /\ pc' = "down" /\ cur' = NoBlock
  /\ UNCHANGED <<store, env, execLog, raft, halting, hasPending, lastState,
                 gossip>>

\* A stop request, or a critical error raised by another component.
RequestStop ==
  /\ pc \notin {"down", "boot", "sync"} /\ ~halting /\ Fault
  /\ halting' = TRUE
  /\ UNCHANGED <<store, env, execLog, raft, pc, cur, hasPending, lastState,
                 gossip>>

\* initializeState returns an error before it has looked for a pending block;
\* the node is stopped, and Stop finds hasPendingBlock false.
BootFails ==
  /\ pc = "boot" /\ Fault
  /\ pending' = NoBlock
  /\ pc' = "down"
  /\ UNCHANGED <<blocks, env, execLog, raft, halting, cur, hasPending,
                 lastState, gossip>>

\* ProduceBlock returns an error: the block could not be created or saved,
\* quorum was lost, the signer failed, raft refused, the write failed.
\* The execution loop logs it and carries on at the next tick.
StepFails ==
  /\ \/ pc \in {"create", "sign", "commit"}
     \/ pc \in {"saved", "propose"} /\ UseRaft
  /\ Fault
  /\ pc' = "idle" /\ cur' = NoBlock
  /\ UNCHANGED <<store, env, execLog, raft, halting, hasPending, lastState,
                 gossip>>

\* Broadcast reports a timeout for an entry raft goes on to apply.
ProposeTimesOut ==
  /\ pc = "propose" /\ Fault
  /\ raft' = RaftAfter(cur)
  /\ pc' = "idle" /\ cur' = NoBlock
  /\ UNCHANGED <<store, env, execLog, halting, hasPending, lastState, gossip>>

\* The execution layer cannot be reached for all attempts: critical.
ExecUnreachable ==
  /\ pc = "apply" /\ Fault
  /\ pc' = "idle" /\ halting' = TRUE /\ cur' = NoBlock
  /\ UNCHANGED <<store, env, execLog, raft, hasPending, lastState, gossip>>

\* The execution layer runs the block but the answer is lost; the executor
\* will call it again with the same block.
ExecAnswerLost ==
  /\ pc = "apply" /\ ExecAccepts(cur, lastState.app) /\ Fault
  /\ execLog' = Append(execLog, Payload(cur))
  /\ UNCHANGED <<store, env, raft, pc, halting, cur, hasPending, lastState,
                 gossip>>

\* The execution layer comes back without its last block (one that does not
\* flush every block before it answers).
ExecLosesBlock ==
  /\ ~flushes /\ execLog # <<>> /\ Fault
  /\ execLog' = SubSeq(execLog, 1, Len(execLog) - 1)
  /\ UNCHANGED <<store, env, raft, pc, halting, cur, hasPending, lastState,
                 gossip>>

\* A broadcast fails and is skipped.
BroadcastFails ==
  /\ pc \in {"header", "data"} /\ Fault
  /\ pc' = IF pc = "header" THEN "data" ELSE "idle"
  /\ cur' = IF pc = "header" THEN cur ELSE NoBlock
  /\ UNCHANGED <<store, env, execLog, raft, halting, hasPending, lastState,
                 gossip>>

Steps ==
  \/ Boot \/ LoadState
  \/ SyncSkipped \/ SyncInSync \/ SyncRollback \/ SyncReplay \/ SyncImpossible
  \/ UsePending \/ TakeBatch \/ SavePending \/ StartApply \/ ApplyBlock
  \/ ApplyRejected \/ SignHeader \/ Propose \/ Commit
  \/ BroadcastHeader \/ BroadcastData \/ StopExecutor

Faults ==
  \/ Crash \/ RequestStop \/ BootFails \/ StepFails \/ ProposeTimesOut
  \/ ExecUnreachable \/ ExecAnswerLost \/ ExecLosesBlock \/ BroadcastFails

Next == SubmitBatch \/ Steps \/ Faults

Spec == Init /\ [][Next]_vars

\* The block timer keeps firing, the goroutine runs, and a node that has
\* stopped is started again.
FairSpec == Spec /\ WF_vars(Steps)

(***************************************************************************)
(* Properties                                                              *)
(***************************************************************************)

\* The execution layer's history is the committed chain, possibly short of
\* some blocks or ahead by the one block that ProduceBlock executed and did
\* not commit (executor.go 536 to 604). Replay and rollback can only repair
\* a history of that shape.
ExecFollowsChain ==
  /\ Len(execLog) <= Len(blocks) + 1
  /\ \A i \in 1..Len(execLog) :
       i <= Len(blocks) => execLog[i] = Payload(blocks[i])

\* Every committed block sits at its height, on the state root and the header
\* hash its predecessors produce: what AssertValidSequence demands of the
\* next block, kept over crashes, reused pending blocks and rollbacks.
ChainLinked ==
  \A h \in 1..Len(blocks) :
    /\ blocks[h].height = h
    /\ blocks[h].app = [i \in 1..(h - 1) |-> Payload(blocks[i])]
    /\ blocks[h].last = IF h = 1 THEN NoHash ELSE Hash(blocks[h - 1])

\* A pending block is never ahead of the next height, and one for the next
\* height was built on the current tip: after any history of crashes and
\* failed attempts a restarted node can apply it, and AssertValidSequence
\* (executor.go 555) never halts the node.
PendingFits ==
  pending # NoBlock =>
    /\ pending.height <= Len(blocks) + 1
    /\ pending.height = Len(blocks) + 1 =>
         /\ pending.app = Root(blocks)
         /\ pending.last = StateAfter(blocks).last

\* No two different blocks of one height leave the node, over raft or over
\* P2P: raft learns of a block before it is committed (executor.go 598), so a
\* lost answer must not lead to another block at that height.  It is the
\* execution layer, which has run the first one and does not forget it, that
\* refuses the other.
NoEquivocation ==
  LET sent == {g[2] : g \in gossip}
                \cup (IF RaftAgreed THEN {Hash(raft)} ELSE {}) IN
  flushes => \A a, b \in sent : a.height = b.height => a = b

\* A pending block found at start-up is the block produced at its height:
\* as long as the flag stands nothing else is committed there, and the block
\* stays in the store until then, unless a start-up fails before the flag is
\* set.
RecoveredBlockWins ==
  [][ PendingUsable =>
        /\ pending' = pending
        /\ Len(blocks') > Len(blocks) => blocks'[Len(blocks')] = pending ]_vars

\* When initializeState returns, past genesis, the execution layer stands
\* exactly at the height it was asked to reach, on the node's own history.
StartAlignsExec ==
  [][ pc = "sync" /\ pc' = "idle" /\ Len(blocks) > 0 =>
        /\ Len(execLog') = SyncTarget
        /\ \A i \in 1..Len(blocks) : execLog'[i] = Payload(blocks[i]) ]_vars

\* The committed chain with what may still be included in it.
InFlight ==
  (IF pc \in {"create", "saved", "apply", "sign", "propose", "commit"}
     THEN {cur.txs} ELSE {})
  \cup (IF pending # NoBlock /\ pending.height = Len(blocks) + 1
          THEN {pending.txs} ELSE {})

L == INSTANCE Ledger WITH
       ledger <- [h \in 1..Len(blocks) |-> blocks[h].txs],
       pool <- ({queue[i] : i \in 1..Len(queue)} \cup InFlight) \ {NoTxs}

\* Block production implements the ledger: submitted batches are committed at
\* most once, whatever is retried, recovered or replayed.
ImplementsLedger == L!LedgerSpec

\* Once the first block is committed, a node whose faults end and which is
\* restarted when it stops goes on producing blocks: no history of failures
\* leaves the store, the flag and the execution layer in a state that start-up
\* cannot repair.  (With raft one does: an executor
\* that crashes between Broadcast and Commit starts one block behind raft, and the
\* replayer has only the blocks of the store to catch up with.)
KeepsProducing == ~UseRaft /\ blocks # <<>> ~> Len(blocks) = MaxHeight
=============================================================================
