------------------------ MODULE BlockProducerProofs ------------------------
(***************************************************************************)
(* Proofs about BlockProducer, for every set of batches and every bound:   *)
(* the type invariant and the consistency of chain, pending block and      *)
(* execution layer over any sequence of crashes, failures and lost answers.*)
(***************************************************************************)
EXTENDS BlockProducer, TLAPS, SequenceTheorems

\* The steps of ProduceBlock at which cur is the block under construction.
Producing == {"create", "saved", "apply", "sign", "propose", "commit"}
Executed  == {"sign", "propose", "commit"}

\* In memory: after LoadState the executor's state is the store's.
StateLoaded == pc \notin {"down", "boot"} => lastState = StateAfter(blocks)

\* The block under construction extends the tip and, once saved, is the
\* pending block.
CurFits ==
  /\ pc \in Producing =>
       /\ cur \in Blocks
       /\ cur.height = Len(blocks) + 1
       /\ cur.app = Root(blocks)
       /\ cur.last = StateAfter(blocks).last
  /\ pc \in Producing \ {"create"} => pending = cur
  /\ pc \in {"header", "data"} => cur \in Blocks

\* What the execution layer has beyond the chain is the block in progress.
ExecAhead ==
  pc \in Executed /\ Len(execLog) = Len(blocks) + 1
    => execLog[Len(blocks) + 1] = Payload(cur)

IInv ==
  /\ TypeOK
  /\ StateLoaded
  /\ CurFits
  /\ ExecAhead
  /\ ExecFollowsChain
  /\ ChainLinked
  /\ PendingFits

-----------------------------------------------------------------------------

\* The state root of a chain is a sequence of payloads as long as the chain.
LEMMA RootType ==
  ASSUME NEW s \in Seq(Blocks)
  PROVE  /\ Root(s) \in Seq(Payloads)
         /\ Len(Root(s)) = Len(s)
         /\ \A i \in 1..Len(s) : Root(s)[i] = Payload(s[i])
  <1>1. Len(s) \in Nat /\ \A i \in 1..Len(s) : s[i] \in Blocks
    OBVIOUS
  <1>2. \A i \in 1..Len(s) : Payload(s[i]) \in Payloads
    BY <1>1 DEF Payload, Payloads, Blocks
  <1>3. Root(s) \in [1..Len(s) -> Payloads]
    BY <1>2 DEF Root
  <1> QED
    BY <1>1, <1>3 DEF Root

\* Executing one more block appends its payload to the root.
LEMMA RootAppend ==
  ASSUME NEW s \in Seq(Blocks), NEW b \in Blocks
  PROVE  Root(Append(s, b)) = Append(Root(s), Payload(b))
  <1>1. /\ Append(s, b) \in Seq(Blocks)
        /\ Len(Append(s, b)) = Len(s) + 1
        /\ Append(s, b)[Len(s) + 1] = b
        /\ \A i \in 1..Len(s) : Append(s, b)[i] = s[i]
    OBVIOUS
  <1>2. /\ Root(s) \in Seq(Payloads)
        /\ Len(Root(s)) = Len(s)
        /\ \A i \in 1..Len(s) : Root(s)[i] = Payload(s[i])
    BY RootType
  <1>3. /\ Root(Append(s, b)) \in Seq(Payloads)
        /\ Len(Root(Append(s, b))) = Len(s) + 1
        /\ \A i \in 1..(Len(s) + 1) :
             Root(Append(s, b))[i] = Payload(Append(s, b)[i])
    BY Zenon, <1>1, RootType
  <1>4. Payload(b) \in Payloads
    BY DEF Payload, Payloads, Blocks
  <1>5. /\ Append(Root(s), Payload(b)) \in Seq(Payloads)
        /\ Len(Append(Root(s), Payload(b))) = Len(s) + 1
        /\ Append(Root(s), Payload(b))[Len(s) + 1] = Payload(b)
        /\ \A i \in 1..Len(s) : Append(Root(s), Payload(b))[i] = Root(s)[i]
    BY <1>2, <1>4
  <1>6. \A i \in 1..(Len(s) + 1) :
          Root(Append(s, b))[i] = Append(Root(s), Payload(b))[i]
    BY <1>1, <1>2, <1>3, <1>5
  <1> QED
    BY <1>3, <1>5, <1>6, SeqEqual

\* The state after a chain has the shape of a types.State.
LEMMA StateAfterType ==
  ASSUME NEW s \in Seq(Blocks)
  PROVE  /\ StateAfter(s) \in States
         /\ StateAfter(s).height = Len(s)
         /\ StateAfter(s).app = Root(s)
  <1>1. Root(s) \in Seq(Payloads) /\ Len(s) \in Nat
    BY RootType
  <1>2. (IF Len(s) = 0 THEN NoHash ELSE Hash(s[Len(s)])) \in Hashes \cup {NoHash}
    <2>1. CASE Len(s) = 0
      BY <2>1
    <2>2. CASE Len(s) # 0
      <3>1. s[Len(s)] \in Blocks
        BY <2>2
      <3>2. Hash(s[Len(s)]) \in Hashes
        BY Zenon, <3>1 DEF Hash, Hashes, Blocks
      <3> QED
        BY <2>2, <3>2
    <2> QED
      BY <2>1, <2>2
  <1> QED
    BY <1>1, <1>2 DEF StateAfter, States

\* NextState computes the state after one more block.
LEMMA StateAfterAppend ==
  ASSUME NEW s \in Seq(Blocks), NEW b \in Blocks, b.height = Len(s) + 1
  PROVE  StateAfter(Append(s, b)) =
           [height |-> b.height, app |-> Append(Root(s), Payload(b)),
            last |-> Hash(b)]
  <1>1. /\ Len(Append(s, b)) = Len(s) + 1
        /\ Len(s) + 1 # 0
        /\ Append(s, b)[Len(s) + 1] = b
    OBVIOUS
  <1> QED
    BY ZenonT(30), <1>1, RootAppend DEF StateAfter

-----------------------------------------------------------------------------

\* A payload, a hash of a block are well typed.
LEMMA PartsType ==
  ASSUME NEW b \in Blocks
  PROVE  Payload(b) \in Payloads /\ Hash(b) \in Hashes
  BY DEF Payload, Payloads, Hash, Hashes, Blocks

\* The initial state satisfies the inductive invariant.
LEMMA InitIInv == Init => IInv
  <1> SUFFICES ASSUME Init PROVE IInv
    OBVIOUS
  <1>0. <<>> \in Seq(Blocks) /\ <<>> \in Seq(Payloads) /\ <<>> \in Seq(Batches)
    OBVIOUS
  <1>1. StateAfter(<<>>) \in States
    BY Zenon, <1>0, StateAfterType
  <1>2. TypeOK
    BY Zenon, <1>0, <1>1 DEF Init, TypeOK
  <1> QED
    BY <1>2 DEF Init, IInv, StateLoaded, CurFits, ExecAhead, ExecFollowsChain,
                ChainLinked, PendingFits, Producing, Executed

\* Taking a batch starts a block that extends the tip.
LEMMA TakeBatchIInv == IInv /\ TakeBatch => IInv'
  <1> SUFFICES ASSUME IInv, TakeBatch PROVE IInv'
    OBVIOUS
  <1> USE DEF IInv
  <1>1. lastState = StateAfter(blocks) /\ pc = "idle"
    BY DEF TakeBatch, MayProduce, StateLoaded
  <1>2. /\ lastState \in States
        /\ lastState.height = Len(blocks) /\ lastState.app = Root(blocks)
    BY <1>1, StateAfterType DEF TypeOK
  <1>3. NextTxs \in Batches \cup {NoTxs} /\ RestOfQueue \in Seq(Batches)
    BY DEF NextTxs, RestOfQueue, TypeOK
  <1>4. clock \in Nat /\ clock + 1 \in Nat
    BY DEF TypeOK
  <1>5. /\ cur' \in Blocks
        /\ cur'.height = Len(blocks) + 1
        /\ cur'.app = Root(blocks)
        /\ cur'.last = StateAfter(blocks).last
    BY <1>1, <1>2, <1>3, <1>4 DEF TakeBatch, CreateBlock, Blocks, States
  <1>6. TypeOK'
    BY SMTT(30), <1>3, <1>4, <1>5 DEF TakeBatch, store, TypeOK
  <1> QED
    BY <1>1, <1>5, <1>6
    DEF TakeBatch, store, StateLoaded, CurFits, ExecAhead, ExecFollowsChain,
        ChainLinked, PendingFits, Producing, Executed

\* Reusing the pending block continues a block that extends the tip.
LEMMA UsePendingIInv == IInv /\ UsePending => IInv'
  <1> SUFFICES ASSUME IInv, UsePending PROVE IInv'
    OBVIOUS
  <1> USE DEF IInv
  <1>1. lastState = StateAfter(blocks) /\ pc = "idle"
    BY DEF UsePending, MayProduce, StateLoaded
  <1>2. lastState.height = Len(blocks) /\ lastState.app = Root(blocks)
    BY <1>1, StateAfterType DEF TypeOK
  <1>3. /\ pending \in Blocks
        /\ pending.height = Len(blocks) + 1
        /\ pending.app = Root(blocks)
        /\ pending.last = StateAfter(blocks).last
    BY <1>2 DEF UsePending, PendingUsable, PendingFits, TypeOK
  <1>4. TypeOK'
    BY <1>3 DEF UsePending, store, env, TypeOK
  <1> QED
    BY <1>1, <1>3, <1>4
    DEF UsePending, store, env, StateLoaded, CurFits, ExecAhead,
        ExecFollowsChain, ChainLinked, PendingFits, Producing, Executed

\* Saving the block makes it the pending block.
LEMMA SavePendingIInv == IInv /\ SavePending => IInv'
  <1> SUFFICES ASSUME IInv, SavePending PROVE IInv'
    OBVIOUS
  <1> USE DEF IInv
  <1>1. /\ cur \in Blocks
        /\ cur.height = Len(blocks) + 1
        /\ cur.app = Root(blocks)
        /\ cur.last = StateAfter(blocks).last
    BY DEF SavePending, CurFits, Producing
  <1>2. TypeOK'
    BY <1>1 DEF SavePending, env, TypeOK
  <1>3. PendingFits'
    BY <1>1 DEF SavePending, PendingFits, TypeOK
  <1> QED
    BY <1>1, <1>2, <1>3
    DEF SavePending, StateLoaded, CurFits, ExecAhead, ExecFollowsChain,
        ChainLinked, Producing, Executed

\* Executing the block, answered or not, puts the execution layer one block
\* ahead, by exactly that block.
LEMMA ExecuteIInv ==
  ASSUME IInv, ApplyBlock \/ ExecAnswerLost
  PROVE  IInv'
  <1> USE DEF IInv
  <1>1. pc = "apply" /\ lastState = StateAfter(blocks)
    BY DEF ApplyBlock, ExecAnswerLost, StateLoaded
  <1>2. execLog = Root(blocks) /\ cur \in Blocks
    BY <1>1, StateAfterType
    DEF ApplyBlock, ExecAnswerLost, ExecAccepts, CurFits, Producing, TypeOK
  <1>3. /\ Len(execLog) = Len(blocks)
        /\ execLog \in Seq(Payloads)
        /\ \A i \in 1..Len(blocks) : execLog[i] = Payload(blocks[i])
    BY <1>2, RootType DEF TypeOK
  <1>4. Payload(cur) \in Payloads
    BY <1>2, PartsType
  <1>5. execLog' = Append(execLog, Payload(cur))
    BY DEF ApplyBlock, ExecAnswerLost
  <1>6. /\ execLog' \in Seq(Payloads)
        /\ Len(execLog') = Len(blocks) + 1
        /\ execLog'[Len(blocks) + 1] = Payload(cur)
        /\ \A i \in 1..Len(blocks) : execLog'[i] = Payload(blocks[i])
    BY <1>3, <1>4, <1>5
  <1>7. /\ UNCHANGED <<blocks, pending, cur, lastState, queue, submitted, clock,
                       flushes, raft, halting, hasPending, gossip>>
        /\ pc' \in {"apply", "sign"}
        /\ faults' \in Nat
    BY <1>1 DEF ApplyBlock, ExecAnswerLost, Fault, store, env, TypeOK
  <1>8. TypeOK'
    BY <1>6, <1>7 DEF TypeOK
  <1>9. Len(blocks) \in Nat
    BY DEF TypeOK
  <1>10. ExecFollowsChain' /\ ExecAhead'
    BY <1>6, <1>7, <1>9 DEF ExecFollowsChain, ExecAhead, Executed
  <1>11. StateLoaded' /\ CurFits'
    BY <1>1, <1>7 DEF StateLoaded, CurFits, Producing
  <1>12. ChainLinked' /\ PendingFits'
    BY <1>7 DEF ChainLinked, PendingFits
  <1> QED
    BY <1>8, <1>10, <1>11, <1>12

\* Committing the block makes it the tip; the execution layer, if it is
\* ahead, is ahead by this very block.
LEMMA CommitIInv == IInv /\ Commit => IInv'
  <1> SUFFICES ASSUME IInv, Commit PROVE IInv'
    OBVIOUS
  <1> USE DEF IInv
  <1>1. /\ pc = "commit"
        /\ lastState = StateAfter(blocks)
        /\ blocks' = Append(blocks, cur)
        /\ UNCHANGED <<pending, queue, submitted, clock, flushes, execLog, raft, halting,
                       cur, gossip, faults>>
        /\ pc' = "header" /\ hasPending' = FALSE
    BY SMTT(30) DEF Commit, StateLoaded, env
  <1>2. /\ cur \in Blocks
        /\ cur.height = Len(blocks) + 1
        /\ cur.app = Root(blocks)
        /\ cur.last = StateAfter(blocks).last
        /\ pending = cur
    BY <1>1 DEF CurFits, Producing
  <1>3. /\ blocks \in Seq(Blocks) /\ Len(blocks) \in Nat
        /\ execLog \in Seq(Payloads) /\ Len(execLog) \in Nat
    BY SMTT(30) DEF TypeOK
  <1>4. /\ blocks' \in Seq(Blocks)
        /\ Len(blocks') = Len(blocks) + 1
        /\ blocks'[Len(blocks) + 1] = cur
        /\ \A i \in 1..Len(blocks) : blocks'[i] = blocks[i]
    BY <1>1, <1>2, <1>3
  <1>5. lastState' = StateAfter(blocks')
    <2>1. lastState' = [height |-> cur.height,
                        app |-> Append(Root(blocks), Payload(cur)),
                        last |-> Hash(cur)]
      BY Zenon, <1>1, <1>3, StateAfterType DEF Commit
    <2> QED
      BY <1>1, <1>2, <1>3, <2>1, StateAfterAppend
  <1>6. TypeOK'
    <2>1. lastState' \in States
      BY <1>4, <1>5, StateAfterType
    <2> QED
      BY Zenon, <1>1, <1>4, <2>1 DEF TypeOK
  <1>7. ExecFollowsChain'
    <2>1. \A i \in 1..Len(execLog) :
            i <= Len(blocks) + 1 => execLog[i] = Payload(blocks'[i])
      BY <1>1, <1>3, <1>4 DEF ExecFollowsChain, ExecAhead, Executed
    <2> QED
      BY <1>1, <1>3, <1>4, <2>1 DEF ExecFollowsChain
  <1>8. ChainLinked'
    <2> SUFFICES ASSUME NEW h \in 1..Len(blocks')
                 PROVE  /\ blocks'[h].height = h
                        /\ blocks'[h].app = [i \in 1..(h - 1) |-> Payload(blocks'[i])]
                        /\ blocks'[h].last = IF h = 1 THEN NoHash ELSE Hash(blocks'[h - 1])
      BY Zenon DEF ChainLinked, Payload, Hash
    <2>1. h \in 1..(Len(blocks) + 1)
      BY <1>4
    <2>2. [i \in 1..(h - 1) |-> Payload(blocks'[i])]
            = [i \in 1..(h - 1) |-> Payload(blocks[i])]
      BY <1>3, <1>4, <2>1
    <2>3. CASE h = Len(blocks) + 1
      <3>1. blocks'[h] = cur /\ h - 1 = Len(blocks)
        BY <1>3, <1>4, <2>3
      <3>2. cur.app = [i \in 1..(h - 1) |-> Payload(blocks[i])]
        BY <1>2, <3>1 DEF Root
      <3>3. cur.last = IF h = 1 THEN NoHash ELSE Hash(blocks[h - 1])
        BY <1>2, <1>3, <3>1, <2>3 DEF StateAfter
      <3>4. h # 1 => blocks'[h - 1] = blocks[h - 1]
        BY <1>3, <1>4, <2>1, <3>1
      <3> QED
        BY <1>2, <2>2, <2>3, <3>1, <3>2, <3>3, <3>4
    <2>4. CASE h \in 1..Len(blocks)
      <3>1. blocks'[h] = blocks[h]
        BY <1>4, <2>4
      <3>2. h # 1 => blocks'[h - 1] = blocks[h - 1]
        BY <1>3, <1>4, <2>4
      <3>3. /\ blocks[h].height = h
            /\ blocks[h].app = [i \in 1..(h - 1) |-> Payload(blocks[i])]
            /\ blocks[h].last = IF h = 1 THEN NoHash ELSE Hash(blocks[h - 1])
        BY <2>4 DEF ChainLinked
      <3> QED
        BY <2>2, <3>1, <3>2, <3>3
    <2> QED
      BY <1>3, <2>1, <2>3, <2>4
  <1>9. PendingFits'
    BY <1>1, <1>2, <1>3, <1>4 DEF PendingFits
  <1> QED
    BY <1>1, <1>2, <1>5, <1>6, <1>7, <1>8, <1>9
    DEF StateLoaded, CurFits, ExecAhead, Producing, Executed

\* A step that leaves chain and execution layer alone, and at most drops the
\* pending block while none is under construction, preserves the invariant.
LEMMA QuietIInv ==
  ASSUME IInv, TypeOK', StateLoaded',
         blocks' = blocks, execLog' = execLog,
         pending' = pending \/ (pending' = NoBlock /\ pc' \notin Producing),
         pc' \in Producing => pc \in Producing /\ cur' = cur,
         pc' \in Producing \ {"create"} => pc # "create",
         pc' \in Executed => pc \in Executed,
         pc' \in {"header", "data"} => cur' \in Blocks
  PROVE  IInv'
  <1> USE DEF IInv
  <1>1. CurFits'
    BY DEF CurFits, Producing
  <1>2. ExecAhead'
    BY DEF ExecAhead, Producing, Executed
  <1>3. ExecFollowsChain'
    BY DEF ExecFollowsChain
  <1>4. ChainLinked'
    BY DEF ChainLinked
  <1>5. PendingFits'
    BY DEF PendingFits
  <1> QED
    BY <1>1, <1>2, <1>3, <1>4, <1>5

\* Steps of Start, Stop and ProduceBlock that only move the control state.
LEMMA ControlIInv ==
  ASSUME IInv,
         \/ Boot \/ SyncSkipped \/ SyncInSync \/ SyncImpossible
         \/ StartApply \/ ApplyRejected \/ SignHeader \/ StopExecutor
  PROVE  IInv'
  <1> USE DEF IInv
  <1>1. TypeOK'
    BY Zenon DEF Boot, SyncSkipped, SyncInSync, SyncImpossible, StartApply,
           ApplyRejected, SignHeader, StopExecutor, store, env, TypeOK
  <1>2. StateLoaded'
    BY Zenon DEF Boot, SyncSkipped, SyncInSync, SyncImpossible, StartApply,
           ApplyRejected, SignHeader, StopExecutor, store, env, StateLoaded
  <1>3. /\ blocks' = blocks /\ execLog' = execLog
        /\ pending' = pending \/ (pending' = NoBlock /\ pc' \notin Producing)
        /\ pc' \in Producing => pc \in Producing /\ cur' = cur
        /\ pc' \in Producing \ {"create"} => pc # "create"
        /\ pc' \in Executed => pc \in Executed
        /\ pc' \notin {"header", "data"}
    BY DEF Boot, SyncSkipped, SyncInSync, SyncImpossible, StartApply,
           ApplyRejected, SignHeader, StopExecutor, store, env, Producing,
           Executed
  <1> QED
    BY <1>1, <1>2, <1>3, QuietIInv

\* Loading the state makes the in-memory state the store's.
LEMMA LoadStateIInv == IInv /\ LoadState => IInv'
  <1> SUFFICES ASSUME IInv, LoadState PROVE IInv'
    OBVIOUS
  <1> USE DEF IInv
  <1>1. StateAfter(blocks) \in States
    BY StateAfterType DEF TypeOK
  <1>2. TypeOK' /\ StateLoaded'
    BY <1>1 DEF LoadState, store, env, TypeOK, StateLoaded
  <1> QED
    BY <1>2, QuietIInv DEF LoadState, store, Producing, Executed

\* A submitted batch, a raft proposal and the P2P broadcasts.
LEMMA OutsideIInv ==
  ASSUME IInv,
         SubmitBatch \/ Propose \/ BroadcastHeader \/ BroadcastData
  PROVE  IInv'
  <1> USE DEF IInv
  <1>1. SubmitBatch => TypeOK'
    BY DEF SubmitBatch, store, TypeOK
  <1>2. Propose => TypeOK'
    BY Zenon DEF Propose, RaftAfter, store, env, TypeOK, CurFits, Producing
  <1>3. ASSUME BroadcastHeader \/ BroadcastData PROVE TypeOK'
    <2>1. Hash(cur) \in Hashes
      BY <1>3, PartsType DEF BroadcastHeader, BroadcastData, CurFits
    <2> QED
      BY SMTT(30), <1>3, <2>1 DEF BroadcastHeader, BroadcastData, store, env, TypeOK
  <1>4. StateLoaded'
    BY Zenon DEF SubmitBatch, Propose, BroadcastHeader, BroadcastData, store,
           StateLoaded
  <1>5. /\ blocks' = blocks /\ execLog' = execLog /\ pending' = pending
        /\ pc' \in Producing => pc \in Producing /\ cur' = cur
        /\ pc' \in Producing \ {"create"} => pc # "create"
        /\ pc' \in Executed => pc \in Executed
        /\ pc' \in {"header", "data"} => cur' \in Blocks
    BY DEF SubmitBatch, Propose, BroadcastHeader, BroadcastData, store,
           Producing, Executed, CurFits
  <1> QED
    BY SMTT(30), <1>1, <1>2, <1>3, <1>4, <1>5, QuietIInv

\* Faults that do not touch the execution layer.
LEMMA FaultIInv ==
  ASSUME IInv,
         \/ Crash \/ RequestStop \/ BootFails \/ StepFails \/ ProposeTimesOut
         \/ ExecUnreachable \/ BroadcastFails
  PROVE  IInv'
  <1> USE DEF IInv
  <1>1. faults' \in Nat
    BY SMTT(30) DEF Crash, RequestStop, BootFails, StepFails, ProposeTimesOut,
           ExecUnreachable, BroadcastFails, Fault, TypeOK
  <1>2. ProposeTimesOut => raft' \in Blocks \cup {NoBlock, NoRaft}
    BY DEF ProposeTimesOut, RaftAfter, TypeOK, CurFits, Producing
  <1>3. TypeOK'
    BY Zenon, <1>1, <1>2
    DEF Crash, RequestStop, BootFails, StepFails, ProposeTimesOut,
        ExecUnreachable, BroadcastFails, store, env, TypeOK
  <1>4. StateLoaded'
    BY Zenon DEF Crash, RequestStop, BootFails, StepFails, ProposeTimesOut,
           ExecUnreachable, BroadcastFails, store, StateLoaded
  <1>5. /\ blocks' = blocks /\ execLog' = execLog
        /\ pending' = pending \/ (pending' = NoBlock /\ pc' \notin Producing)
        /\ pc' \in Producing => pc \in Producing /\ cur' = cur
        /\ pc' \in Producing \ {"create"} => pc # "create"
        /\ pc' \in Executed => pc \in Executed
        /\ pc' \in {"header", "data"} => cur' \in Blocks
    BY SMTT(30) DEF Crash, RequestStop, BootFails, StepFails, ProposeTimesOut,
           ExecUnreachable, BroadcastFails, store, Producing, Executed, CurFits
  <1> QED
    BY Zenon, <1>3, <1>4, <1>5, QuietIInv

\* Rollback, and a lost block, shorten the execution layer's history.
LEMMA ExecShrinksIInv ==
  ASSUME IInv, SyncRollback \/ ExecLosesBlock
  PROVE  IInv'
  <1> USE DEF IInv
  <1>1. PICK n \in 0..Len(execLog) :
          execLog' = SubSeq(execLog, 1, n)
    <2>1. CASE SyncRollback
      <3>1. SyncTarget \in 0..Len(execLog)
        BY <2>1 DEF SyncRollback, SyncTarget, RaftHeight, RaftAgreed, TypeOK, Blocks
      <3> QED
        BY SMTT(30), <2>1, <3>1 DEF SyncRollback
    <2>2. CASE ExecLosesBlock
      <3>1. Len(execLog) - 1 \in 0..Len(execLog)
        BY <2>2 DEF ExecLosesBlock, TypeOK
      <3> QED
        BY <2>2, <3>1 DEF ExecLosesBlock
    <2> QED
      BY <2>1, <2>2
  <1>2. execLog \in Seq(Payloads) /\ Len(execLog) \in Nat /\ Len(blocks) \in Nat
    BY DEF TypeOK
  <1>3. /\ execLog' \in Seq(Payloads)
        /\ Len(execLog') = n
        /\ \A i \in 1..n : execLog'[i] = execLog[i]
    BY SMTT(30), <1>1, <1>2
  <1>4. /\ UNCHANGED <<blocks, pending, cur, lastState, queue, submitted, clock,
                       flushes, raft, halting, hasPending, gossip>>
        /\ pc' = pc \/ (pc = "sync" /\ pc' = "idle")
        /\ faults' \in Nat
    BY SMTT(30) DEF SyncRollback, ExecLosesBlock, Fault, store, env, TypeOK
  <1>5. TypeOK'
    BY SMTT(30), <1>3, <1>4 DEF TypeOK
  <1>6. ExecFollowsChain'
    BY SMTT(30), <1>1, <1>2, <1>3, <1>4 DEF ExecFollowsChain
  <1>7. ExecAhead'
    BY SMTT(30), <1>1, <1>2, <1>3, <1>4 DEF ExecAhead, Executed, ExecFollowsChain
  <1>8. StateLoaded' /\ CurFits'
    BY Zenon, <1>4 DEF StateLoaded, CurFits, Producing
  <1>9. ChainLinked' /\ PendingFits'
    BY <1>4 DEF ChainLinked, PendingFits
  <1> QED
    BY <1>5, <1>6, <1>7, <1>8, <1>9

\* Replay appends the committed block the execution layer is missing.
LEMMA ReplayIInv == IInv /\ SyncReplay => IInv'
  <1> SUFFICES ASSUME IInv, SyncReplay PROVE IInv'
    OBVIOUS
  <1> USE DEF IInv
  <1> DEFINE n == Len(execLog) + 1
  <1>1. /\ execLog \in Seq(Payloads) /\ Len(execLog) \in Nat
        /\ blocks \in Seq(Blocks) /\ Len(blocks) \in Nat
    BY SMTT(30) DEF TypeOK
  <1>2. n \in 1..Len(blocks)
    BY <1>1 DEF SyncReplay, SyncTarget, RaftHeight, RaftAgreed, TypeOK, Blocks
  <1>3. blocks[n] \in Blocks
    BY <1>1, <1>2
  <1>4. Payload(blocks[n]) \in Payloads
    BY <1>3, PartsType
  <1>5. execLog' = Append(execLog, Payload(blocks[n]))
    BY DEF SyncReplay
  <1>6. /\ execLog' \in Seq(Payloads)
        /\ Len(execLog') = n
        /\ execLog'[n] = Payload(blocks[n])
        /\ \A i \in 1..Len(execLog) : execLog'[i] = execLog[i]
    BY <1>1, <1>4, <1>5
  <1>7. /\ UNCHANGED <<blocks, pending, cur, lastState, queue, submitted, clock,
                       flushes, raft, pc, halting, hasPending, gossip, faults>>
        /\ pc = "sync"
    BY Zenon DEF SyncReplay, store, env
  <1>8. TypeOK'
    BY Zenon, <1>6, <1>7 DEF TypeOK
  <1>9. ExecFollowsChain'
    <2>1. \A i \in 1..n : execLog'[i] = Payload(blocks[i])
      BY SMTT(30), <1>1, <1>2, <1>6 DEF ExecFollowsChain
    <2> QED
      BY <1>1, <1>2, <1>6, <1>7, <2>1 DEF ExecFollowsChain
  <1>10. StateLoaded' /\ CurFits' /\ ExecAhead'
    BY Zenon, <1>7 DEF StateLoaded, CurFits, Producing, ExecAhead, Executed
  <1>11. ChainLinked' /\ PendingFits'
    BY <1>7 DEF ChainLinked, PendingFits
  <1> QED
    BY <1>8, <1>9, <1>10, <1>11

\* Every step of the specification preserves the invariant.
LEMMA StepIInv == IInv /\ [Next]_vars => IInv'
  <1> SUFFICES ASSUME IInv, [Next]_vars PROVE IInv'
    OBVIOUS
  <1>1. CASE SubmitBatch \/ Propose \/ BroadcastHeader \/ BroadcastData
    BY <1>1, OutsideIInv
  <1>2. CASE \/ Boot \/ SyncSkipped \/ SyncInSync \/ SyncImpossible
             \/ StartApply \/ ApplyRejected \/ SignHeader \/ StopExecutor
    BY <1>2, ControlIInv
  <1>3. CASE LoadState
    BY <1>3, LoadStateIInv
  <1>4. CASE SyncRollback \/ ExecLosesBlock
    BY <1>4, ExecShrinksIInv
  <1>5. CASE SyncReplay
    BY <1>5, ReplayIInv
  <1>6. CASE UsePending
    BY <1>6, UsePendingIInv
  <1>7. CASE TakeBatch
    BY <1>7, TakeBatchIInv
  <1>8. CASE SavePending
    BY <1>8, SavePendingIInv
  <1>9. CASE ApplyBlock \/ ExecAnswerLost
    BY <1>9, ExecuteIInv
  <1>10. CASE Commit
    BY <1>10, CommitIInv
  <1>11. CASE \/ Crash \/ RequestStop \/ BootFails \/ StepFails
              \/ ProposeTimesOut \/ ExecUnreachable \/ BroadcastFails
    BY <1>11, FaultIInv
  <1>12. CASE UNCHANGED vars
    <2> USE DEF IInv, vars
    <2>1. TypeOK' /\ StateLoaded' /\ CurFits'
      BY SMTT(30), <1>12 DEF TypeOK, StateLoaded, CurFits
    <2>2. ExecAhead' /\ ExecFollowsChain'
      BY SMTT(30), <1>12 DEF ExecAhead, ExecFollowsChain
    <2>3. ChainLinked' /\ PendingFits'
      BY <1>12 DEF ChainLinked, PendingFits
    <2> QED
      BY Zenon, <2>1, <2>2, <2>3
  <1> QED
    BY <1>1, <1>2, <1>3, <1>4, <1>5, <1>6, <1>7, <1>8, <1>9, <1>10, <1>11,
       <1>12 DEF Next, Steps, Faults

\* The inductive invariant holds in every reachable state.
THEOREM Invariance == Spec => []IInv
  <1> QED
    BY InitIInv, StepIInv, PTL DEF Spec

\* Every variable keeps its type.
THEOREM TypeCorrect == Spec => []TypeOK
  <1>1. IInv => TypeOK
    BY DEF IInv
  <1> QED
    BY <1>1, Invariance, PTL

\* Whatever crashes, fails or is lost, the execution layer's history is the
\* committed chain up to one uncommitted block.
THEOREM ExecConsistent == Spec => []ExecFollowsChain
  <1>1. IInv => ExecFollowsChain
    BY DEF IInv
  <1> QED
    BY <1>1, Invariance, PTL

\* The committed blocks form a chain.
THEOREM ChainConsistent == Spec => []ChainLinked
  <1>1. IInv => ChainLinked
    BY DEF IInv
  <1> QED
    BY <1>1, Invariance, PTL

\* A pending block is always one that a restarted node can apply.
THEOREM PendingApplicable == Spec => []PendingFits
  <1>1. IInv => PendingFits
    BY DEF IInv
  <1> QED
    BY <1>1, Invariance, PTL

-----------------------------------------------------------------------------
\* No two blocks of one height leave the node.

\* A block that the execution layer has run is still there when it is proposed
\* and committed.
ExecutedStays == flushes /\ pc \in Executed => Len(execLog) = Len(blocks) + 1

\* What is broadcast is the tip.
CurIsTip ==
  pc \in {"header", "data"} => Len(blocks) > 0 /\ cur = blocks[Len(blocks)]

OnChain(hash) ==
  hash.height \in 1..Len(blocks) /\ hash = Hash(blocks[hash.height])

GossipOnChain == \A g \in gossip : OnChain(g[2])

\* The block that raft agreed on is committed or, if it is not committed yet, the
\* last one that the execution layer has run.
RaftExecuted ==
  flushes /\ RaftAgreed =>
    \/ OnChain(Hash(raft))
    \/ /\ raft.height = Len(blocks) + 1
       /\ Len(execLog) = Len(blocks) + 1
       /\ execLog[Len(blocks) + 1] = Payload(raft)

SentInv == ExecutedStays /\ CurIsTip /\ GossipOnChain /\ RaftExecuted

\* Steps that send nothing and leave the chain and the execution layer alone.
LEMMA QuietSent ==
  ASSUME SentInv,
         UNCHANGED <<blocks, execLog, raft, gossip, flushes>>,
         pc' \in Executed => pc \in Executed,
         pc' \in {"header", "data"} => pc \in {"header", "data"} /\ cur' = cur
  PROVE  SentInv'
  <1>1. ExecutedStays' /\ CurIsTip'
    BY Zenon DEF SentInv, ExecutedStays, CurIsTip
  <1>2. GossipOnChain' /\ RaftExecuted'
    BY DEF SentInv, GossipOnChain, RaftExecuted, RaftAgreed, OnChain
  <1> QED
    BY <1>1, <1>2 DEF SentInv

\* The execution layer runs a block, answered or not: it was not ahead, so raft
\* has no block that is not committed.
LEMMA ExecuteSent ==
  ASSUME IInv, SentInv, ApplyBlock \/ ExecAnswerLost
  PROVE  SentInv'
  <1>1. pc = "apply" /\ lastState = StateAfter(blocks)
    BY Zenon DEF ApplyBlock, ExecAnswerLost, IInv, StateLoaded
  <1>2. /\ execLog = Root(blocks) /\ cur \in Blocks
        /\ blocks \in Seq(Blocks) /\ Len(blocks) \in Nat
    BY <1>1, StateAfterType
    DEF ApplyBlock, ExecAnswerLost, ExecAccepts, IInv, CurFits, Producing, TypeOK
  <1>3. Len(execLog) = Len(blocks) /\ execLog \in Seq(Payloads)
    BY <1>2, RootType DEF IInv, TypeOK
  <1>4. Len(execLog') = Len(blocks) + 1
    BY <1>2, <1>3, PartsType DEF ApplyBlock, ExecAnswerLost
  <1>5. /\ UNCHANGED <<blocks, raft, gossip, flushes>>
        /\ pc' \in {"apply", "sign"}
    BY <1>1 DEF ApplyBlock, ExecAnswerLost, store, env
  <1>6. flushes /\ RaftAgreed => OnChain(Hash(raft))
    BY SMTT(30), <1>2, <1>3 DEF SentInv, RaftExecuted
  <1>7. GossipOnChain' /\ RaftExecuted'
    BY <1>5, <1>6 DEF SentInv, GossipOnChain, RaftExecuted, RaftAgreed, OnChain
  <1> QED
    BY <1>4, <1>5, <1>7 DEF SentInv, ExecutedStays, CurIsTip

\* The execution layer rolls back or replays at start, or loses its last block:
\* never the block that raft agreed on.
LEMMA SyncSent ==
  ASSUME IInv, SentInv, SyncRollback \/ SyncReplay \/ ExecLosesBlock
  PROVE  SentInv'
  <1>1. /\ Len(blocks) \in Nat /\ Len(execLog) \in Nat
        /\ RaftAgreed => raft \in Blocks /\ raft.height \in Nat
    BY SMTT(30) DEF IInv, TypeOK, RaftAgreed, Blocks
  <1>2. /\ UNCHANGED <<blocks, raft, gossip, flushes, cur>>
        /\ pc' = pc \/ (pc = "sync" /\ pc' = "idle")
    BY DEF SyncRollback, SyncReplay, ExecLosesBlock, store, env
  <1>3. flushes => pc = "sync"
    BY Zenon DEF SyncRollback, SyncReplay, ExecLosesBlock
  <1>4. flushes /\ RaftAgreed => OnChain(Hash(raft))
    <2> SUFFICES ASSUME flushes, RaftAgreed, ~OnChain(Hash(raft)) PROVE FALSE
      OBVIOUS
    <2>1. raft.height = Len(blocks) + 1 /\ Len(execLog) = Len(blocks) + 1
      BY DEF SentInv, RaftExecuted
    <2>2. SyncTarget = Len(blocks) + 1
      BY SMTT(30), <1>1, <2>1 DEF SyncTarget, RaftHeight
    <2> QED
      BY <1>1, <2>1, <2>2 DEF SyncRollback, SyncReplay, ExecLosesBlock
  <1>5. GossipOnChain' /\ RaftExecuted'
    BY <1>2, <1>4 DEF SentInv, GossipOnChain, RaftExecuted, RaftAgreed, OnChain
  <1>6. ExecutedStays' /\ CurIsTip'
    BY <1>2, <1>3 DEF SentInv, ExecutedStays, CurIsTip, Executed
  <1> QED
    BY ZenonT(40), <1>5, <1>6 DEF SentInv

\* What raft learns is the block the execution layer has just run.
LEMMA ProposeSent ==
  ASSUME IInv, SentInv, Propose \/ ProposeTimesOut
  PROVE  SentInv'
  <1>1. /\ pc = "propose" /\ raft' = RaftAfter(cur)
        /\ pc' \in {"commit", "idle"}
        /\ UNCHANGED <<blocks, execLog, gossip, flushes>>
    BY Zenon DEF Propose, ProposeTimesOut, store, env
  <1>2. /\ cur.height = Len(blocks) + 1
        /\ flushes => /\ Len(execLog) = Len(blocks) + 1
                      /\ execLog[Len(blocks) + 1] = Payload(cur)
    BY <1>1 DEF IInv, CurFits, Producing, ExecAhead, Executed, SentInv, ExecutedStays
  <1>3. RaftExecuted'
    <2>1. CASE raft' = cur
      BY Zenon, <1>1, <1>2, <2>1 DEF RaftExecuted, RaftAgreed, OnChain
    <2>2. CASE raft' = raft
      BY Zenon, <1>1, <2>2 DEF SentInv, RaftExecuted, RaftAgreed, OnChain
    <2> QED
      BY Zenon, <1>1, <2>1, <2>2 DEF RaftAfter
  <1>4. ExecutedStays' /\ CurIsTip' /\ GossipOnChain'
    BY Zenon, <1>1, <1>2 DEF ExecutedStays, CurIsTip, SentInv, GossipOnChain, OnChain
  <1> QED
    BY <1>3, <1>4 DEF SentInv

\* The committed block is the one that raft and the execution layer have.
LEMMA CommitSent == IInv /\ SentInv /\ Commit => SentInv'
  <1> SUFFICES ASSUME IInv, SentInv, Commit PROVE SentInv'
    BY Zenon
  <1>1. /\ pc = "commit" /\ pc' = "header" /\ blocks' = Append(blocks, cur)
        /\ UNCHANGED <<execLog, raft, gossip, flushes, cur>>
    BY Zenon DEF Commit, env
  <1>2. /\ cur \in Blocks /\ cur.height = Len(blocks) + 1
        /\ blocks \in Seq(Blocks) /\ Len(blocks) \in Nat
    BY <1>1 DEF IInv, CurFits, Producing, TypeOK
  <1>3. /\ Len(blocks') = Len(blocks) + 1
        /\ blocks'[Len(blocks) + 1] = cur
        /\ \A i \in 1..Len(blocks) : blocks'[i] = blocks[i]
    BY <1>1, <1>2
  <1>4. ASSUME NEW a, OnChain(a)
        PROVE  a.height \in 1..Len(blocks') /\ a = Hash(blocks'[a.height])
    BY SMTT(30), <1>2, <1>3, <1>4 DEF OnChain
  <1>5. GossipOnChain'
    BY <1>1, <1>4 DEF SentInv, GossipOnChain, OnChain
  <1>6. RaftExecuted'
    <2> SUFFICES ASSUME flushes, RaftAgreed
                 PROVE  Hash(raft).height \in 1..Len(blocks')
                          /\ Hash(raft) = Hash(blocks'[Hash(raft).height])
      BY <1>1 DEF RaftExecuted, RaftAgreed, OnChain
    <2>1. CASE OnChain(Hash(raft))
      BY <1>4, <2>1
    <2>2. CASE ~OnChain(Hash(raft))
      <3>1. raft.height = Len(blocks) + 1 /\ Payload(raft) = Payload(cur)
        BY Zenon, <1>1, <2>2
        DEF SentInv, RaftExecuted, IInv, ExecAhead, Executed
      <3>2. Hash(raft) = Hash(cur) /\ Hash(raft).height = Len(blocks) + 1
        BY Zenon, <1>2, <3>1 DEF Hash, Payload
      <3> QED
        BY <1>2, <1>3, <3>2
    <2> QED
      BY Zenon, <2>1, <2>2
  <1> QED
    BY <1>1, <1>2, <1>3, <1>5, <1>6 DEF SentInv, ExecutedStays, Executed, CurIsTip

\* What goes out over P2P is the hash of the tip.
LEMMA BroadcastSent ==
  ASSUME IInv, SentInv, BroadcastHeader \/ BroadcastData
  PROVE  SentInv'
  <1>1. /\ UNCHANGED <<blocks, execLog, raft, flushes>>
        /\ pc \in {"header", "data"} /\ pc' \in {"data", "idle"}
        /\ pc' = "data" => cur' = cur
        /\ \A g \in gossip' : g \in gossip \/ g[2] = Hash(cur)
    BY DEF BroadcastHeader, BroadcastData, store, env
  <1>2. /\ Len(blocks) \in 1..Len(blocks) /\ cur = blocks[Len(blocks)]
        /\ blocks[Len(blocks)].height = Len(blocks)
    <2>1. Len(blocks) \in Nat /\ Len(blocks) > 0 /\ cur = blocks[Len(blocks)]
      BY <1>1 DEF SentInv, CurIsTip, IInv, TypeOK
    <2>2. \A h \in 1..Len(blocks) : blocks[h].height = h
      BY Zenon DEF IInv, ChainLinked
    <2> QED
      BY SMTT(30), <2>1, <2>2
  <1>3. OnChain(Hash(cur))
    BY Zenon, <1>2 DEF OnChain, Hash
  <1>4. GossipOnChain' /\ RaftExecuted'
    BY <1>1, <1>3 DEF SentInv, GossipOnChain, RaftExecuted, RaftAgreed, OnChain
  <1> QED
    BY SMTT(30), <1>1, <1>2, <1>4 DEF SentInv, ExecutedStays, Executed, CurIsTip

LEMMA StepSent == IInv /\ SentInv /\ [Next]_vars => SentInv'
  <1> SUFFICES ASSUME IInv, SentInv, [Next]_vars PROVE SentInv'
    BY Zenon
  <1>1. CASE \/ SubmitBatch \/ Boot \/ LoadState \/ SyncSkipped \/ SyncInSync
             \/ SyncImpossible \/ UsePending \/ TakeBatch \/ SavePending
    BY ZenonT(40), <1>1, QuietSent
    DEF SubmitBatch, Boot, LoadState, SyncSkipped, SyncInSync, SyncImpossible,
        UsePending, TakeBatch, SavePending, store, env, Executed
  <1>2. CASE \/ StartApply \/ ApplyRejected \/ SignHeader \/ StopExecutor
             \/ Crash \/ RequestStop \/ BootFails \/ StepFails
             \/ ExecUnreachable \/ BroadcastFails
    BY <1>2, QuietSent
    DEF StartApply, ApplyRejected, SignHeader, StopExecutor, Crash, RequestStop,
        BootFails, StepFails, ExecUnreachable, BroadcastFails, store, env, Executed
  <1>3. CASE ApplyBlock \/ ExecAnswerLost
    BY <1>3, ExecuteSent
  <1>4. CASE SyncRollback \/ SyncReplay \/ ExecLosesBlock
    BY <1>4, SyncSent
  <1>5. CASE Propose \/ ProposeTimesOut
    BY <1>5, ProposeSent
  <1>6. CASE Commit
    BY <1>6, CommitSent
  <1>7. CASE BroadcastHeader \/ BroadcastData
    BY Zenon, <1>7, BroadcastSent
  <1>8. CASE UNCHANGED vars
    BY <1>8, QuietSent DEF vars
  <1> QED
    BY <1>1, <1>2, <1>3, <1>4, <1>5, <1>6, <1>7, <1>8 DEF Next, Steps, Faults

\* Over raft and P2P together, no two different blocks of one height leave a node
\* whose execution layer keeps what it has answered for, whatever crashes, times
\* out or is retried between the proposal to raft and the commit.
THEOREM NeverEquivocates == Spec => []NoEquivocation
  <1>1. Init => SentInv
    BY ZenonT(40) DEF Init, SentInv, ExecutedStays, Executed, CurIsTip, GossipOnChain,
           RaftExecuted, RaftAgreed
  <1>2. IInv /\ SentInv => NoEquivocation
    <2> SUFFICES ASSUME IInv, SentInv, flushes,
                        NEW a, NEW b,
                        a \in {g[2] : g \in gossip}
                                \cup (IF RaftAgreed THEN {Hash(raft)} ELSE {}),
                        b \in {g[2] : g \in gossip}
                                \cup (IF RaftAgreed THEN {Hash(raft)} ELSE {}),
                        a.height = b.height
                 PROVE  a = b
      BY Zenon DEF NoEquivocation
    <2>1. \A x \in {g[2] : g \in gossip} : OnChain(x)
      BY Zenon DEF SentInv, GossipOnChain
    <2>2. \A x : OnChain(x) => x.height <= Len(blocks) /\ x = Hash(blocks[x.height])
      BY SMTT(30) DEF OnChain, IInv, TypeOK
    <2>3. RaftAgreed => OnChain(Hash(raft)) \/ Hash(raft).height = Len(blocks) + 1
      BY Zenon DEF SentInv, RaftExecuted, Hash
    <2>4. Len(blocks) \in Nat
      BY DEF IInv, TypeOK
    <2> QED
      BY <2>1, <2>2, <2>3, <2>4
  <1> QED
    BY <1>1, <1>2, StepSent, Invariance, PTL DEF Spec

-----------------------------------------------------------------------------
\* Block production implements the ledger.

Waiting == {queue[i] : i \in 1..Len(queue)}

\* A block's batch was submitted and has left the queue.
Fresh(b) == b.txs \in submitted \cup {NoTxs} /\ b.txs \notin Waiting

\* No batch is in two places from which it may still be included.
LedgerInv ==
  /\ Waiting \subseteq submitted
  /\ \A i, j \in 1..Len(queue) : queue[i] = queue[j] => i = j
  /\ pc \in Producing => Fresh(cur)
  /\ pending # NoBlock /\ pending.height = Len(blocks) + 1 => Fresh(pending)

\* A step that takes no batch and commits no block, and at most drops the pending
\* block, is a stutter of the ledger, or drops a batch.
LEMMA QuietLedger ==
  ASSUME LedgerInv,
         UNCHANGED <<blocks, queue, submitted>>,
         pending' = pending \/ pending' = NoBlock,
         pc' \in Producing => pc \in Producing /\ cur' = cur
  PROVE  LedgerInv' /\ L!Drop
  <1>1. Waiting' = Waiting
    BY Zenon DEF Waiting
  <1>2. LedgerInv'
    BY <1>1 DEF LedgerInv, Fresh
  <1>3. InFlight' \subseteq InFlight
    BY Zenon DEF InFlight, Producing
  <1>4. L!Drop
    BY <1>1, <1>3 DEF L!Drop, Waiting
  <1> QED
    BY <1>2, <1>4

\* The reaper's batch is a new one.
LEMMA SubmitLedger == IInv /\ LedgerInv /\ SubmitBatch => LedgerInv' /\ L!Submit
  <1> SUFFICES ASSUME IInv, LedgerInv, SubmitBatch PROVE LedgerInv' /\ L!Submit
    OBVIOUS
  <1>1. PICK b \in Batches \ submitted :
          queue' = Append(queue, b) /\ submitted' = submitted \cup {b}
    BY DEF SubmitBatch
  <1>2. UNCHANGED <<blocks, pending, pc, cur>>
    BY Zenon DEF SubmitBatch, store
  <1>3. /\ queue \in Seq(Batches) /\ Len(queue) \in Nat
        /\ Len(queue') = Len(queue) + 1
        /\ queue'[Len(queue) + 1] = b
        /\ \A i \in 1..Len(queue) : queue'[i] = queue[i]
    BY SMTT(30), <1>1 DEF IInv, TypeOK
  <1>4. Waiting' = Waiting \cup {b}
    BY <1>3 DEF Waiting
  <1>5. b # NoTxs
    BY Zenon, ConstantsAssumption
  <1>6. \A i, j \in 1..Len(queue') : queue'[i] = queue'[j] => i = j
    <2>1. \A i \in 1..Len(queue) : queue'[i] # b
      BY Zenon, <1>1, <1>3 DEF LedgerInv, Waiting
    <2> QED
      BY <1>3, <2>1 DEF LedgerInv
  <1>7. LedgerInv'
    BY Zenon, <1>1, <1>2, <1>4, <1>5, <1>6 DEF LedgerInv, Fresh
  <1>8. InFlight' = InFlight
    BY Zenon, <1>2 DEF InFlight
  <1>9. L!Submit
    BY <1>1, <1>2, <1>4, <1>5, <1>8 DEF L!Submit, Waiting
  <1> QED
    BY <1>7, <1>9

\* A batch leaves the queue for the block under construction.
LEMMA TakeLedger == IInv /\ LedgerInv /\ TakeBatch => LedgerInv' /\ L!Drop
  <1> SUFFICES ASSUME IInv, LedgerInv, TakeBatch PROVE LedgerInv' /\ L!Drop
    BY Zenon
  <1>1. /\ pc = "idle" /\ pc' = "create" /\ cur'.txs = NextTxs
        /\ queue' = RestOfQueue
        /\ UNCHANGED <<blocks, pending, submitted>>
    BY DEF TakeBatch, MayProduce, CreateBlock, store
  <1>2. /\ Waiting' \subseteq Waiting
        /\ NextTxs \in Waiting \cup {NoTxs}
        /\ NextTxs \notin Waiting'
        /\ \A i, j \in 1..Len(queue') : queue'[i] = queue'[j] => i = j
    <2>1. CASE queue = <<>>
      BY <1>1, <2>1 DEF NextTxs, RestOfQueue, Waiting
    <2>2. CASE queue # <<>>
      <3>1. /\ queue \in Seq(Batches) /\ Len(queue) \in Nat /\ Len(queue) > 0
            /\ queue' = Tail(queue) /\ NextTxs = queue[1]
        BY <1>1, <2>2 DEF IInv, TypeOK, NextTxs, RestOfQueue
      <3>2. /\ Len(queue') = Len(queue) - 1
            /\ \A i \in 1..Len(queue') : queue'[i] = queue[i + 1]
        BY <3>1
      <3>3. \A i \in 1..Len(queue') : i + 1 \in 1..Len(queue) /\ i + 1 # 1
        BY SMTT(30), <3>1, <3>2
      <3>4. \A i, j \in 1..Len(queue') : queue'[i] = queue'[j] => i = j
        BY <3>1, <3>2, <3>3 DEF LedgerInv
      <3>5. NextTxs \notin Waiting' /\ NextTxs \in Waiting
        BY SMTT(30), <3>1, <3>2, <3>3 DEF LedgerInv, Waiting
      <3>6. Waiting' \subseteq Waiting
        <4> SUFFICES ASSUME NEW i \in 1..Len(queue')
                     PROVE  queue'[i] \in Waiting
          BY Zenon DEF Waiting
        <4> QED
          BY Zenon, <3>2, <3>3 DEF Waiting
      <3> QED
        BY SMTT(30), <3>4, <3>5, <3>6
    <2> QED
      BY <2>1, <2>2
  <1>3. LedgerInv'
    BY Zenon, <1>1, <1>2 DEF LedgerInv, Fresh
  <1>4. InFlight' \subseteq InFlight \cup {NextTxs}
    BY Zenon, <1>1 DEF InFlight
  <1>5. L!Drop
    BY Zenon, <1>1, <1>2, <1>4 DEF L!Drop, Waiting
  <1> QED
    BY <1>3, <1>5

\* The block under construction comes from the pending block or becomes it.
LEMMA PendingLedger ==
  ASSUME IInv, LedgerInv, UsePending \/ SavePending
  PROVE  LedgerInv' /\ L!Drop
  <1>1. UNCHANGED <<blocks, queue, submitted>> /\ pc' = "saved"
    BY DEF UsePending, SavePending, store, env
  <1>2. Waiting' = Waiting
    BY <1>1 DEF Waiting
  <1>3. CASE UsePending
    <2>1. lastState.height = Len(blocks)
      BY Zenon, <1>3, StateAfterType
      DEF UsePending, MayProduce, IInv, StateLoaded, TypeOK
    <2>2. /\ pending # NoBlock /\ pending.height = Len(blocks) + 1
          /\ cur' = pending /\ pending' = pending
      BY Zenon, <1>3, <2>1 DEF UsePending, PendingUsable, store
    <2>3. LedgerInv'
      BY Zenon, <1>1, <1>2, <2>2 DEF LedgerInv, Fresh
    <2>4. InFlight' \subseteq InFlight
      BY SMTT(30), <1>1, <2>2 DEF InFlight
    <2> QED
      BY Zenon, <1>1, <1>2, <2>3, <2>4 DEF L!Drop, Waiting
  <1>4. CASE SavePending
    <2>1. pc = "create" /\ cur' = cur /\ pending' = cur
      BY Zenon, <1>4 DEF SavePending
    <2>2. LedgerInv'
      BY <1>1, <1>2, <2>1 DEF LedgerInv, Fresh, Producing
    <2>3. InFlight' \subseteq InFlight
      BY <1>1, <2>1 DEF InFlight
    <2> QED
      BY <1>1, <1>2, <2>2, <2>3 DEF L!Drop, Waiting
  <1> QED
    BY <1>3, <1>4

\* The committed batch leaves the pool, and for good: it is not in the queue.
LEMMA CommitLedger == IInv /\ LedgerInv /\ Commit => LedgerInv' /\ L!Include
  <1> SUFFICES ASSUME IInv, LedgerInv, Commit PROVE LedgerInv' /\ L!Include
    BY Zenon
  <1>1. /\ pc = "commit" /\ pc' = "header" /\ blocks' = Append(blocks, cur)
        /\ UNCHANGED <<pending, queue, submitted, cur>>
    BY Zenon DEF Commit, env
  <1>2. /\ cur \in Blocks /\ cur.height = Len(blocks) + 1 /\ pending = cur
        /\ blocks \in Seq(Blocks) /\ Len(blocks) \in Nat
    BY SMTT(30), <1>1 DEF IInv, CurFits, Producing, TypeOK
  <1>3. /\ Len(blocks') = Len(blocks) + 1
        /\ blocks'[Len(blocks) + 1] = cur
        /\ \A i \in 1..Len(blocks) : blocks'[i] = blocks[i]
    BY <1>1, <1>2
  <1>4. Waiting' = Waiting /\ cur.txs \notin Waiting
    BY Zenon, <1>1 DEF Waiting, LedgerInv, Fresh, Producing
  <1>5. pending' # NoBlock => pending'.height # Len(blocks') + 1
    BY SMTT(30), <1>1, <1>2, <1>3
  <1>6. LedgerInv'
    BY Zenon, <1>1, <1>4, <1>5 DEF LedgerInv, Fresh, Producing
  <1>7. InFlight' = {} /\ {cur.txs} \subseteq InFlight /\ InFlight \subseteq {cur.txs}
    BY <1>1, <1>2, <1>5 DEF InFlight
  <1>8. [h \in 1..Len(blocks') |-> blocks'[h].txs]
          = Append([h \in 1..Len(blocks) |-> blocks[h].txs], cur.txs)
    <2> DEFINE s == [h \in 1..Len(blocks) |-> blocks[h].txs]
               t == [h \in 1..Len(blocks') |-> blocks'[h].txs]
    <2>1. /\ cur.txs \in Batches \cup {NoTxs}
          /\ \A h \in 1..Len(blocks) : blocks[h].txs \in Batches \cup {NoTxs}
      <3>1. \A b \in Blocks : b.txs \in Batches \cup {NoTxs}
        BY DEF Blocks
      <3>2. \A h \in 1..Len(blocks) : blocks[h] \in Blocks
        BY <1>2
      <3> QED
        BY <1>2, <3>1, <3>2
    <2>2. s \in Seq(Batches \cup {NoTxs}) /\ Len(s) = Len(blocks)
      BY SMTT(30), <1>2, <2>1
    <2>3. t \in Seq(Batches \cup {NoTxs}) /\ Len(t) = Len(blocks) + 1
      BY <1>2, <1>3, <2>1
    <2>4. /\ Append(s, cur.txs) \in Seq(Batches \cup {NoTxs})
          /\ Len(Append(s, cur.txs)) = Len(blocks) + 1
          /\ Append(s, cur.txs)[Len(blocks) + 1] = cur.txs
          /\ \A h \in 1..Len(blocks) : Append(s, cur.txs)[h] = blocks[h].txs
      BY SMTT(30), <1>2, <2>1, <2>2
    <2>5. \A h \in 1..(Len(blocks) + 1) : t[h] = Append(s, cur.txs)[h]
      BY <1>2, <1>3, <2>4
    <2> QED
      BY Zenon, <2>3, <2>4, <2>5, SeqEqual
  <1>9. L!Include
    <2> SUFFICES
          /\ cur.txs \in ((Waiting \cup InFlight) \ {NoTxs}) \cup {NoTxs}
          /\ (Waiting' \cup InFlight') \ {NoTxs}
               = ((Waiting \cup InFlight) \ {NoTxs}) \ {cur.txs}
      BY ZenonT(30), <1>1, <1>8 DEF L!Include, Waiting
    <2> QED
      BY <1>4, <1>7
  <1> QED
    BY <1>6, <1>9

\* Every step keeps LedgerInv and is a step of the ledger or a stutter.
LEMMA StepLedger ==
  IInv /\ LedgerInv /\ [Next]_vars => LedgerInv' /\ [L!LedgerNext]_(L!ledgerVars)
  <1> SUFFICES ASSUME IInv, LedgerInv, [Next]_vars
               PROVE  LedgerInv' /\ (L!LedgerNext \/ UNCHANGED L!ledgerVars)
    OBVIOUS
  <1> USE DEF L!LedgerNext
  <1>1. CASE SubmitBatch
    BY <1>1, SubmitLedger
  <1>2. CASE TakeBatch
    BY <1>2, TakeLedger
  <1>3. CASE UsePending \/ SavePending
    BY <1>3, PendingLedger
  <1>4. CASE Commit
    BY Zenon, <1>4, CommitLedger
  <1>5. CASE \/ Boot \/ LoadState \/ SyncSkipped \/ SyncInSync \/ SyncRollback
             \/ SyncReplay \/ SyncImpossible \/ StopExecutor
    BY Zenon, <1>5, QuietLedger
    DEF Boot, LoadState, SyncSkipped, SyncInSync, SyncRollback, SyncReplay,
        SyncImpossible, StopExecutor, store, env, Producing
  <1>6. CASE \/ StartApply \/ ApplyBlock \/ ApplyRejected \/ SignHeader \/ Propose
             \/ BroadcastHeader \/ BroadcastData
    BY Zenon, <1>6, QuietLedger
    DEF StartApply, ApplyBlock, ApplyRejected, SignHeader, Propose,
        BroadcastHeader, BroadcastData, store, env, Producing
  <1>7. CASE Faults
    BY Zenon, <1>7, QuietLedger
    DEF Faults, Crash, RequestStop, BootFails, StepFails, ProposeTimesOut,
        ExecUnreachable, ExecAnswerLost, ExecLosesBlock, BroadcastFails,
        store, env, Producing
  <1>8. CASE UNCHANGED vars
    BY <1>8, QuietLedger DEF vars
  <1> QED
    BY <1>1, <1>2, <1>3, <1>4, <1>5, <1>6, <1>7, <1>8 DEF Next, Steps

\* Block production implements the ledger: every history of the node, with all
\* its crashes, retries, recovered pending blocks and replays, is a history of a
\* ledger that includes every submitted batch at most once.
THEOREM LedgerImplemented == Spec => ImplementsLedger
  <1>1. Init => LedgerInv /\ L!LedgerInit
    <2> SUFFICES ASSUME Init PROVE LedgerInv /\ L!LedgerInit
      OBVIOUS
    <2>1. Len(queue) = 0 /\ Len(blocks) = 0 /\ pending = NoBlock /\ pc = "down"
      BY Zenon DEF Init
    <2>2. Waiting = {} /\ InFlight = {}
      BY <2>1 DEF Waiting, InFlight
    <2>3. [h \in 1..Len(blocks) |-> blocks[h].txs] = <<>>
      BY <2>1
    <2>4. LedgerInv
      BY <2>1, <2>2 DEF LedgerInv, Producing
    <2> QED
      BY <2>2, <2>3, <2>4 DEF L!LedgerInit, Waiting, Init
  <1> QED
    BY <1>1, StepLedger, Invariance, PTL DEF Spec, ImplementsLedger, L!LedgerSpec

-----------------------------------------------------------------------------
\* What a step may never do.

\* When initializeState returns, past genesis, the execution layer stands at the
\* height it was asked to reach, on the node's own history.
THEOREM StartAligns == Spec => StartAlignsExec
  <1> DEFINE Aligned == /\ Len(execLog') = SyncTarget
                        /\ \A i \in 1..Len(blocks) : execLog'[i] = Payload(blocks[i])
             A == pc = "sync" /\ pc' = "idle" /\ Len(blocks) > 0 => Aligned
  <1>1. IInv /\ [Next]_vars => [A]_vars
    <2> SUFFICES ASSUME IInv, Next, pc = "sync", pc' = "idle", Len(blocks) > 0
                 PROVE  Aligned
      BY ZenonT(40)
    <2>1. /\ Len(blocks) \in Nat /\ Len(execLog) \in Nat /\ execLog \in Seq(Payloads)
          /\ SyncTarget \in Nat /\ SyncTarget >= Len(blocks)
      BY DEF IInv, TypeOK, SyncTarget, RaftHeight, RaftAgreed, Blocks
    <2>2. SyncSkipped \/ SyncInSync \/ SyncRollback
      BY Zenon DEF
          Next, Steps, Faults, SubmitBatch, Boot, LoadState, SyncReplay,
          SyncImpossible, UsePending, TakeBatch, MayProduce, SavePending, StartApply,
          ApplyBlock, ApplyRejected, SignHeader, Propose, Commit, BroadcastHeader,
          BroadcastData, StopExecutor, Crash, RequestStop, BootFails, StepFails,
          ProposeTimesOut, ExecUnreachable, ExecAnswerLost, ExecLosesBlock,
          BroadcastFails
    <2>3. /\ Len(execLog') = SyncTarget /\ SyncTarget <= Len(execLog)
          /\ \A i \in 1..SyncTarget : execLog'[i] = execLog[i]
      BY SMTT(30), <2>1, <2>2 DEF SyncSkipped, SyncInSync, SyncRollback
    <2> QED
      BY <2>1, <2>3 DEF IInv, ExecFollowsChain
  <1> QED
    BY <1>1, Invariance, PTL DEF Spec, StartAlignsExec

\* The flag hasPendingBlock stands for a block of the store only between LoadState
\* and the commit.
FlagInv ==
  /\ pc = "boot" => ~hasPending
  /\ pc = "create" => ~PendingUsable

LEMMA StepFlag == IInv /\ FlagInv /\ [Next]_vars => FlagInv'
  <1> SUFFICES ASSUME IInv, FlagInv, [Next]_vars,
                      pc' = "boot" \/ pc' = "create"
               PROVE  FlagInv'
    BY DEF FlagInv
  <1>1. CASE UNCHANGED <<pc, hasPending, pending, lastState>>
    BY Zenon, <1>1 DEF FlagInv, PendingUsable
  <1>2. CASE Boot
    BY Zenon, <1>2 DEF FlagInv, Boot
  <1>3. CASE TakeBatch
    BY SMTT(30), <1>3 DEF FlagInv, TakeBatch, PendingUsable, store
  <1>4. \/ UNCHANGED <<pc, hasPending, pending, lastState>>
        \/ Boot \/ TakeBatch
    BY Zenon DEF Next, Steps, Faults, SubmitBatch, LoadState, SyncSkipped, SyncInSync,
           SyncRollback, SyncReplay, SyncImpossible, UsePending, SavePending,
           StartApply, ApplyBlock, ApplyRejected, SignHeader, Propose, Commit,
           BroadcastHeader, BroadcastData, StopExecutor, Crash, RequestStop,
           BootFails, StepFails, ProposeTimesOut, ExecUnreachable, ExecAnswerLost,
           ExecLosesBlock, BroadcastFails, store, vars
  <1> QED
    BY <1>1, <1>2, <1>3, <1>4

\* A pending block found at start-up is the block produced at its height, and it
\* stays in the store until then.
THEOREM RecoveredWins == Spec => RecoveredBlockWins
  <1> DEFINE A == PendingUsable =>
                    /\ pending' = pending
                    /\ Len(blocks') > Len(blocks) => blocks'[Len(blocks')] = pending
  <1>1. Init => FlagInv
    BY DEF Init, FlagInv
  <1>2. IInv /\ FlagInv /\ [Next]_vars => [A]_vars
    <2> SUFFICES ASSUME IInv, FlagInv, Next, PendingUsable
                 PROVE  /\ pending' = pending
                        /\ Len(blocks') > Len(blocks) => blocks'[Len(blocks')] = pending
      OBVIOUS
    <2>1. blocks \in Seq(Blocks) /\ Len(blocks) \in Nat
      BY SMTT(30) DEF IInv, TypeOK
    <2>2. CASE Commit
      <3>1. cur \in Blocks /\ pending = cur
        BY <2>2 DEF Commit, IInv, CurFits, Producing
      <3> QED
        BY SMTT(30), <2>1, <2>2, <3>1 DEF Commit
    <2>3. CASE ~Commit
      <3>1. pending' = pending /\ blocks' = blocks
        BY Zenon, <2>3
        DEF FlagInv, PendingUsable, Next, Steps, Faults, SubmitBatch, Boot, LoadState,
            SyncSkipped, SyncInSync, SyncRollback, SyncReplay, SyncImpossible,
            UsePending, TakeBatch, SavePending, StartApply, ApplyBlock,
            ApplyRejected, SignHeader, Propose, BroadcastHeader, BroadcastData,
            StopExecutor, Crash, RequestStop, BootFails, StepFails,
            ProposeTimesOut, ExecUnreachable, ExecAnswerLost, ExecLosesBlock,
            BroadcastFails, store
      <3> QED
        BY <2>1, <3>1
    <2> QED
      BY <2>2, <2>3
  <1> QED
    BY <1>1, <1>2, StepFlag, Invariance, PTL DEF Spec, RecoveredBlockWins
=============================================================================
