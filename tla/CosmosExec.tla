----------------------------- MODULE CosmosExec -----------------------------
(***************************************************************************)
(* The Cosmos execution layer (apps/cosmos-exec/executor) and the node that*)
(* drives it: two processes, each of which may die alone.  The executor    *)
(* keeps the application's state in IAVL versions, a log of blocks and a   *)
(* metadata file, written one after the other by a call that holds e.mu;   *)
(* the node keeps its chain and, at start, aligns the executor with it.    *)
(*                                                                         *)
(* A block is its height, since the node retries its pending block, and so *)
(* is the state root after it.  The chain starts at InitialHeight = 1.     *)
(* Calls get e.mu in the order in which they arrive, also those whose      *)
(* caller has given up: the context is looked at before the lock only.     *)
(***************************************************************************)
EXTENDS Integers, Sequences, FiniteSetsExt

CONSTANTS Setups,       \* the situations of the executor and its faults
          MaxAttempts   \* calls of ExecuteTxs and SetFinal before the node gives up

VARIABLES setup,
          stored,    \* the latest IAVL version in the database
          logged,    \* heights in blocks.jsonl
          meta,      \* metadata.json
          exec,      \* the executor's memory, with the version BaseApp works on
          up,        \* the executor's process runs
          step,      \* how far the call that holds e.mu has come
          calls,     \* the calls for e.mu in order of arrival
          chain,     \* the node's store
          main,      \* the node's start and block production
          finality,  \* the node's DA inclusion loop
          faults

disk == <<stored, logged, meta>>
executor == <<exec, up, step>>
node == <<chain, main, finality>>
vars == <<setup, disk, executor, calls, node, faults>>

NoMeta == [initialized |-> FALSE, root |-> 0, last |-> 0, final |-> 0]
NoExec ==
  [initialized |-> FALSE, root |-> 0, last |-> 0, final |-> 0, version |-> 0]
At(pc) == [pc |-> pc, attempts |-> 0]
NodeDown == [pc |-> "down", attempts |-> 0, execHeight |-> 0]

Waits == {"InitChain", "GetLatestHeight", "Rollback", "Replay", "ExecuteTxs"}

TypeOK ==
  /\ setup \in Setups
  /\ stored \in 0..setup.maxHeight /\ logged \subseteq 1..setup.maxHeight
  /\ meta \in [initialized : BOOLEAN, root : 0..setup.maxHeight,
               last : 0..setup.maxHeight, final : 0..setup.maxHeight]
  /\ exec \in [initialized : BOOLEAN, root : 0..setup.maxHeight,
               last : 0..setup.maxHeight, final : 0..setup.maxHeight,
               version : 0..setup.maxHeight]
  /\ up \in BOOLEAN
  /\ step \in {"none", "finalized", "committed", "meta"}
  /\ \A i \in DOMAIN calls :
       calls[i] \in [op : Waits \cup {"SetFinal"}, height : 0..setup.maxHeight,
                     live : BOOLEAN]
  /\ chain \in [initialized : BOOLEAN, height : 0..setup.maxHeight,
                final : 0..setup.maxHeight]
  /\ main \in [pc : Waits \cup {"down", "loaded", "ahead", "behind", "idle", "commit"},
               attempts : 0..MaxAttempts, execHeight : 0..setup.maxHeight]
  /\ finality \in [pc : {"idle", "SetFinal", "record"}, attempts : 0..MaxAttempts]
  /\ faults \in 0..setup.maxFaults

\* WithPersistence: what a new process reads from its disk.  The last height is
\* the highest one of the metadata and of the block log.
Restarted ==
  [initialized |-> meta.initialized, root |-> meta.root, final |-> meta.final,
   last |-> Max(logged \cup {meta.last}), version |-> stored]

Init ==
  /\ setup \in Setups
  /\ stored = 0 /\ logged = {} /\ meta = NoMeta
  /\ exec = Restarted /\ up = TRUE /\ step = "none" /\ calls = <<>>
  /\ chain = [initialized |-> FALSE, height |-> 0, final |-> 0]
  /\ main = NodeDown /\ finality = At("idle")
  /\ faults = 0

Fault == faults < setup.maxFaults /\ faults' = faults + 1

-----------------------------------------------------------------------------
\* What the node does with an answer.

\* The call that holds e.mu or gets it next.
Call == Head(calls)

Abandoned(q) == [i \in DOMAIN q |-> [q[i] EXCEPT !.live = FALSE]]

\* The node's process ends, and with it the interest in all its calls.
NodeEnds(q) ==
  /\ main' = NodeDown /\ finality' = At("idle")
  /\ calls' = Abandoned(q)

MainAt(pc) == main' = [main EXCEPT !.pc = pc, !.attempts = 0]

\* SyncToHeight compares the executor's height with the chain's.
Compare(height) ==
  main' = [pc |-> CASE height > chain.height -> "ahead"
                    [] height < chain.height -> "behind"
                    [] OTHER                 -> "idle",
           attempts |-> 0, execHeight |-> height]

MainGets(op) ==
  CASE op = "InitChain"       -> MainAt("loaded")
    [] op = "GetLatestHeight" -> Compare(exec.last)
    [] op = "Rollback"        -> MainAt("idle")
    [] op = "Replay"          -> Compare(main.execHeight + 1)
    [] op = "ExecuteTxs"      -> MainAt("commit")

\* A start is given up; ExecuteTxs is called again before the block, and with it
\* the node, is given up.
MainFails(q) ==
  IF main.pc = "ExecuteTxs" /\ main.attempts + 1 < MaxAttempts
  THEN /\ main' = [main EXCEPT !.pc = "idle", !.attempts = @ + 1]
       /\ calls' = q /\ UNCHANGED finality
  ELSE NodeEnds(q)

\* SetFinal is called again, too, before the submitter reports a critical error.
FinalityFails(q) ==
  IF finality.attempts + 1 < MaxAttempts
  THEN /\ finality' = [pc |-> "idle", attempts |-> finality.attempts + 1]
       /\ calls' = q /\ UNCHANGED main
  ELSE NodeEnds(q)

\* The call at the head returns; its caller, if there still is one, goes on.
Return(ok) ==
  LET rest == Tail(calls)
  IN  /\ step' = "none"
      /\ CASE ~Call.live -> calls' = rest /\ UNCHANGED <<main, finality>>
           [] Call.live /\ ~ok /\ Call.op = "SetFinal" -> FinalityFails(rest)
           [] Call.live /\ ~ok /\ Call.op # "SetFinal" -> MainFails(rest)
           [] Call.live /\ ok /\ Call.op = "SetFinal" ->
                finality' = At("record") /\ calls' = rest /\ UNCHANGED main
           [] Call.live /\ ok /\ Call.op # "SetFinal" ->
                MainGets(Call.op) /\ calls' = rest /\ UNCHANGED finality
      /\ UNCHANGED <<setup, up, chain>>

-----------------------------------------------------------------------------
\* The executor serves the call at the head.

Serves(op) == up /\ step = "none" /\ calls # <<>> /\ Call.op = op

\* The call goes on to its next write, or to the metadata.
GoOn(next) == step' = next /\ UNCHANGED <<setup, disk, up, calls, node, faults>>

InitChain ==
  /\ Serves("InitChain")
  /\ \/ /\ exec.initialized
        /\ Return(TRUE) /\ UNCHANGED <<disk, exec, faults>>
     \/ /\ ~exec.initialized
        /\ exec' = [exec EXCEPT !.initialized = TRUE, !.root = 0, !.last = 0]
        /\ GoOn("meta")

\* The checks of ExecuteTxs, the last one by BaseApp: FinalizeBlock takes the
\* height after the version it works on.
Acceptable(h) ==
  exec.initialized /\ exec.root = h - 1 /\ h = exec.last + 1 /\ h = exec.version + 1

ExecuteTxs ==
  /\ Serves("ExecuteTxs") \/ Serves("Replay")
  /\ \/ ~Acceptable(Call.height) /\ Return(FALSE) /\ UNCHANGED <<disk, exec, faults>>
     \/ Acceptable(Call.height) /\ GoOn("finalized") /\ UNCHANGED exec

\* The new version is in the database, then in the executor's memory,
AppCommit ==
  /\ up /\ step = "finalized"
  /\ stored' = Call.height
  /\ exec' = [exec EXCEPT !.version = Call.height, !.root = Call.height,
                          !.last = Call.height]
  /\ step' = "committed"
  /\ UNCHANGED <<setup, logged, meta, up, calls, node, faults>>

\* the block is in the log,
AppendBlock ==
  /\ up /\ step = "committed"
  /\ logged' = IF setup.persistent THEN logged \cup {Call.height} ELSE logged
  /\ step' = "meta"
  /\ UNCHANGED <<setup, stored, meta, exec, up, calls, node, faults>>

\* and the metadata is saved, the last step of every call that changes it.
SaveMetadata ==
  /\ up /\ step = "meta"
  /\ meta' = IF setup.persistent
             THEN [initialized |-> exec.initialized, root |-> exec.root,
                   last |-> exec.last, final |-> exec.final]
             ELSE meta
  /\ Return(TRUE)
  /\ UNCHANGED <<stored, logged, exec, faults>>

GetLatestHeight ==
  /\ Serves("GetLatestHeight")
  /\ Return(TRUE)
  /\ UNCHANGED <<disk, exec, faults>>

RollbackTo(version, root) ==
  /\ Serves("Rollback")
  /\ \/ /\ Call.height > exec.last
        /\ Return(FALSE) /\ UNCHANGED <<disk, exec, faults>>
     \/ /\ Call.height = exec.last
        /\ Return(TRUE) /\ UNCHANGED <<disk, exec, faults>>
     \/ /\ Call.height < exec.last
        /\ exec' = [exec EXCEPT !.version = version, !.root = root, !.last = version,
                                !.final = IF @ > version THEN version ELSE @]
        /\ GoOn("meta")

\* Slips: one version too far back; the state root is kept.
RollbackTooFar == RollbackTo(Call.height - 1, Call.height - 1)

\* LoadVersion makes BaseApp work on an older version; the newer one and the
\* block log stay on disk.
Rollback == RollbackTo(Call.height, Call.height)

SetFinal ==
  /\ Serves("SetFinal")
  /\ \/ /\ Call.height > exec.last
        /\ Return(FALSE) /\ UNCHANGED <<disk, exec, faults>>
     \/ /\ Call.height <= exec.last
        /\ exec' = [exec EXCEPT !.final = IF Call.height > @ THEN Call.height ELSE @]
        /\ GoOn("meta")

StartExecutor ==
  /\ ~up
  /\ up' = TRUE /\ exec' = Restarted
  /\ UNCHANGED <<setup, disk, step, calls, node, faults>>

ExecutorSteps ==
  \/ InitChain \/ ExecuteTxs \/ AppCommit \/ AppendBlock \/ SaveMetadata
  \/ GetLatestHeight \/ Rollback \/ SetFinal \/ StartExecutor

-----------------------------------------------------------------------------
\* The node.  A call to an executor that is not up has no answer.

Asks(op, height) ==
  calls' = IF up THEN Append(calls, [op |-> op, height |-> height, live |-> TRUE])
           ELSE calls

Calling(op, height) ==
  /\ Asks(op, height)
  /\ main' = [main EXCEPT !.pc = op]
  /\ UNCHANGED <<setup, disk, executor, chain, finality, faults>>

\* initializeState: the chain is initialised when the store has no state.
StartNode ==
  /\ main.pc = "down"
  /\ \/ ~chain.initialized /\ Calling("InitChain", 0)
     \/ /\ chain.initialized
        /\ MainAt("loaded")
        /\ UNCHANGED <<setup, disk, executor, calls, chain, finality, faults>>

\* The state is in the store and SyncToHeight begins; at genesis it is skipped.
SyncToHeight ==
  /\ main.pc = "loaded"
  /\ chain' = [chain EXCEPT !.initialized = TRUE]
  /\ IF chain.height < 1
     THEN MainAt("idle") /\ UNCHANGED calls
     ELSE Asks("GetLatestHeight", 0) /\ main' = [main EXCEPT !.pc = "GetLatestHeight"]
  /\ UNCHANGED <<setup, disk, executor, finality, faults>>

RollbackExec == main.pc = "ahead" /\ Calling("Rollback", chain.height)

ReplayBlock == main.pc = "behind" /\ Calling("Replay", main.execHeight + 1)

ApplyBlock ==
  /\ main.pc = "idle" /\ chain.height < setup.maxHeight
  /\ Calling("ExecuteTxs", chain.height + 1)

Commit ==
  /\ main.pc = "commit"
  /\ chain' = [chain EXCEPT !.height = @ + 1]
  /\ MainAt("idle")
  /\ UNCHANGED <<setup, disk, executor, calls, finality, faults>>

\* The caller notices that its call was cut off, by the executor's death or by
\* its own timeout.
CutOff(ops) == ~\E i \in DOMAIN calls : calls[i].live /\ calls[i].op \in ops

MainCutOff ==
  /\ main.pc \in Waits /\ CutOff(Waits)
  /\ MainFails(calls)
  /\ UNCHANGED <<setup, disk, executor, chain, faults>>

NodeSteps ==
  \/ StartNode \/ SyncToHeight \/ RollbackExec \/ ReplayBlock \/ ApplyBlock \/ Commit
  \/ MainCutOff

\* The submitter finalises block after block once it is on the DA layer,
\* and records what the executor has finalised.
Finalize ==
  /\ main.pc \in {"idle", "ExecuteTxs", "commit"} /\ finality.pc = "idle"
  /\ chain.final < chain.height
  /\ Asks("SetFinal", chain.final + 1)
  /\ finality' = [finality EXCEPT !.pc = "SetFinal"]
  /\ UNCHANGED <<setup, disk, executor, chain, main, faults>>

RecordFinal ==
  /\ finality.pc = "record"
  /\ chain' = [chain EXCEPT !.final = @ + 1]
  /\ finality' = At("idle")
  /\ UNCHANGED <<setup, disk, executor, calls, main, faults>>

FinalityCutOff ==
  /\ finality.pc = "SetFinal" /\ CutOff({"SetFinal"})
  /\ FinalityFails(calls)
  /\ UNCHANGED <<setup, disk, executor, chain, faults>>

InclusionSteps == Finalize \/ RecordFinal \/ FinalityCutOff

-----------------------------------------------------------------------------
\* What may go wrong.

NodeCrash ==
  /\ main.pc # "down" /\ Fault
  /\ NodeEnds(calls)
  /\ UNCHANGED <<setup, disk, executor, chain>>

\* A committed version may be without its line in the block log only if the
\* setup says so.
MayStopHere == step = "committed" => setup.missesLine

ExecutorDies ==
  /\ up /\ MayStopHere /\ Fault
  /\ up' = FALSE /\ exec' = NoExec
  /\ step' = "none" /\ calls' = <<>>
  /\ stored' = IF setup.persistent THEN stored ELSE 0
  /\ UNCHANGED <<setup, logged, meta, node>>

\* A write to the log or the metadata fails; so may a transaction's result, before
\* the commit.
PersistFails ==
  /\ up /\ setup.persistent /\ step # "none" /\ MayStopHere /\ Fault
  /\ Return(FALSE)
  /\ UNCHANGED <<disk, exec>>

\* The node's HTTP client gives up a call that goes on.
TimesOut ==
  /\ Fault
  /\ \E i \in DOMAIN calls : calls[i].live /\ calls' = [calls EXCEPT ![i].live = FALSE]
  /\ UNCHANGED <<setup, disk, executor, node>>

Faults == NodeCrash \/ ExecutorDies \/ PersistFails \/ TimesOut

Next == ExecutorSteps \/ NodeSteps \/ InclusionSteps \/ Faults

Spec == Init /\ [][Next]_vars

\* Both processes are started again, and their goroutines run on.
FairSpec ==
  Spec /\ WF_vars(ExecutorSteps) /\ WF_vars(NodeSteps) /\ WF_vars(InclusionSteps)

-----------------------------------------------------------------------------
\* The executor, running or started again, is never behind the chain that the
\* node has committed: ExecuteTxs answers after its last write, and a rollback
\* keeps every block that the node has.
NothingCommittedLost ==
  setup.persistent =>
    LET e == IF up THEN exec ELSE Restarted
    IN  chain.height <= e.last /\ chain.height <= e.version

\* The node records a block as final only after the executor's metadata does,
\* and the metadata never has a final block that the node has not committed.
FinalityAgrees ==
  setup.persistent => chain.final <= meta.final /\ meta.final <= chain.height

\* A final height is never taken back, and no block at or below it is executed
\* again, whatever restarts and rollbacks happen.
FinalKept ==
  [][setup.persistent =>
       /\ meta'.final >= meta.final
       /\ AppCommit => Call.height > meta.final]_vars

SyncEnds ==
  main.pc \in {"GetLatestHeight", "Rollback", "Replay"} /\ main'.pc = "idle"

\* When SyncToHeight ends the executor's height, root and application state are
\* those of the node's last block.
Aligned ==
  exec'.last = chain.height /\ exec'.root = chain.height /\ exec'.version = chain.height

\* A start of the node aligns the executor, if no committed version is without
\* its line in the block log.
SyncAligns == [][~setup.missesLine /\ SyncEnds => Aligned]_vars

\* The documentation's claim: after a crash of either process the recovery makes
\* the execution layer agree with the block store.
RecoveryResyncs == [][SyncEnds => Aligned]_vars

=============================================================================
