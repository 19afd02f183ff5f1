----------------------------- MODULE ExecServer -----------------------------
(***************************************************************************)
(* The execution service as its callers see it: the HTTP server of         *)
(* cosmos-exec-grpc with its middleware, the RPC server behind it, and the *)
(* history of blocks and transaction results which the executor keeps in   *)
(* memory and in two append-only files.  CosmosExec has the interleavings  *)
(* of calls and their writes; here a call runs alone, as e.mu demands, and *)
(* what matters is what the files hold when a write is cut short, what a   *)
(* new process reads from them, and who gets through the middleware.       *)
(* metadata.json is replaced as a whole; finality is left to CosmosExec.   *)
(*                                                                         *)
(* The transactions of a block are given by its height, since the node     *)
(* retries its pending block; no transaction is in two blocks.             *)
(***************************************************************************)
EXTENDS Integers, Sequences, SequencesExt, FiniteSets, FiniteSetsExt

CONSTANTS Setups,       \* configuration of the service, blocks and faults
          MaxAttempts   \* calls of ExecuteTxs before the node gives up

VARIABLES setup,
          stored,    \* the latest version in the application's database
          meta,      \* metadata.json
          txFile,    \* tx_results.jsonl
          blockFile, \* blocks.jsonl
          exec,      \* the executor's memory
          up,        \* the executor's process runs
          step,      \* how far the call that holds e.mu has come
          node,      \* the node that drives the executor
          short,     \* writes that were cut short
          faults,    \* deaths of a process
          buckets,   \* the rate limiter: tokens and time per address
          clock,     \* in units of half a token's refill
          passed     \* times at which requests of an address passed the limiter

files == <<txFile, blockFile>>
disk == <<stored, meta, files>>
executor == <<exec, up, step>>
limiter == <<buckets, clock, passed>>
vars == <<setup, disk, executor, node, short, faults, limiter>>

Heights == 1..Len(setup.blocks)
Txs == UNION {Range(setup.blocks[h]) : h \in Heights}
HeightOf(t) == CHOOSE h \in Heights : t \in Range(setup.blocks[h])

-----------------------------------------------------------------------------
\* A file of JSON lines: the records of its complete lines, and the last line
\* when it has no newline, with the record that can be read from it, if any.

EmptyFile == [lines |-> {}, tail |-> {}, open |-> FALSE]

\* A new line.  After a line without newline it becomes part of that line, and
\* neither of the two can be read.
AppendLine(f, r) ==
  IF f.open THEN [f EXCEPT !.tail = {}, !.open = FALSE]
  ELSE [f EXCEPT !.lines = @ \cup {r}]

\* The write ends early: a part of the record, or all of it but the newline.
CutShort(f, r) ==
  IF f.open THEN {[f EXCEPT !.tail = {}]}
  ELSE {[f EXCEPT !.tail = t, !.open = TRUE] : t \in {{}, {r}}}

\* splitLines and the loop over the lines: what cannot be parsed is skipped.
Lines(f) == f.lines \cup f.tail

LoadTxResults == Lines(txFile)
LoadBlocks == Lines(blockFile)

NoMeta == [initialized |-> FALSE, root |-> 0, last |-> 0]

\* A missing metadata.json is that of a chain not yet initialised.
LoadMetadata == IF meta.initialized THEN meta ELSE NoMeta

\* WithPersistence.  "pruned" is the height up to which this process has pruned.
WithPersistence ==
  LET m == LoadMetadata
  IN  [initialized |-> m.initialized, root |-> m.root,
       last |-> Max(LoadBlocks \cup {m.last}), version |-> stored,
       blocks |-> LoadBlocks, results |-> LoadTxResults, pruned |-> 0]

Idle == [at |-> "none", height |-> 0, txs |-> <<>>]

Init ==
  /\ setup \in Setups
  /\ stored = 0 /\ meta = NoMeta
  /\ txFile = EmptyFile /\ blockFile = EmptyFile
  /\ exec = WithPersistence /\ up = TRUE /\ step = Idle
  /\ node = [pc |-> "down", initialized |-> FALSE, height |-> 0, attempts |-> 0]
  /\ short = 0 /\ faults = 0
  /\ buckets = <<>> /\ clock = 0 /\ passed = [ip \in setup.addresses |-> <<>>]

-----------------------------------------------------------------------------
\* The middleware.

\* The first address of X-Forwarded-For, else the peer's.
ExtractIP(c) == IF c.forwarded # <<>> THEN c.forwarded[1] ELSE c.remote

Cap == 2 * setup.rps

\* The tokens of an address now, in halves: a full bucket at its first request.
Refilled(ip) ==
  IF ip \in DOMAIN buckets
  THEN Min({Cap, buckets[ip].tokens + clock - buckets[ip].time})
  ELSE Cap

\* The limiter's decision and its new state; without a limit it is not asked.
Allow(ip) == setup.rps = 0 \/ Refilled(ip) >= 2

Counted(ip) ==
  IF setup.rps = 0 THEN UNCHANGED <<buckets, passed>>
  ELSE LET b == [tokens |-> Refilled(ip) - (IF Allow(ip) THEN 2 ELSE 0), time |-> clock]
       IN  /\ buckets' = [a \in DOMAIN buckets \cup {ip} |-> IF a = ip THEN b ELSE buckets[a]]
           /\ passed' = IF Allow(ip) THEN [passed EXCEPT ![ip] = Append(@, clock)] ELSE passed


\* A POST needs the token, if one is configured, and a node that takes POSTs.
Authorized(c, post) ==
  ~post \/ (~setup.readOnly /\ (~setup.authToken \/ c.token))

\* A request that gets through, and one that is answered with 401, 403 or 429.
Passes(c, post) ==
  /\ Authorized(c, post) /\ Allow(ExtractIP(c))
  /\ Counted(ExtractIP(c)) /\ UNCHANGED clock

Rejected(c, post) ==
  IF Authorized(c, post)
  THEN ~Allow(ExtractIP(c)) /\ Counted(ExtractIP(c)) /\ UNCHANGED clock
  ELSE UNCHANGED limiter

\* The node's client sends neither a token nor the address of a proxy.
NodeCaller == [remote |-> "local", forwarded |-> <<>>, token |-> FALSE]

-----------------------------------------------------------------------------
\* The node.  A call that is rejected, refused or cut off is an error; ExecuteTxs
\* is called again before the node gives up, every other call ends its start.

NodeFails ==
  node' = IF node.pc \in {"idle", "executing"} /\ node.attempts + 1 < MaxAttempts
          THEN [node EXCEPT !.pc = "idle", !.attempts = @ + 1]
          ELSE [node EXCEPT !.pc = "down", !.attempts = 0]

NodeAt(pc) == node' = [node EXCEPT !.pc = pc, !.attempts = 0]

\* The service takes the node's call.
Called(post) == up /\ step = Idle /\ Passes(NodeCaller, post)

StartNode ==
  /\ node.pc = "down"
  /\ NodeAt(CASE ~node.initialized -> "InitChain"
              [] node.initialized /\ node.height = 0 -> "idle"
              [] node.initialized /\ node.height > 0 -> "GetLatestHeight")
  /\ UNCHANGED <<setup, disk, executor, short, faults, limiter>>

\* The genesis state is in the node's store.
SaveState ==
  /\ node.pc = "loaded"
  /\ node' = [node EXCEPT !.pc = "idle", !.initialized = TRUE]
  /\ UNCHANGED <<setup, disk, executor, short, faults, limiter>>

\* connectCall and httpCall: no executor, or an answer other than 200.
CallFails ==
  /\ node.pc \in {"InitChain", "GetLatestHeight", "Rollback"}
       \/ (node.pc = "idle" /\ node.height < Len(setup.blocks))
  /\ \/ ~up /\ UNCHANGED limiter
     \/ up /\ Rejected(NodeCaller, node.pc # "GetLatestHeight")
  /\ NodeFails
  /\ UNCHANGED <<setup, disk, executor, short, faults>>

-----------------------------------------------------------------------------
\* The executor's calls.

SaveMetadata(e) == meta' = [initialized |-> e.initialized, root |-> e.root, last |-> e.last]

\* The RPC server wants an initial height above zero, which every genesis has.
InitChain ==
  /\ node.pc = "InitChain" /\ Called(TRUE)
  /\ IF exec.initialized THEN UNCHANGED <<exec, meta>>
     ELSE /\ exec' = [exec EXCEPT !.initialized = TRUE, !.root = 0, !.last = 0]
          /\ SaveMetadata(exec')
  /\ NodeAt("loaded")
  /\ UNCHANGED <<setup, stored, files, up, step, short, faults>>

\* GET /exec/height, and the node's comparison of the heights.  The executor is
\* never behind (NothingCommittedLost of CosmosExec).
GetLatestHeight ==
  /\ node.pc = "GetLatestHeight" /\ Called(FALSE)
  /\ NodeAt(IF exec.last > node.height THEN "Rollback" ELSE "idle")
  /\ UNCHANGED <<setup, disk, executor, short, faults>>

Acceptable(h) ==
  exec.initialized /\ exec.root = h - 1 /\ h = exec.last + 1 /\ h = exec.version + 1

\* The RPC server's ExecuteTxs: the executor refuses the block or begins with it.
ExecuteTxs ==
  /\ node.pc = "idle" /\ node.height < Len(setup.blocks) /\ Called(TRUE)
  /\ LET h == node.height + 1
     IN  IF Acceptable(h)
         THEN /\ step' = [at |-> "results", height |-> h, txs |-> setup.blocks[h]]
              /\ node' = [node EXCEPT !.pc = "executing"]
         ELSE UNCHANGED step /\ NodeFails
  /\ UNCHANGED <<setup, disk, exec, up, short, faults>>

\* The results of a finalised block go to memory and to the file one by one,
\* before the application commits.
HasResult == up /\ step.at = "results" /\ step.txs # <<>>

Remembered == exec' = [exec EXCEPT !.results = @ \cup {Head(step.txs)}]

AppendTxResult ==
  /\ HasResult /\ Remembered
  /\ txFile' = AppendLine(txFile, Head(step.txs))
  /\ step' = [step EXCEPT !.txs = Tail(@)]
  /\ UNCHANGED <<setup, stored, meta, blockFile, up, node, short, faults, limiter>>

\* An error of a write ends the call; a part of the line may be in the file.
WriteFails == short < setup.maxShort /\ short' = short + 1 /\ step' = Idle /\ NodeFails

AppendTxResultFails ==
  /\ HasResult /\ Remembered
  /\ txFile' \in CutShort(txFile, Head(step.txs))
  /\ WriteFails
  /\ UNCHANGED <<setup, stored, meta, blockFile, up, faults, limiter>>

AppCommit ==
  /\ up /\ step.at = "results" /\ step.txs = <<>>
  /\ stored' = step.height
  /\ exec' = [exec EXCEPT !.version = step.height, !.root = step.height,
                          !.last = step.height, !.blocks = @ \cup {step.height}]
  /\ step' = [step EXCEPT !.at = "block"]
  /\ UNCHANGED <<setup, meta, files, up, node, short, faults, limiter>>

AppendBlock ==
  /\ up /\ step.at = "block"
  /\ blockFile' = AppendLine(blockFile, step.height)
  /\ step' = [step EXCEPT !.at = "meta"]
  /\ UNCHANGED <<setup, stored, meta, txFile, exec, up, node, short, faults, limiter>>

AppendBlockFails ==
  /\ up /\ step.at = "block"
  /\ blockFile' \in CutShort(blockFile, step.height)
  /\ WriteFails
  /\ UNCHANGED <<setup, stored, meta, txFile, exec, up, faults, limiter>>

\* ExecuteTxs returns after the metadata, if the node still waits for it.
EndExecuteTxs ==
  /\ up /\ step.at = "meta"
  /\ SaveMetadata(exec)
  /\ step' = Idle
  /\ IF node.pc = "executing" THEN NodeAt("commit") ELSE UNCHANGED node
  /\ UNCHANGED <<setup, stored, files, exec, up, short, faults, limiter>>

Commit ==
  /\ node.pc = "commit"
  /\ node' = [node EXCEPT !.pc = "idle", !.height = @ + 1]
  /\ UNCHANGED <<setup, disk, executor, short, faults, limiter>>

\* Slip: the target itself is trimmed.
TrimmedFrom(h) ==
  [exec EXCEPT !.blocks = {b \in @ : b < h}, !.results = {t \in @ : HeightOf(t) < h}]

\* Blocks and results above the target leave the memory, not the files.
TrimmedAbove(h) ==
  [exec EXCEPT !.blocks = {b \in @ : b <= h}, !.results = {t \in @ : HeightOf(t) <= h}]

\* POST /exec/rollback with a height above zero.
Rollback ==
  /\ node.pc = "Rollback" /\ Called(TRUE)
  /\ LET h == node.height
     IN  exec' = [TrimmedAbove(h) EXCEPT !.version = h, !.root = h, !.last = h]
  /\ SaveMetadata(exec')
  /\ NodeAt("idle")
  /\ UNCHANGED <<setup, stored, files, up, step, short, faults>>

PruneExec(h) ==
  [exec EXCEPT !.blocks = {b \in @ : b > h}, !.results = {t \in @ : HeightOf(t) > h},
               !.pruned = h]

\* POST /exec/prune by the node's pruner, which leaves the latest blocks alone.
Prune ==
  /\ node.pc = "idle" /\ node.height - setup.keepRecent > exec.pruned
  /\ Called(TRUE)
  /\ exec' = PruneExec(node.height - setup.keepRecent)
  /\ UNCHANGED <<setup, disk, up, step, node, short, faults>>

StartExecutor ==
  /\ ~up
  /\ up' = TRUE /\ exec' = WithPersistence
  /\ UNCHANGED <<setup, disk, step, node, short, faults, limiter>>

-----------------------------------------------------------------------------
\* What may happen to the two processes, and the other callers of the service.

Fault == faults < setup.maxFaults /\ faults' = faults + 1

ExecutorDies ==
  /\ up /\ Fault
  /\ up' = FALSE /\ step' = Idle
  /\ IF node.pc = "executing" THEN NodeFails ELSE UNCHANGED node
  /\ buckets' = <<>> /\ passed' = [ip \in setup.addresses |-> <<>>]
  /\ UNCHANGED <<setup, disk, exec, short, clock>>

\* SIGTERM: the server waits for the call that runs, then the files are closed.
Shutdown ==
  /\ up /\ step = Idle /\ Fault
  /\ up' = FALSE
  /\ buckets' = <<>> /\ passed' = [ip \in setup.addresses |-> <<>>]
  /\ UNCHANGED <<setup, disk, exec, step, node, short, clock>>

NodeCrash ==
  /\ node.pc # "down" /\ Fault
  /\ NodeAt("down")
  /\ UNCHANGED <<setup, disk, executor, short, limiter>>

\* A request of an application, with or without the right to pass.
Request ==
  /\ up /\ \E c \in setup.callers, post \in BOOLEAN :
       Passes(c, post) \/ Rejected(c, post)
  /\ UNCHANGED <<setup, disk, executor, node, short, faults>>

Tick ==
  /\ clock < setup.maxClock
  /\ clock' = clock + 1
  /\ UNCHANGED <<setup, disk, executor, node, short, faults, buckets, passed>>

NodeSteps == StartNode \/ SaveState \/ CallFails \/ Commit

ExecutorSteps ==
  \/ InitChain \/ GetLatestHeight \/ ExecuteTxs \/ AppendTxResult \/ AppCommit
  \/ AppendBlock \/ EndExecuteTxs \/ Rollback \/ StartExecutor

Next ==
  \/ NodeSteps \/ ExecutorSteps \/ Prune
  \/ AppendTxResultFails \/ AppendBlockFails
  \/ ExecutorDies \/ Shutdown \/ NodeCrash \/ Request \/ Tick

Spec == Init /\ [][Next]_vars

\* Both processes run, and are started again by their operator.
FairSpec == Spec /\ WF_vars(NodeSteps) /\ WF_vars(ExecutorSteps)

-----------------------------------------------------------------------------
\* What the service answers when it holds e.mu.

NotFound == 0

GetTxResult(t) == IF t \in exec.results THEN HeightOf(t) ELSE NotFound
GetBlock(h) == IF h \in exec.blocks THEN h ELSE NotFound
GetLatestBlock == IF exec.last = 0 THEN NotFound ELSE GetBlock(exec.last)

\* GET /tx/result, and /tx/{hash}, which says of a missing result that it is pending.
TxResult(t) == [found |-> GetTxResult(t) # NotFound, height |-> GetTxResult(t)]
TxByHash(t) == IF GetTxResult(t) = NotFound THEN "pending" ELSE "done"

\* GET /blocks/{height} and /blocks/latest, the latter as the SDK's client reads it.
BlockByHeight(h) == IF h = 0 \/ GetBlock(h) = NotFound THEN "error" ELSE "block"
BlocksLatest == IF GetLatestBlock = NotFound THEN "none" ELSE "block"

Answering == up /\ step = Idle

Kept == (exec.pruned + 1)..node.height

MissingBlocks == {h \in Kept : BlockByHeight(h) = "error"}
MissingTxs ==
  {t \in Txs : HeightOf(t) \in Kept /\ TxByHash(t) = "pending" /\ ~TxResult(t).found}

\* The history survives restarts and rollbacks: every block and result of the
\* committed chain that the process has not pruned is answered, but for one
\* record per write that was cut short, whose line swallows the next one.
HistoryKept ==
  Answering =>
    /\ Cardinality(MissingBlocks) + Cardinality(MissingTxs) <= short
    /\ short = 0 /\ Kept # {} => BlocksLatest = "block"

\* The limiter admits no more than a full bucket and the refill since, in any
\* window of time, whatever the pauses between the requests of an address.
WithinRate ==
  \A ip \in setup.addresses :
    LET p == passed[ip]
    IN  \A i, j \in DOMAIN p : i <= j => 2 * (j - i + 1) <= Cap + p[j] - p[i]

=============================================================================
