------------------------------- MODULE Explorer -------------------------------
(***************************************************************************)
(* tools/cosmos-explorer: an index of blocks and transactions kept in a    *)
(* bolt database beside a node.  "serve" answers queries and fills the     *)
(* index in the background; "reindex" fills it by range; the database's    *)
(* file lock lets one of them run at a time.  Every block is read from the *)
(* node by RPC and written in one bolt transaction, so a process that is   *)
(* killed loses what it was doing and nothing else.                        *)
(***************************************************************************)
EXTENDS RPCServer

VARIABLES
    blocks,   \* bucket "blocks": height -> the block as indexed, or None
    txs,      \* bucket "txs": transaction -> where it is, or None
    latest,   \* bucket "meta": latest_indexed_height
    ix,       \* the process that writes the index, and its progress
    status,   \* autoIndexerRuntime, what handleIndexerState shows of it
    query,    \* the HTTP request being served
    answer,   \* the last answer given
    faults    \* failed calls, killed processes and reindex commands so far

indexVars == <<blocks, txs, latest>>
vars == <<setup, nodeVars, dashVars, indexVars, ix, status, query, answer, faults>>

None == [height |-> 0]
AllTxs == UNION {ToSet(setup.blocks[h]) : h \in DOMAIN setup.blocks}

\* who: nobody, "serve" or "reindex"; pc: where it is; h..to: what is left to
\* index; resp: the answer of the node.
NoIndexer == [who |-> "none", pc |-> "off", h |-> 0, to |-> 0, seen |-> 0, resp |-> None]
Serving == [NoIndexer EXCEPT !.who = "serve", !.pc = "idle"]
NoQuery == [kind |-> "none", pc |-> "off", key |-> 0, asked |-> 0, h |-> 0, from |-> 0, lower |-> 0, resp |-> None]
NoAnswer == [kind |-> "none"]
NoStatus == [running |-> FALSE, error |-> FALSE, indexed |-> 0, chain |-> 0]

Init ==
    /\ NodeInit /\ DashInit
    /\ blocks = [h \in 1..MaxHeight |-> None]
    /\ txs = [t \in AllTxs |-> None]
    /\ latest = 0
    /\ ix = NoIndexer /\ status = NoStatus
    /\ query = NoQuery /\ answer = NoAnswer
    /\ faults = 0

Fault == faults < setup.maxFaults /\ faults' = faults + 1
NoFault == UNCHANGED faults

-----------------------------------------------------------------------------
(* Processes.                                                               *)

\* runServe: without the file lock within a second the command fails.
RunServe ==
    /\ ix.who = "none"
    /\ ix' = Serving
    /\ status' = NoStatus
    /\ UNCHANGED <<indexVars, query, answer, faults>>

\* reindex --from --to, with 0 for a flag that is not given.
RunReindex ==
    /\ ix.who = "none"
    /\ \E from \in setup.froms, to \in setup.tos :
          ix' = [NoIndexer EXCEPT !.who = "reindex", !.pc = "state", !.h = from, !.to = to]
    /\ Fault
    /\ UNCHANGED <<indexVars, status, query, answer>>

Killed ==
    /\ ix.who # "none"
    /\ Fault
    /\ ix' = NoIndexer /\ query' = NoQuery
    /\ UNCHANGED <<indexVars, status, answer>>


\* What an error ends: the command, or this tick of the background indexer.
GiveUp(st) ==
    /\ ix' = IF ix.who = "serve" THEN Serving ELSE NoIndexer
    /\ status' = IF ix.who = "serve" THEN [st EXCEPT !.running = FALSE, !.error = TRUE] ELSE status

-----------------------------------------------------------------------------
(* The background indexer and the reindex command.                          *)

\* runAutoIndexerTick, first part: one tick at a time.
StartTick ==
    /\ ix.who = "serve" /\ ix.pc = "idle" /\ ~ status.running
    /\ ix' = [ix EXCEPT !.pc = "state"]
    /\ status' = [status EXCEPT !.running = TRUE]
    /\ UNCHANGED <<indexVars, query, answer, faults>>

\* What a tick indexes, at most max-blocks-per-tick of them.
TickRange(seen) == [from |-> latest + 1, to |-> AtMost(latest + setup.perTick, seen)]

\* The range of a reindex command, its flags resolved.
ReindexRange(seen) ==
    [from |-> IF ix.h = 0 THEN latest + 1 ELSE ix.h,
     to   |-> IF ix.to = 0 THEN seen ELSE AtMost(ix.to, seen)]

\* GetState, then the range; nothing to do ends the tick or the command.
ReadState ==
    /\ ix.pc = "state"
    /\ LET seen  == GetState
           range == IF ix.who = "serve" THEN TickRange(seen) ELSE ReindexRange(seen)
       IN IF seen = 0 \/ range.from > range.to
            THEN /\ ix' = IF ix.who = "serve" THEN Serving ELSE NoIndexer
                 /\ status' = IF ix.who = "serve"
                                THEN [running |-> FALSE, error |-> FALSE, indexed |-> latest, chain |-> seen]
                                ELSE status
            ELSE /\ ix' = [ix EXCEPT !.pc = "get", !.h = range.from, !.to = range.to, !.seen = seen]
                 /\ UNCHANGED status
    /\ UNCHANGED <<indexVars, query, answer, faults>>

ReadStateFails ==
    /\ ix.pc = "state"
    /\ Fault
    /\ GiveUp(status)
    /\ UNCHANGED <<indexVars, query, answer>>

FailAt(h) == GiveUp([status EXCEPT !.indexed = h - 1, !.chain = ix.seen])

\* indexHeight asks the node for the block; the RPC may fail or time out.
IndexGets ==
    /\ ix.pc = "get"
    /\ IF GetBlockFails(ix.h)
         THEN FailAt(ix.h) /\ NoFault
         ELSE \/ /\ ix' = [ix EXCEPT !.pc = "da", !.resp = GetBlockData(ix.h)]
                 /\ NoFault /\ UNCHANGED status
              \/ Fault /\ FailAt(ix.h)
    /\ UNCHANGED <<indexVars, query, answer>>

IndexGetsDA ==
    /\ ix.pc = "da"
    /\ ix' = [ix EXCEPT !.pc = "put", !.resp = WithDAHeights(ix.resp)]
    /\ UNCHANGED <<indexVars, status, query, answer, faults>>

\* blockFromResponse and txsFromResponse: the entries of a block.
BlockFromResponse(resp) == resp
TxsFromResponse(resp) ==
    [t \in ToSet(resp.txs) |->
       [height |-> resp.height, index |-> CHOOSE i \in DOMAIN resp.txs :
                       resp.txs[i] = t /\ \A j \in DOMAIN resp.txs : resp.txs[j] = t => j <= i,
        headerDA |-> resp.headerDA, dataDA |-> resp.dataDA]]

\* One bolt transaction: the block, its transactions and the latest height,
\* which a reindex of an earlier range moves back.
PutBlock(resp) ==
    LET entries == TxsFromResponse(resp) IN
    /\ blocks' = [blocks EXCEPT ![resp.height] = BlockFromResponse(resp)]
    /\ txs' = [t \in AllTxs |-> IF t \in DOMAIN entries THEN entries[t] ELSE txs[t]]
    /\ latest' = resp.height

\* indexHeight's transaction, and the loop around it.
IndexHeight ==
    /\ ix.pc = "put"
    /\ PutBlock(ix.resp)
    /\ IF ix.h < ix.to
         THEN /\ ix' = [ix EXCEPT !.pc = "get", !.h = @ + 1, !.resp = None]
              /\ UNCHANGED status
         ELSE /\ ix' = IF ix.who = "serve" THEN Serving ELSE NoIndexer
              /\ status' = IF ix.who = "serve"
                             THEN [running |-> FALSE, error |-> FALSE, indexed |-> ix.to, chain |-> ix.seen]
                             ELSE status
    /\ UNCHANGED <<query, answer, faults>>

IndexStep ==
    \/ StartTick \/ ReadState \/ ReadStateFails
    \/ IndexGets \/ IndexGetsDA \/ IndexHeight

-----------------------------------------------------------------------------
(* Queries.                                                                 *)

Answer(a) == answer' = a /\ query' = NoQuery
AnswerError == Answer([kind |-> "error", query |-> query.kind])
Ask(q) == query' = q /\ UNCHANGED answer

\* A request comes in.  handleSearch takes a number for a height and anything
\* else for a hash, and then does what the handlers of blocks and of
\* transactions do.
Request ==
    /\ ix.who = "serve" /\ query.kind = "none" /\ setup.queries # {}
    /\ \/ \E h \in 1..MaxHeight : "block" \in setup.queries
              /\ query' = [NoQuery EXCEPT !.kind = "block", !.pc = "index", !.key = h]
       \/ \E t \in AllTxs : "tx" \in setup.queries
              /\ query' = [NoQuery EXCEPT !.kind = "tx", !.pc = "index", !.key = t, !.asked = height]
       \/ /\ "latest" \in setup.queries
          /\ query' = [NoQuery EXCEPT !.kind = "latest", !.pc = "get"]
    /\ answer' = NoAnswer
    /\ UNCHANGED <<indexVars, ix, status, faults>>

\* getIndexedBlock and getIndexedTx: None when there is no entry.
GetIndexedBlock(h) == blocks[h]
GetIndexedTx(t) == txs[t]

FoundBlock(kind, key, block) == [kind |-> kind, key |-> key, block |-> block]
FoundTx(key, entry) == [kind |-> "tx", key |-> key, tx |-> entry]

\* handleBlockByHeight: from the index, else from the node.
HandleBlockByHeight ==
    /\ query.kind = "block" /\ query.pc = "index"
    /\ IF GetIndexedBlock(query.key) # None
         THEN Answer(FoundBlock("block", query.key, GetIndexedBlock(query.key)))
         ELSE Ask([query EXCEPT !.pc = "get", !.h = query.key])

\* handleTxByHash: from the index, else by a scan of the node's last blocks.
HandleTxByHash ==
    /\ query.kind = "tx" /\ query.pc = "index"
    /\ IF GetIndexedTx(query.key) # None
         THEN Answer(FoundTx(query.key, GetIndexedTx(query.key)))
         ELSE Ask([query EXCEPT !.pc = "scan"])

NotFound(scannedFrom, scannedTo) ==
    Answer([kind |-> "notFound", key |-> query.key, asked |-> query.asked,
            from |-> scannedFrom, to |-> scannedTo])

\* Slip: the scan of a short chain stops before its first block.
ScanLowerShort(top) == IF setup.depth < top THEN top - setup.depth + 1 ELSE AtMost(2, top)

\* The lowest block a scan from the top looks at.
ScanLower(top) == IF setup.depth < top THEN top - setup.depth + 1 ELSE 1

\* scanTxByHash: from the last block down to scan_depth blocks.
ScanState ==
    /\ query.pc = "scan"
    /\ IF GetState = 0 THEN NotFound(0, 0)
       ELSE Ask([query EXCEPT !.pc = "get", !.h = GetState, !.from = GetState, !.lower = ScanLower(GetState)])

QueryGets ==
    /\ query.pc = "get"
    /\ IF GetBlockFails(query.h) THEN AnswerError
       ELSE Ask([query EXCEPT !.pc = "da", !.resp = GetBlockData(query.h)])

\* What a scan answers of a block that has the transaction: its first place.
ScanFinds(resp) ==
    [height |-> resp.height, headerDA |-> resp.headerDA, dataDA |-> resp.dataDA,
     index |-> CHOOSE i \in DOMAIN resp.txs : resp.txs[i] = query.key
                  /\ \A j \in DOMAIN resp.txs : resp.txs[j] = query.key => i <= j]

\* The rest of the RPC, and what the handler makes of the block.
QueryGetsDA ==
    /\ query.pc = "da"
    /\ LET resp == WithDAHeights(query.resp) IN
       IF query.kind # "tx" THEN Answer(FoundBlock(query.kind, query.key, BlockFromResponse(resp)))
       ELSE IF query.key \in ToSet(resp.txs)
         THEN Answer(FoundTx(query.key, ScanFinds(resp)))
       ELSE IF query.h = query.lower THEN NotFound(query.from, query.lower)
       ELSE Ask([query EXCEPT !.pc = "get", !.h = @ - 1, !.resp = None])

QueryFails ==
    /\ query.pc \in {"scan", "get", "da"}
    /\ Fault
    /\ AnswerError
    /\ UNCHANGED <<indexVars, ix, status>>

QueryStep ==
    \/ Request
    \/ /\ HandleBlockByHeight \/ HandleTxByHash \/ ScanState \/ QueryGets \/ QueryGetsDA
       /\ UNCHANGED <<indexVars, ix, status, faults>>
    \/ QueryFails

\* handleIndexerState: how far the index is behind the node.
HandleIndexerState == [indexed |-> latest, lag |-> IF height > latest THEN height - latest ELSE 0]

-----------------------------------------------------------------------------

ExplorerStep == RunServe \/ RunReindex \/ Killed \/ IndexStep \/ QueryStep

Next ==
    \/ NodeStep /\ UNCHANGED <<setup, dashVars, indexVars, ix, status, query, answer, faults>>
    \/ DashStep /\ UNCHANGED <<setup, nodeVars, indexVars, ix, status, query, answer, faults>>
    \/ ExplorerStep /\ UNCHANGED <<setup, nodeVars, dashVars>>

\* The operator keeps the server running, the ticker fires, and calls end.
Serves == RunServe /\ UNCHANGED <<setup, nodeVars, dashVars>>
Indexes == IndexStep /\ UNCHANGED <<setup, nodeVars, dashVars>>

Fairness == WF_vars(Serves) /\ WF_vars(Indexes)

Spec == Init /\ [][Next]_vars /\ Fairness

-----------------------------------------------------------------------------
(* Properties.                                                              *)

TypeOK ==
    /\ DOMAIN blocks = 1..MaxHeight /\ DOMAIN txs = AllTxs
    /\ latest \in 0..height /\ pruned <= dataDA /\ dataDA <= headerDA /\ headerDA <= height
    /\ ix.who \in {"none", "serve", "reindex"}
    /\ query.kind # "none" => ix.who = "serve"

\* The DA heights shown for a block are its own, or 0 for one that is not known.
TrueDA(entry, h) == {entry.headerDA, entry.dataDA} \subseteq {0, DAHeightOf(h)}

\* Every answer is true of the chain, whether it came from the index or from
\* the node, and whatever happened to the node while it was put together: a
\* block is the one at that height, a transaction is in the block and at the
\* place named, and "not found" is said only after every block from the top
\* of the chain, as it was when the request came, down to the scan depth was
\* looked at (handleBlockByHeight, handleTxByHash, handleSearch, scanTxByHash).
AnswersTrue ==
    /\ answer.kind \in {"block", "latest"} =>
         LET b == answer.block IN
         /\ b.height \in 1..height /\ b.txs = Txs(b.height) /\ TrueDA(b, b.height)
         /\ answer.kind = "block" => b.height = answer.key
    /\ answer.kind = "tx" =>
         LET e == answer.tx IN
         /\ e.height \in 1..height /\ e.index \in DOMAIN Txs(e.height)
         /\ Txs(e.height)[e.index] = answer.key /\ TrueDA(e, e.height)
    /\ answer.kind = "notFound" =>
         /\ answer.from >= answer.asked
         /\ answer.to <= 1 \/ answer.from - answer.to + 1 >= setup.depth
         /\ \A h \in answer.to..answer.from :
               h >= 1 => answer.key \notin ToSet(Txs(h))

\* The index has no holes: every block up to latest_indexed_height is in it,
\* as it is on the chain, each of its transactions is indexed at a block that
\* has it, and the lag reported is the number of blocks still missing
\* (runAutoIndexerTick, runReindex and indexHeight, through errors, kills and
\* reindexed ranges).
NoHoles ==
    /\ \A h \in 1..latest : blocks[h] # None
    /\ \A h \in 1..MaxHeight : blocks[h] # None =>
         /\ blocks[h].height = h /\ blocks[h].txs = Txs(h) /\ TrueDA(blocks[h], h)
         /\ \A t \in ToSet(Txs(h)) : txs[t] # None
    /\ \A t \in AllTxs : txs[t] # None => Txs(txs[t].height)[txs[t].index] = t
    /\ Cardinality({h \in 1..height : blocks[h] = None}) <= HandleIndexerState.lag

=============================================================================
