------------------------------- MODULE TxFlow -------------------------------
(***************************************************************************)
(* The way of a transaction: a client of the SDK signs it and posts it to  *)
(* the executor's HTTP front end, which queues it; the node's reaper takes *)
(* the queue away and hands it to the sequencer; a block is made and       *)
(* executed by the Cosmos application; the client polls for the result.    *)
(* The front end also has a faucet, which signs transactions of its own.   *)
(*                                                                         *)
(* A transaction's hash is the transaction.  The batch queue is the        *)
(* durable queue that module BatchQueue implements; crashes in the middle  *)
(* of a block are the subject of modules BlockProducer and CosmosExec.     *)
(***************************************************************************)
EXTENDS Integers, Sequences, FiniteSets, SequencesExt

CONSTANT Setups   \* configurations, clients and faults

VARIABLES
  setup,
  client,    \* client -> its state
  wire,      \* submit requests on their way: <<client, attempt, tx>>
  ledger,    \* committed accounts and balances
  mempool,   \* CosmosExecutor.mempool
  results,   \* txResults: tx -> [height, code]
  run,       \* the block in execution: uncommitted ledger, transactions done
  blocks,    \* executed blocks: <<<<[tx, code], ...>>, ...>>
  final,     \* finalizedHeight
  fc,        \* the faucet: nextSeq, lastSeen and the request that holds fc.mu
  reaper,    \* what SubmitTxs has in hand
  seen,      \* the node's txCache
  queue,     \* batches at the sequencer
  node,      \* batch taken from the queue; block saved but not executed
  faults

front == <<mempool, results, fc>>
chain == <<ledger, run, blocks, final>>
inner == <<reaper, seen, queue, node>>
vars == <<setup, client, wire, front, chain, inner, faults>>

Treasury == "treasury"
Collector == "collector"
Clients == setup.clients
Accounts == Clients \cup {Treasury}
Holders == Accounts \cup {Collector}

NoTx == [from |-> "none"]
NoFaucet == [nextSeq |-> 0, lastSeen |-> {}, to |-> "none", seq |-> 0, num |-> 0]
NoRun == [ledger |-> <<>>, done |-> <<>>]
NoNode == [taken |-> <<>>, pending |-> <<>>]

Fault(kind) == kind \in setup.kinds /\ faults < setup.maxFaults /\ faults' = faults + 1

Init ==
  /\ setup \in Setups
  /\ client = [c \in Clients |->
                 [pc |-> IF setup.faucet THEN "fund" ELSE "fetch", n |-> 1, attempt |-> 0,
                  tx |-> NoTx, got |-> <<>>, told |-> <<>>, again |-> FALSE]]
  /\ wire = {}
  /\ ledger = [num |-> [a \in Accounts |-> CASE a = Treasury         -> 0
                                             [] a \in setup.existing -> 1
                                             [] OTHER                -> -1],
               seq |-> [a \in Accounts |-> 0],
               bal |-> [h \in Holders |-> CASE h = Treasury         -> setup.genesis
                                            [] h \in setup.existing -> setup.balance
                                            [] OTHER                -> 0]]
  /\ mempool = <<>> /\ results = <<>> /\ run = NoRun /\ blocks = <<>> /\ final = 0
  /\ fc = NoFaucet /\ reaper = <<>> /\ seen = {} /\ queue = <<>>
  /\ node = NoNode /\ faults = 0

-----------------------------------------------------------------------------
(***************************************************************************)
(* Gas and fees; prices and factors in thousandths                         *)
(***************************************************************************)
CeilMul(x, permille) == (x * permille + 999) \div 1000

\* txSimulateHandler: the gas that a dry run takes, with a margin.
gasLimit(used) == CeilMul(used, setup.adjust)

\* feePolicy: no fee unless a price is set.
requiredFee(gas) == CeilMul(gas, setup.price)

\* The faucet's copy of the formula.
feeForGas(gas) == CeilMul(gas, setup.price)

-----------------------------------------------------------------------------
(***************************************************************************)
(* Executing a transaction                                                 *)
(***************************************************************************)
Exists(l, a) == l.num[a] >= 0
NextNum(l) == Cardinality({a \in Accounts : Exists(l, a)})

\* An account gets the next number when it first signs or is first paid.
AutoCreate(l, a) ==
  IF Exists(l, a) THEN l ELSE [l EXCEPT !.num[a] = NextNum(l)]

Pay(l, a, b, amount) ==
  [l EXCEPT !.bal = [@ EXCEPT ![a] = @ - amount, ![b] = @ + amount]]

\* The message.  The effect of a contract's call is the transaction in its block.
RunMsg(l, tx) ==
  IF tx.to \notin Accounts THEN [ledger |-> l, code |-> 0]
  ELSE IF l.bal[tx.from] < tx.amount THEN [ledger |-> l, code |-> 5]
  ELSE [ledger |-> AutoCreate(Pay(l, tx.from, tx.to, tx.amount), tx.to), code |-> 0]

txFeeChecker(tx) == tx.fee >= requiredFee(tx.gas)

\* Slip: the sequence is not part of what is signed.
VerifiesAnySeq(l, tx) == l.num[tx.from] = tx.num

\* SigVerificationDecorator: the signature covers number and sequence.
Verifies(l, tx) == l.num[tx.from] = tx.num /\ l.seq[tx.from] = tx.seq

\* The ante handler, then the message.  What the ante handler does is undone when
\* it fails, and stays when only the message fails.
Deliver(l, tx) ==
  LET made == AutoCreate(l, tx.from)
      paid == Pay(made, tx.from, Collector, tx.fee)
      ante == [paid EXCEPT !.seq[tx.from] = @ + 1]
  IN  IF ~setup.signed THEN RunMsg(l, tx)
      ELSE IF ~txFeeChecker(tx) THEN [ledger |-> l, code |-> 13]
      ELSE IF made.bal[tx.from] < tx.fee THEN [ledger |-> l, code |-> 5]
      ELSE IF ~Verifies(made, tx) THEN [ledger |-> l, code |-> 4]
      ELSE RunMsg(ante, tx)

\* EndBlocker: the fees of the block go to the treasury.
sweepFeesToTreasury(l) ==
  IF setup.sweep THEN Pay(l, Collector, Treasury, l.bal[Collector]) ELSE l

-----------------------------------------------------------------------------
(***************************************************************************)
(* The client                                                              *)
(***************************************************************************)
At(c, pc) == client[c].pc = pc
Goes(c, pc) == client' = [client EXCEPT ![c].pc = pc]

\* GetAccountInfo: the committed account, or the number a new one would get.
AccountInfo(a) ==
  [num |-> IF Exists(ledger, a) THEN ledger.num[a] ELSE NextNum(ledger),
   seq |-> ledger.seq[a]]

\* /tx/simulate: the fee for the gas that a dry run took, with a margin.
SimulateTx == [gas |-> gasLimit(setup.gasUsed), fee |-> requiredFee(gasLimit(setup.gasUsed))]

BuildSignedExecuteTx(c, n, info) ==
  [from |-> c, n |-> n, to |-> "contract", amount |-> 0, num |-> info.num, seq |-> info.seq,
   gas |-> SimulateTx.gas, fee |-> SimulateTx.fee]

\* resolveSignerInput: number and sequence come from the chain.
FetchAccount(c) ==
  /\ At(c, "fetch")
  /\ client' = [client EXCEPT
       ![c].tx = BuildSignedExecuteTx(c, client[c].n, AccountInfo(c)),
       ![c].pc = "submit", ![c].attempt = 0, ![c].again = FALSE]
  /\ UNCHANGED <<setup, wire, front, chain, inner, faults>>

\* The request leaves.
SubmitTx(c) ==
  /\ At(c, "submit")
  /\ wire' = wire \cup {<<c, client[c].attempt, client[c].tx>>}
  /\ client' = [client EXCEPT ![c].pc = "sent", ![c].attempt = @ + 1]
  /\ UNCHANGED <<setup, front, chain, inner, faults>>

InjectTx(tx) == run = NoRun /\ mempool' = Append(mempool, tx)

\* doJSONOnce: the answer to request r reaches a client that still waits for it.
Answered(r, pc) ==
  client' = [client EXCEPT ![r[1]].pc =
               IF @ = "sent" /\ client[r[1]].attempt = r[2] + 1 /\ client[r[1]].tx = r[3]
               THEN pc ELSE @]

\* submitTxHandler: the transaction is queued unseen.
submitTxHandler ==
  \E r \in wire :
    /\ wire' = wire \ {r}
    /\ InjectTx(r[3]) /\ Answered(r, "result")
    /\ UNCHANGED <<setup, results, fc, chain, inner, faults>>

\* securityMiddleware: too many requests.  Such an answer is not retried.
TooManyRequests ==
  /\ Fault("refuse")
  /\ \E r \in wire : wire' = wire \ {r} /\ Answered(r, "unsure")
  /\ UNCHANGED <<setup, front, chain, inner>>

Attempts(c) == (1 + setup.retryMax) * (IF client[c].again THEN 2 ELSE 1)

\* doJSON: no answer in time, or the connection is refused; the request may still
\* arrive, or not at all.  It is sent again retryMax times.
Timeout(c) ==
  /\ At(c, "sent") /\ Fault("timeout")
  /\ \/ UNCHANGED wire
     \/ wire' = {r \in wire : r[1] # c \/ r[2] # client[c].attempt - 1}
  /\ Goes(c, IF client[c].attempt < Attempts(c) THEN "submit" ELSE "unsure")
  /\ UNCHANGED <<setup, front, chain, inner>>

Found(tx) == tx \in DOMAIN results

\* The production guide: look for a result, and if there is none submit again.
Unsure(c) ==
  /\ At(c, "unsure")
  /\ client' = [client EXCEPT
       ![c].pc = IF Found(client[c].tx) THEN "result"
                 ELSE IF setup.guide /\ ~client[c].again THEN "submit" ELSE "done",
       ![c].again = TRUE]
  /\ UNCHANGED <<setup, wire, front, chain, inner, faults>>

\* GetTxFinality, first request: the result as it is now.
GetTxResult(c) ==
  /\ At(c, "result") /\ Found(client[c].tx)
  /\ client' = [client EXCEPT ![c].pc = "status", ![c].got = <<results[client[c].tx]>>]
  /\ UNCHANGED <<setup, wire, front, chain, inner, faults>>

GetStatus == [latest |-> Len(blocks), finalized |-> final]


\* The second request: is the result's block final?
FinalityDA(result) == result.height <= GetStatus.finalized

\* WaitTxFinality: back to the first request until the block is final; then the
\* client signs its next transaction.
Status(c) ==
  /\ At(c, "status")
  /\ LET result == client[c].got[1]
     IN  client' = [client EXCEPT
           ![c].got = <<>>,
           ![c].told = IF FinalityDA(result)
                       THEN Append(@, [tx |-> client[c].tx, height |-> result.height,
                                       code |-> result.code])
                       ELSE @,
           ![c].n = IF FinalityDA(result) /\ @ < setup.txs THEN @ + 1 ELSE @,
           ![c].pc = IF ~FinalityDA(result) THEN "result"
                     ELSE IF client[c].n < setup.txs THEN "fetch" ELSE "done"]
  /\ UNCHANGED <<setup, wire, front, chain, inner, faults>>

-----------------------------------------------------------------------------
(***************************************************************************)
(* The faucet                                                              *)
(***************************************************************************)
\* The higher one of the chain's sequence and of the faucet's own.
sequence(seq, next) == IF next > seq THEN next ELSE seq

\* faucetHandler under fc.mu, up to the account's state.  An address that was
\* served is refused for the time of the cooldown.
FaucetReads(c) ==
  /\ At(c, "fund") \/ (At(c, "funded") /\ ledger.bal[c] = 0)
  /\ fc.to = "none" /\ c \notin fc.lastSeen
  /\ LET info == AccountInfo(Treasury)
     IN  fc' = [fc EXCEPT !.to = c, !.num = info.num,
                          !.seq = sequence(info.seq, fc.nextSeq)]
  /\ Goes(c, "funded")
  /\ UNCHANGED <<setup, wire, mempool, results, chain, inner, faults>>

BuildSignedBankSend ==
  [from |-> Treasury, n |-> 0, to |-> fc.to, amount |-> setup.payout, num |-> fc.num,
   seq |-> fc.seq, gas |-> setup.faucetGas, fee |-> feeForGas(setup.faucetGas)]

\* The rest: sign, queue, count on.
FaucetInjects ==
  /\ fc.to # "none" /\ InjectTx(BuildSignedBankSend)
  /\ fc' = [NoFaucet EXCEPT !.nextSeq = fc.seq + 1, !.lastSeen = fc.lastSeen \cup {fc.to}]
  /\ UNCHANGED <<setup, client, wire, results, chain, inner, faults>>

CooldownOver ==
  /\ fc.lastSeen # {} /\ Fault("cooldown")
  /\ fc' = [fc EXCEPT !.lastSeen = {}]
  /\ UNCHANGED <<setup, client, wire, mempool, results, chain, inner>>

\* The user waits for the balance before they sign; or not.
Funded(c) ==
  /\ At(c, "funded")
  /\ ~setup.patient \/ ledger.bal[c] > 0
  /\ Goes(c, IF setup.txs = 0 THEN "done" ELSE "fetch")
  /\ UNCHANGED <<setup, wire, front, chain, inner, faults>>

-----------------------------------------------------------------------------
(***************************************************************************)
(* The reaper and the sequencer                                            *)
(***************************************************************************)
\* SubmitTxs calls GetTxs, which empties the mempool.
GetTxs ==
  /\ run = NoRun /\ reaper = <<>> /\ mempool # <<>>
  /\ reaper' = mempool /\ mempool' = <<>>
  /\ UNCHANGED <<setup, client, wire, results, fc, chain, seen, queue, node, faults>>

\* The answer of GetTxs does not arrive.
GetTxsLost ==
  /\ run = NoRun /\ reaper = <<>> /\ mempool # <<>> /\ Fault("loss")
  /\ mempool' = <<>>
  /\ UNCHANGED <<setup, client, wire, results, fc, chain, inner>>

IsTxSeen(tx) == tx \in seen
newTxs(txs) == SelectSeq(txs, LAMBDA tx : ~IsTxSeen(tx))

QueueFull == setup.queueSize > 0 /\ Len(queue) >= setup.queueSize

\* The new ones go to the sequencer as one batch; a full queue refuses it, and the
\* reaper drops it.
SubmitTxs ==
  /\ reaper # <<>>
  /\ IF newTxs(reaper) = <<>> \/ QueueFull
     THEN UNCHANGED <<seen, queue>>
     ELSE /\ queue' = Append(queue, newTxs(reaper))
          /\ seen' = seen \cup Range(newTxs(reaper))
  /\ reaper' = <<>>
  /\ UNCHANGED <<setup, client, wire, front, chain, node, faults>>

\* CleanupOldTxs: hashes older than a day are forgotten.
CleanupOldTxs ==
  /\ seen # {} /\ Fault("forget")
  /\ seen' = {}
  /\ UNCHANGED <<setup, client, wire, front, chain, reaper, queue, node>>

\* FilterTxs: a transaction is accepted if it fits beside those accepted before it,
\* else postponed.
Fits(txs) ==
  LET used[i \in 0..Len(txs)] ==
        IF i = 0 THEN 0
        ELSE IF used[i - 1] + setup.size[txs[i].from] <= setup.maxBytes
             THEN used[i - 1] + setup.size[txs[i].from] ELSE used[i - 1]
  IN  {i \in DOMAIN txs : used[i] > used[i - 1]}

Chosen(txs, places) ==
  LET at(k) == CHOOSE i \in places : Cardinality({j \in places : j < i}) = k - 1
  IN  [k \in 1..Cardinality(places) |-> txs[at(k)]]

FilterTxs(txs) == Chosen(txs, Fits(txs))

Postponed(txs) == Chosen(txs, DOMAIN txs \ Fits(txs))

\* GetNextBatch: the rest of the batch goes back to the front of the queue.
GetNextBatch ==
  /\ node = NoNode /\ queue # <<>>
  /\ node' = [node EXCEPT !.taken = FilterTxs(Head(queue))]
  /\ queue' = IF Postponed(Head(queue)) = <<>> THEN Tail(queue)
              ELSE <<Postponed(Head(queue))>> \o Tail(queue)
  /\ UNCHANGED <<setup, client, wire, front, chain, reaper, seen, faults>>

\* The block is saved before it is executed.
SaveBlock ==
  /\ node.taken # <<>>
  /\ node' = [taken |-> <<>>, pending |-> node.taken]
  /\ UNCHANGED <<setup, client, wire, front, chain, reaper, seen, queue, faults>>

\* Results are kept by hash: the last one of a transaction wins.
Recorded(done, h) ==
  [tx \in DOMAIN results \cup {d.tx : d \in Range(done)} |->
     LET places == {i \in DOMAIN done : done[i].tx = tx}
     IN  IF places = {} THEN results[tx] ELSE [height |-> h, code |-> done[Max(places)].code]]

\* FinalizeBlock, one transaction after the other, under e.mu.
FinalizeBlock ==
  /\ Len(run.done) < Len(node.pending)
  /\ LET tx == node.pending[Len(run.done) + 1]
         d  == Deliver(IF run = NoRun THEN ledger ELSE run.ledger, tx)
     IN  run' = [ledger |-> d.ledger, done |-> Append(run.done, [tx |-> tx, code |-> d.code])]
  /\ UNCHANGED <<setup, client, wire, front, ledger, blocks, final, inner, faults>>

\* The rest of ExecuteTxs: results, commit.
ExecuteTxs ==
  /\ run # NoRun /\ Len(run.done) = Len(node.pending)
  /\ ledger' = sweepFeesToTreasury(run.ledger)
  /\ blocks' = Append(blocks, run.done)
  /\ results' = Recorded(run.done, Len(blocks) + 1)
  /\ node' = NoNode /\ run' = NoRun
  /\ UNCHANGED <<setup, client, wire, mempool, fc, final, reaper, seen, queue, faults>>

SetFinal ==
  /\ run = NoRun /\ final < Len(blocks) /\ final' = final + 1
  /\ UNCHANGED <<setup, client, wire, front, ledger, run, blocks, inner, faults>>

\* The executor's process dies and starts again: mempool and faucet are new, the
\* results come back from the disk.
ExecutorCrash ==
  /\ Fault("executor")
  /\ mempool' = <<>> /\ fc' = NoFaucet /\ run' = NoRun
  /\ UNCHANGED <<setup, client, wire, results, ledger, blocks, final, inner>>

\* The node's process dies and starts again; its queue and its saved block are on
\* its disk.
NodeCrash ==
  /\ Fault("node")
  /\ reaper' = <<>> /\ seen' = {} /\ node' = [node EXCEPT !.taken = <<>>]
  /\ UNCHANGED <<setup, client, wire, front, chain, queue>>

\* Polls that find nothing yet, also those of clients whose transaction is lost.
Polls ==
  /\ \A c \in Clients :
       \/ At(c, "done")
       \/ At(c, "result") /\ ~Found(client[c].tx)
       \/ At(c, "funded") /\ ledger.bal[c] = 0
  /\ UNCHANGED vars

ClientStep(c) ==
  \/ FetchAccount(c) \/ SubmitTx(c) \/ Unsure(c) \/ GetTxResult(c) \/ Status(c)
  \/ FaucetReads(c) \/ Funded(c)

ServerStep ==
  \/ submitTxHandler \/ FaucetInjects \/ GetTxs \/ SubmitTxs \/ GetNextBatch
  \/ SaveBlock \/ FinalizeBlock \/ ExecuteTxs \/ SetFinal

Next ==
  \/ \E c \in Clients : ClientStep(c) \/ Timeout(c)
  \/ ServerStep
  \/ TooManyRequests \/ CooldownOver \/ GetTxsLost \/ CleanupOldTxs \/ ExecutorCrash \/ NodeCrash
  \/ Polls

Spec ==
  /\ Init /\ [][Next]_vars
  /\ WF_vars(submitTxHandler) /\ WF_vars(FaucetInjects) /\ WF_vars(GetTxs) /\ WF_vars(SubmitTxs)
  /\ WF_vars(GetNextBatch) /\ WF_vars(SaveBlock)
  /\ WF_vars(FinalizeBlock) /\ WF_vars(ExecuteTxs) /\ WF_vars(SetFinal)
  /\ \A c \in UNION {s.clients : s \in Setups} :
       WF_vars(c \in Clients /\ (FetchAccount(c) \/ SubmitTx(c) \/ Unsure(c) \/ FaucetReads(c) \/ Funded(c)))
       /\ WF_vars(c \in Clients /\ GetTxResult(c)) /\ WF_vars(c \in Clients /\ Status(c))

(***************************************************************************)
(* Properties                                                              *)
(***************************************************************************)
Entries == UNION {Range(blocks[h]) : h \in DOMAIN blocks}
Times(tx, codes) ==
  Cardinality({<<h, i>> \in (DOMAIN blocks) \X (1..setup.maxBlock) :
                 i \in DOMAIN blocks[h] /\ blocks[h][i].tx = tx /\ blocks[h][i].code \in codes})

TypeOK ==
  /\ setup \in Setups /\ DOMAIN client = Clients /\ DOMAIN ledger.bal = Holders
  /\ final \in 0..Len(blocks) /\ faults \in 0..setup.maxFaults
  /\ \A h \in Holders : ledger.bal[h] \in Nat

\* A signed transaction takes effect at most once, however often it is sent,
\* reaped, queued or executed (the ante handler's sequence numbers).
AtMostOnce == setup.signed => \A e \in Entries : Times(e.tx, {0}) <= 1

\* The reaper's cache keeps a transaction that clients send again out of later
\* blocks, as long as the node neither restarts nor forgets and batches fit.
OneHeight ==
  {"forget", "node"} \cap setup.kinds = {} /\ setup.maxBytes >= 2 * setup.maxBlock =>
    \A e \in Entries :
      Cardinality({h \in DOMAIN blocks : e.tx \in {d.tx : d \in Range(blocks[h])}}) = 1


\* While nothing is lost, no transaction fails: the sequences of back-to-back faucet
\* requests, the numbers of the accounts they create, and the fees that simulation and
\* faucet compute are those that the ante handler asks for.
NothingFails ==
  setup.maxFaults = 0 /\ setup.queueSize = 0 /\ setup.patient => \A e \in Entries : e.code = 0

\* While nothing is lost, every client learns the final result of all its transactions.
EventuallyAnswered ==
  setup.maxFaults = 0 /\ setup.queueSize = 0 =>
    <>(\A c \in Clients : At(c, "done") /\ Len(client[c].told) = setup.txs)

\* The production guide's way to submit again is safe: who is told that a transaction
\* has failed can rely on it.
SafeRetry ==
  \A c \in Clients : \A t \in Range(client[c].told) : t.code # 0 => Times(t.tx, {0}) = 0
=============================================================================
