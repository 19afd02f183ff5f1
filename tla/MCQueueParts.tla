-------------------------- MODULE MCQueueParts --------------------------
(***************************************************************************)
(* Small instances of the queue of batches (BatchQueue), clients with      *)
(* mempool, faucet and reaper (TxFlow), the encoding of blocks on their way*)
(* to a follower (BlockWire), the check for forced transactions            *)
(* (ForcedInclusion) and the local network (Devnet). A behaviour is one of *)
(* a single part; the others stay in an initial state.                     *)
(***************************************************************************)
EXTENDS BatchQueue

CONSTANTS SigningKeys, Passphrases

VARIABLES
  part,
  tSetup, tClient, tWire, tLedger, tMempool, tResults, tRun, tBlocks, tFinal, tFc,
  tReaper, tSeen, tQueue, tNode, tFaults,
  wSetup, wChain, wEnvelopes, wSubmitted, wDaBlobs, wNextDA, wPriority, wStrict,
  wPending, wEvents, wIncluded, wProcessed, wCritical, wState, wMismatches, wFollower,
  wFaults, wRestarts,
  fSetup, fPlan, fApplied, fDaHeight, fSeen, fSeenAt, fChecked, fEpoch, fMissing,
  fHalted, fCache, fCurrent, fFaults, fSkipped,
  dSetup, dPc, dInitStep, dCancelled, dSigPending, dChild, dCrashed, dTold, dLoaded,
  dHome, dStored, dPassFile, dDaHead, dSdk, dLaunches, dFaults, dUnclean, dImported,
  dForeign, dGroupSignalled, dRefused

-----------------------------------------------------------------------------
Plain ==
  [clients |-> {"a"}, existing |-> {"a"}, balance |-> 4, genesis |-> 9, payout |-> 3,
   signed |-> TRUE, price |-> 500, adjust |-> 1300, gasUsed |-> 1, faucetGas |-> 1,
   sweep |-> TRUE, faucet |-> FALSE, patient |-> TRUE, guide |-> FALSE, txs |-> 1,
   retryMax |-> 0, queueSize |-> 0, maxBytes |-> 12, maxBlock |-> 6,
   size |-> [a |-> 2, b |-> 1, treasury |-> 1],
   maxFaults |-> 0, kinds |-> {}]

\* Two users ask the faucet back to back, then each signs twice; two bytes per block.
Faucet == [Plain EXCEPT !.clients = {"a", "b"}, !.existing = {}, !.faucet = TRUE, !.txs = 2,
                         !.maxBytes = 2]

\* Two new users who do not wait for their accounts.
Fresh == [Plain EXCEPT !.clients = {"a", "b"}, !.existing = {}, !.price = 0, !.patient = FALSE]

\* Requests time out and are sent again, three times in all.
Retries == [Plain EXCEPT !.retryMax = 2, !.txs = 2, !.maxFaults = 2, !.kinds = {"timeout"}]

\* The same with blocks for one transaction, a short queue and unsigned transactions.
Tight == [Retries EXCEPT !.signed = FALSE, !.maxBytes = 2, !.queueSize = 1]

\* Everything may fail.
Failures ==
  [Plain EXCEPT !.retryMax = 1, !.guide = TRUE, !.maxFaults = 3,
                !.kinds = {"timeout", "refuse", "loss", "forget", "executor", "node"}]

\* Faucet requests while the executor restarts, or its answers are lost.
FaucetRestart ==
  [Faucet EXCEPT !.txs = 0, !.maxFaults = 1, !.kinds = {"executor", "loss", "cooldown"}]

\* A client that follows the production guide.
Guide == [Plain EXCEPT !.guide = TRUE, !.maxFaults = 1, !.kinds = {"timeout"}]

FlowSetups == {Faucet, Fresh, Retries, Tight, Failures, FaucetRestart, Guide}

-----------------------------------------------------------------------------
NoOldFields == [commit |-> <<>>, consensus |-> <<>>, results |-> <<>>]

TwoTxs == <<<<"tx">>, <<"tx">>>>

WireBase ==
  [txs |-> <<<<>>, TwoTxs, <<>>>>, old |-> <<FALSE, FALSE, FALSE>>, legacy |-> NoOldFields,
   p2p |-> TRUE, based |-> 0, maxFaults |-> 1, maxRestarts |-> 0]

\* A chain of the present release, from the DA layer and from a peer.
Present ==
  [WireBase EXCEPT !.maxFaults = 0, !.txs = <<<<>>, TwoTxs>>, !.old = <<FALSE, FALSE>>]

\* Failed submissions and restarts of the proposer; no peer.
Retried == [WireBase EXCEPT !.p2p = FALSE, !.maxFaults = 2]

\* The change of release after one block or two; the deprecated fields set, or by default.
Change == [WireBase EXCEPT !.old = <<TRUE, FALSE, FALSE>>, !.p2p = FALSE,
      !.legacy = [NoOldFields EXCEPT !.commit = <<"commit">>, !.consensus = <<"zero">>]]

ChangeLate ==
  [Change EXCEPT !.old = <<TRUE, TRUE, FALSE>>, !.legacy = [NoOldFields EXCEPT !.results = <<"results">>]]

\* A follower that was a based sequencer for the first block.
Switched == [WireBase EXCEPT !.based = 1, !.p2p = FALSE]

\* A restart of the follower, and no peer.
Restarted == [WireBase EXCEPT !.p2p = FALSE, !.maxRestarts = 1]

\* All of the old release, also from a peer.
AllOld ==
  [Change EXCEPT !.maxFaults = 0, !.txs = <<<<>>, TwoTxs>>, !.old = <<TRUE, TRUE>>, !.p2p = TRUE]

WireSetups == {Present, Retried, Change, ChangeLate, Switched, Restarted, AllOld}

-----------------------------------------------------------------------------
Tx == {"a", "b"}

Honestly ==
  [start |-> 1, heights |-> 6, epochSize |-> 2, perHeight |-> 1, blockSize |-> 5,
   max |-> [prefetch |-> 1, errors |-> 1, restarts |-> 1], invalid |-> {}, honest |-> TRUE,
   twice |-> FALSE, p2p |-> FALSE]

Censoring == [Honestly EXCEPT !.honest = FALSE, !.max.errors = 0, !.max.restarts = 0]

Short == [Honestly EXCEPT !.heights = 3, !.epochSize = 1, !.perHeight = 2, !.invalid = {"b"}]

\* Peers send blocks, too.
Peers == [Censoring EXCEPT !.heights = 4, !.p2p = TRUE]

ForcedSetups == {Honestly, Censoring, Short, Peers}

-----------------------------------------------------------------------------
\* Two launches are enough for a restart, an interrupted init followed by another start,
\* and a launch beside what an earlier one left running.
DevnetBase == [prod |-> TRUE, viaSDK |-> FALSE, cleanOnStart |-> FALSE, cleanOnExit |-> FALSE,
         forced |-> FALSE, envFails |-> FALSE, imports |-> FALSE, pass |-> "p",
         keys |-> <<"k1", "k2">>, maxLaunches |-> 2, maxFaults |-> 1, maxHead |-> 1]

Prod    == DevnetBase

Imports == [DevnetBase EXCEPT !.imports = TRUE, !.maxFaults = 0]

Dev     == [DevnetBase EXCEPT !.prod = FALSE, !.cleanOnStart = TRUE, !.envFails = TRUE,
                        !.maxFaults = 0]

SDK     == [DevnetBase EXCEPT !.prod = FALSE, !.viaSDK = TRUE, !.cleanOnStart = TRUE,
                        !.cleanOnExit = TRUE, !.maxFaults = 0]

Forced1 == [DevnetBase EXCEPT !.forced = TRUE, !.cleanOnStart = TRUE]

DevnetSetups == {Prod, Imports, Dev, SDK, Forced1}

-----------------------------------------------------------------------------
flowVars ==
  <<tSetup, tClient, tWire, tLedger, tMempool, tResults, tRun, tBlocks, tFinal, tFc,
    tReaper, tSeen, tQueue, tNode, tFaults>>
wireVars ==
  <<wSetup, wChain, wEnvelopes, wSubmitted, wDaBlobs, wNextDA, wPriority, wStrict,
    wPending, wEvents, wIncluded, wProcessed, wCritical, wState, wMismatches,
    wFollower, wFaults, wRestarts>>
forcedVars ==
  <<fSetup, fPlan, fApplied, fDaHeight, fSeen, fSeenAt, fChecked, fEpoch, fMissing,
    fHalted, fCache, fCurrent, fFaults, fSkipped>>
devnetVars ==
  <<dSetup, dPc, dInitStep, dCancelled, dSigPending, dChild, dCrashed, dTold, dLoaded,
    dHome, dStored, dPassFile, dDaHead, dSdk, dLaunches, dFaults, dUnclean, dImported,
    dForeign, dGroupSignalled, dRefused>>

Flow == INSTANCE TxFlow WITH
       Setups <- FlowSetups, setup <- tSetup, client <- tClient, wire <- tWire, ledger
       <- tLedger, mempool <- tMempool, results <- tResults, run <- tRun, blocks <-
       tBlocks, final <- tFinal, fc <- tFc, reaper <- tReaper, seen <- tSeen, queue <-
       tQueue, node <- tNode, faults <- tFaults

Wire == INSTANCE BlockWire WITH
       Setups <- WireSetups, setup <- wSetup, chain <- wChain, envelopes <-
       wEnvelopes, submitted <- wSubmitted, daBlobs <- wDaBlobs, nextDA <- wNextDA,
       priority <- wPriority, strict <- wStrict, pending <- wPending, events <-
       wEvents, included <- wIncluded, processed <- wProcessed, critical <- wCritical,
       state <- wState, mismatches <- wMismatches, follower <- wFollower, faults <-
       wFaults, restarts <- wRestarts

Forced == INSTANCE ForcedInclusion WITH
       Setups <- ForcedSetups, Tx <- Tx, setup <- fSetup, plan <- fPlan, applied <-
       fApplied, daHeight <- fDaHeight, seen <- fSeen, seenAt <- fSeenAt, checked <-
       fChecked, epoch <- fEpoch, missing <- fMissing, halted <- fHalted, cache <-
       fCache, current <- fCurrent, faults <- fFaults, skipped <- fSkipped

Net == INSTANCE Devnet WITH
       Setups <- DevnetSetups, Keys <- SigningKeys, setup <- dSetup, pc <- dPc,
       initStep <- dInitStep, cancelled <- dCancelled, sigPending <- dSigPending,
       child <- dChild, crashed <- dCrashed, told <- dTold, loaded <- dLoaded, home <-
       dHome, stored <- dStored, passFile <- dPassFile, daHead <- dDaHead, sdk <-
       dSdk, launches <- dLaunches, faults <- dFaults, unclean <- dUnclean, imported
       <- dImported, foreign <- dForeign, groupSignalled <- dGroupSignalled, refused
       <- dRefused

-----------------------------------------------------------------------------
\* A part that is not looked at rests in one of its initial states.
MCInit ==
  /\ part \in {"queue", "txflow", "wire", "forced", "devnet"}
  /\ Init
  /\ (part # "txflow" => tSetup = CHOOSE s \in FlowSetups : TRUE) /\ Flow!Init
  /\ (part # "wire" => wSetup = CHOOSE s \in WireSetups : TRUE) /\ Wire!Init
  /\ (part # "forced" => fSetup = (CHOOSE s \in ForcedSetups : TRUE) /\ fPlan = (CHOOSE p \in Forced!Plans : TRUE)) /\ Forced!Init
  /\ (part # "devnet" => dSetup = CHOOSE s \in DevnetSetups : TRUE) /\ Net!Init

MCVars == <<part, vars, flowVars, wireVars, forcedVars, devnetVars>>

MCNext ==
  /\ UNCHANGED part
  /\ \/ part = "queue" /\ Next /\ UNCHANGED <<flowVars, wireVars, forcedVars, devnetVars>>
     \/ part = "txflow" /\ Flow!Next /\ UNCHANGED <<vars, wireVars, forcedVars, devnetVars>>
     \/ part = "wire" /\ Wire!Next /\ UNCHANGED <<vars, flowVars, forcedVars, devnetVars>>
     \/ part = "forced" /\ Forced!Next /\ UNCHANGED <<vars, flowVars, wireVars, devnetVars>>
     \/ part = "devnet" /\ Net!Next /\ UNCHANGED <<vars, flowVars, wireVars, forcedVars>>
     \/ part \notin {"devnet", "txflow"} /\ UNCHANGED <<vars, flowVars, wireVars, forcedVars, devnetVars>>

MCSpec == MCInit /\ [][MCNext]_MCVars

-----------------------------------------------------------------------------
\* The properties of the parts, each for the behaviours of its part.

\* A transaction is executed at most once, whoever sends it again.
AtMostOnce == part = "txflow" => Flow!AtMostOnce


\* Every block that the follower has stored is byte for byte the proposer's.
SameBlocks == part = "wire" => Wire!SameBlocks

\* A follower that has read the whole DA layer has every block.
NothingMissing == part = "wire" => Wire!NothingMissing


\* A sequencer that leaves one out is found out.
CensorshipFound == part = "forced" => Forced!CensorshipFound

\* Both nodes of a running network know the key that signs as the proposer.
OneProposer == part = "devnet" => Net!OneProposer

=============================================================================
