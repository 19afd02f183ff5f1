-------------------------- MODULE MCSubmissionParts --------------------------
(***************************************************************************)
(* Small instances of the submission of blocks to the DA layer             *)
(* (DASubmission), the use of the local DA layer for blobs (BlobFlow) and  *)
(* the explorer beside a node (Explorer). A behaviour is one of a single   *)
(* part; the others stay in an initial state.                              *)
(***************************************************************************)
EXTENDS MCDASubmission

VARIABLES
  part,
  bSetup, bHeight, bBlobData, bSubs, bPc, bPrepared, bAnswer, bRecords, bUploads,
  bFaults,
  eSetup, eHeight, eHeaderDA, eDataDA, ePruned, eSubmissions, eSent, eNow, eBlocks,
  eTxs, eLatest, eIx, eStatus, eQuery, eAnswer, eFaults

-----------------------------------------------------------------------------
\* Varied data in one blob; repeated data that compresses; varied data in seven blobs.
Small == <<<<"a">>, <<"b">>>>

Runs == [i \in 1..7 |-> <<"a">>]

Long == <<<<"a">>, <<"b">>, <<"c">>, <<"a">>, <<"c">>, <<"b">>, <<"b">>>>

BlobsBase ==
  [data |-> [u1 |-> Small, u2 |-> Runs], chunkSize |-> 2, sdkMaxBlob |-> 2, sdkMaxBatch |-> 8,
   maxBlobSize |-> 4, clientMax |-> 3, maxFaults |-> 2, maxHeight |-> 4, chanSize |-> 1,
   blobNs |-> "app", nodeNs |-> "node", namespaces |-> {"app", "node"}, subscribed |-> {}]

\* Two users, a fault each or two for one of them, and the node beside them.
Pair == BlobsBase

\* Seven, six, five blobs in a batch: odd levels of the tree.
Seven == [BlobsBase EXCEPT !.data = [u1 |-> Long], !.chunkSize = 1, !.maxFaults = 1, !.maxHeight = 3]

Six == [Seven EXCEPT !.data = [u1 |-> SubSeq(Long, 1, 6)]]

Five == [Seven EXCEPT !.data = [u1 |-> SubSeq(Long, 1, 5)]]

\* The subscription, with a channel that fills up.
Watch == [BlobsBase EXCEPT !.data = [u1 |-> Long], !.chunkSize = 4, !.maxFaults = 1, !.maxHeight = 4,
                      !.subscribed = {"app"}]

\* A batch with a blob over the limit of the DA layer.
Over == [Seven EXCEPT !.chunkSize = 5]

BlobSetups == {Pair, Seven, Six, Five, Watch, Over}

-----------------------------------------------------------------------------
\* Transaction "a" is in two blocks of the chain.  max-blocks-per-tick is 2 instead of
\* 50, the scan depth 2 instead of 300, and the dashboard keeps 3 submissions instead
\* of 100.
ExplorerBase ==
  [blocks |-> <<<<"a">>, <<"b", "c">>, <<"a">>>>, prunes |-> FALSE, perTick |-> 2,
   depth |-> 2, queries |-> {}, froms |-> {}, tos |-> {}, maxFaults |-> 0, ring |-> 3,
   recent |-> 10, aggregator |-> FALSE, statuses |-> {}, maxSent |-> 0, minutes |-> 0,
   namespaces |-> {"header", "data"}, maxDA |-> 3]

\* The background indexer, killed and failing, and reindexed ranges.
Indexing == [ExplorerBase EXCEPT !.froms = {0, 1}, !.tos = {0, 2}, !.maxFaults = 2]

\* Queries while blocks are produced, included, indexed and pruned.
Queries ==
  [ExplorerBase EXCEPT !.blocks = <<<<"a">>, <<"b", "a">>>>, !.depth = 1, !.queries = {"block", "tx", "latest"}, !.prunes = TRUE]

DeepScan == [ExplorerBase EXCEPT !.queries = {"tx"}, !.maxDA = 0, !.maxFaults = 1]

WholeScan == [DeepScan EXCEPT !.depth = 3, !.maxFaults = 0]

\* The dashboard, beyond its limit and with time between submissions.
Dash ==
  [ExplorerBase EXCEPT !.blocks = <<>>, !.aggregator = TRUE, !.statuses = {"Success", "Error"}]

Rotating == [Dash EXCEPT !.ring = 3, !.maxSent = 5]

Timed == [Dash EXCEPT !.namespaces = {"data"}, !.maxSent = 3, !.minutes = 7]

ExplorerSetups == {Indexing, Queries, DeepScan, WholeScan, Rotating, Timed}

-----------------------------------------------------------------------------
blobVars ==
  <<bSetup, bHeight, bBlobData, bSubs, bPc, bPrepared, bAnswer, bRecords, bUploads,
    bFaults>>
explorerVars ==
  <<eSetup, eHeight, eHeaderDA, eDataDA, ePruned, eSubmissions, eSent, eNow, eBlocks,
    eTxs, eLatest, eIx, eStatus, eQuery, eAnswer, eFaults>>

Blobs == INSTANCE BlobFlow WITH
       Setups <- BlobSetups, setup <- bSetup, height <- bHeight, blobData <-
       bBlobData, subs <- bSubs, pc <- bPc, prepared <- bPrepared, answer <- bAnswer,
       records <- bRecords, uploads <- bUploads, faults <- bFaults

Index == INSTANCE Explorer WITH
       Setups <- ExplorerSetups, setup <- eSetup, height <- eHeight, headerDA <-
       eHeaderDA, dataDA <- eDataDA, pruned <- ePruned, submissions <- eSubmissions,
       sent <- eSent, now <- eNow, blocks <- eBlocks, txs <- eTxs, latest <- eLatest,
       ix <- eIx, status <- eStatus, query <- eQuery, answer <- eAnswer, faults <-
       eFaults

-----------------------------------------------------------------------------
\* A part that is not looked at rests in one of its initial states.
MCInit ==
  /\ part \in {"submission", "blobs", "explorer"}
  /\ (part # "submission" => setup = CHOOSE s \in Setups : TRUE) /\ Init
  /\ (part # "blobs" => bSetup = CHOOSE s \in BlobSetups : TRUE) /\ Blobs!Init
  /\ (part # "explorer" => eSetup = CHOOSE s \in ExplorerSetups : TRUE) /\ Index!Init

MCVars == <<part, vars, blobVars, explorerVars>>

MCNext ==
  /\ UNCHANGED part
  /\ \/ part = "submission" /\ Next /\ UNCHANGED <<blobVars, explorerVars>>
     \/ part = "blobs" /\ Blobs!Next /\ UNCHANGED <<vars, explorerVars>>
     \/ part = "explorer" /\ Index!Next /\ UNCHANGED <<vars, blobVars>>

\* The fairness of each part, see its specification.
SubmissionFairness ==
  /\ WF_vars(part = "submission" /\ Loop)
  /\ WF_vars(part = "submission" /\ Inclusion)
  /\ WF_vars(part = "submission" /\ Restart)
  /\ \A k \in Kinds : WF_vars(part = "submission" /\ Goroutine(k))

ExplorerFairness ==
  /\ WF_explorerVars(part = "explorer" /\ Index!Serves)
  /\ WF_explorerVars(part = "explorer" /\ Index!Indexes)

MCSpec == MCInit /\ [][MCNext]_MCVars

-----------------------------------------------------------------------------
\* The properties of the parts, each for the behaviours of its part.

\* Every block is final in the end.
FinalInTheEnd == SubmissionFairness /\ part = "submission" => EventuallyFinal


\* A proof verifies for the blob that it was made for and for no other.
ProofsExact == part = "blobs" => Blobs!ProofsExact

\* What the DA layer has answered for a height it answers ever after.
AnswersStable == Blobs!AnswersStable

\* What the explorer answers is what the node has.
AnswersTrue == part = "explorer" => Index!AnswersTrue

=============================================================================
