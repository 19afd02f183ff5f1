------------------------------ MODULE RPCServer ------------------------------
(***************************************************************************)
(* What a node tells the outside: pkg/rpc/server.  StoreServer answers     *)
(* from the block store, one read after the other, while blocks are        *)
(* produced, found on DA and pruned; DAVisualizationServer keeps the last  *)
(* submissions to DA in memory and answers the dashboard from them.  The   *)
(* writers of the store are modelled in detail by BlockProducer,           *)
(* DASubmission and BlockStore; here they are single steps.                *)
(***************************************************************************)
EXTENDS Integers, Sequences, SequencesExt, FiniteSets

CONSTANT Setups

VARIABLES
    setup,        \* the parameters of this behaviour
    height,       \* the last block: its data, the height and the state are written in one batch
    headerDA,     \* the DA height of the header is stored for blocks up to here,
    dataDA,       \*    and the DA height of the data up to here
    pruned,       \* blocks up to here are deleted, with their DA heights
    submissions,  \* DAVisualizationServer.submissions, newest last
    sent,         \* history: every submission recorded
    now           \* the clock, in minutes

nodeVars == <<height, headerDA, dataDA, pruned>>
dashVars == <<submissions, sent, now>>

Txs(h) == setup.blocks[h]
MaxHeight == Len(setup.blocks)

Stored(h) == h \in (pruned + 1)..height

\* The DA height at which a block was included: any value but 0, which the
\* answers use for "not known".
DAHeightOf(h) == 10 + h

NodeInit ==
    /\ setup \in Setups
    /\ height = 0 /\ headerDA = 0 /\ dataDA = 0 /\ pruned = 0

DashInit == submissions = <<>> /\ sent = <<>> /\ now = 0

-----------------------------------------------------------------------------
(* The node's own steps.                                                    *)

ProduceBlock ==
    /\ height < MaxHeight
    /\ height' = height + 1
    /\ UNCHANGED <<headerDA, dataDA, pruned>>

\* setNodeHeightToDAHeight: the header's DA height first, then the data's.
SetHeaderDAHeight ==
    /\ headerDA = dataDA /\ headerDA < height /\ headerDA < setup.maxDA
    /\ headerDA' = headerDA + 1
    /\ UNCHANGED <<height, dataDA, pruned>>

SetDataDAHeight ==
    /\ dataDA < headerDA
    /\ dataDA' = dataDA + 1
    /\ UNCHANGED <<height, headerDA, pruned>>

\* PruneBlocks, of blocks that are on DA.
PruneBlocks ==
    /\ setup.prunes
    /\ pruned < dataDA
    /\ pruned' = pruned + 1
    /\ UNCHANGED <<height, headerDA, dataDA>>

NodeStep == ProduceBlock \/ SetHeaderDAHeight \/ SetDataDAHeight \/ PruneBlocks

-----------------------------------------------------------------------------
(* StoreServer.                                                             *)

\* GetState: the last block height.  The state is stored when the chain starts.
GetState == height

\* The height GetBlock reads: 0 asks for the latest block, and there is none
\* in an empty store.
FetchHeight(h) == IF h = 0 THEN height ELSE h

\* GetBlock, first half: header and data.  An error unless the block is there.
GetBlockFails(h) == ~ Stored(FetchHeight(h))

GetBlockData(h) ==
    [height |-> FetchHeight(h), txs |-> Txs(FetchHeight(h)), headerDA |-> 0, dataDA |-> 0]

\* GetBlock, second half: the DA heights, read after the block.  A height
\* that is not stored, not yet or no longer, is answered as 0.
WithDAHeights(resp) ==
    [resp EXCEPT
       !.headerDA = IF resp.height \in (pruned + 1)..headerDA THEN DAHeightOf(resp.height) ELSE 0,
       !.dataDA   = IF resp.height \in (pruned + 1)..dataDA THEN DAHeightOf(resp.height) ELSE 0]

-----------------------------------------------------------------------------
(* DAVisualizationServer.                                                   *)

LastN(seq, n) == SubSeq(seq, Len(seq) - n + 1, Len(seq))
AtMost(n, m) == IF n < m THEN n ELSE m
WithStatus(seq, status) == SelectSeq(seq, LAMBDA s : s.status = status)

\* The submission the submitter's n-th attempt leaves, in a namespace: only a
\* success has blob ids.
SubmissionInfo(status, namespace) ==
    [status |-> status, namespace |-> namespace, time |-> now,
     ids |-> IF status = "Success" THEN {Len(sent) + 1} ELSE {}]

\* RecordSubmission: of every attempt, whatever its result.
RecordSubmission(status, namespace) ==
    LET info == SubmissionInfo(status, namespace)
        all  == Append(submissions, info)
    IN /\ sent' = Append(sent, info)
       /\ submissions' = IF Len(all) > setup.ring THEN Tail(all) ELSE all
       /\ UNCHANGED now

MinutePasses ==
    /\ now < setup.minutes
    /\ now' = now + 1
    /\ UNCHANGED <<submissions, sent>>

DashStep ==
    \/ /\ Len(sent) < setup.maxSent
       /\ setup.aggregator
       /\ \E status \in setup.statuses, ns \in setup.namespaces : RecordSubmission(status, ns)
    \/ MinutePasses

\* A node that is no aggregator submits nothing and says so.
HandleDASubmissions == IF setup.aggregator THEN Reverse(submissions) ELSE <<>>

\* handleDABlobDetails without a namespace in the query: the one of the first
\* submission that lists the blob, or none.
HandleDABlobDetails(id) ==
    LET at == {i \in DOMAIN submissions : id \in submissions[i].ids}
    IN IF at = {} THEN "unknown"
       ELSE submissions[CHOOSE i \in at : \A j \in at : i <= j].namespace

HandleDAStats ==
    [total    |-> Len(submissions),
     success  |-> Len(WithStatus(submissions, "Success")),
     errors   |-> Len(WithStatus(submissions, "Error"))]

\* handleDAHealth looks at the last ten submissions.  A later check replaces
\* the status of an earlier one, and only the first two clear is_healthy.
HandleDAHealth ==
    LET recent    == LastN(submissions, AtMost(Len(submissions), setup.recent))
        errors    == Len(WithStatus(recent, "Error"))
        successes == WithStatus(recent, "Success")
        degraded  == recent # <<>> /\ 100 * errors > 20 * Len(recent)
        late      == \E s \in ToSet(successes) : \A t \in ToSet(successes) :
                        s.time >= t.time /\ now - s.time > 5
        stalled   == submissions # <<>> /\ now - submissions[Len(submissions)].time > 2
    IN [healthy |-> setup.aggregator /\ ~ degraded /\ ~ late,
        status  |-> CASE ~ setup.aggregator -> "n/a"
                      [] submissions = <<>> -> "unknown"
                      [] stalled -> "warning"
                      [] late -> "unhealthy"
                      [] degraded -> "degraded"
                      [] OTHER -> "healthy"]

-----------------------------------------------------------------------------
(* Properties of the dashboard.                                             *)

\* What an operator concludes from the dashboard is so: the list is the last
\* attempts, newest first; every blob of the list is looked up in the
\* namespace it was sent to; the totals are those of the list; and "healthy"
\* means that something was sent in the last two minutes, and that fewer than
\* three of the last ten attempts were errors (RecordSubmission and the
\* handlers over a list that forgets).
DashboardTrue ==
    /\ HandleDASubmissions = Reverse(LastN(sent, AtMost(Len(sent), setup.ring)))
    /\ \A i \in DOMAIN submissions : \A id \in submissions[i].ids :
          HandleDABlobDetails(id) = sent[id].namespace
    /\ HandleDAStats.success + HandleDAStats.errors <= HandleDAStats.total
    /\ HandleDAHealth.status = "healthy" =>
          /\ now - sent[Len(sent)].time <= 2
          /\ Len(WithStatus(LastN(sent, AtMost(Len(sent), setup.recent)), "Error")) < 3

\* The comment in handleDAHealth: an aggregator that has had no successful
\* submission for five minutes is not healthy.
NoSuccessShown ==
    (/\ \E i \in DOMAIN sent : now - sent[i].time > 5
     /\ \A i \in DOMAIN sent : sent[i].status = "Success" => now - sent[i].time > 5)
        => ~ HandleDAHealth.healthy
=============================================================================
