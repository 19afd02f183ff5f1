-------------------------- MODULE MCProducerParts --------------------------
(***************************************************************************)
(* Small instances of an aggregator (BlockProducer) and a raft cluster of  *)
(* aggregators (Cluster). A behaviour is one of a single part; the others  *)
(* stay in an initial state.                                               *)
(***************************************************************************)
EXTENDS BlockProducer

VARIABLES
  part,
  cSetup, cLeader, cSaved, cLog, cNotify, cApplied, cInflight, cChain, cPending, cEl,
  cMode, cProd, cEvents, cPublished, cRpc, cFaults

-----------------------------------------------------------------------------
Node == {"n1", "n2"}

Failover ==
  [maxHeight |-> 1, maxLost |-> 2, maxCrashes |-> 0, fresh |-> FALSE, catchup |-> FALSE,
   mayTimeOut |-> FALSE, prompt |-> TRUE]

Crashing == [Failover EXCEPT !.maxLost = 0, !.maxCrashes = 1, !.fresh = TRUE]

Catchup == [Failover EXCEPT !.maxLost = 1, !.catchup = TRUE, !.mayTimeOut = TRUE]

ClusterSetups == {Failover, Crashing, Catchup}

-----------------------------------------------------------------------------
clusterVars ==
  <<cSetup, cLeader, cSaved, cLog, cNotify, cApplied, cInflight, cChain, cPending,
    cEl, cMode, cProd, cEvents, cPublished, cRpc, cFaults>>

ClusterPart == INSTANCE Cluster WITH
       Setups <- ClusterSetups, Node <- Node, setup <- cSetup, leader <- cLeader,
       saved <- cSaved, log <- cLog, notify <- cNotify, applied <- cApplied, inflight
       <- cInflight, chain <- cChain, pending <- cPending, el <- cEl, mode <- cMode,
       prod <- cProd, events <- cEvents, published <- cPublished, rpc <- cRpc, faults
       <- cFaults

-----------------------------------------------------------------------------
\* A part that is not looked at rests in one of its initial states.
MCInit ==
  /\ part \in {"producer", "cluster"}
  /\ (part # "producer" => raft = NoRaft /\ flushes = TRUE) /\ Init
  /\ (part # "cluster" => cSetup = CHOOSE s \in ClusterSetups : TRUE) /\ ClusterPart!Init

MCVars == <<part, vars, clusterVars>>

MCNext ==
  /\ UNCHANGED part
  /\ \/ part = "producer" /\ Next /\ UNCHANGED clusterVars
     \/ part = "cluster" /\ ClusterPart!Next /\ UNCHANGED vars

\* The fairness of each part, see its specification.
ProducerFairness == WF_vars(part = "producer" /\ Steps)

ClusterFairness ==
  \A n \in Node :
    /\ WF_clusterVars(part = "cluster" /\ ClusterPart!ElectionSteps(n))
    /\ WF_clusterVars(part = "cluster" /\ ClusterPart!ModeSteps(n))
    /\ WF_clusterVars(part = "cluster" /\ ClusterPart!ProducerSteps(n))
    /\ WF_clusterVars(part = "cluster" /\ ClusterPart!SyncBlock(n))
    /\ WF_clusterVars(part = "cluster" /\ ClusterPart!Apply(n))
    /\ SF_clusterVars(part = "cluster" /\ ClusterPart!Elect(n))

MCSpec == MCInit /\ [][MCNext]_MCVars

-----------------------------------------------------------------------------
\* The properties of the parts, each for the behaviours of its part.

\* A node whose faults end goes on producing.
GoesOnProducing == ProducerFairness /\ part = "producer" => KeepsProducing


\* The cluster's chain grows again after losses of leadership and crashes.
ChainGrows == ClusterFairness /\ part = "cluster" => ClusterPart!ChainGrows
=============================================================================
