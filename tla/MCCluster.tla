----------------------------- MODULE MCCluster -----------------------------
(***************************************************************************)
(* A small instance of Cluster.                                            *)
(***************************************************************************)
EXTENDS Cluster

Two == {"n1", "n2"}

\* Raft may elect a node again before its election loop has read that it had lost.
Late ==
  [maxHeight |-> 2, maxLost |-> 2, maxCrashes |-> 0, fresh |-> FALSE, catchup |-> FALSE,
   mayTimeOut |-> FALSE, prompt |-> FALSE]

OnlyLate == {Late}
=============================================================================
