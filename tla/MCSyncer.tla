------------------------------ MODULE MCSyncer ------------------------------
(***************************************************************************)
(* Small instances of Syncer.                                              *)
(***************************************************************************)
EXTENDS Syncer

\* Whole blocks on the DA layer, two in its first block: both loops of the
\* follower run, an event may find the channel full, fetches and commits fail.
Whole ==
  [headerAt |-> <<1, 1, 2>>, dataAt |-> <<1, 0, 2>>, daStart |-> 1, capacity |-> 1,
   split |-> FALSE, inline |-> TRUE, p2p |-> FALSE, catchup |-> FALSE,
   mayCrash |-> FALSE, mayStop |-> FALSE, maxDA |-> 2, maxFaults |-> 1]

\* Subscription events without blobs: the catch-up loop fetches every block.
Signalled ==
  [Whole EXCEPT !.headerAt = <<1, 2>>, !.dataAt = <<0, 0>>, !.inline = FALSE,
                !.maxFaults = 0]

\* Headers and data in namespaces of their own and at different DA heights,
\* subscription events without blobs.
Apart ==
  [Whole EXCEPT !.headerAt = <<1, 1, 3>>, !.dataAt = <<2, 2, 2>>, !.split = TRUE,
                !.inline = FALSE, !.maxDA = 3]

\* The node dies, perhaps with one of the two blocks of a DA block, and starts again.
Restarting ==
  [Whole EXCEPT !.headerAt = <<1, 1>>, !.dataAt = <<1, 0>>, !.mayCrash = TRUE,
                !.maxDA = 2]

\* Blocks come from peers, with hints, and from the DA layer; no faults,
Gossip ==
  [Apart EXCEPT !.headerAt = <<1, 1>>, !.dataAt = <<0, 1>>, !.split = FALSE,
                !.p2p = TRUE, !.maxDA = 1, !.maxFaults = 0]

\* or the node dies or is stopped.
Ending ==
  [Gossip EXCEPT !.headerAt = <<1>>, !.dataAt = <<1>>, !.mayCrash = TRUE,
                 !.mayStop = TRUE, !.maxFaults = 1]

\* The data comes after the header, in a subscription event with blobs.
DataLater ==
  [Gossip EXCEPT !.headerAt = <<1>>, !.dataAt = <<2>>, !.inline = TRUE, !.maxDA = 2]

\* An aggregator that catches up with the DA layer before it produces.
CatchingUp ==
  [Whole EXCEPT !.headerAt = <<1, 1>>, !.dataAt = <<1, 0>>, !.catchup = TRUE,
                !.maxDA = 2, !.maxFaults = 0]

\* Pieces apart from each other, and subscription events with blobs.
InlineApart == {[Apart EXCEPT !.headerAt = <<1, 1>>, !.dataAt = <<2, 3>>, !.inline = TRUE]}

\* The same without them, on a node that dies once.
ApartRestarting ==
  {[Apart EXCEPT !.headerAt = <<1, 1>>, !.dataAt = <<2, 3>>, !.mayCrash = TRUE]}

\* An aggregator that catches up with peers and the DA layer.
GossipCatchingUp ==
  {[CatchingUp EXCEPT !.headerAt = <<1, 1>>, !.dataAt = <<0, 0>>, !.inline = FALSE,
                      !.p2p = TRUE, !.maxDA = 1]}

AllSetups ==
  {Whole, Signalled, Apart, Restarting, Gossip, Ending, DataLater, CatchingUp}
=============================================================================
