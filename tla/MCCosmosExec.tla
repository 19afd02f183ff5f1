---------------------------- MODULE MCCosmosExec ----------------------------
(***************************************************************************)
(* A small instance of CosmosExec.                                         *)
(***************************************************************************)
EXTENDS CosmosExec

\* The executor may end between the commit of a version and the line of its block.
MissingLine == [persistent |-> TRUE, missesLine |-> TRUE, maxHeight |-> 2, maxFaults |-> 3]

OnlyMissingLine == {MissingLine}
=============================================================================
