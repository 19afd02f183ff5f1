------------------------------- MODULE Ledger -------------------------------
(***************************************************************************)
(* What block production promises to users of the chain: a ledger that     *)
(* only grows, in which every batch handed to the sequencer appears at     *)
(* most once. A batch may be dropped on the way (the node is allowed to    *)
(* fail between taking a batch and making it durable), but a dropped batch *)
(* never comes back and nothing that was not submitted is ever included.   *)
(***************************************************************************)
EXTENDS Naturals, Sequences

CONSTANTS Batches, NoTxs

VARIABLES
  ledger,     \* the batch of every committed block, in order
  submitted,  \* every batch ever handed in
  pool        \* batches that may still be included

ledgerVars == <<ledger, submitted, pool>>

LedgerInit == ledger = <<>> /\ submitted = {} /\ pool = {}

Submit ==
  \E b \in Batches \ submitted :
    /\ submitted' = submitted \cup {b}
    /\ pool' = pool \cup {b}
    /\ UNCHANGED ledger

Include ==
  \E b \in pool \cup {NoTxs} :
    /\ ledger' = Append(ledger, b)
    /\ pool' = pool \ {b}
    /\ UNCHANGED submitted

Drop ==
  /\ pool' \subseteq pool
  /\ UNCHANGED <<ledger, submitted>>

LedgerNext == Submit \/ Include \/ Drop

LedgerSpec == LedgerInit /\ [][LedgerNext]_ledgerVars
=============================================================================
