------------------------------ MODULE Finality ------------------------------
(***************************************************************************)
(* What DA submission promises: blocks become available on the DA layer in *)
(* any order, and become final one height after the other, each only once  *)
(* it is available.  Neither is ever undone.                               *)
(***************************************************************************)
EXTENDS Naturals

VARIABLES
  produced,   \* height of the chain
  available,  \* heights whose header and data are on the DA layer
  finalised   \* every height up to here is final

finalityVars == <<produced, available, finalised>>

FinalityInit == produced = 0 /\ available = {} /\ finalised = 0

ProduceBlock ==
  /\ produced' = produced + 1
  /\ UNCHANGED <<available, finalised>>

BecomeAvailable ==
  /\ \E hs \in SUBSET (1..produced) : available' = available \cup hs
  /\ UNCHANGED <<produced, finalised>>

Finalise ==
  /\ finalised + 1 \in available
  /\ finalised' = finalised + 1
  /\ UNCHANGED <<produced, available>>

FinalityNext == ProduceBlock \/ BecomeAvailable \/ Finalise

FinalitySpec == FinalityInit /\ [][FinalityNext]_finalityVars
=============================================================================
