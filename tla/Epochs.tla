------------------------------- MODULE Epochs -------------------------------
(***************************************************************************)
(* types/epoch.go: the DA layer is cut into epochs of a fixed number of    *)
(* blocks, from the DA height the chain starts at.                         *)
(***************************************************************************)
EXTENDS Integers


CalculateEpochNumber(daHeight, daStart, size) ==
  IF daHeight < daStart THEN 0
  ELSE IF size = 0 THEN 1 ELSE (daHeight - daStart) \div size + 1

\* CalculateEpochBoundaries: first and last height of the epoch of daHeight.
EpochStart(daHeight, daStart, size) ==
  IF size = 0 \/ daHeight < daStart THEN daStart
  ELSE daStart + (CalculateEpochNumber(daHeight, daStart, size) - 1) * size

EpochEnd(daHeight, daStart, size) ==
  IF size = 0 THEN daStart
  ELSE IF daHeight < daStart THEN daStart + size - 1
  ELSE daStart + CalculateEpochNumber(daHeight, daStart, size) * size - 1
=============================================================================
