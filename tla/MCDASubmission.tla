--------------------------- MODULE MCDASubmission ---------------------------
(***************************************************************************)
(* Small instances of DASubmission.                                        *)
(***************************************************************************)
EXTENDS DASubmission

\* A crash or a stop, a failed or a partial submission, then another one.
Faulty ==
  [mayRepeat |-> FALSE, mayCrash |-> TRUE, partialSubmits |-> TRUE,
   pendingLimit |-> 2, maxHeight |-> 2, maxDA |-> 2, maxFaults |-> 2]

\* Three blocks, two in flight: the loop skips empty data while the data goroutine
\* is between the parts of a partial submission.
Racing ==
  [mayRepeat |-> FALSE, mayCrash |-> FALSE, partialSubmits |-> TRUE,
   pendingLimit |-> 2, maxHeight |-> 3, maxDA |-> 2, maxFaults |-> 0]

\* Orderly stops and failed submissions, with room to submit everything.
Orderly ==
  [mayRepeat |-> FALSE, mayCrash |-> FALSE, partialSubmits |-> FALSE,
   pendingLimit |-> 2, maxHeight |-> 2, maxDA |-> 5, maxFaults |-> 1]

\* Blocks that repeat each other's transactions.
Repeating == [Orderly EXCEPT !.mayRepeat = TRUE, !.maxFaults = 0]

AllSetups == {Faulty, Racing, Orderly, Repeating}

\* Two crashes or stops, no other trouble.
Crashing == {[Faulty EXCEPT !.partialSubmits = FALSE]}
=============================================================================
