---------------------------- MODULE MCSequencer ----------------------------
(***************************************************************************)
(* Small instances of Sequencer.  A transaction of the queue is a pair like*)
(* a forced one, of the DA height 0 that no block has.                     *)
(***************************************************************************)
EXTENDS Sequencer

\* The single sequencer with a known start, epochs of two DA blocks, a crash at
\* any step and the submitter's SetDAHeight at any moment.
Single ==
  [based |-> FALSE, daStart |-> 1, epochSize |-> 2, mempool |-> {},
   mayPostpone |-> FALSE, mayFailFetch |-> FALSE, mayCrash |-> TRUE,
   submitterSets |-> TRUE, daSpacing |-> 0,
   maxForced |-> 1, maxDA |-> 4, maxTime |-> 0, maxFaults |-> 1]

\* Crashes and DA errors while the queue is served.
Faulty ==
  [Single EXCEPT !.epochSize = 1, !.mempool = {<<0, 1>>, <<0, 2>>},
                 !.mayFailFetch = TRUE, !.submitterSets = FALSE,
                 !.maxDA = 2, !.maxFaults = 2]

\* The DA start height is learnt from the first block on DA, and blocks are too
\* small for an epoch.
Bootstrap ==
  [Single EXCEPT !.daStart = 0, !.mempool = {<<0, 1>>}, !.mayPostpone = TRUE,
                 !.mayCrash = FALSE, !.maxFaults = 0]

\* The based sequencer, with epochs cut into several blocks.
BasedOnDA ==
  [Single EXCEPT !.based = TRUE, !.mayPostpone = TRUE, !.mayCrash = FALSE,
                 !.submitterSets = FALSE, !.daSpacing = 2, !.maxForced = 2,
                 !.maxTime = 8, !.maxFaults = 0]

\* The based sequencer dies at any step; blocks are large enough for an epoch.
BasedCrash ==
  [BasedOnDA EXCEPT !.mayCrash = TRUE, !.mayPostpone = FALSE, !.epochSize = 1,
                    !.daSpacing = 1, !.maxDA = 2, !.maxTime = 2, !.maxFaults = 2]

AllSetups == {Single, Faulty, Bootstrap, BasedOnDA, BasedCrash}

\* One failed fetch, with epochs of one DA block.
FailingFetch ==
  {[Single EXCEPT !.epochSize = 1, !.mayFailFetch = TRUE, !.mayCrash = FALSE,
                  !.submitterSets = FALSE, !.maxDA = 2]}
=============================================================================
