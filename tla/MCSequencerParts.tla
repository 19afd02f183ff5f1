-------------------------- MODULE MCSequencerParts --------------------------
(***************************************************************************)
(* Small instances of the sequencers (Sequencer), the executor with its    *)
(* files (CosmosExec) and the execution service (ExecServer). A behaviour  *)
(* is one of a single part; the others stay in an initial state.           *)
(***************************************************************************)
EXTENDS MCSequencer

CONSTANTS MaxAttempts

VARIABLES
  part,
  xSetup, xStored, xLogged, xMeta, xExec, xUp, xStep, xCalls, xChain, xMain,
  xFinality, xFaults,
  sSetup, sStored, sMeta, sTxFile, sBlockFile, sExec, sUp, sStep, sNode, sShort,
  sFaults, sBuckets, sClock, sPassed

-----------------------------------------------------------------------------
\* The executor with its files, three faults of any kind.
OnDisk == [persistent |-> TRUE, missesLine |-> FALSE, maxHeight |-> 3, maxFaults |-> 3]

\* It may also end between the commit of a version and the line of its block.
MissingLine == [OnDisk EXCEPT !.missesLine = TRUE, !.maxHeight = 2]

\* The executor without files, which loses everything with its process.
InMemory == [OnDisk EXCEPT !.persistent = FALSE, !.maxHeight = 2]

ExecSetups == {OnDisk, MissingLine, InMemory}

-----------------------------------------------------------------------------
\* Three blocks with files; two writes are cut short, two processes die.
History ==
  [blocks |-> <<<<"a", "b">>, <<"c">>, <<>>>>, keepRecent |-> 1,
   maxShort |-> 2, maxFaults |-> 2,
   authToken |-> FALSE, readOnly |-> FALSE, rps |-> 0,
   addresses |-> {}, callers |-> {}, maxClock |-> 0]

\* No faults: every block is produced.
Calm == [History EXCEPT !.maxShort = 0, !.maxFaults = 0]

\* The limiter at two requests a second, for callers with and without a proxy, two
\* of which share an address, one without the token.
Direct == [remote |-> "local", forwarded |-> <<>>, token |-> TRUE]

Proxied == [remote |-> "proxy", forwarded |-> <<"far", "proxy">>, token |-> TRUE]

Keyless == [remote |-> "far", forwarded |-> <<>>, token |-> FALSE]

Limited ==
  [Calm EXCEPT !.blocks = <<>>, !.authToken = TRUE, !.rps = 2, !.maxClock = 5,
               !.addresses = {"local", "far"}, !.callers = {Direct, Proxied, Keyless}]

\* A node for queries: no request but a query gets through.
ReadOnly == [Limited EXCEPT !.readOnly = TRUE, !.maxClock = 3]

ServiceSetups == {History, Calm, Limited, ReadOnly}

-----------------------------------------------------------------------------
execVars ==
  <<xSetup, xStored, xLogged, xMeta, xExec, xUp, xStep, xCalls, xChain, xMain,
    xFinality, xFaults>>
serviceVars ==
  <<sSetup, sStored, sMeta, sTxFile, sBlockFile, sExec, sUp, sStep, sNode, sShort,
    sFaults, sBuckets, sClock, sPassed>>

Exec == INSTANCE CosmosExec WITH
       Setups <- ExecSetups, setup <- xSetup, stored <- xStored, logged <- xLogged,
       meta <- xMeta, exec <- xExec, up <- xUp, step <- xStep, calls <- xCalls, chain
       <- xChain, main <- xMain, finality <- xFinality, faults <- xFaults

Service == INSTANCE ExecServer WITH
       Setups <- ServiceSetups, setup <- sSetup, stored <- sStored, meta <- sMeta,
       txFile <- sTxFile, blockFile <- sBlockFile, exec <- sExec, up <- sUp, step <-
       sStep, node <- sNode, short <- sShort, faults <- sFaults, buckets <- sBuckets,
       clock <- sClock, passed <- sPassed

-----------------------------------------------------------------------------
\* A part that is not looked at rests in one of its initial states.
MCInit ==
  /\ part \in {"sequencer", "executor", "service"}
  /\ (part # "sequencer" => setup = CHOOSE s \in Setups : TRUE) /\ Init
  /\ (part # "executor" => xSetup = CHOOSE s \in ExecSetups : TRUE) /\ Exec!Init
  /\ (part # "service" => sSetup = CHOOSE s \in ServiceSetups : TRUE) /\ Service!Init

MCVars == <<part, vars, execVars, serviceVars>>

MCNext ==
  /\ UNCHANGED part
  /\ \/ part = "sequencer" /\ Next /\ UNCHANGED <<execVars, serviceVars>>
     \/ part = "executor" /\ Exec!Next /\ UNCHANGED <<vars, serviceVars>>
     \/ part = "service" /\ Service!Next /\ UNCHANGED <<vars, execVars>>

\* The fairness of each part, see its specification.
SequencerFairness == WF_vars(part = "sequencer" /\ Step)

ExecFairness ==
  /\ WF_execVars(part = "executor" /\ Exec!ExecutorSteps)
  /\ WF_execVars(part = "executor" /\ Exec!NodeSteps)
  /\ WF_execVars(part = "executor" /\ Exec!InclusionSteps)

ServiceFairness ==
  /\ WF_serviceVars(part = "service" /\ Service!NodeSteps)
  /\ WF_serviceVars(part = "service" /\ Service!ExecutorSteps)

MCSpec == MCInit /\ [][MCNext]_MCVars

-----------------------------------------------------------------------------
\* The properties of the parts, each for the behaviours of its part.

\* Forced transactions are handed out in the end.
ForcedInTheEnd == SequencerFairness /\ part = "sequencer" => ForcedEventually

\* The executor is never behind the chain that the node has committed.
NothingCommittedLost == part = "executor" => Exec!NothingCommittedLost


\* Every block and result of the committed chain is answered, also after a restart.
HistoryKept == part = "service" => Service!HistoryKept

=============================================================================
