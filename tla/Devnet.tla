------------------------------- MODULE Devnet -------------------------------
(***************************************************************************)
(* The runner that brings up a local stack (scripts/run-cosmos-wasm-       *)
(* nodes.go: two executors, a sequencer and a full node) and the SDK that  *)
(* starts and stops the runner (internal/devchain).                        *)
(*                                                                         *)
(* The runner is one main goroutine (pc), a signal goroutine (sigPending), *)
(* and one watcher per child, started by exec.CommandContext, that kills   *)
(* the child once the context is cancelled.  os.Exit ends all of them at   *)
(* once and runs no deferred call.  The disk outlives every process, so    *)
(* the model covers several launches, with loss of power between any two   *)
(* steps.                                                                  *)
(***************************************************************************)
EXTENDS NodeHome, Sequences, FiniteSets

CONSTANTS Setups      \* the deployments to explore, see MCQueueParts

VARIABLES
    setup,        \* this deployment
    pc,           \* next step of the runner's main goroutine; "off": no runner
    initStep,     \* position in InitSteps of the `evcosmos init' in progress
    cancelled,    \* nm.ctx is done
    sigPending,   \* a signal waits in sigCh
    child,        \* child -> "none" | "booting" | "ready" | "gone"
    crashed,      \* children whose Wait returns an error
    told,         \* running children that were sent SIGINT or SIGTERM
    loaded,       \* node -> the genesis (and the sequencer's key) it started with
    home,         \* node -> its home directory
    stored,       \* the DA height in the full node's stored state, 0: none
    passFile,     \* the passphrase file the runner writes exists
    daHead,       \* head of the DA chain
    sdk,          \* "idle" | "starting" | "up" | "stopping" | "done" | "failed"
    launches,     \* launches so far
    faults,       \* children that died unexpectedly, power losses
    unclean,      \* a launch ended otherwise than by a signal to the group once up
    imported,     \* `keys import' replaced the signing key
    foreign,      \* children of an earlier launch ran when this one was launched
    groupSignalled, \* SIGINT went to the whole group of this launch once up
    refused       \* a node of the last launch, or its init, refused what it found

disk == <<home, stored, passFile>>
procs == <<child, crashed, told, loaded>>
runner == <<pc, initStep, cancelled, sigPending>>
history == <<launches, faults, unclean, imported, foreign, groupSignalled, refused>>
vars == <<setup, runner, procs, disk, daHead, sdk, history>>

Nodes == {"sequencer", "fullnode"}
Children == {"exec1", "exec2", "sequencer", "fullnode"}
NoChild == [c \in Children |-> "none"]
Running(c) == child[c] \in {"booting", "ready"}
Alive == {c \in Children : Running(c)}
RunnerAlive == pc # "off"
Unloaded == [genesis |-> Missing, key |-> Null]

\* The key that init generates in launch n, and the passphrase in use.
FreshKey(n) == setup.keys[n]

Init ==
    /\ setup \in Setups
    /\ pc = "off" /\ initStep = 1 /\ cancelled = FALSE /\ sigPending = FALSE
    /\ child = NoChild /\ crashed = {} /\ told = {}
    /\ loaded = [n \in Nodes |-> Unloaded]
    /\ home = [n \in Nodes |-> EmptyHome]
    /\ stored = 0
    /\ passFile = FALSE
    /\ daHead = 1
    /\ sdk = "idle"
    /\ launches = 0 /\ faults = 0
    /\ unclean = FALSE /\ imported = FALSE /\ foreign = FALSE
    /\ groupSignalled = FALSE /\ refused = FALSE

-----------------------------------------------------------------------------
(* Launching: from a shell, or by StartDALChain.                           *)

Start ==
    /\ pc = "off" /\ launches < setup.maxLaunches
    /\ sdk \in {"idle", "done", "failed"}
    /\ pc' = "preflight" /\ initStep' = 1
    /\ cancelled' = FALSE /\ sigPending' = FALSE /\ crashed' = {}
    /\ foreign' = (Alive # {})
    /\ groupSignalled' = FALSE
    /\ launches' = launches + 1
    /\ sdk' = IF setup.viaSDK THEN "starting" ELSE "idle"
    /\ UNCHANGED <<setup, child, told, loaded, disk, daHead, faults, unclean, imported,
                   refused>>

Goto(next) == pc' = next

\* run() returns an error: main logs it and calls os.Exit(1), which skips
\* the deferred cleanup.  The children run on.
ExitOne ==
    /\ pc' = "off"
    /\ unclean' = (unclean \/ ~groupSignalled)

\* What one step of run() leaves alone.
StepFrame == UNCHANGED <<setup, cancelled, sigPending, daHead, sdk,
                         launches, faults, imported, foreign, groupSignalled>>

\* validateDAConfig and preflightDA: one request, bound to the context.
PreflightDA ==
    /\ pc = "preflight"
    /\ \/ ~cancelled /\ Goto("paths") /\ UNCHANGED unclean
       \/ (setup.envFails \/ cancelled) /\ ExitOne
    /\ StepFrame /\ UNCHANGED <<initStep, procs, disk, refused>>

\* preparePaths: the homes are removed before the ports are checked.  Only
\* the dev profile writes the passphrase file.
PreparePaths ==
    /\ pc = "paths"
    /\ Goto("ports")
    /\ passFile' = (passFile \/ ~setup.prod)
    /\ home' = IF setup.cleanOnStart THEN [n \in Nodes |-> EmptyHome] ELSE home
    /\ stored' = IF setup.cleanOnStart THEN 0 ELSE stored
    /\ StepFrame /\ UNCHANGED <<initStep, procs, unclean, refused>>

EnsurePortsAvailable ==
    /\ pc = "ports"
    /\ IF Alive = {} THEN Goto("build") /\ UNCHANGED unclean ELSE ExitOne
    /\ StepFrame /\ UNCHANGED <<initStep, procs, disk, refused>>

\* ensureBinaries: `go build' under the context.
EnsureBinaries ==
    /\ pc = "build"
    /\ \/ ~cancelled /\ Goto("init_sequencer") /\ UNCHANGED unclean
       \/ (setup.envFails \/ cancelled) /\ ExitOne
    /\ StepFrame /\ UNCHANGED <<initStep, procs, disk, refused>>

-----------------------------------------------------------------------------
(* initNodes.                                                              *)

InitPC == [sequencer |-> "init_sequencer", fullnode |-> "init_fullnode"]
AfterInit(n) == IF n = "sequencer" THEN "init_fullnode" ELSE "patch"

\* A node whose signer.json exists, whatever it holds, is not initialised.
SkipInit(n) ==
    /\ pc = InitPC[n] /\ initStep = 1
    /\ Present(home[n].signer)
    /\ Goto(AfterInit(n))
    /\ StepFrame /\ UNCHANGED <<initStep, procs, disk, unclean, refused>>

\* One file of `evcosmos init'; the command ends on the first error.
InitNode(n) ==
    LET step == InitSteps[initStep]
        aggregator == n = "sequencer"
    IN /\ pc = InitPC[n]
       /\ initStep = 1 => ~Present(home[n].signer)
       /\ ~cancelled
       /\ IF InitFails(home[n], step, aggregator)
          THEN /\ ExitOne /\ refused' = TRUE
               /\ UNCHANGED <<initStep, home>>
          ELSE /\ home' = [home EXCEPT ![n] =
                      InitWrites(@, step, aggregator, FreshKey(launches), setup.pass)]
               /\ IF initStep = Len(InitSteps)
                  THEN Goto(AfterInit(n)) /\ initStep' = 1
                  ELSE initStep' = initStep + 1 /\ UNCHANGED pc
               /\ UNCHANGED <<unclean, refused>>
       /\ StepFrame /\ UNCHANGED <<procs, stored, passFile>>

\* The context kills `evcosmos init', before or during the write of a file.
InitKilled(n) ==
    /\ pc = InitPC[n] /\ cancelled
    /\ initStep = 1 => ~Present(home[n].signer)
    /\ \/ UNCHANGED home
       \/ /\ ~InitFails(home[n], InitSteps[initStep], n = "sequencer")
          /\ InitWrites(home[n], InitSteps[initStep], n = "sequencer",
                        FreshKey(launches), setup.pass) # home[n]
          /\ home' = [home EXCEPT ![n] = TornBy(@, InitSteps[initStep])]
    /\ ExitOne
    /\ StepFrame /\ UNCHANGED <<initStep, procs, stored, passFile, refused>>

\* daNetworkHead: the answers it can give, besides an error.
NetworkHead == IF cancelled THEN {} ELSE {daHead}

\* patchGenesisForcedInclusion: on every start, and only when forced
\* inclusion is on.  A failed query of the head keeps the value, at least 1.
PatchGenesis ==
    LET gen == home["sequencer"].genesis
    IN /\ pc = "patch"
       /\ \/ /\ ~setup.forced
             /\ Goto("copy") /\ UNCHANGED <<home, unclean, refused>>
          \/ /\ setup.forced /\ gen.kind = "genesis"
             /\ \E start \in NetworkHead \union
                               {IF gen.start > 0 THEN gen.start ELSE 1} :
                  home' = [home EXCEPT !["sequencer"].genesis =
                                GenesisFile(gen.proposer, start)]
             /\ Goto("copy") /\ UNCHANGED <<unclean, refused>>
          \/ /\ setup.forced /\ gen.kind # "genesis"
             /\ ExitOne /\ refused' = TRUE /\ UNCHANGED home
       /\ StepFrame /\ UNCHANGED <<initStep, procs, stored, passFile>>


\* copyFile from the sequencer's home, whatever the full node's holds.
CopyGenesis ==
    LET gen == home["sequencer"].genesis
    IN /\ pc = "copy"
       /\ IF Present(gen)
          THEN /\ home' = [home EXCEPT !["fullnode"].genesis = gen]
               /\ Goto("start_exec1") /\ UNCHANGED <<unclean, refused>>
          ELSE ExitOne /\ refused' = TRUE /\ UNCHANGED home
       /\ StepFrame /\ UNCHANGED <<initStep, procs, stored, passFile>>

-----------------------------------------------------------------------------
(* Starting the children, in the order of run().                           *)

StartPC == [exec1 |-> "start_exec1", exec2 |-> "start_exec2",
            sequencer |-> "start_sequencer", fullnode |-> "start_fullnode"]
WaitPC == [exec1 |-> "wait_exec1", exec2 |-> "wait_exec2",
           sequencer |-> "wait_sequencer", fullnode |-> "wait_fullnode"]
AfterWait == [exec1 |-> "start_exec2", exec2 |-> "start_sequencer",
              sequencer |-> "peer", fullnode |-> "sync"]

\* startProcess: cmd.Start refuses a context that is done.
StartProcess(c) ==
    /\ pc = StartPC[c]
    /\ IF cancelled
       THEN ExitOne /\ UNCHANGED <<child, crashed, told>>
       ELSE /\ child' = [child EXCEPT ![c] = "booting"]
            /\ crashed' = crashed \ {c} /\ told' = told \ {c}
            /\ Goto(WaitPC[c]) /\ UNCHANGED unclean
    /\ StepFrame /\ UNCHANGED <<initStep, loaded, disk, refused>>

\* waitForTCP, waitForGRPCHealthy and waitForHTTPStatus poll until their own
\* deadline; they look neither at the context nor at the child.
WaitFor(c) ==
    /\ pc = WaitPC[c]
    /\ \/ child[c] = "ready" /\ Goto(AfterWait[c]) /\ UNCHANGED unclean
       \/ child[c] = "gone" /\ ExitOne
       \/ child[c] = "booting" /\ setup.envFails /\ ExitOne
    /\ StepFrame /\ UNCHANGED <<initStep, procs, disk, refused>>

\* getNodePeerAddress runs `evcosmos net-info' under the context.
GetNodePeerAddress ==
    /\ pc = "peer"
    /\ IF cancelled THEN ExitOne ELSE Goto("start_fullnode") /\ UNCHANGED unclean
    /\ StepFrame /\ UNCHANGED <<initStep, procs, disk, refused>>

StartExecutionServices == \E c \in {"exec1", "exec2"} : StartProcess(c) \/ WaitFor(c)

StartSequencer == StartProcess("sequencer") \/ WaitFor("sequencer") \/ GetNodePeerAddress

StartFullNode == StartProcess("fullnode") \/ WaitFor("fullnode")

\* waitForChainSync never fails: neither a failed build of the tool, nor five
\* minutes without agreement, nor a done context.
WaitForChainSync ==
    /\ pc = "sync"
    /\ Goto("monitor")
    /\ StepFrame /\ UNCHANGED <<initStep, procs, disk, unclean, refused>>

\* monitorProcesses: the context is done, or a Wait has returned an error.
\* With both ready the select may take either; a child that exited with
\* status 0 is passed over.
MonitorDone ==
    /\ pc = "monitor" /\ cancelled
    /\ Goto("cleanup")
    /\ StepFrame /\ UNCHANGED <<initStep, procs, disk, unclean, refused>>

MonitorFails ==
    /\ pc = "monitor" /\ crashed # {}
    /\ cancelled' = TRUE
    /\ Goto("exiting")
    /\ UNCHANGED <<setup, initStep, sigPending, procs, disk, daHead, sdk, history>>

\* Back in main with the error: the watchers race with os.Exit.
ExitAfterMonitor ==
    /\ pc = "exiting"
    /\ ExitOne
    /\ StepFrame /\ UNCHANGED <<initStep, procs, disk, refused>>

\* cleanup, reached only when run() returned nil: SIGTERM to every child ...
CleanupTerm ==
    /\ pc = "cleanup"
    /\ told' = told \union Alive
    /\ Goto("cleanup_kill")
    /\ StepFrame /\ UNCHANGED <<initStep, child, crashed, loaded, disk, unclean, refused>>

\* ... and 800 ms later SIGKILL to those that are left, then the files.
CleanupKill ==
    /\ pc = "cleanup_kill"
    /\ child' = [c \in Children |-> IF Running(c) THEN "gone" ELSE child[c]]
    /\ home' = IF setup.cleanOnExit THEN [n \in Nodes |-> EmptyHome] ELSE home
    /\ stored' = IF setup.cleanOnExit THEN 0 ELSE stored
    /\ passFile' = (passFile /\ setup.prod)
    /\ Goto("off") /\ told' = {}
    /\ StepFrame /\ UNCHANGED <<initStep, crashed, loaded, unclean, refused>>

-----------------------------------------------------------------------------
(* The children.                                                           *)

ProcFrame == UNCHANGED <<setup, runner, home, passFile, daHead, sdk, launches,
                         unclean, imported, foreign, groupSignalled>>

ExecutorBoots(c) ==
    /\ c \in {"exec1", "exec2"} /\ child[c] = "booting"
    /\ child' = [child EXCEPT ![c] = "ready"]
    /\ ProcFrame /\ UNCHANGED <<crashed, told, loaded, stored, faults, refused>>

\* `evcosmos start': a node loads its home once; the state of a fresh full
\* node begins at the genesis' DA start height.
NodeBoots(n) ==
    LET accepts == IF n = "sequencer" THEN SequencerStarts(home[n], setup.pass)
                                      ELSE FullNodeStarts(home[n], stored)
        exec == IF n = "sequencer" THEN "exec1" ELSE "exec2"
    IN /\ child[n] = "booting"
       /\ IF accepts /\ child[exec] = "ready"
          THEN /\ child' = [child EXCEPT ![n] = "ready"]
               /\ loaded' = [loaded EXCEPT ![n] =
                      [genesis |-> home[n].genesis,
                       key |-> IF n = "sequencer" THEN home[n].signer.key ELSE Null]]
               /\ stored' = IF n = "fullnode" /\ stored = 0
                            THEN home[n].genesis.start ELSE stored
               /\ UNCHANGED <<crashed, told, refused>>
          ELSE /\ child' = [child EXCEPT ![n] = "gone"]
               /\ crashed' = crashed \union {n} /\ told' = told \ {n}
               /\ refused' = (refused \/ (~accepts /\ ~foreign))
               /\ UNCHANGED <<loaded, stored>>
       /\ ProcFrame /\ UNCHANGED faults

\* Applying blocks moves the stored DA height on, at most to the head.
FullNodeSyncs ==
    /\ child["fullnode"] = "ready" /\ stored < daHead
    /\ stored' = daHead
    /\ ProcFrame /\ UNCHANGED <<procs, faults, refused>>

DAGrows ==
    /\ setup.forced /\ daHead < setup.maxHead
    /\ daHead' = daHead + 1
    /\ UNCHANGED <<setup, runner, procs, disk, sdk, history>>

\* A child dies by itself, with an error or with status 0.
ChildDies(c) ==
    /\ Running(c) /\ faults < setup.maxFaults
    /\ child' = [child EXCEPT ![c] = "gone"]
    /\ \E status \in {0, 1} :
         crashed' = IF status = 0 THEN crashed ELSE crashed \union {c}
    /\ told' = told \ {c}
    /\ faults' = faults + 1
    /\ ProcFrame /\ UNCHANGED <<loaded, stored, refused>>

\* Both programs end within ten seconds of SIGINT or SIGTERM, a node whose
\* shutdown takes longer with an error.
ToldChildExits(c) ==
    /\ Running(c) /\ c \in told
    /\ child' = [child EXCEPT ![c] = "gone"]
    /\ \E status \in {0, 1} :
         crashed' = IF status = 0 THEN crashed ELSE crashed \union {c}
    /\ told' = told \ {c}
    /\ ProcFrame /\ UNCHANGED <<loaded, stored, faults, refused>>

\* The watcher of exec.CommandContext: a killed child's Wait returns an
\* ExitError, not context.Canceled.
WatcherKills(c) ==
    /\ RunnerAlive /\ cancelled /\ ~foreign /\ Running(c)
    /\ child' = [child EXCEPT ![c] = "gone"]
    /\ crashed' = crashed \union {c} /\ told' = told \ {c}
    /\ ProcFrame /\ UNCHANGED <<loaded, stored, faults, refused>>

-----------------------------------------------------------------------------
(* Signals.  All children of a launch are in the runner's process group.   *)

Up == pc \in {"wait_fullnode", "sync", "monitor"}
GroupMembers == IF foreign THEN {} ELSE Alive

SignalFrame == UNCHANGED <<setup, pc, initStep, cancelled, child, crashed, loaded,
                           disk, daHead, launches, faults, unclean, imported,
                           foreign, refused>>

SignalGroup ==
    /\ sigPending' = (sigPending \/ RunnerAlive)
    /\ told' = told \union GroupMembers
    /\ groupSignalled' = (groupSignalled \/ Up)

\* Ctrl-C in the runner's terminal.
Interrupt ==
    /\ ~setup.viaSDK /\ RunnerAlive /\ ~sigPending /\ ~cancelled
    /\ SignalGroup
    /\ SignalFrame /\ UNCHANGED sdk

\* `kill' of the runner alone.
KillRunner ==
    /\ ~setup.viaSDK /\ RunnerAlive /\ ~sigPending /\ ~cancelled
    /\ sigPending' = TRUE
    /\ SignalFrame /\ UNCHANGED <<told, sdk, groupSignalled>>

\* The signal goroutine takes the first signal and cancels.
CancelOnSignal ==
    /\ RunnerAlive /\ sigPending
    /\ sigPending' = FALSE /\ cancelled' = TRUE
    /\ UNCHANGED <<setup, pc, initStep, procs, disk, daHead, sdk, history>>

-----------------------------------------------------------------------------
(* internal/devchain.                                                      *)

SDKFrame == UNCHANGED <<setup, runner, procs, disk, daHead, history>>

\* waitForLive asks the ports: any process that answers will do.
StartReturns ==
    /\ sdk = "starting"
    /\ child["sequencer"] = "ready" /\ child["fullnode"] = "ready"
    /\ sdk' = "up"
    /\ SDKFrame

\* After 120 s Start returns an error and leaves the runner as it is.
StartTimesOut ==
    /\ sdk = "starting" /\ (pc = "off" \/ setup.envFails)
    /\ sdk' = "failed"
    /\ SDKFrame

\* The context given to Start ends, before or after Start has returned.
StartContextDone ==
    /\ sdk \in {"starting", "up", "failed"} /\ setup.envFails
    /\ RunnerAlive /\ ~sigPending /\ ~cancelled
    /\ SignalGroup
    /\ sdk' = IF sdk = "starting" THEN "failed" ELSE sdk
    /\ SignalFrame

\* Stop: SIGINT to the group, then at most ten seconds for the runner.
Stop ==
    /\ sdk = "up"
    /\ SignalGroup
    /\ sdk' = "stopping"
    /\ SignalFrame

StopReturns ==
    /\ sdk = "stopping" /\ pc = "off"
    /\ sdk' = "done"
    /\ SDKFrame

StopKills ==
    /\ sdk = "stopping" /\ pc # "off"
    /\ child' = [c \in Children |-> IF c \in GroupMembers THEN "gone" ELSE child[c]]
    /\ told' = told \ GroupMembers
    /\ pc' = "off"
    /\ sdk' = "done"
    /\ UNCHANGED <<setup, initStep, cancelled, sigPending, crashed, loaded,
                   disk, daHead, history>>

-----------------------------------------------------------------------------
(* Loss of power, and the keys command.                                    *)

\* The homes a write in progress may leave behind.
TornHomes ==
    {home} \union
    {[home EXCEPT ![n] = TornBy(@, InitSteps[initStep])] :
        n \in {m \in Nodes : /\ pc = InitPC[m]
                             /\ initStep = 1 => ~Present(home[m].signer)
                             /\ InitWrites(home[m], InitSteps[initStep], m = "sequencer",
                                           FreshKey(launches), setup.pass) # home[m]}}
    \union (IF pc = "patch" /\ setup.forced
            THEN {[home EXCEPT !["sequencer"].genesis = Torn]} ELSE {})
    \union (IF pc = "copy" /\ Present(home["sequencer"].genesis)
            THEN {[home EXCEPT !["fullnode"].genesis = Torn]} ELSE {})

PowerLoss ==
    /\ RunnerAlive \/ Alive # {}
    /\ faults < setup.maxFaults
    /\ faults' = faults + 1
    /\ home' \in TornHomes
    /\ pc' = "off" /\ initStep' = 1 /\ cancelled' = FALSE /\ sigPending' = FALSE
    /\ child' = NoChild /\ crashed' = {} /\ told' = {}
    /\ unclean' = TRUE
    /\ sdk' = "idle"
    /\ UNCHANGED <<setup, loaded, stored, passFile, daHead, launches, imported,
                   foreign, groupSignalled, refused>>

\* `keys import' takes an exported key, or another one, and may be run at any
\* time; it does not look at the genesis.
ImportKey(key, force) ==
    LET seqHome == home["sequencer"]
    IN /\ setup.imports /\ ~imported
       /\ ~ImportRefused(seqHome, force)
       /\ home' = [home EXCEPT !["sequencer"] = ImportPrivateKey(@, key, setup.pass)]
       /\ imported' = ~(Exportable(seqHome, setup.pass) /\ seqHome.signer.key = key)
       /\ UNCHANGED <<setup, runner, procs, stored, passFile, daHead, sdk, launches,
                      faults, unclean, foreign, groupSignalled, refused>>

\* The import is killed during its write: the old key is gone, the new one
\* is not there.
ImportKilled(force) ==
    /\ setup.imports /\ ~imported
    /\ ~ImportRefused(home["sequencer"], force)
    /\ home' = [home EXCEPT !["sequencer"].signer = Torn]
    /\ imported' = TRUE
    /\ UNCHANGED <<setup, runner, procs, stored, passFile, daHead, sdk, launches,
                   faults, unclean, foreign, groupSignalled, refused>>

-----------------------------------------------------------------------------
RunnerStep ==
    \/ PreflightDA \/ PreparePaths \/ EnsurePortsAvailable \/ EnsureBinaries
    \/ \E n \in Nodes : SkipInit(n) \/ InitNode(n) \/ InitKilled(n)
    \/ PatchGenesis \/ CopyGenesis
    \/ StartExecutionServices \/ StartSequencer \/ StartFullNode
    \/ WaitForChainSync
    \/ MonitorDone \/ MonitorFails \/ ExitAfterMonitor
    \/ CleanupTerm \/ CleanupKill

ChildStep ==
    \/ \E c \in Children : ExecutorBoots(c) \/ ToldChildExits(c) \/ WatcherKills(c)
    \/ \E n \in Nodes : NodeBoots(n)

Environment ==
    \/ \E c \in Children : ChildDies(c)
    \/ FullNodeSyncs \/ DAGrows
    \/ Interrupt \/ KillRunner \/ PowerLoss
    \/ \E key \in Keys, force \in BOOLEAN : ImportKey(key, force)
    \/ \E force \in BOOLEAN : ImportKilled(force)

SDKStep == StartReturns \/ StartTimesOut \/ StartContextDone \/ Stop
             \/ StopReturns \/ StopKills

\* Nothing is left to do once every launch has been used up.
Finished ==
    /\ pc = "off" /\ launches = setup.maxLaunches
    /\ UNCHANGED vars

Next == Start \/ RunnerStep \/ ChildStep \/ Environment \/ CancelOnSignal
          \/ SDKStep \/ Finished

\* The runner's goroutines are scheduled and its waits have deadlines; a child
\* that was signalled ends; Stop returns.
Fairness ==
    /\ WF_vars(RunnerStep) /\ WF_vars(CancelOnSignal)
    /\ \A c \in Children : WF_vars(ToldChildExits(c))
    /\ WF_vars(StopReturns \/ StopKills)

Spec == Init /\ [][Next]_vars /\ Fairness

-----------------------------------------------------------------------------
TypeOK ==
    /\ setup \in Setups
    /\ initStep \in 1..Len(InitSteps)
    /\ child \in [Children -> {"none", "booting", "ready", "gone"}]
    /\ crashed \subseteq Children /\ told \subseteq Children
    /\ home \in [Nodes -> [signer : FileSet, config : FileSet,
                          nodeKey : FileSet, genesis : FileSet]]
    /\ stored \in Nat /\ daHead \in Nat
    /\ {cancelled, sigPending, passFile, unclean, imported,
        foreign, groupSignalled, refused} \subseteq BOOLEAN

\* Whenever a sequencer and a full node run together, both have loaded the same
\* genesis and the sequencer signs with the key of the proposer in it, over
\* interrupted inits, imported keys, restarts and removed homes (initNodes'
\* copy, CreateFileSystemSigner's and NewExecutor's refusals).
OneProposer ==
    child["sequencer"] = "ready" /\ child["fullnode"] = "ready"
      => /\ loaded["fullnode"].genesis = loaded["sequencer"].genesis
         /\ loaded["sequencer"].key = loaded["fullnode"].genesis.proposer


\* When Stop is called, or Ctrl-C pressed, on a stack that is up, none of its
\* processes stays: whichever of the signal, the watchers, the monitor's error
\* and cleanup comes first (devchain.Stop, monitorProcesses, cleanup).
StopStops == (sdk = "stopping" \/ groupSignalled) /\ ~foreign ~> Alive = {}

\* Once the runner has ended by itself, none of the children it started runs
\* unsignalled and the passphrase file of the dev profile is removed: cleanup
\* ran (main's deferred call).
CleanupRan ==
    pc = "off" /\ launches > 0 /\ faults = 0
      => Alive \subseteq told /\ (setup.prod \/ ~passFile)
=============================================================================
