------------------------------ MODULE Cluster ------------------------------
(***************************************************************************)
(* Several sequencers that share one chain through raft: leader election   *)
(* (pkg/raft/election.go), the replicated block state (pkg/raft/node.go),  *)
(* the switch between sync mode and aggregator mode (node/failover.go,     *)
(* node/full.go, block/components.go), the leader's production and the     *)
(* follower's raft retriever.                                              *)
(*                                                                         *)
(* hashicorp/raft is external: an agreed log, one leader at a time, a      *)
(* proposal of a leader that falls may or may not be agreed, and LeaderCh  *)
(* is a channel of one element whose content the next change replaces.     *)
(*                                                                         *)
(* A chain is the sequence of the producers of its blocks, and stands for  *)
(* its last block, too: a block names its parent by hash.                  *)
(***************************************************************************)
EXTENDS Sequences, SequencesExt, Integers, FiniteSets

CONSTANTS Node, Setups

VARIABLES setup,
          leader,      \* the raft leader, or NoNode
          saved,       \* node -> its store has a state
          log,         \* the blocks in the order in which raft agreed on them
          notify,      \* node -> content of LeaderCh
          applied,     \* node -> how much of the log its state machine applied
          inflight,    \* node -> the proposal that waits for raft
          chain,       \* node -> the chain in its store
          pending,     \* node -> the block it has saved as pending
          el,          \* node -> where its election loop is
          mode,        \* node -> the mode that runs, and how far its Run is
          prod,        \* node -> where ProduceBlock is
          events,      \* node -> blocks from raft that the syncer holds
          published,   \* blocks on P2P and the DA layer
          rpc,         \* node -> RPC servers of earlier modes that still listen
          faults       \* losses of leadership and crashes so far

raftVars == <<leader, log, notify, applied, inflight>>
storeVars == <<saved, chain, pending>>
vars == <<setup, raftVars, storeVars, el, mode, prod, events, published, rpc, faults>>

NoNode == "none"
NoChain == <<>>
Chains == UNION {[1..k -> Node] : k \in 0..setup.maxHeight}

\* phase: of failoverState.Run; "sync": the sync services start, "catchup", "start":
\* Components.Start, "up".  started: isStarted of the election loop.
NoMode == [role |-> "none", phase |-> "none", started |-> FALSE]

TypeOK ==
  /\ setup \in Setups /\ leader \in Node \cup {NoNode}
  /\ log \in Seq(Chains \ {NoChain})
  /\ notify \in [Node -> {"none", "gained", "lost"}]
  /\ applied \in [Node -> 0..Len(log)]
  /\ chain \in [Node -> Chains] /\ pending \in [Node -> Chains]
  /\ inflight \in [Node -> Chains]
  /\ el \in [Node -> {"down", "select", "land", "check", "switch", "halt"}]
  /\ mode \in [Node -> [role : {"none", "follower", "leader"},
                        phase : {"none", "sync", "catchup", "start", "up", "failed", "gone"},
                        started : BOOLEAN]]
  /\ prod \in [Node -> {"idle", "made", "applied", "proposing", "landed"}]
  /\ events \in [Node -> SUBSET Chains] /\ published \subseteq Chains
  /\ rpc \in [Node -> BOOLEAN] /\ saved \in [Node -> BOOLEAN]
  /\ faults \in [lost : Nat, crashed : Nat]

Init ==
  /\ setup \in Setups
  /\ leader = NoNode /\ log = <<>> /\ notify = [n \in Node |-> "none"]
  /\ applied = [n \in Node |-> 0] /\ inflight = [n \in Node |-> NoChain]
  /\ chain = [n \in Node |-> NoChain] /\ pending = [n \in Node |-> NoChain]
  /\ el = [n \in Node |-> "select"] /\ mode = [n \in Node |-> NoMode]
  /\ prod = [n \in Node |-> "idle"] /\ events = [n \in Node |-> {}]
  /\ published = {} /\ rpc = [n \in Node |-> FALSE] /\ saved = [n \in Node |-> ~setup.fresh]
  /\ faults = [lost |-> 0, crashed |-> 0]

-----------------------------------------------------------------------------
\* The replicated state.

\* FSM.Apply of one entry after the other: assertValid refuses a height that is not
\* above the last one.  The refusal is the entry's response, which Broadcast ignores.
StateAfter(entries) ==
  FoldLeft(LAMBDA s, e : IF Len(e) > Len(s) THEN e ELSE s, NoChain, entries)

GetState(n) == StateAfter(SubSeq(log, 1, applied[n]))

\* The retriever of a running follower gets an entry, unless its channel is full.
Delivers(n, block) ==
  /\ mode[n].role = "follower" /\ mode[n].phase = "up"
  /\ events' = [events EXCEPT ![n] = @ \cup {block}]

\* The state machine applies the next entry.
Apply(n) ==
  /\ el[n] # "down" /\ applied[n] < Len(log)
  /\ applied' = [applied EXCEPT ![n] = @ + 1]
  /\ UNCHANGED events \/ Delivers(n, log[applied[n] + 1])
  /\ UNCHANGED <<setup, storeVars, leader, log, notify, inflight, el, mode, prod,
                 published, rpc, faults>>

\* Raft decides nothing without a majority.
Majority == 2 * Cardinality({n \in Node : el[n] # "down"}) > Cardinality(Node)

\* Raft elects a node.  prompt: its election loop has seen that it lost the
\* leadership it had before.
Elect(n) ==
  /\ leader = NoNode /\ el[n] # "down" /\ Majority
  /\ setup.prompt => notify[n] = "none" /\ el[n] = "select"
  /\ leader' = n
  /\ notify' = [notify EXCEPT ![n] = "gained"]
  /\ UNCHANGED <<setup, storeVars, log, applied, inflight, el, mode, prod, events,
                 published, rpc, faults>>

\* The leader falls, by a transfer, a partition or its end: what it has proposed is
\* agreed by its successor or dropped.
Falls(n) ==
  /\ leader' = IF leader = n THEN NoNode ELSE leader
  /\ log' \in IF inflight[n] = NoChain THEN {log} ELSE {log, Append(log, inflight[n])}
  /\ inflight' = [inflight EXCEPT ![n] = NoChain]

LoseLeadership(n) ==
  /\ leader = n /\ faults.lost < setup.maxLost
  /\ Falls(n)
  /\ notify' = [notify EXCEPT ![n] = "lost"]
  /\ prod' = [prod EXCEPT ![n] = IF @ = "proposing" THEN "idle" ELSE @]
  /\ faults' = [faults EXCEPT !.lost = @ + 1]
  /\ UNCHANGED <<setup, storeVars, applied, el, mode, events, published, rpc>>

-----------------------------------------------------------------------------
\* The election loop.

Loop(n, pc) == el' = [el EXCEPT ![n] = pc]

\* leadershipTransfer
Transfer(n) ==
  IF leader = n THEN Falls(n) /\ notify' = [notify EXCEPT ![n] = "lost"]
  ELSE UNCHANGED <<leader, log, inflight, notify>>

\* The loop reads that the node is leader.
BecameLeader(n) ==
  /\ el[n] = "select" /\ notify[n] = "gained"
  /\ notify' = [notify EXCEPT ![n] = "none"]
  /\ Loop(n, IF mode[n].role = "leader" THEN "select" ELSE "land")
  /\ UNCHANGED <<setup, storeVars, leader, log, applied, inflight, mode, prod, events,
                 published, rpc, faults>>

\* Slip: nobody waits.
LandAtOnce(n) ==
  /\ el[n] = "land"
  /\ Loop(n, IF mode[n].started THEN "check" ELSE "switch")
  /\ UNCHANGED <<setup, storeVars, raftVars, mode, prod, events, published, rpc, faults>>

\* waitForMsgsLanded: a leader's log ends with an entry of its term, so a majority has
\* it and everything agreed is applied; who is not the leader any more knows less.
Landed(n) ==
  /\ el[n] = "land"
  /\ leader = n => Majority /\ applied[n] = Len(log)
  /\ Loop(n, IF mode[n].started THEN "check" ELSE "switch")
  /\ UNCHANGED <<setup, storeVars, raftVars, mode, prod, events, published, rpc, faults>>

\* Slip: the node goes back to its loop and stays leader.
AbdicateSilently(n) ==
  /\ el[n] = "land" /\ (applied[n] < Len(log) \/ ~Majority)
  /\ Loop(n, "select")
  /\ UNCHANGED <<setup, storeVars, raftVars, mode, prod, events, published, rpc, faults>>

\* It takes too long: the node abdicates.
Abdicate(n) ==
  /\ el[n] = "land" /\ (applied[n] < Len(log) \/ ~Majority)
  /\ Transfer(n)
  /\ Loop(n, "select")
  /\ UNCHANGED <<setup, storeVars, applied, mode, prod, events, published, rpc, faults>>

\* TrySyncNextBlock accepts a block on top of the chain.
Extends(b, c) == b # NoChain /\ Front(b) = c

Diff(n) == Len(chain[n]) - Len(GetState(n))

\* IsSyncedWithRaft: an error if the store has no state yet or another block at the height.
SyncCheckFails(n) == ~saved[n] \/ (Diff(n) = 0 /\ chain[n] # GetState(n))

\* RecoverFromRaft: it applies raft's block when that is the next one, does nothing when
\* raft is further ahead, and fails on another block at the height or a longer chain.
RecoverFails(n) ==
  \/ Diff(n) = -1 /\ ~Extends(GetState(n), chain[n])
  \/ Diff(n) > 0
Recovered(n) == IF Diff(n) = -1 THEN GetState(n) ELSE chain[n]

\* A leader that has been follower compares its store with raft's state: the loop goes
\* on to the switch, goes back because the leadership is gone, or ends with an error.
Recover(n) ==
  /\ el[n] = "check"
  /\ \/ /\ leader # n
        /\ Loop(n, "select")
        /\ UNCHANGED <<chain, leader, log, inflight, notify>>
     \/ /\ leader = n /\ SyncCheckFails(n)
        /\ Loop(n, "halt")
        /\ UNCHANGED <<chain, leader, log, inflight, notify>>
     \/ /\ leader = n /\ ~SyncCheckFails(n) /\ RecoverFails(n)
        /\ Loop(n, "halt") /\ Transfer(n)
        /\ UNCHANGED chain
     \/ /\ leader = n /\ ~SyncCheckFails(n) /\ ~RecoverFails(n)
        /\ Loop(n, "switch")
        /\ chain' = [chain EXCEPT ![n] = Recovered(n)]
        /\ UNCHANGED <<leader, log, inflight, notify>>
  /\ UNCHANGED <<setup, saved, applied, pending, mode, prod, events, published, rpc,
                 faults>>

\* A Run that is cancelled before Components.Start leaves its RPC server behind.
LeavesServer(n) == mode[n].phase \in {"sync", "catchup"}

Starts(n, role) ==
  mode' = [mode EXCEPT ![n] = [role |-> role, phase |-> "sync", started |-> TRUE]]

\* The follower is stopped and the aggregator mode's Run begins.
StartLeader(n) ==
  /\ el[n] = "switch"
  /\ Starts(n, "leader")
  /\ rpc' = [rpc EXCEPT ![n] = @ \/ LeavesServer(n)]
  /\ events' = [events EXCEPT ![n] = {}]
  /\ Loop(n, "select")
  /\ UNCHANGED <<setup, storeVars, raftVars, prod, published, faults>>

\* verifyState before a follower that has lost its first leadership starts.
VerifyState(n) ==
  LET state == GetState(n)
  IN  state = NoChain \/ (saved[n] /\ (Len(chain[n]) < Len(state) \/ chain[n] = state))

\* The loop reads that the node is not leader.
LostLeadership(n) ==
  /\ el[n] = "select" /\ notify[n] = "lost"
  /\ notify' = [notify EXCEPT ![n] = "none"]
  /\ CASE mode[n].role = "leader" -> Loop(n, "halt") /\ UNCHANGED mode
       [] mode[n].role = "none" /\ VerifyState(n) -> Starts(n, "follower") /\ UNCHANGED el
       [] mode[n].role = "none" /\ ~VerifyState(n) -> Loop(n, "halt") /\ UNCHANGED mode
       [] OTHER -> UNCHANGED <<el, mode>>
  /\ UNCHANGED <<setup, storeVars, leader, log, applied, inflight, prod, events,
                 published, rpc, faults>>

\* The ticker sees a leader elsewhere before the first notification.
StartFollower(n) ==
  /\ el[n] = "select" /\ ~mode[n].started
  /\ leader \notin {NoNode, n}
  /\ Starts(n, "follower")
  /\ UNCHANGED <<setup, storeVars, raftVars, el, prod, events, published, rpc, faults>>

-----------------------------------------------------------------------------
\* failoverState.Run and Components.Start.

ModeGoes(n, phase) == mode' = [mode EXCEPT ![n].phase = phase]

\* The sync services are up; a leader may sync before it produces.  A component that
\* starts saves the state it finds or that of the genesis.
ServicesUp(n) ==
  /\ mode[n].phase = "sync" /\ el[n] # "halt" /\ ~rpc[n]
  /\ ModeGoes(n, IF mode[n].role = "leader" /\ setup.catchup THEN "catchup" ELSE "start")
  /\ saved' = [saved EXCEPT ![n] = @ \/ (mode[n].role = "leader" /\ setup.catchup)]
  /\ UNCHANGED <<setup, raftVars, chain, pending, el, prod, events, published, rpc,
                 faults>>

\* The RPC server of this Run cannot listen where an earlier one still does.  That
\* cancels the start of the services: Run ends with the server's error, or with that
\* of the cancelled context, which startWorker takes for an orderly end.
ServerFails(n) ==
  /\ mode[n].phase = "sync" /\ el[n] # "halt" /\ rpc[n]
  /\ \E phase \in {"failed", "gone"} : ModeGoes(n, phase)
  /\ UNCHANGED <<setup, storeVars, raftVars, el, prod, events, published, rpc, faults>>

\* waitForCatchup: the DA layer has been read, and what P2P has is in the store or
\* P2P is ignored after a timeout.
CaughtUp(n) ==
  /\ mode[n].phase = "catchup" /\ el[n] # "halt"
  /\ setup.mayTimeOut \/ \A b \in published : Len(b) <= Len(chain[n])
  /\ ModeGoes(n, "start")
  /\ UNCHANGED <<setup, storeVars, raftVars, el, prod, events, published, rpc, faults>>

\* Executor.initializeState: the store is not ahead of raft, has raft's block at raft's
\* height, and a store behind it cannot be replayed to raft's height.
LeaderFits(n) ==
  LET state == GetState(n) IN state = NoChain \/ chain[n] = state

ComponentsUp(n) ==
  /\ mode[n].phase = "start" /\ el[n] # "halt"
  /\ ModeGoes(n, IF mode[n].role = "leader" /\ ~LeaderFits(n) THEN "failed" ELSE "up")
  /\ saved' = [saved EXCEPT ![n] = TRUE]
  /\ UNCHANGED <<setup, raftVars, chain, pending, el, prod, events, published, rpc,
                 faults>>

\* A Run that fails: startWorker transfers the leadership, and the loop ends.
WorkerFails(n) ==
  /\ mode[n].phase = "failed" /\ el[n] = "select"
  /\ Transfer(n)
  /\ Loop(n, "halt")
  /\ UNCHANGED <<setup, storeVars, applied, mode, prod, events, published, rpc, faults>>

\* The process ends: FullNode.Run returns and the store is closed.
Down(n) ==
  /\ el' = [el EXCEPT ![n] = "down"]
  /\ Falls(n)
  /\ notify' = [notify EXCEPT ![n] = "none"]
  /\ applied' = [applied EXCEPT ![n] = 0]
  /\ mode' = [mode EXCEPT ![n] = NoMode]
  /\ prod' = [prod EXCEPT ![n] = "idle"]
  /\ events' = [events EXCEPT ![n] = {}]
  /\ rpc' = [rpc EXCEPT ![n] = FALSE]

\* The election loop has ended; ProduceBlock may have got past its last look at the
\* context, and then commits first.
Halt(n) ==
  /\ el[n] = "halt" /\ prod[n] # "proposing"
  /\ Down(n)
  /\ UNCHANGED <<setup, storeVars, published, faults>>

Crash(n) ==
  /\ el[n] # "down" /\ faults.crashed < setup.maxCrashes
  /\ Down(n)
  /\ faults' = [faults EXCEPT !.crashed = @ + 1]
  /\ UNCHANGED <<setup, storeVars, published>>

Restart(n) ==
  /\ el[n] = "down"
  /\ Loop(n, "select")
  /\ UNCHANGED <<setup, storeVars, raftVars, mode, prod, events, published, rpc, faults>>

-----------------------------------------------------------------------------
\* The leader's ProduceBlock, and the follower's syncer.

Producing(n) == mode[n].role = "leader" /\ mode[n].phase = "up" /\ el[n] # "halt"

\* Barrier: everything agreed is applied.
HasQuorum(n) == leader = n /\ Majority /\ applied[n] = Len(log)

Produces(n, pc) == prod' = [prod EXCEPT ![n] = pc]

\* The pending block of the height, or a new one that is saved.
Create(n) ==
  /\ Producing(n) /\ prod[n] = "idle" /\ Len(chain[n]) < setup.maxHeight
  /\ HasQuorum(n)
  /\ pending' = [pending EXCEPT ![n] =
                   IF Len(@) = Len(chain[n]) + 1 THEN @ ELSE Append(chain[n], n)]
  /\ Produces(n, "made")
  /\ UNCHANGED <<setup, saved, raftVars, chain, el, mode, events, published, rpc, faults>>

\* The second look at the quorum, ApplyBlock and the check of the sequence.
ApplyBlock(n) ==
  /\ Producing(n) /\ prod[n] = "made"
  /\ Produces(n, IF HasQuorum(n) /\ Extends(pending[n], chain[n]) THEN "applied" ELSE "idle")
  /\ UNCHANGED <<setup, storeVars, raftVars, el, mode, events, published, rpc, faults>>

\* Broadcast: refused when the node is not leader.
Broadcast(n) ==
  /\ Producing(n) /\ prod[n] = "applied"
  /\ IF leader = n
     THEN Produces(n, "proposing") /\ inflight' = [inflight EXCEPT ![n] = pending[n]]
     ELSE Produces(n, "idle") /\ UNCHANGED inflight
  /\ UNCHANGED <<setup, storeVars, leader, log, notify, applied, el, mode, events,
                 published, rpc, faults>>

\* Raft agrees and the leader's state machine has applied the entry.
Agreed(n) ==
  /\ prod[n] = "proposing" /\ leader = n /\ Majority
  /\ log' = Append(log, inflight[n])
  /\ applied' = [applied EXCEPT ![n] = Len(log) + 1]
  /\ inflight' = [inflight EXCEPT ![n] = NoChain]
  /\ Produces(n, "landed")
  /\ UNCHANGED <<setup, storeVars, leader, notify, el, mode, events, published, rpc,
                 faults>>

Commit(n) ==
  /\ prod[n] = "landed"
  /\ chain' = [chain EXCEPT ![n] = pending[n]]
  /\ published' = published \cup {pending[n]}
  /\ Produces(n, "idle")
  /\ UNCHANGED <<setup, saved, raftVars, pending, el, mode, events, rpc, faults>>

\* A block from raft, P2P or the DA layer on top of the chain; a syncer runs in sync
\* mode and during the catch-up.
SyncBlock(n) ==
  /\ \/ mode[n].role = "follower" /\ mode[n].phase = "up"
     \/ mode[n].phase = "catchup"
  /\ el[n] # "halt"
  /\ \E b \in published \cup events[n] :
       /\ Extends(b, chain[n])
       /\ chain' = [chain EXCEPT ![n] = b]
       /\ events' = [events EXCEPT ![n] = {x \in @ : Len(x) > Len(b)}]
  /\ UNCHANGED <<setup, saved, raftVars, pending, el, mode, prod, published, rpc, faults>>

ElectionSteps(n) ==
  \/ BecameLeader(n) \/ Landed(n) \/ Recover(n) \/ StartLeader(n) \/ LostLeadership(n)
  \/ StartFollower(n) \/ WorkerFails(n) \/ Halt(n) \/ Restart(n)
ModeSteps(n) == ServicesUp(n) \/ ServerFails(n) \/ CaughtUp(n) \/ ComponentsUp(n)
ProducerSteps(n) == Create(n) \/ ApplyBlock(n) \/ Broadcast(n) \/ Agreed(n) \/ Commit(n)

Next ==
  \E n \in Node :
    \/ ElectionSteps(n) \/ ModeSteps(n) \/ ProducerSteps(n) \/ SyncBlock(n)
    \/ Apply(n) \/ Elect(n) \/ LoseLeadership(n) \/ Abdicate(n) \/ Crash(n)

Spec == Init /\ [][Next]_vars

\* Every node's goroutines run, a halted process is started again, raft applies what it
\* agreed on and, with its random timeouts, does not elect the same node for ever.
FairSpec ==
  /\ Spec
  /\ \A n \in Node :
       /\ WF_vars(ElectionSteps(n)) /\ WF_vars(ModeSteps(n)) /\ WF_vars(ProducerSteps(n))
       /\ WF_vars(SyncBlock(n)) /\ WF_vars(Apply(n)) /\ SF_vars(Elect(n))

-----------------------------------------------------------------------------
\* The stores of the cluster and what was given to others never fork: each is a
\* beginning of the chain that raft has agreed on, whoever leads, and whatever
\* proposals of fallen leaders are agreed later.
OneChain ==
  setup.prompt =>
    \A c \in {chain[n] : n \in Node} \cup published : IsPrefix(c, StateAfter(log))

Grown == \E n \in Node : Len(chain[n]) = setup.maxHeight
HaltsEnd == <>[](\A n \in Node : el[n] # "halt")

\* The cluster gets over every loss of leadership and every crash, also one between
\* raft's agreement and the leader's commit: the chain grows in the end, unless a Run
\* that was cancelled during its start has left its RPC server behind, or raft keeps
\* electing nodes that have to give up because they have not been followers for long
\* enough.
ChainGrows == [](\A n \in Node : ~rpc[n]) /\ HaltsEnd => <>Grown

\* The documentation's claim: after the end of a leader the next one produces, and the
\* chain recovers by itself.
SelfHealing == HaltsEnd => <>Grown

\* The documentation's claim: a leader that has applied the whole log does not
\* produce on an old state, and there is no fork.
NoFork == \A n, m \in Node : IsPrefix(chain[n], chain[m]) \/ IsPrefix(chain[m], chain[n])
=============================================================================
