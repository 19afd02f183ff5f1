------------------------------ MODULE P2PStore ------------------------------
(***************************************************************************)
(* The store as the P2P layer sees it: an adapter for headers and one for  *)
(* data (pkg/store/store_adapter.go), each with a bounded cache of items   *)
(* that are not yet committed and a height that readers wait for, and the  *)
(* sync services that start them (pkg/sync/sync_service.go).               *)
(*                                                                         *)
(* go-header's syncer and the peers are external: peers have the blocks up *)
(* to peerHead, and a started syncer appends the item after the head.  The *)
(* reader is the P2P worker, which gets the header and then the data of    *)
(* the next block; the pipeline behind it commits a block that it got.     *)
(* An item is its height: peers have one chain.                            *)
(***************************************************************************)
EXTENDS BlockStore, FiniteSetsExt

Kinds == {"header", "data"}

VARIABLES peerHead,
          pending,     \* kind -> heights in the pending cache
          heightSub,   \* kind -> the height that waiters compare with
          service,     \* kind -> the sync service
          append,      \* kind -> the Append of go-header's syncer
          poll,        \* kind -> a call of Height or Head between read and write
          get          \* GetByHeight by the P2P worker

adapters == <<pending, heightSub, service, append, poll, get>>
vars == <<storeVars, peerHead, adapters>>

\* phase: of Start; storeInitialized; started: go-header's syncer runs.
ServiceDown == [phase |-> "down", storeInitialized |-> FALSE, started |-> FALSE]
NoAppend == [pc |-> "idle", h |-> 0]
NoPoll == [pc |-> "idle", h |-> 0]
NoGet == [pc |-> "idle", kind |-> "header", h |-> 0, present |-> FALSE]

AdaptersFresh ==
  /\ pending' = [k \in Kinds |-> {}]
  /\ heightSub' = [k \in Kinds |-> height]
  /\ service' = [k \in Kinds |-> ServiceDown]
  /\ append' = [k \in Kinds |-> NoAppend]
  /\ poll' = [k \in Kinds |-> NoPoll]
  /\ get' = NoGet

TypeOK ==
  /\ StoreTypeOK
  /\ peerHead \in 0..setup.maxHeight
  /\ pending \in [Kinds -> SUBSET Heights]
  /\ heightSub \in [Kinds -> 0..setup.maxHeight]
  /\ service \in [Kinds -> [phase : {"down", "init", "up"}, storeInitialized : BOOLEAN,
                            started : BOOLEAN]]
  /\ append \in [Kinds -> [pc : {"idle", "has", "space", "add"},
                           h : 0..setup.maxHeight]]
  /\ poll \in [Kinds -> [pc : {"idle", "set"}, h : 0..setup.maxHeight]]
  /\ get \in [pc : {"idle", "store", "pending", "wait", "waiting", "storeAgain",
                    "pendingAgain", "notFound", "got"},
              kind : Kinds, h : 0..setup.maxHeight, present : BOOLEAN]

Init ==
  /\ StoreInit
  /\ peerHead = 0
  /\ pending = [k \in Kinds |-> {}] /\ heightSub = [k \in Kinds |-> 0]
  /\ service = [k \in Kinds |-> ServiceDown]
  /\ append = [k \in Kinds |-> NoAppend] /\ poll = [k \in Kinds |-> NoPoll]
  /\ get = NoGet

-----------------------------------------------------------------------------
\* The adapter's reads.

\* HeaderStoreGetter and DataStoreGetter, through the caches of the store.
Stored(k, h) ==
  h \in Present \cup DOMAIN (IF k = "header" THEN headerCache ELSE blockDataCache)

\* HasAt
Served(k, h) == Stored(k, h) \/ h \in pending[k]

\* GetRange, which answers a peer's request: the items up to the first that is missing.
GetRange(k, from, to) ==
  {h \in from..(to - 1) : \A g \in from..h : Served(k, g)}

HighestOf(S) == Max(S \cup {0})

\* Head: the pending item if it is the higher one or the store has no block at its
\* height; 0 for an empty store.
HeadHeight(k) ==
  LET pendingHeight == HighestOf(pending[k])
  IN  IF pendingHeight > height \/ ~Stored(k, height) THEN pendingHeight ELSE height

\* ErrEmptyStore
EmptyStore == setup.maxHeight + 1

\* Tail: after what was pruned, and upwards from there.
Tail(k) ==
  LET top == IF heightSub[k] = 0 THEN height ELSE heightSub[k]
  IN  CASE top = 0                                    -> EmptyStore
        [] top > 0 /\ Stored(k, meta.block + 1)       -> meta.block + 1
        [] top > 0 /\ ~Stored(k, meta.block + 1) /\ 1 \in pending[k] -> 1
        [] OTHER -> Min({h \in (meta.block + 2)..top : Served(k, h)} \cup {EmptyStore})

\* SetHeight, and the waiters for heights up to h go on.
Notified(k, h) ==
  IF get.pc = "waiting" /\ get.kind = k /\ get.h <= h
  THEN [get EXCEPT !.pc = "storeAgain"] ELSE get

SetHeight(k, h) ==
  /\ heightSub' = [heightSub EXCEPT ![k] = h]
  /\ get' = Notified(k, h)

\* pendingCache.add
PendingWith(k, h) == [pending EXCEPT ![k] = @ \cup {h}]

\* pendingCache.pruneIf, for the heights of a set.
PruneIf(k, gone) == [pending EXCEPT ![k] = @ \ gone]

\* Start of the adapter: it takes the height of the store.
AdapterStart(k) ==
  IF height > 0 THEN SetHeight(k, height) ELSE UNCHANGED <<heightSub, get>>

\* The end of Append: the item is kept, and the height raised to it.
Keep(k, h) ==
  /\ pending' = PendingWith(k, h)
  /\ IF h > heightSub[k] THEN SetHeight(k, h) ELSE UNCHANGED <<heightSub, get>>

\* Height and Head: the heights are read, and written a moment later.
ReadHeights(k) ==
  /\ setup.polls
  /\ service[k].phase # "down" /\ poll[k].pc = "idle"
  /\ HighestOf(pending[k] \cup {height}) > 0
  /\ poll' = [poll EXCEPT ![k] =
                [pc |-> "set", h |-> HighestOf(pending[k] \cup {height})]]
  /\ UNCHANGED <<storeVars, peerHead, pending, heightSub, service, append, get>>

WriteHeight(k) ==
  /\ poll[k].pc = "set"
  /\ SetHeight(k, poll[k].h)
  /\ poll' = [poll EXCEPT ![k] = NoPoll]
  /\ UNCHANGED <<storeVars, peerHead, pending, service, append>>

-----------------------------------------------------------------------------
\* The sync service.

\* The services of a node: a light node has only the one for headers.
Services == IF setup.light THEN {"header"} ELSE Kinds

\* Start: with peers the service goes on to ask them.
StartService(k) ==
  /\ service[k].phase = "down" /\ setup.p2p
  /\ k \in Services
  /\ AdapterStart(k)
  /\ service' = [service EXCEPT ![k].phase = IF setup.peers THEN "init" ELSE "up"]
  /\ UNCHANGED <<storeVars, peerHead, pending, append, poll>>

\* initStore: an empty store gets its first item.
InitStore(k, h) ==
  IF HeadHeight(k) = 0 /\ ~service[k].storeInitialized
  THEN Keep(k, h)
  ELSE UNCHANGED <<pending, heightSub, get>>

\* initFromP2PWithRetry: a peer has the item at the head or at genesis.
InitFromP2P(k) ==
  LET trusted == HighestOf({HeadHeight(k), 1})
  IN  /\ service[k].phase = "init" /\ trusted <= peerHead
      /\ InitStore(k, trusted)
      /\ service' = [service EXCEPT ![k] =
                       [phase |-> "up", storeInitialized |-> TRUE, started |-> TRUE]]
      /\ UNCHANGED <<storeVars, peerHead, append, poll>>

\* It times out.
InitTimesOut(k) ==
  /\ service[k].phase = "init" /\ setup.mayTimeOut
  /\ service' = [service EXCEPT ![k].phase = "up"]
  /\ UNCHANGED <<storeVars, peerHead, pending, heightSub, append, poll, get>>

\* WriteToStoreAndBroadcast, which only a producer calls, after its commit.
WriteToStoreAndBroadcast(k) ==
  /\ setup.producer /\ height > 0
  /\ service[k].phase = "up" /\ ~service[k].started
  /\ InitStore(k, height)
  /\ service' = [service EXCEPT ![k].storeInitialized = TRUE, ![k].started = TRUE]
  /\ UNCHANGED <<storeVars, peerHead, append, poll>>

-----------------------------------------------------------------------------
\* Append by go-header's syncer.

Fetch(k) ==
  /\ service[k].started /\ append[k].pc = "idle"
  /\ HeadHeight(k) \in 1..(peerHead - 1)
  /\ append' = [append EXCEPT ![k] = [pc |-> "has", h |-> HeadHeight(k) + 1]]
  /\ UNCHANGED <<storeVars, peerHead, pending, heightSub, service, poll, get>>

AppendHas(k) ==
  /\ append[k].pc = "has"
  /\ append' = [append EXCEPT ![k] =
                  IF Stored(k, @.h) THEN NoAppend ELSE [@ EXCEPT !.pc = "space"]]
  /\ UNCHANGED <<storeVars, peerHead, pending, heightSub, service, poll, get>>

\* Slips: nothing is dropped; the item above the height of the store goes, too.
persistedNone(k) == {h \in pending[k] : height = 0}
persistedAbove(k) == {h \in pending[k] : height > 0 /\ h <= height + 1}

\* prunePersisted
persisted(k) == {h \in pending[k] : h <= height}

\* waitForSpace: what is committed goes when the cache is full; a cache that is still
\* full is looked at again later.
WaitForSpace(k) ==
  LET full == Cardinality(pending[k]) >= setup.maxPending
      kept == IF full THEN PruneIf(k, persisted(k)) ELSE pending
  IN  /\ append[k].pc = "space"
      /\ pending' = kept
      /\ IF Cardinality(kept[k]) < setup.maxPending
         THEN append' = [append EXCEPT ![k].pc = "add"]
         ELSE kept # pending /\ UNCHANGED append
      /\ UNCHANGED <<storeVars, peerHead, heightSub, service, poll, get>>

AppendAdd(k) ==
  /\ append[k].pc = "add"
  /\ Keep(k, append[k].h)
  /\ append' = [append EXCEPT ![k] = NoAppend]
  /\ UNCHANGED <<storeVars, peerHead, service, poll>>

-----------------------------------------------------------------------------
\* GetByHeight by the P2P worker: store, pending items, wait, and both once more.

Goes(pc) ==
  /\ get' = [get EXCEPT !.pc = pc]
  /\ UNCHANGED <<storeVars, peerHead, pending, heightSub, service, append, poll>>

\* The call for an item of a kind; present: the item is there when it begins.
Asking(k, h) == [pc |-> "store", kind |-> k, h |-> h, present |-> Served(k, h)]

GetStart ==
  /\ get.pc = "idle" /\ height < setup.maxHeight /\ ~setup.producer /\ ~setup.light
  /\ \A k \in Kinds : service[k].phase = "up"
  /\ get' = Asking("header", height + 1)
  /\ UNCHANGED <<storeVars, peerHead, pending, heightSub, service, append, poll>>

\* The header was found: the data is next, and then the block.
Found ==
  /\ get' = IF get.kind = "header" THEN Asking("data", get.h)
            ELSE [get EXCEPT !.pc = "got"]
  /\ UNCHANGED <<storeVars, peerHead, pending, heightSub, service, append, poll>>

GetStored ==
  /\ get.pc \in {"store", "storeAgain"}
  /\ IF Stored(get.kind, get.h) THEN Found
     ELSE Goes(IF get.pc = "store" THEN "pending" ELSE "pendingAgain")

GetPending ==
  /\ get.pc \in {"pending", "pendingAgain"}
  /\ IF get.h \in pending[get.kind] THEN Found
     ELSE Goes(IF get.pc = "pending" THEN "wait" ELSE "notFound")

\* heightSub.Wait: a height that has passed is not waited for.
Wait ==
  /\ get.pc = "wait"
  /\ Goes(IF heightSub[get.kind] >= get.h THEN "storeAgain" ELSE "waiting")

\* The worker goes on with the next height: after an error, or when the pipeline
\* cancels its wait because the block came from elsewhere.
GetEnds ==
  /\ \/ get.pc = "notFound"
     \/ get.pc \in {"waiting", "got"} /\ get.h <= height
  /\ get' = NoGet
  /\ UNCHANGED <<storeVars, peerHead, pending, heightSub, service, append, poll>>

\* The block that the worker got is committed.
Apply ==
  /\ get.pc = "got" /\ get.h = height + 1
  /\ CommitBatch
  /\ get' = NoGet
  /\ UNCHANGED <<peerHead, pending, heightSub, service, append, poll>>

\* A block is produced here, or comes from the DA layer.
CommitOther ==
  /\ ~setup.light
  /\ setup.producer \/ (setup.fromDA /\ height < peerHead)
  /\ CommitBatch
  /\ peerHead' = HighestOf({peerHead, height + 1})
  /\ UNCHANGED adapters

NewPeerBlock ==
  /\ ~setup.producer /\ peerHead < setup.maxHeight
  /\ peerHead' = peerHead + 1
  /\ UNCHANGED <<storeVars, adapters>>

\* A light node is stopped: the headers were in memory only.
LightStops == setup.light /\ StoreCrash /\ AdaptersFresh /\ UNCHANGED peerHead

Crash == ~setup.light /\ StoreCrash /\ AdaptersFresh /\ UNCHANGED peerHead

\* A rollback is made with the services down.
StoreStep ==
  /\ StoreNext
  /\ Rollback => \A k \in Kinds : service[k].phase = "down"
  /\ UNCHANGED <<peerHead, adapters>>

WorkerSteps == GetStart \/ GetStored \/ GetPending \/ Wait \/ GetEnds \/ Apply
ServiceSteps(k) == StartService(k) \/ InitFromP2P(k) \/ WriteToStoreAndBroadcast(k)
AppendSteps(k) == Fetch(k) \/ AppendHas(k) \/ WaitForSpace(k) \/ AppendAdd(k)

Next ==
  \/ WorkerSteps \/ CommitOther \/ NewPeerBlock \/ LightStops \/ Crash \/ StoreStep
  \/ \E k \in Kinds : \/ ServiceSteps(k) \/ InitTimesOut(k) \/ AppendSteps(k)
                      \/ ReadHeights(k) \/ WriteHeight(k)

Spec == Init /\ [][Next]_vars

\* The worker, the services and go-header's syncers run on.  Nobody has to call
\* Height, to crash, to prune or to make blocks.
FairSpec ==
  /\ Spec
  /\ WF_vars(WorkerSteps)
  /\ \A k \in Kinds : /\ WF_vars(ServiceSteps(k)) /\ WF_vars(AppendSteps(k))
                      /\ WF_vars(WriteHeight(k))

-----------------------------------------------------------------------------
\* GetRange answers with every item between the tail and the head, which peers
\* and go-header's syncer rely on, while blocks are appended, committed, dropped from
\* the cache, pruned and rolled back.
ServedRange ==
  \A k \in Kinds :
    GetRange(k, Tail(k), HeadHeight(k) + 1) = Tail(k)..HeadHeight(k)

\* GetByHeight does not miss an item that was there when it was called, even if
\* the item moves from the pending cache to the store between the two looks, and
\* unless the block is pruned meanwhile.
NeverMissed == get.pc = "notFound" /\ get.h > meta.block => ~get.present

\* Every block of the peers is applied, however far one kind of items is ahead
\* of the other when a pending cache is full: no Append waits for ever for room,
\* and no reader for an item that is there.  A light node gets the headers that its
\* cache has room for.
EventuallyApplied ==
  setup.peers /\ ~setup.mayTimeOut /\ ~setup.polls /\ setup.p2p =>
    []<>(IF setup.light
           THEN HeadHeight("header") >= Min({peerHead, setup.maxPending})
           ELSE height >= peerHead)

\* node/full_node.md 13: a light node "syncs and stores block headers seen on the P2P
\* layer".  So it gets every header that peers have.
LightFollows == setup.light => []<>(HeadHeight("header") >= peerHead)

\* The comment's claim: after a timeout of the initialisation the store and the
\* syncer are initialised later.
PeersJoined ==
  \A k \in Kinds : (service[k].phase = "up" /\ height > 0) ~> service[k].started
=============================================================================
