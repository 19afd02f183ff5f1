----------------------------- MODULE DAFollower -----------------------------
(***************************************************************************)
(* How the syncer gets blocks from the DA layer (da_follower.go,           *)
(* da_retriever.go): the follow loop takes subscription events and handles *)
(* the ones at localNextDAHeight itself, the catch-up loop fetches the     *)
(* others in order, and both claim a DA height by a compare-and-swap on    *)
(* localNextDAHeight and give it back by a plain store.  The retriever     *)
(* keeps headers and data until they match.                                *)
(***************************************************************************)
EXTENDS SyncPipeline

VARIABLES
  daHead,       \* DA layer: its height
  sub,          \* subscription: next DA height of each namespace
  local,        \* localNextDAHeight
  highest,      \* highestSeenDAHeight
  headReached,  \* headReached
  signal,       \* catchupSignal holds a signal
  catchup,      \* where the catch-up loop is, and on which DA height
  follow,       \* where the follow loop is, and on which event
  headers,      \* pendingHeaders of the retriever
  data          \* pendingData of the retriever

retriever == <<headers, data>>
loops     == <<sub, highest, signal, catchup, follow>>

Kinds == {"header", "data"}
Namespaces == IF setup.split THEN Kinds ELSE {"header"}

\* The pieces at a DA height, as <<kind, block height>>.
BlobsAt(d) ==
  {x \in Kinds \X Blocks :
     d = IF x[1] = "header" THEN setup.headerAt[x[2]] ELSE setup.dataAt[x[2]]}

\* What a subscription event of a namespace carries.
BlobsIn(ns, d) ==
  {x \in BlobsAt(d) : setup.inline /\ (setup.split => x[1] = ns)}

CatchupIdle == [pc |-> "idle", da |-> 0, prio |-> FALSE]
CatchupRun  == [pc |-> "run", da |-> 0, prio |-> FALSE]
FollowIdle  == [pc |-> "idle", da |-> 0, blobs |-> {}]

-----------------------------------------------------------------------------
\* A decoded piece is marked as DA included at once.
MarkIncluded(blobs, d) ==
  cache' = [k \in Kinds |->
              setAllDAIncluded(cache[k], {x[2] : x \in {y \in blobs : y[1] = k}}, d)]

\* What stays with the retriever once the complete blocks are taken out.
Left(hs, ds) ==
  LET complete == {h \in hs : Empty(h) \/ h \in ds}
  IN  [headers |-> hs \ complete, data |-> ds \ complete]

\* The orders a set of blocks may be gone through.
Orders(S) == UNION {Bijection(1..n, S) : n \in 0..Len(setup.headerAt)}

\* Pieces join the ones kept, complete blocks become events in any order (the
\* code ranges over a map), and the events are piped.
ProcessBlobs(blobs, d) ==
  LET hs   == headers \cup {x[2] : x \in {y \in blobs : y[1] = "header"}}
      ds   == data \cup {x[2] : x \in {y \in blobs : y[1] = "data"}}
      left == Left(hs, ds)
  IN  /\ MarkIncluded(blobs, d)
      /\ headers' = left.headers /\ data' = left.data
      /\ \E s \in Orders(hs \ left.headers) :
           PipeAll([i \in DOMAIN s |-> DAEvent(s[i], d)])

\* Whether that gives any event.
Completes(blobs) ==
  \E h \in Blocks : /\ h \in headers \/ <<"header", h>> \in blobs
                    /\ Empty(h) \/ h \in data \/ <<"data", h>> \in blobs

-----------------------------------------------------------------------------
\* Slip: the catch-up loop is not woken.
NoSignal(d) == signal

\* updateHighest wakes the catch-up loop when the height is new.
Signals(d) == signal \/ d > highest

\* The follow loop receives an event and records its height,
FollowEvent(ns) ==
  /\ Up /\ follow = FollowIdle /\ sub[ns] <= daHead
  /\ sub' = [sub EXCEPT ![ns] = @ + 1]
  /\ highest' = Larger(highest, sub[ns])
  /\ signal' = Signals(sub[ns])
  /\ follow' = IF BlobsIn(ns, sub[ns]) = {} THEN FollowIdle
               ELSE [pc |-> "claim", da |-> sub[ns], blobs |-> BlobsIn(ns, sub[ns])]
  /\ UNCHANGED <<catchup, local, headReached, retriever, cache, pipe>>

\* claims that height if it is the next one,
FollowClaim ==
  /\ follow.pc = "claim"
  /\ IF local = follow.da
     THEN local' = local + 1 /\ follow' = [follow EXCEPT !.pc = "inline"]
     ELSE local' = local /\ follow' = FollowIdle
  /\ UNCHANGED <<sub, highest, signal, catchup, headReached, retriever, cache, pipe>>

\* processes its blobs,
FollowInline ==
  /\ follow.pc = "inline"
  /\ ProcessBlobs(follow.blobs, follow.da)
  /\ IF Completes(follow.blobs)
     THEN /\ headReached' = (headReached \/ local > highest)
          /\ follow' = FollowIdle
     ELSE /\ headReached' = headReached
          /\ follow' = [follow EXCEPT !.pc = "rollback"]
  /\ UNCHANGED <<sub, highest, signal, catchup, local>>

\* and gives the height back when no block was complete.
FollowRollback ==
  /\ follow.pc = "rollback"
  /\ local' = follow.da /\ follow' = FollowIdle
  /\ UNCHANGED <<sub, highest, signal, catchup, headReached, retriever, cache, pipe>>

\* The subscription breaks and is renewed: events in between are lost.
Resubscribe ==
  /\ Up /\ follow = FollowIdle /\ daHead < setup.maxDA
  /\ \E ns \in Namespaces : sub[ns] <= daHead
  /\ Fault
  /\ sub' = [ns \in Namespaces |-> daHead + 1]
  /\ UNCHANGED <<highest, signal, catchup, follow, local, headReached, retriever,
                 cache, pipe>>

-----------------------------------------------------------------------------
CatchupWake ==
  /\ Up /\ catchup = CatchupIdle /\ signal
  /\ signal' = FALSE /\ catchup' = CatchupRun
  /\ UNCHANGED <<sub, highest, follow, local, headReached, prio>>

\* Heights from hints come first, the ones that were passed are dropped.
CatchupPriority ==
  LET ahead == {d \in prio : d >= local}
  IN  /\ Up /\ catchup = CatchupRun /\ ahead # {}
      /\ \E d \in ahead :
           /\ \A e \in ahead : d <= e
           /\ catchup' = [pc |-> "fetch", da |-> d, prio |-> TRUE]
           /\ prio' = ahead \ {d}
      /\ UNCHANGED <<sub, highest, signal, follow, local, headReached>>

NoPriority == {d \in prio : d >= local} = {}

CatchupDone ==
  /\ Up /\ catchup = CatchupRun /\ NoPriority
  /\ highest > 0 /\ local > highest
  /\ headReached' = TRUE /\ catchup' = CatchupIdle /\ prio' = {}
  /\ UNCHANGED <<sub, highest, signal, follow, local>>

CatchupClaim ==
  /\ Up /\ catchup = CatchupRun /\ NoPriority
  /\ ~(highest > 0 /\ local > highest)
  /\ catchup' = [pc |-> "fetch", da |-> local, prio |-> FALSE]
  /\ local' = local + 1 /\ prio' = {}
  /\ UNCHANGED <<sub, highest, signal, follow, headReached>>

\* A DA height is fetched; one without blobs is skipped.
CatchupFetch ==
  /\ Up /\ catchup.pc = "fetch" /\ catchup.da <= daHead
  /\ ProcessBlobs(BlobsAt(catchup.da), catchup.da)
  /\ catchup' = CatchupRun
  /\ UNCHANGED <<sub, highest, signal, follow, local, headReached>>

\* Slip: a height that failed is not retried.
KeepLocal == local' = local

\* After an error a claimed height is given back, a priority height dropped.
GiveBack == local' = IF catchup.prio THEN local ELSE catchup.da

\* The DA layer is not there yet,
CatchupFuture ==
  /\ Up /\ catchup.pc = "fetch" /\ catchup.da > daHead
  /\ headReached' = TRUE
  /\ GiveBack /\ catchup' = CatchupRun
  /\ UNCHANGED <<sub, highest, signal, follow>>

\* or does not answer.
CatchupError ==
  /\ Up /\ catchup.pc = "fetch" /\ Fault
  /\ GiveBack /\ catchup' = CatchupRun
  /\ UNCHANGED <<sub, highest, signal, follow, headReached>>
=============================================================================
