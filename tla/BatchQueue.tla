----------------------------- MODULE BatchQueue -----------------------------
(***************************************************************************)
(* pkg/sequencers/single/queue.go: the queue of mempool batches, in memory *)
(* and in a log whose keys are sequence numbers, so that sorting the keys  *)
(* after a restart gives the queue back.  Sequence numbers are relative to *)
(* initialSeqNum; the queue is its part from head on.                      *)
(***************************************************************************)
EXTENDS Integers, Sequences, FiniteSets, FiniteSetsExt

CONSTANTS
  Batches,         \* batches that are submitted, each once
  Legacy,          \* batches in the log under a key of the old format
  MaxQueueSize,    \* maxQueueSize, 0 for unlimited
  MaxReturned,     \* bound: batches returned to the front
  MaxCrashes       \* bound: crashes

ASSUME QueueAssumption ==
  /\ Batches \cap Legacy = {}
  /\ MaxQueueSize \in Nat /\ MaxReturned \in Nat /\ MaxCrashes \in Nat

VARIABLES
  wal,              \* log: sequence number -> batch
  old,              \* log: batches under keys of the old format
  up, todo,         \* the process runs; old entries that Load has yet to move
  queue,            \* <<[key, batch], ...>>
  nextAddSeq, nextPrependSeq,
  submitted,        \* batches accepted so far
  taken, inHand,    \* batches handed out for good; the last one, <<>> if used
  handed,           \* batches handed out, returned ones included
  stale,            \* log entries whose deletion failed
  returned, crashes

memory == <<queue, nextAddSeq, nextPrependSeq>>
vars == <<wal, old, up, todo, memory, submitted, taken, inHand,
          handed, stale, returned, crashes>>

Keys == DOMAIN wal
Item(k) == [key |-> k, batch |-> wal[k]]

\* The log in the order of its keys.
Sorted(S) ==
  [i \in 1..Cardinality(S) |->
     Item(CHOOSE k \in S : Cardinality({j \in S : j < k}) = i - 1)]

BatchesOf(items) == [i \in 1..Len(items) |-> items[i].batch]

TypeOK ==
  /\ Keys \subseteq Int /\ Range(wal) \subseteq Batches \cup Legacy
  /\ old \subseteq Legacy /\ todo \subseteq old /\ up \in BOOLEAN
  /\ queue \in Seq([key : Int, batch : Batches \cup Legacy])
  /\ nextAddSeq >= 0 /\ nextPrependSeq < 0
  /\ stale \subseteq Keys /\ submitted \subseteq Batches
  /\ taken \subseteq handed /\ handed \subseteq Batches \cup Legacy /\ Len(inHand) <= 1

Init ==
  /\ wal = [k \in {} |-> 0] /\ old = Legacy
  /\ up = FALSE /\ todo = {}
  /\ queue = <<>> /\ nextAddSeq = 0 /\ nextPrependSeq = -1
  /\ submitted = {} /\ taken = {} /\ inHand = <<>> /\ handed = {} /\ stale = {}
  /\ returned = 0 /\ crashes = 0

persistBatch(k, b) == wal' = [x \in Keys \cup {k} |-> IF x = k THEN b ELSE wal[x]]
Delete(k) == wal' = [x \in Keys \ {k} |-> wal[x]]

Ready == up /\ todo = {}

\* Slip: a full queue is one entry too long.
FullBeyond(size) == MaxQueueSize > 0 /\ size > MaxQueueSize

Full(size) == MaxQueueSize > 0 /\ size >= MaxQueueSize

AddBatch ==
  /\ Ready /\ ~Full(Len(queue))
  /\ \E b \in Batches \ submitted :
       /\ persistBatch(nextAddSeq, b)
       /\ queue' = Append(queue, [key |-> nextAddSeq, batch |-> b])
       /\ submitted' = submitted \cup {b}
  /\ nextAddSeq' = nextAddSeq + 1
  /\ UNCHANGED <<old, up, todo, nextPrependSeq, taken, inHand, handed, stale,
                 returned, crashes>>

\* nextPrependSeq--
PrependKey(k) == k - 1

\* GetNextBatch returns the batch it has just taken; no limit to the size here.
Prepend ==
  /\ Ready /\ inHand # <<>> /\ returned < MaxReturned
  /\ persistBatch(nextPrependSeq, inHand[1])
  /\ queue' = <<[key |-> nextPrependSeq, batch |-> inHand[1]]>> \o queue
  /\ nextPrependSeq' = PrependKey(nextPrependSeq)
  /\ taken' = taken \ Range(inHand) /\ inHand' = <<>>
  /\ returned' = returned + 1
  /\ UNCHANGED <<old, up, todo, nextAddSeq, submitted, handed, stale, crashes>>

\* Next.  An error of the deletion is only printed.
NextBatch ==
  /\ Ready /\ queue # <<>>
  /\ LET k == Head(queue).key
     IN  \/ Delete(k) /\ UNCHANGED stale
         \/ stale' = stale \cup {k} /\ UNCHANGED wal
  /\ queue' = Tail(queue)
  /\ inHand' = <<Head(queue).batch>> /\ taken' = taken \cup Range(inHand')
  /\ handed' = handed \cup Range(inHand')
  /\ UNCHANGED <<old, up, todo, nextAddSeq, nextPrependSeq, submitted,
                 returned, crashes>>

Crash ==
  /\ up /\ crashes < MaxCrashes
  /\ up' = FALSE /\ todo' = {} /\ inHand' = <<>>
  /\ queue' = <<>> /\ nextAddSeq' = 0 /\ nextPrependSeq' = -1
  /\ crashes' = crashes + 1
  /\ UNCHANGED <<wal, old, submitted, taken, handed, stale, returned>>

\* Slip: the numbers start anew after a restart.
FromInitial(keys) == [add |-> 0, prepend |-> -1]

\* The next numbers, beyond all numbers in the log.
Beyond(keys) ==
  [add     |-> Max(keys \cup {-1}) + 1,
   prepend |-> Min(keys \cup {0}) - 1]

\* Load: the entries with sequence numbers, in the order of the numbers.
Load ==
  /\ ~up
  /\ queue' = Sorted(Keys)
  /\ nextAddSeq' = Beyond(Keys).add /\ nextPrependSeq' = Beyond(Keys).prepend
  /\ up' = TRUE /\ todo' = old
  /\ stale' = {}
  /\ UNCHANGED <<wal, old, submitted, taken, inHand, handed, returned, crashes>>

\* Load: an entry of the old format gets a number; its deletion may fail, or the
\* process may die before it.
Migrate ==
  /\ \E b \in todo, gone \in BOOLEAN :
       /\ persistBatch(nextAddSeq, b)
       /\ queue' = Append(queue, [key |-> nextAddSeq, batch |-> b])
       /\ todo' = todo \ {b}
       /\ old' = IF gone THEN old \ {b} ELSE old
  /\ nextAddSeq' = nextAddSeq + 1
  /\ UNCHANGED <<up, nextPrependSeq, submitted, taken, inHand, handed, stale,
                 returned, crashes>>

Next ==
  AddBatch \/ Prepend \/ NextBatch \/ Crash \/ Load \/ Migrate

Spec == Init /\ [][Next]_vars

(***************************************************************************)
(* Properties                                                              *)
(***************************************************************************)

\* The log holds the queue: without the entries whose deletion failed it is, in
\* the order of its keys, what is in memory, so that Load after a crash at any
\* moment gives the same queue.
LogHoldsQueue == up => Sorted(Keys \ stale) = queue

\* A batch that AddBatch accepted or Load moved is handed out, or still in the
\* log, whatever fails.
NothingLost ==
  submitted \cup (Legacy \ old) \subseteq taken \cup Range(wal)

\* The queue of the sequencer; while the process is down, what it was.
Q == INSTANCE DurableQueue WITH
       New <- Batches, Legacy <- Legacy, Bound <- MaxQueueSize,
       q <- BatchesOf(IF up THEN queue ELSE Sorted(Keys \ stale)),
       out <- handed

\* The queue outlives crashes: a restart loses nothing and reorders nothing, and
\* brings back only batches that were handed out before; AddBatch respects the
\* bound.
ImplementsQueue == Q!QueueSpec
=============================================================================
