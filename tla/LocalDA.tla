------------------------------ MODULE LocalDA ------------------------------
(***************************************************************************)
(* The data availability layer of local networks (tools/local-da) with its *)
(* JSON-RPC server, and the node's client of it (block/internal/da).  Each *)
(* submission makes a block, and a ticker makes empty ones; subscribers    *)
(* get an event for every block.  All of it is in memory.  The times of    *)
(* the blocks are left out.                                                *)
(*                                                                         *)
(* A blob is [ns, data]; its commitment is computed from both and stands   *)
(* for them.  The size of data is its length.                              *)
(***************************************************************************)
EXTENDS Integers, Sequences, FiniteSets, SequencesExt

CONSTANT Setups   \* limits, users and faults

VARIABLES
  setup,
  height,       \* LocalDA.height
  blobData,     \* the blobs of each height
  subs          \* subscriptions: ns -> the two channels and what arrived

da == <<height, blobData, subs>>

Success == "success"
NotFound == "not found"
FromFuture == "height from future"
TooBig == "too big"

Commitment(b) == <<"com", b.ns, b.data>>

DAInit ==
  /\ setup \in Setups
  /\ height = 0 /\ blobData = <<>> /\ subs = <<>>

\* notifySubscribers: one event per subscription with the blobs of its namespace;
\* an event that finds the channel full is dropped.
notifySubscribers(h, blobs) ==
  [ns \in DOMAIN subs |->
     IF Len(subs[ns].ch) >= setup.chanSize THEN subs[ns]
     ELSE [subs[ns] EXCEPT !.ch = Append(@, [height |-> h,
             blobs |-> SelectSeq(blobs, LAMBDA b : b.ns = ns)])]]

produceEmptyBlock ==
  /\ height < setup.maxHeight
  /\ height' = height + 1 /\ blobData' = Append(blobData, <<>>)
  /\ subs' = notifySubscribers(height + 1, <<>>)
  /\ UNCHANGED setup

-----------------------------------------------------------------------------
(***************************************************************************)
(* The JSON-RPC server                                                     *)
(***************************************************************************)
OverLimit(blobs) == {i \in DOMAIN blobs : Len(blobs[i].data) > setup.maxBlobSize}

\* Slip: the blobs go to the block that exists.
SubmitToHead(blobs) ==
  /\ height > 0 /\ OverLimit(blobs) = {}
  /\ blobData' = [blobData EXCEPT ![height] = @ \o blobs]
  /\ UNCHANGED <<height, subs>>

\* blobServer.Submit.  At the first blob over the limit it gives up: the height is
\* taken and the blobs before it are stored, without an event.
Submit(blobs) ==
  /\ height < setup.maxHeight
  /\ height' = height + 1
  /\ IF OverLimit(blobs) = {}
     THEN /\ blobData' = Append(blobData, blobs)
          /\ subs' = notifySubscribers(height + 1, blobs)
     ELSE /\ blobData' = Append(blobData, SubSeq(blobs, 1, Min(OverLimit(blobs)) - 1))
          /\ UNCHANGED subs

\* blobServer.Get: the first blob with the namespace and the commitment.
Get(h, ns, com) ==
  IF h > height THEN [code |-> FromFuture, blobs |-> <<>>]
  ELSE LET found == SelectSeq(blobData[h], LAMBDA b : b.ns = ns /\ Commitment(b) = com)
       IN  IF found = <<>> THEN [code |-> NotFound, blobs |-> <<>>]
           ELSE [code |-> Success, blobs |-> <<Head(found)>>]

\* blobServer.GetAll
GetAll(h, ns) ==
  IF h > height THEN [code |-> FromFuture, blobs |-> <<>>]
  ELSE LET found == SelectSeq(blobData[h], LAMBDA b : b.ns = ns)
       IN  [code |-> IF found = <<>> THEN NotFound ELSE Success, blobs |-> found]

\* blobServer.Included: without a proof, by looking.
Included(h, ns, com) == Get(h, ns, com).code = Success

\* blobServer.Subscribe with LocalDA.subscribe; one subscription for each namespace.
Subscribe(ns) ==
  /\ ns \notin DOMAIN subs
  /\ subs' = [n \in DOMAIN subs \cup {ns} |->
                IF n = ns THEN [ch |-> <<>>, out |-> <<>>, got |-> <<>>] ELSE subs[n]]
  /\ UNCHANGED <<setup, height, blobData>>

\* The server's goroutine: from the subscriber's channel to the answer's.
Forward(ns) ==
  /\ subs[ns].ch # <<>> /\ Len(subs[ns].out) < setup.chanSize
  /\ subs' = [subs EXCEPT ![ns].ch = Tail(@), ![ns].out = Append(@, Head(subs[ns].ch))]
  /\ UNCHANGED <<setup, height, blobData>>

-----------------------------------------------------------------------------
(***************************************************************************)
(* The node's client                                                       *)
(***************************************************************************)
\* extractBlobData: empty blobs and blobs over the client's limit are left out.
extractBlobData(blobs) ==
  SelectSeq(blobs, LAMBDA b : Len(b.data) \in 1..setup.clientMax)

\* client.Subscribe: the event reaches the follower.
Receive(ns) ==
  /\ subs[ns].out # <<>>
  /\ subs' = [subs EXCEPT ![ns].out = Tail(@),
                ![ns].got = Append(@, [height |-> Head(subs[ns].out).height,
                                       blobs |-> extractBlobData(Head(subs[ns].out).blobs)])]
  /\ UNCHANGED <<setup, height, blobData>>

\* unsubscribe: the connection ends, and what is in the channels is lost.
Unsubscribe(ns) ==
  /\ subs' = [n \in DOMAIN subs \ {ns} |-> subs[n]]
  /\ UNCHANGED <<setup, height, blobData>>

\* client.Submit: refused before it is sent if a blob is empty or over the client's limit.
ClientSubmit(blobs) ==
  /\ \A i \in DOMAIN blobs : Len(blobs[i].data) \in 1..setup.clientMax
  /\ Submit(blobs)

\* client.Retrieve, one namespace, without the time of the block.
Retrieve(h, ns) == GetAll(h, ns)

-----------------------------------------------------------------------------
(***************************************************************************)
(* Properties                                                              *)
(***************************************************************************)
\* What Retrieve has said of a height, blobs or none, it says for ever: the followers
\* never ask again for a height that they have processed.
AnswersStable ==
  [][\A h \in 1..height, ns \in setup.namespaces :
       GetAll(h, ns).code # FromFuture => Retrieve(h, ns)' = Retrieve(h, ns)]_<<height, blobData>>

\* The events of a subscription come in the order of the heights, and each has all the
\* blobs that Retrieve gives for its height, so that a follower need not fetch them.
EventsTrue ==
  \A ns \in DOMAIN subs :
    LET got == subs[ns].got
    IN  \A i \in DOMAIN got :
          /\ got[i].blobs = extractBlobData(Retrieve(got[i].height, ns).blobs)
          /\ i > 1 => got[i].height > got[i - 1].height
=============================================================================
