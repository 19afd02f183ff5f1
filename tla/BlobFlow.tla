------------------------------ MODULE BlobFlow ------------------------------
(***************************************************************************)
(* The blob-first flow of the CosmWasm SDK over the local DA layer: data   *)
(* is compressed, cut into chunks, submitted as one blob or as a batch,    *)
(* and the answer is recorded on chain; a reader starts from the record.   *)
(* The node's block submissions share the DA layer.                        *)
(*                                                                         *)
(* Data is a sequence of symbols; a symbol is a tuple.  Hashes are         *)
(* symbolic: equal only for equal contents.                                *)
(***************************************************************************)
EXTENDS LocalDA

VARIABLES
  pc,         \* where each user is
  prepared,   \* the chunks and the meta that each user has made of its data
  answer,     \* the *BlobSubmitResponse or *BlobBatchResponse that a user holds
  records,    \* what the contract has stored, in order
  uploads,    \* what reached the DA layer of each user: heights
  faults      \* lost answers and failed transactions so far

user == <<pc, prepared, answer, records, uploads, faults>>
vars == <<setup, da, user>>

Users == DOMAIN setup.data
AllUsers == UNION {DOMAIN s.data : s \in Setups}

-----------------------------------------------------------------------------
(***************************************************************************)
(* Compression (internal/compress)                                         *)
(***************************************************************************)
Magic == <<"1f8b">>
Pad == <<"pad">>

\* Gzip: the header and the deflated data, which is as long as the data is varied.
Gzip(data) ==
  <<Magic, <<"z", data>>>> \o [i \in 1..Cardinality(ToSet(data)) |-> Pad]

IsGzipped(data) == Len(data) >= 2 /\ data[1] = Magic

\* Gunzip undoes Gzip and fails on any other stream.
Failed == <<<<"error">>>>
Gunzip(data) ==
  IF Len(data[2]) = 2 /\ data = Gzip(data[2][2]) THEN data[2][2] ELSE Failed

IfBeneficial(data) == IF Len(Gzip(data)) < Len(data) THEN Gzip(data) ELSE data

MaybeDecompress(data) == IF IsGzipped(data) THEN Gunzip(data) ELSE data

-----------------------------------------------------------------------------
(***************************************************************************)
(* Chunks (internal/chunk)                                                 *)
(***************************************************************************)
splitBytes(data, size) ==
  [i \in 1..((Len(data) + size - 1) \div size) |->
     SubSeq(data, (i - 1) * size + 1, IF i * size < Len(data) THEN i * size ELSE Len(data))]

Digest(data) == <<"sha256", data>>

\* Split: data that fits is one chunk, without meta.
NoMeta == <<>>
Split(data, max) ==
  IF Len(data) <= max
  THEN [chunks |-> <<data>>, meta |-> NoMeta]
  ELSE [chunks |-> splitBytes(data, max), meta |-> Digest(data)]

\* Reassemble: the chunks in the order given, checked against the hash if there is one.
Reassemble(chunks, meta) ==
  IF meta # NoMeta /\ meta # Digest(FlattenSeq(chunks)) THEN Failed ELSE FlattenSeq(chunks)

-----------------------------------------------------------------------------
(***************************************************************************)
(* The Merkle tree over the commitments of a batch (internal/merkle)       *)
(***************************************************************************)
Node(left, right) == <<"node", left, right>>

\* The level above: the last node of an odd level is paired with itself.
Above(level) ==
  [i \in 1..((Len(level) + 1) \div 2) |->
     Node(level[2 * i - 1], level[IF 2 * i <= Len(level) THEN 2 * i ELSE 2 * i - 1])]

RECURSIVE ComputeRoot(_)
ComputeRoot(level) == IF Len(level) = 1 THEN level[1] ELSE ComputeRoot(Above(level))

\* Slip: the sibling of the last node of an odd level is left out.
RECURSIVE buildPathShort(_, _)
buildPathShort(level, i) ==
  IF Len(level) = 1 THEN <<>>
  ELSE (IF i % 2 = 1 /\ i = Len(level) THEN <<>>
        ELSE <<IF i % 2 = 0 THEN [left |-> TRUE, hash |-> level[i - 1]]
               ELSE [left |-> FALSE, hash |-> level[i + 1]]>>)
       \o buildPathShort(Above(level), (i + 1) \div 2)

\* The siblings of leaf i, from the leaf up.
RECURSIVE buildPath(_, _)
buildPath(level, i) ==
  IF Len(level) = 1 THEN <<>>
  ELSE <<IF i % 2 = 0 THEN [left |-> TRUE, hash |-> level[i - 1]]
         ELSE [left |-> FALSE, hash |-> level[IF i = Len(level) THEN i ELSE i + 1]]>>
       \o buildPath(Above(level), (i + 1) \div 2)

BuildProof(coms, i) == [root |-> ComputeRoot(coms), path |-> buildPath(coms, i)]

Verify(root, com, path) ==
  root = FoldLeft(LAMBDA h, step : IF step.left THEN Node(step.hash, h) ELSE Node(h, step.hash),
                  com, path)

-----------------------------------------------------------------------------
(***************************************************************************)
(* The SDK's client and a user of it                                       *)
(***************************************************************************)
None == [height |-> 0, coms |-> <<>>, root |-> <<>>]

\* Before the upload: compress, cut.
Prepare(data) == Split(IfBeneficial(data), setup.chunkSize)

Blob(data) == [ns |-> setup.blobNs, data |-> data]
Blobs(u) == LET chunks == prepared[u].chunks IN [i \in DOMAIN chunks |-> Blob(chunks[i])]
Total(u) == Len(FlattenSeq(prepared[u].chunks))

\* SubmitBlob for one chunk, SubmitBatch for more; each refuses what is too large.
Submittable(u) ==
  IF Len(prepared[u].chunks) = 1 THEN Total(u) <= setup.sdkMaxBlob ELSE Total(u) <= setup.sdkMaxBatch

Response(u, h) ==
  LET blobs == Blobs(u)
      coms == [i \in DOMAIN blobs |-> Commitment(blobs[i])]
  IN  [height |-> h, coms |-> coms, root |-> ComputeRoot(coms)]

\* The request reaches the DA layer.
Send(u) ==
  /\ pc[u] = "write" /\ Submittable(u)
  /\ Submit(Blobs(u))
  /\ uploads' = [uploads EXCEPT ![u] = Append(@, height + 1)]
  /\ pc' = [pc EXCEPT ![u] = IF OverLimit(Blobs(u)) = {} THEN "sent" ELSE "refused"]
  /\ UNCHANGED <<setup, prepared, answer, records, faults>>

\* The answer comes back; the user now holds the height and the commitments.
Answered(u) ==
  /\ pc[u] = "sent"
  /\ answer' = [answer EXCEPT ![u] = Response(u, Last(uploads[u]))]
  /\ pc' = [pc EXCEPT ![u] = "record"]
  /\ UNCHANGED <<setup, da, prepared, records, uploads, faults>>

\* The answer is lost; the user uploads again.
AnswerLost(u) ==
  /\ pc[u] = "sent" /\ faults < setup.maxFaults
  /\ faults' = faults + 1
  /\ pc' = [pc EXCEPT ![u] = "write"]
  /\ UNCHANGED <<setup, da, prepared, answer, records, uploads>>

Record(u, a) == [user |-> u, height |-> a.height, root |-> a.root, count |-> Len(a.coms)]


\* recordOnChain: the transaction with what the user holds is committed.
recordOnChain(u) ==
  /\ pc[u] = "record"
  /\ records' = Append(records, Record(u, answer[u]))
  /\ pc' = [pc EXCEPT ![u] = "recorded"]
  /\ UNCHANGED <<setup, da, prepared, answer, uploads, faults>>

\* recordOnChain fails, before the transaction is committed or, when waiting for the
\* result ends, after.  The user keeps the answer and records again without uploading.
recordFailed(u) ==
  /\ pc[u] = "record" /\ faults < setup.maxFaults
  /\ faults' = faults + 1
  /\ records' \in {records, Append(records, Record(u, answer[u]))}
  /\ UNCHANGED <<setup, da, pc, prepared, answer, uploads>>

-----------------------------------------------------------------------------
(***************************************************************************)
(* A reader                                                                *)
(***************************************************************************)
\* RetrieveBlob
RetrieveBlob(h, com) == Get(h, setup.blobNs, com)

\* VerifyBlob: the commitment computed again from what was retrieved.
VerifyBlob(h, com) ==
  LET got == RetrieveBlob(h, com)
  IN  got.code = Success /\ Commitment(Blob(got.blobs[1].data)) = com

\* What a reader gets who has the record and the user's list of commitments and meta:
\* every blob retrieved, verified against the root, put together and decompressed.
Read(r) ==
  LET coms == answer[r.user].coms
      all == \A i \in DOMAIN coms :
               /\ VerifyBlob(r.height, coms[i])
               /\ Verify(r.root, coms[i], BuildProof(coms, i).path)
  IN  IF ~all THEN Failed
      ELSE MaybeDecompress(Reassemble([i \in DOMAIN coms |-> RetrieveBlob(r.height, coms[i]).blobs[1].data],
                                      prepared[r.user].meta))

ReadRecord(u) ==
  /\ pc[u] = "recorded"
  /\ \E i \in DOMAIN records : records[i].user = u /\ Read(records[i]) # Failed
  /\ pc' = [pc EXCEPT ![u] = "done"]
  /\ UNCHANGED <<setup, da, prepared, answer, records, uploads, faults>>

\* The node submits a block in a namespace of its own.
NodeSubmit ==
  /\ ClientSubmit(<<[ns |-> setup.nodeNs, data |-> <<<<"block">>>>]>>)
  /\ UNCHANGED <<setup, user>>

Init ==
  /\ DAInit
  /\ pc = [u \in Users |-> "write"]
  /\ prepared = [u \in Users |-> Prepare(setup.data[u])]
  /\ answer = [u \in Users |-> None]
  /\ records = <<>>
  /\ uploads = [u \in Users |-> <<>>]
  /\ faults = 0

\* The other users of the DA layer leave each user's own upload room to happen.
Spare == setup.maxHeight - height > Cardinality({u \in Users : pc[u] \in {"write", "sent"}}) + setup.maxFaults - faults

Next ==
  \/ Spare /\ produceEmptyBlock /\ UNCHANGED user
  \/ Spare /\ NodeSubmit
  \/ \E ns \in setup.subscribed : Subscribe(ns) /\ UNCHANGED user
  \/ \E ns \in DOMAIN subs : Forward(ns) /\ UNCHANGED user
  \/ \E ns \in DOMAIN subs : Receive(ns) /\ UNCHANGED user
  \/ \E ns \in DOMAIN subs : Unsubscribe(ns) /\ UNCHANGED user
  \/ \E u \in Users : \/ Send(u) \/ Answered(u) \/ AnswerLost(u)
                      \/ recordOnChain(u) \/ recordFailed(u) \/ ReadRecord(u)

\* A user goes on with its flow; the number of faults is bounded.
Fairness ==
  \A u \in AllUsers :
    /\ WF_vars(u \in Users /\ Send(u)) /\ WF_vars(u \in Users /\ Answered(u))
    /\ WF_vars(u \in Users /\ recordOnChain(u)) /\ WF_vars(u \in Users /\ ReadRecord(u))

Spec == Init /\ [][Next]_vars /\ Fairness

-----------------------------------------------------------------------------

\* The terms that some path of the given length leads to a root from.
RECURSIVE Under(_, _)
Under(root, depth) ==
  IF depth = 0 THEN {root}
  ELSE IF root[1] # "node" THEN {}
  ELSE Under(root[2], depth - 1) \cup Under(root[3], depth - 1)

\* For a root on chain the proofs of BuildMerkleProof lead from each commitment of the
\* batch to the root, and no proof as long as those leads there from anything else.
ProofsExact ==
  \A i \in DOMAIN records :
    LET coms == answer[records[i].user].coms
        proof(j) == BuildProof(coms, j)
    IN  /\ \A j \in DOMAIN coms : Verify(records[i].root, coms[j], proof(j).path)
        /\ Under(records[i].root, Len(proof(1).path)) = ToSet(coms)

\* A user whose data is within the limits of the SDK and the DA layer gets it recorded
\* and read back in the end, through lost answers and failed transactions.
WithinLimits(u) ==
  /\ OverLimit(Blobs(u)) = {}
  /\ Total(u) <= (IF Len(Blobs(u)) = 1 THEN setup.sdkMaxBlob ELSE setup.sdkMaxBatch)

EventuallyRead ==
  \A u \in AllUsers : (u \in Users /\ WithinLimits(u)) ~> (u \in Users /\ pc[u] = "done")
=============================================================================
