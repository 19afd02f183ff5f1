------------------------------ MODULE BlockWire ------------------------------
(***************************************************************************)
(* A block on its way: made and signed by the proposer, encoded for its    *)
(* store, for the DA layer (header envelopes, signed data) and for peers,  *)
(* decoded and checked by a follower, and encoded again for the follower's *)
(* peers.  Blocks of the release before the header was made smaller     *)
(* carry deprecated fields and were published without envelopes.           *)
(*                                                                         *)
(* Bytes are sequences of <<field number, value>>; a value Nil is absent.  *)
(* Header fields that are only carried along (version, chain, application  *)
(* and validator hash) are left out.  A signature is <<key, payload>>.     *)
(***************************************************************************)
EXTENDS Integers, Sequences, FiniteSets, SequencesExt

CONSTANT Setups    \* kinds of blocks, switches and faults

VARIABLES
  setup,
  chain,       \* the proposer's store: encoded headers and data
  envelopes,   \* DASubmitter.envelopeCache: height -> envelope
  submitted,   \* last submitted height of headers and of data
  daBlobs,     \* the blobs of each DA height
  nextDA,      \* the follower's next DA height
  priority,    \* daRetriever.priorityHeights
  strict,      \* daRetriever.strictMode
  pending,     \* daRetriever.pendingHeaders and pendingData: height -> decoded
  events,      \* events of the follower that wait for their turn
  included,    \* <<kind, height, DA height>> the follower has marked as included on DA
  processed,   \* P2PHandler.processedHeight
  critical,    \* the follower has stopped with a critical error
  state,       \* the follower's types.State: height, time, hash of the last header, DA height
  mismatches,  \* lastHeaderHashErrCount
  follower,    \* the follower's store: encoded headers and data
  faults,      \* failed submissions and restarts of the proposer so far
  restarts     \* restarts of the follower so far

proposerVars == <<chain, envelopes, submitted>>
followerVars == <<nextDA, priority, strict, pending, events, included, processed, critical, state, mismatches, follower>>
vars == <<setup, proposerVars, daBlobs, followerVars, faults, restarts>>

Nil == <<>>
Key == <<"proposer">>
Num(n) == IF n = 0 THEN Nil ELSE <<"n", n>>
ToNum(v) == IF v = Nil THEN 0 ELSE v[2]

-----------------------------------------------------------------------------
(***************************************************************************)
(* Encodings (types/serialization.go)                                      *)
(***************************************************************************)
Present(fields) == SelectSeq(fields, LAMBDA f : f[2] # Nil)

\* The value of a field; the last one counts.
Field(bytes, n) ==
  LET at == {i \in DOMAIN bytes : bytes[i][1] = n}
  IN  IF at = {} THEN Nil ELSE bytes[Max(at)][2]

NoLegacy == [commit |-> Nil, consensus |-> Nil, results |-> Nil]
Zero32 == <<"zero">>

EnsureDefaults(l) == IF l.consensus = Nil THEN [l EXCEPT !.consensus = Zero32] ELSE l

\* encodeLegacyUnknownFields: after the fields that the new format knows.
encodeLegacyUnknownFields(l) ==
  Present(<<<<5, l.commit>>, <<7, l.consensus>>, <<9, l.results>>>>)

decodeLegacyHeaderFields(bytes) ==
  [commit |-> Field(bytes, 5), consensus |-> Field(bytes, 7), results |-> Field(bytes, 9)]

\* Header.MarshalBinary
MarshalHeader(h) ==
  Present(<<<<2, Num(h.height)>>, <<3, Num(h.time)>>, <<4, h.last>>, <<6, h.dataHash>>,
            <<10, h.proposer>>>>)
  \o encodeLegacyUnknownFields(h.legacy)

\* Header.MarshalBinaryLegacy: all fields by number, height and time always, on a copy
\* that has the defaults.
marshalLegacyHeader(h) ==
  LET l == EnsureDefaults(h.legacy)
  IN  <<<<2, Num(h.height)>>, <<3, Num(h.time)>>>>
      \o Present(<<<<4, h.last>>, <<5, l.commit>>, <<6, h.dataHash>>, <<7, l.consensus>>,
                   <<9, l.results>>, <<10, h.proposer>>>>)

UnmarshalHeader(bytes) ==
  [height |-> ToNum(Field(bytes, 2)), time |-> ToNum(Field(bytes, 3)), last |-> Field(bytes, 4),
   dataHash |-> Field(bytes, 6), proposer |-> Field(bytes, 10), legacy |-> decodeLegacyHeaderFields(bytes)]

\* SignedHeader.ToProto and FromProto; the address goes with the public key.
MarshalSigned(sh) ==
  Present(<<<<1, MarshalHeader(sh.header)>>, <<2, sh.signature>>, <<3, sh.signer>>>>)
UnmarshalSigned(bytes) ==
  [header |-> UnmarshalHeader(Field(bytes, 1)), signature |-> Field(bytes, 2), signer |-> Field(bytes, 3)]

\* MarshalDAEnvelope: the signed header and a signature of all of it.
MarshalDAEnvelope(sh, envelopeSignature) ==
  MarshalSigned(sh) \o Present(<<<<4, envelopeSignature>>>>)

\* The signed header of an envelope, and the signature around it, Nil if there is none.
UnmarshalDAEnvelope(bytes) == [sh |-> UnmarshalSigned(bytes), envelopeSignature |-> Field(bytes, 4)]

\* P2PSignedHeader and P2PData: with the hint of a DA height.
MarshalP2P(bytes, hint) == bytes \o Present(<<<<5, Num(hint)>>>>)

UnmarshalHint(bytes) == ToNum(Field(bytes, 5))

\* Data.ToProto and FromProto
MarshalMetadata(d) == Present(<<<<2, Num(d.height)>>, <<3, Num(d.time)>>, <<4, d.last>>>>)

MarshalData(d) ==
  Present(<<<<1, MarshalMetadata(d)>>>>) \o [i \in DOMAIN d.txs |-> <<2, d.txs[i]>>]

UnmarshalData(bytes) ==
  LET meta == Field(bytes, 1)
      txs == SelectSeq(bytes, LAMBDA f : f[1] = 2)
  IN  [height |-> ToNum(Field(meta, 2)), time |-> ToNum(Field(meta, 3)), last |-> Field(meta, 4),
       txs |-> [i \in DOMAIN txs |-> txs[i][2]]]

\* SignedData.ToProto and FromProto
MarshalSignedData(sd) ==
  <<<<1, MarshalData(sd.data)>>, <<2, sd.signature>>, <<3, sd.signer>>>>
UnmarshalSignedData(bytes) ==
  [data |-> UnmarshalData(Field(bytes, 1)), signature |-> Field(bytes, 2), signer |-> Field(bytes, 3)]

-----------------------------------------------------------------------------
(***************************************************************************)
(* Hashes and checks                                                       *)
(***************************************************************************)
HashSlim(h) == <<"sha", MarshalHeader(h)>>
HashLegacy(h) == <<"sha", marshalLegacyHeader(h)>>

\* Header.Hash
Hash(h) == IF h.legacy # NoLegacy THEN HashLegacy(h) ELSE HashSlim(h)

DataHash(d) == <<"leaf", MarshalData(d)>>
DACommitment(txs) == <<"leaf", [i \in DOMAIN txs |-> <<2, txs[i]>>]>>
DataHashForEmptyTxs == DACommitment(<<>>)

Sign(payload) == <<Key, payload>>
Signed(payload, signature) == signature = <<Key, payload>>

\* Header.ValidateBasic, without the clock.
ValidateHeader(h) == h.proposer # Nil /\ h.time > 0

\* SignedHeader.ValidateBasic and ValidateBasicWithData: the payload of the new format
\* is tried, then the one of the old format.
ValidateBasic(sh) ==
  /\ ValidateHeader(sh.header)
  /\ sh.signature # Nil
  /\ sh.header.proposer = sh.signer
  /\ \/ Signed(MarshalHeader(sh.header), sh.signature)
     \/ Signed(marshalLegacyHeader(sh.header), sh.signature)

\* Validate: the data against its header.
Validate(sh, d) ==
  /\ d.height = sh.header.height /\ d.time = sh.header.time
  /\ sh.header.dataHash = DACommitment(d.txs)

Linked(h) == h.last = state.hash

\* Slip: every header has to link.
AssertValidSequenceLinked(h) ==
  \/ state.hash = Nil
  \/ h.height = state.height + 1 /\ state.time <= h.time /\ Linked(h)

\* State.AssertValidSequence: one header of a process may have another predecessor.
AssertValidSequence(h) ==
  \/ state.hash = Nil
  \/ /\ h.height = state.height + 1
     /\ state.time <= h.time
     /\ Linked(h) \/ mismatches = 0

-----------------------------------------------------------------------------
(***************************************************************************)
(* The proposer                                                            *)
(***************************************************************************)
StoredHeader(store, h) == UnmarshalSigned(store[h].header)
StoredData(store, h) == UnmarshalData(store[h].data)

Old(h) == setup.old[h]

\* CreateBlock and signHeader.  A block of the old release has the deprecated fields,
\* and its signature is one of the old format.
CreateBlock(h) ==
  LET last == IF h = 1 THEN Nil ELSE Hash(StoredHeader(chain, h - 1).header)
      lastData == IF h = 1 THEN Nil ELSE DataHash(StoredData(chain, h - 1))
      header == [height |-> h, time |-> h, last |-> last, dataHash |-> DACommitment(setup.txs[h]),
                 proposer |-> Key, legacy |-> IF Old(h) THEN setup.legacy ELSE NoLegacy]
      payload == IF Old(h) THEN marshalLegacyHeader(header) ELSE MarshalHeader(header)
  IN  [header |-> MarshalSigned([header |-> header, signature |-> Sign(payload), signer |-> Key]),
       data |-> MarshalData([height |-> h, time |-> h, last |-> lastData, txs |-> setup.txs[h]])]

Produce ==
  /\ Len(chain) < Len(setup.txs)
  /\ chain' = Append(chain, CreateBlock(Len(chain) + 1))
  /\ UNCHANGED <<setup, envelopes, submitted, daBlobs, followerVars, faults, restarts>>

\* signAndCacheEnvelope
SignEnvelope(h) ==
  MarshalDAEnvelope(StoredHeader(chain, h), Sign(MarshalSigned(StoredHeader(chain, h))))

\* getCachedEnvelope: what was submitted is not taken from the cache.
getCachedEnvelope(h) ==
  IF h > submitted.header /\ h \in DOMAIN envelopes THEN envelopes[h] ELSE SignEnvelope(h)

\* createDAEnvelopes, and the blobs of the old release.
HeaderBlob(h) ==
  [kind |-> "header", bytes |-> IF Old(h) THEN chain[h].header ELSE getCachedEnvelope(h)]

\* SubmitHeaders: pending headers are signed, their envelopes cached, and the first n
\* of them get to the DA layer; none if the submission fails.
SubmitHeaders(n) ==
  LET from == submitted.header + 1
      to == Len(chain)
      sent == [i \in 1..(to - submitted.header) |-> HeaderBlob(submitted.header + i)]
  IN  /\ from <= to /\ n \in 0..Len(sent)
      /\ \A h \in from..to : Old(h) = Old(from)
      /\ IF n = 0 THEN faults < setup.maxFaults /\ faults' = faults + 1 ELSE UNCHANGED faults
      /\ envelopes' = [h \in DOMAIN envelopes \cup {h \in from..to : ~Old(h)} |->
                         IF h \in from..to THEN sent[h - from + 1].bytes ELSE envelopes[h]]
      /\ daBlobs' = IF n = 0 THEN daBlobs ELSE Append(daBlobs, SubSeq(sent, 1, n))
      /\ submitted' = [submitted EXCEPT !.header = @ + n]
      /\ UNCHANGED <<setup, chain, followerVars, restarts>>

\* SubmitData with signData: empty data is not submitted.
SubmitData ==
  LET h == submitted.data + 1
  IN  /\ h <= Len(chain)
      /\ submitted' = [submitted EXCEPT !.data = h]
      /\ daBlobs' =
           IF setup.txs[h] = <<>> THEN daBlobs
           ELSE Append(daBlobs,
                  <<[kind |-> "data",
                     bytes |-> MarshalSignedData([data |-> StoredData(chain, h),
                                 signature |-> Sign(chain[h].data), signer |-> Key])]>>)
      /\ UNCHANGED <<setup, chain, envelopes, followerVars, faults, restarts>>

-----------------------------------------------------------------------------
(***************************************************************************)
(* The follower: blobs                                                     *)
(***************************************************************************)
\* The envelope's signature is one of the signed header that was decoded.
ValidEnvelope(bytes) ==
  LET e == UnmarshalDAEnvelope(bytes)
  IN  e.envelopeSignature # Nil /\ Signed(MarshalSigned(e.sh), e.envelopeSignature)

\* tryDecodeHeader: after the first valid envelope only envelopes count.
DecodesHeader(bytes, isStrict) ==
  LET e == UnmarshalDAEnvelope(bytes)
  IN  /\ (isStrict \/ e.envelopeSignature # Nil) => ValidEnvelope(bytes)
      /\ ValidateHeader(e.sh.header) /\ e.sh.header.proposer = Key

\* assertValidSignedData
DecodesData(bytes) ==
  LET sd == UnmarshalSignedData(bytes)
  IN  sd.signer = Key /\ Signed(MarshalData(sd.data), sd.signature)

\* Reading the blobs one after the other.  (A data blob read as a header has no proposer.)
Decoded(blobs) ==
  FoldLeft(LAMBDA acc, b :
             IF b.kind = "header" /\ DecodesHeader(b.bytes, acc.strict)
             THEN [acc EXCEPT !.strict = @ \/ ValidEnvelope(b.bytes),
                              !.headers = @ \cup {UnmarshalSigned(b.bytes)}]
             ELSE IF b.kind = "data" /\ DecodesData(b.bytes)
             THEN [acc EXCEPT !.datas = @ \cup {UnmarshalSignedData(b.bytes).data}]
             ELSE acc,
           [strict |-> strict, headers |-> {}, datas |-> {}], blobs)

createEmptyDataForHeader(h) == [height |-> h.height, time |-> h.time, last |-> Nil, txs |-> <<>>]

\* processBlobs: a header waits for its data, and data for its header.
ProcessBlobs(d) ==
  LET dec == Decoded(daBlobs[d])
      headers == pending.headers \cup
                 {sh \in dec.headers : \A p \in pending.headers : p.header.height # sh.header.height}
      datas == pending.datas \cup
               {x \in dec.datas : \A p \in pending.datas : p.height # x.height}
      dataOf(sh) == {x \in datas : x.height = sh.header.height}
      ready == {sh \in headers : dataOf(sh) # {} \/ sh.header.dataHash = DataHashForEmptyTxs}
      event(sh) == [sh |-> sh, src |-> "DA", da |-> d,
                    hints |-> {},
                    data |-> IF dataOf(sh) = {} THEN createEmptyDataForHeader(sh.header)
                             ELSE CHOOSE x \in dataOf(sh) : TRUE]
  IN  /\ strict' = dec.strict
      /\ pending' = [headers |-> headers \ ready,
                     datas |-> {x \in datas : \A sh \in ready : sh.header.height # x.height}]
      /\ events' = events \cup {event(sh) : sh \in ready}
      /\ included' = included \cup {<<"header", sh.header.height, d>> : sh \in dec.headers}
                              \cup {<<"data", x.height, d>> : x \in dec.datas}

\* RetrieveFromDA at the next height, or at a height that a hint has named.
RetrieveNext ==
  /\ ~critical /\ priority = {} /\ nextDA <= Len(daBlobs)
  /\ ProcessBlobs(nextDA)
  /\ nextDA' = nextDA + 1
  /\ UNCHANGED <<setup, proposerVars, daBlobs, priority, processed, critical, state, mismatches,
                 follower, faults, restarts>>

RetrievePriority ==
  /\ ~critical /\ priority # {}
  /\ LET d == Min(priority)
     IN  /\ priority' = priority \ {d}
         /\ IF d < nextDA \/ d > Len(daBlobs) THEN UNCHANGED <<strict, pending, events, included>>
            ELSE ProcessBlobs(d)
  /\ UNCHANGED <<setup, proposerVars, daBlobs, nextDA, processed, critical, state, mismatches,
                 follower, faults, restarts>>

-----------------------------------------------------------------------------
(***************************************************************************)
(* The follower: blocks                                                    *)
(***************************************************************************)
\* The DA height at which the proposer's blob of this kind and height is, 0 if none.
Hint(kind, h) ==
  LET heightOf(b) == IF b.kind = "header" THEN UnmarshalSigned(b.bytes).header.height
                     ELSE UnmarshalSignedData(b.bytes).data.height
      at == {d \in DOMAIN daBlobs : \E i \in DOMAIN daBlobs[d] :
               daBlobs[d][i].kind = kind /\ heightOf(daBlobs[d][i]) = h}
  IN  IF at = {} THEN 0 ELSE Min(at)

\* ProcessHeight of the P2P handler: the next block from the proposer's store, once, with
\* the hints that the submitter has added to its header and to its data.
FromPeer ==
  LET h == state.height + 1
      p2pHeader == MarshalP2P(chain[h].header, Hint("header", h))
      p2pData == MarshalP2P(chain[h].data, Hint("data", h))
      sh == UnmarshalSigned(p2pHeader)
      d == UnmarshalData(p2pData)
  IN  /\ ~critical /\ setup.p2p /\ h <= Len(chain) /\ h > processed
      /\ sh.header.proposer = Key /\ sh.header.dataHash = DACommitment(d.txs)
      /\ events' = events \cup {[sh |-> sh, data |-> d, src |-> "P2P", da |-> 0,
                                 hints |-> {<<"header", UnmarshalHint(p2pHeader)>>,
                                            <<"data", UnmarshalHint(p2pData)>>}]}
      /\ processed' = h
      /\ UNCHANGED <<setup, proposerVars, daBlobs, nextDA, priority, strict, pending, included, critical,
                     state, mismatches, follower, faults, restarts>>

\* The DA heights that an event from a peer has queued: of the parts that are not known
\* to be included, and not below the position of the follower.
Queued(e) ==
  {hint[2] : hint \in {x \in e.hints : /\ x[2] # 0 /\ x[2] >= nextDA
                                        /\ \A i \in included : <<i[1], i[2]>> # <<x[1], e.sh.header.height>>}}

\* Slip: empty data from the DA layer is stored as it was made.
FilledNot(e) == e.data

\* Empty data made for a header gets the hash of the data before it.
Filled(e) ==
  IF e.src = "DA" /\ e.sh.header.dataHash = DataHashForEmptyTxs /\ state.height > 0
  THEN [e.data EXCEPT !.last = DataHash(StoredData(follower, state.height))]
  ELSE e.data

\* The count of unlinked headers, where the check gets that far.
Counted(h) ==
  IF state.hash # Nil /\ h.height = state.height + 1 /\ state.time <= h.time /\ ~Linked(h)
  THEN 1 ELSE mismatches

\* processHeightEvent and TrySyncNextBlock for the next height, with NextState.  A block
\* that does not check is dropped and loses its marks; one that does not fit the state
\* stops the node.
Apply(e) ==
  LET h == e.sh.header
      d == Filled(e)
      basic == ValidateBasic(e.sh)
      fits == AssertValidSequence(h) /\ Validate(e.sh, d)
  IN  /\ ~critical /\ e \in events /\ h.height = state.height + 1
      /\ events' = events \ {e}
      /\ priority' = priority \cup Queued(e)
      /\ mismatches' = IF basic THEN Counted(h) ELSE mismatches
      /\ critical' = (basic /\ ~fits)
      /\ IF basic /\ fits
         THEN /\ follower' = Append(follower, [header |-> MarshalSigned(e.sh), data |-> MarshalData(d)])
              /\ state' = [height |-> h.height, time |-> h.time, hash |-> Hash(h),
                           da |-> IF e.da > state.da THEN e.da ELSE state.da]
              /\ processed' = IF h.height > processed THEN h.height ELSE processed
              /\ UNCHANGED included
         ELSE /\ included' = {i \in included : i[2] # h.height}
              /\ UNCHANGED <<follower, state, processed>>
      /\ UNCHANGED <<setup, proposerVars, daBlobs, nextDA, strict, pending, faults, restarts>>

\* Late and repeated events.
Skip(e) ==
  /\ ~critical /\ e \in events /\ e.sh.header.height <= state.height
  /\ events' = events \ {e}
  /\ UNCHANGED <<setup, proposerVars, daBlobs, nextDA, priority, strict, pending, included, processed,
                 critical, state, mismatches, follower, faults, restarts>>

\* The follower stops and starts again, with the marks it saved, or after a crash
\* without them.  It goes on at the highest DA height of its state and of its marks.
Restart(saved) ==
  /\ restarts < setup.maxRestarts /\ restarts' = restarts + 1
  /\ included' = IF saved THEN included ELSE {}
  /\ nextDA' = Max({1, state.da} \cup {i[3] : i \in included'})
  /\ priority' = {} /\ strict' = FALSE /\ pending' = [headers |-> {}, datas |-> {}]
  /\ events' = {} /\ mismatches' = 0 /\ processed' = state.height /\ critical' = FALSE
  /\ UNCHANGED <<setup, proposerVars, daBlobs, state, follower, faults>>

\* The proposer restarts: its envelopes are gone.
RestartProposer ==
  /\ faults < setup.maxFaults /\ faults' = faults + 1
  /\ envelopes' = [h \in {} |-> Nil]
  /\ UNCHANGED <<setup, chain, submitted, daBlobs, followerVars, restarts>>

-----------------------------------------------------------------------------
\* A block that the follower made itself, without a signature, when it ran as a based
\* sequencer.  Its header is not the proposer's: the validator hash has no key in it,
\* for which the proposer's address is left out here.
BasedBlock(h) ==
  [header |-> MarshalSigned([header |-> [height |-> h, time |-> h, last |-> Nil, proposer |-> Nil,
                               dataHash |-> DACommitment(setup.txs[h]), legacy |-> NoLegacy],
                             signature |-> Nil, signer |-> Nil]),
   data |-> MarshalData([height |-> h, time |-> h, last |-> Nil, txs |-> setup.txs[h]])]

Init ==
  /\ setup \in Setups
  /\ chain = <<>> /\ envelopes = [h \in {} |-> Nil] /\ submitted = [header |-> 0, data |-> 0]
  /\ daBlobs = <<>> /\ nextDA = 1 /\ priority = {} /\ strict = FALSE
  /\ pending = [headers |-> {}, datas |-> {}] /\ events = {} /\ included = {}
  /\ processed = setup.based /\ critical = FALSE
  /\ follower = [h \in 1..setup.based |-> BasedBlock(h)]
  /\ state = [height |-> setup.based, time |-> setup.based, da |-> 0,
              hash |-> IF setup.based = 0 THEN Nil ELSE Hash(StoredHeader(follower, setup.based).header)]
  /\ mismatches = 0 /\ faults = 0 /\ restarts = 0

Next ==
  \/ Produce \/ SubmitData \/ RestartProposer
  \/ \E n \in 0..Len(chain) : SubmitHeaders(n)
  \/ RetrieveNext \/ RetrievePriority \/ FromPeer
  \/ \E saved \in BOOLEAN : Restart(saved)
  \/ \E e \in events : Apply(e) \/ Skip(e)

Spec == Init /\ [][Next]_vars

-----------------------------------------------------------------------------
(***************************************************************************)
(* Properties                                                              *)
(***************************************************************************)
\* Every block that the follower has stored is byte for byte the proposer's, headers of
\* both formats, data of full and of empty blocks, from the DA layer and from peers.  So
\* what it serves passes the checks of its own peers after one more decoding: the
\* signature (ValidateBasic), the link to the header before (SignedHeader.Verify) and
\* the link to the data before (Data.Verify).
SameBlocks ==
  \A h \in (setup.based + 1)..Len(follower) :
    LET sh == UnmarshalSigned(MarshalP2P(MarshalSigned(StoredHeader(follower, h)), 0))
    IN  /\ follower[h] = chain[h]
        /\ ValidateBasic(sh)
        /\ h > setup.based + 1 =>
             /\ sh.header.last = Hash(StoredHeader(follower, h - 1).header)
             /\ StoredData(follower, h).last = DataHash(StoredData(follower, h - 1))

\* Every header and all data that the DA layer holds below the position of a follower that
\* keeps running is marked as included: tryDecodeHeader and tryDecodeData refuse no blob
\* of the proposer, of either release, and no valid block loses its marks.
AllMarked ==
  restarts = 0 =>
    \A h \in DOMAIN chain : \A kind \in {"header", "data"} :
      Hint(kind, h) \in 1..(nextDA - 1) => \E i \in included : i[1] = kind /\ i[2] = h

\* A follower that has read the DA layer to its end and has no event left has stored
\* every block whose header and data are there, whatever it got twice, in another order
\* or from a peer, and also after a switch from a based sequencer, whose blocks do not
\* link.  (What a restart can miss is in module Syncer.)
NothingMissing ==
  (restarts = 0 /\ nextDA > Len(daBlobs) /\ priority = {} /\ events = {}) =>
    \A h \in DOMAIN chain : (h <= submitted.header /\ h <= submitted.data) => h <= Len(follower)
=============================================================================
