---------------------------- MODULE DASubmission ----------------------------
(***************************************************************************)
(* From a committed block to a final one on an aggregator: the submission  *)
(* loop and its two goroutines (block/internal/submitting), the record of  *)
(* what was submitted (block/internal/cache/pending_base.go) and the DA    *)
(* inclusion loop that finalises blocks.  The goroutines share the         *)
(* caches; lastHeight is advanced by load, compare-and-swap and a separate *)
(* write to the store, and these are separate steps here.                  *)
(***************************************************************************)
EXTENDS Naturals, Sequences, FiniteSets, DACache

CONSTANTS
  Setups,       \* the conditions under which the node is looked at
  MaxAttempts   \* config.DA.MaxSubmitAttempts

\* What differs between setups: two blocks may hold the same transactions, the
\* process may die without Stop, the DA client may take a prefix of what it was
\* given; DefaultPendingCacheSize; and the bounds on the blocks committed, on
\* the DA blocks, and on crashes, stops and failed calls.
SetupType ==
  [mayRepeat : BOOLEAN, mayCrash : BOOLEAN, partialSubmits : BOOLEAN,
   pendingLimit : Nat \ {0}, maxHeight : Nat, maxDA : Nat, maxFaults : Nat]

ASSUME SubmissionAssumption ==
  /\ \A s \in Setups : s \in SetupType
  /\ MaxAttempts \in Nat \ {0}

VARIABLES
  setup,         \* the setup of this behaviour
  chain,         \* store: content of the block at each height
  diskLast,      \* store: last submitted height of each kind
  diskIncluded,  \* store: DAIncludedHeightKey
  daHeights,     \* store: DA height of header and data, by block height
  genesisDA,     \* store: GenesisDAHeightKey
  snap,          \* store: snapshot of each cache
  posted,        \* DA layer: <<kind, height, DA height>>
  daTip,         \* DA layer: its height
  final,         \* execution layer: height of the last SetFinal
  up,            \* the node is running
  last,          \* pendingBase.lastHeight of each kind
  cache,         \* header and data cache
  sub,           \* the submission goroutine of each kind
  tick,          \* advancePastEmptyData in the submission loop
  included,      \* Submitter.daIncludedHeight
  incl,          \* where the inclusion loop is
  faults         \* faults so far

layer  == <<posted, daTip>>
meta   == <<daHeights, genesisDA>>
vars   == <<setup, chain, diskLast, diskIncluded, meta, snap, layer, final, up, last,
            cache, sub, tick, included, incl, faults>>

\* DataHashForEmptyTxs; other transaction lists are numbered.
Empty == 0

Kinds == {"header", "data"}

\* A goroutine's window of heights: items is what it submits, up to top, of
\* which todo is not marked in the cache yet; rest comes after a partial
\* success.  A slice of heights in ascending order is the set of them here.
Idle == [pc |-> "idle", items |-> {}, top |-> 0, todo |-> {}, rest |-> {},
         attempt |-> 0, da |-> 0, lsh |-> 0]

NoTick == [pc |-> "idle", h |-> 0, lsh |-> 0]

UpTo(heights, top) == {h \in heights : h <= top}

Height == Len(chain)

\* The key a block has in the cache of a kind.
Key(kind, h) == HashKey(IF kind = "header" THEN h ELSE chain[h])

\* Whether the block has a blob of that kind at all.
Needs(kind, h) == kind = "header" \/ chain[h] # Empty

OnDA(kind, h) == \E da \in 1..daTip : <<kind, h, da>> \in posted

Goroutines ==
  [pc : {"idle", "submit", "mark", "cas", "save"}, items : SUBSET Nat,
   top : Nat, todo : SUBSET Nat, rest : SUBSET Nat,
   attempt : 0..(MaxAttempts - 1), da : Nat, lsh : Nat]

TypeOK ==
  /\ setup \in Setups
  /\ chain \in Seq(Nat)
  /\ diskLast \in [Kinds -> 0..Height] /\ last \in [Kinds -> 0..Height]
  /\ diskIncluded \in 0..Height /\ included \in 0..Height /\ final \in 0..Height
  /\ daTip \in Nat /\ genesisDA \in 0..daTip
  /\ posted \subseteq (Kinds \X (1..Height) \X (1..daTip))
  /\ sub \in [Kinds -> Goroutines]
  /\ \A k \in Kinds :
       sub[k].items \cup sub[k].todo \cup sub[k].rest \subseteq 1..Height
  /\ tick \in [pc : {"idle", "cas", "save"}, h : 0..Height, lsh : Nat]
  /\ incl \in {"idle", "mapped", "final", "saved"}
  /\ up \in BOOLEAN /\ faults \in Nat

Init ==
  /\ setup \in Setups
  /\ chain = <<>>
  /\ diskLast = [k \in Kinds |-> 0] /\ diskIncluded = 0
  /\ daHeights = [k \in Kinds |-> <<>>] /\ genesisDA = 0
  /\ snap = [k \in Kinds |-> <<>>]
  /\ posted = {} /\ daTip = 0 /\ final = 0
  /\ up = TRUE
  /\ last = [k \in Kinds |-> 0]
  /\ cache = [k \in Kinds |-> NewCache]
  /\ sub = [k \in Kinds |-> Idle] /\ tick = NoTick
  /\ included = 0 /\ incl = "idle"
  /\ faults = 0

\* The executor commits a block.
Produce ==
  /\ up /\ Height < setup.maxHeight
  /\ \E c \in {Empty, Height + 1}
            \cup {chain[h] : h \in IF setup.mayRepeat THEN 1..Height ELSE {}} :
       chain' = Append(chain, c)
  /\ UNCHANGED <<setup, diskLast, diskIncluded, meta, snap, layer, final, up, last,
                 cache, sub, tick, included, incl, faults>>

(***************************************************************************)
(* setLastSubmittedHeight, run by the submission loop (past empty data)    *)
(* and by the data goroutine at the same time                              *)
(***************************************************************************)

\* The next height of its loop: it stops at the first non-empty one.
TickNext(h) ==
  IF h <= Height /\ chain[h] = Empty
  THEN [pc |-> "cas", h |-> h, lsh |-> last["data"]] ELSE NoTick

\* advancePastEmptyData: from the height after the last submitted one.
TickStart ==
  /\ up /\ tick.pc = "idle"
  /\ tick' = TickNext(last["data"] + 1)
  /\ tick' # NoTick
  /\ UNCHANGED <<setup, chain, diskLast, diskIncluded, meta, snap, layer, final, up,
                 last, cache, sub, included, incl, faults>>

\* The height is new and nobody has moved lastHeight since it was loaded.
Swaps(kind, lsh, h) == h > lsh /\ last[kind] = lsh

TickCas ==
  /\ up /\ tick.pc = "cas"
  /\ IF Swaps("data", tick.lsh, tick.h)
     THEN /\ last' = [last EXCEPT !["data"] = tick.h]
          /\ tick' = [tick EXCEPT !.pc = "save"]
     ELSE /\ tick' = TickNext(tick.h + 1)
          /\ UNCHANGED last
  /\ UNCHANGED <<setup, chain, diskLast, diskIncluded, meta, snap, layer, final, up,
                 cache, sub, included, incl, faults>>

TickSave ==
  /\ up /\ tick.pc = "save"
  /\ diskLast' = [diskLast EXCEPT !["data"] = tick.h]
  /\ tick' = TickNext(tick.h + 1)
  /\ UNCHANGED <<setup, chain, diskIncluded, meta, snap, layer, final, up, last, cache,
                 sub, included, incl, faults>>

(***************************************************************************)
(* A submission goroutine                                                  *)
(***************************************************************************)

\* getPending: the heights after the last submitted one, at most pendingLimit of them.
getPending(kind) ==
  {h \in (last[kind] + 1)..Height : h <= last[kind] + setup.pendingLimit}

\* GetPendingData leaves empty data out.
Pending(kind) == {h \in getPending(kind) : Needs(kind, h)}

\* The loop finds something pending, gets the kind's mutex, the batching
\* strategy agrees, and limitBatchBySize leaves a non-empty prefix.
StartSubmission(kind) ==
  /\ up /\ sub[kind].pc = "idle" /\ tick.pc = "idle"
  /\ \E top \in Pending(kind) :
       sub' = [sub EXCEPT ![kind] =
                 [Idle EXCEPT !.pc = "submit", !.items = UpTo(Pending(kind), top)]]
  /\ UNCHANGED <<setup, chain, diskLast, diskIncluded, meta, snap, layer, final, up,
                 last, cache, tick, included, incl, faults>>

\* The items land in one new DA block.
Post(kind, items) ==
  /\ daTip < setup.maxDA
  /\ daTip' = daTip + 1
  /\ posted' = posted \cup ({kind} \X items \X {daTip + 1})

\* Next attempt, or the end of the goroutine after the last one.
Retry(s, items) ==
  IF s.attempt + 1 < MaxAttempts
  THEN [Idle EXCEPT !.pc = "submit", !.attempt = s.attempt + 1, !.items = items]
  ELSE Idle

\* Slip: a partial success counts for the whole batch.
SubmittedAll(s, top) ==
  [s EXCEPT !.pc = "mark", !.da = daTip + 1, !.todo = s.items, !.rest = {},
            !.top = CHOOSE t \in s.items : top <= t /\ \A h \in s.items : h <= t]

\* StatusSuccess: the items up to top are on the DA layer.
Submitted(s, top) ==
  [s EXCEPT !.pc = "mark", !.da = daTip + 1, !.top = top,
            !.items = UpTo(s.items, top), !.todo = UpTo(s.items, top),
            !.rest = s.items \ UpTo(s.items, top)]

SubmitAccepted(kind) ==
  /\ up /\ sub[kind].pc = "submit"
  /\ \E top \in sub[kind].items :
       /\ setup.partialSubmits \/ UpTo(sub[kind].items, top) = sub[kind].items
       /\ Post(kind, UpTo(sub[kind].items, top))
       /\ sub' = [sub EXCEPT ![kind] = Submitted(@, top)]
  /\ UNCHANGED <<setup, chain, diskLast, diskIncluded, meta, snap, final, up, last,
                 cache, tick, included, incl, faults>>

\* Any other answer is retried; the blobs may have landed all the same.
SubmitFails(kind) ==
  /\ up /\ sub[kind].pc = "submit" /\ faults < setup.maxFaults
  /\ Post(kind, sub[kind].items) \/ UNCHANGED layer
  /\ sub' = [sub EXCEPT ![kind] = Retry(@, @.items)]
  /\ faults' = faults + 1
  /\ UNCHANGED <<setup, chain, diskLast, diskIncluded, meta, snap, final, up, last,
                 cache, tick, included, incl>>

\* Slip: the other half is kept.
SecondHalf(items, top) == {h \in items : h > top}

\* What is tried again when top ends the first half.
FirstHalf(items, top) == UpTo(items, top)

\* StatusTooBig: the first half is tried again.
SubmitTooBig(kind) ==
  /\ up /\ sub[kind].pc = "submit" /\ faults < setup.maxFaults
  /\ \E top \in sub[kind].items :
       /\ Cardinality(UpTo(sub[kind].items, top)) = Cardinality(sub[kind].items) \div 2
       /\ sub' = [sub EXCEPT ![kind] = Retry(@, FirstHalf(@.items, top))]
  /\ faults' = faults + 1
  /\ UNCHANGED <<setup, chain, diskLast, diskIncluded, meta, snap, layer, final, up,
                 last, cache, tick, included, incl>>

\* postSubmit notes the inclusion of each item in the cache.
Mark(kind) ==
  /\ up /\ sub[kind].pc = "mark"
  /\ \E h \in sub[kind].todo :
       /\ \A g \in sub[kind].todo : h <= g
       /\ cache' = [cache EXCEPT ![kind] =
                      setDAIncluded(@, Key(kind, h), sub[kind].da, h)]
       /\ sub' = [sub EXCEPT ![kind].todo = @ \ {h}]
  /\ UNCHANGED <<setup, chain, diskLast, diskIncluded, meta, snap, layer, final, up,
                 last, tick, included, incl, faults>>

\* Then setLastSubmittedHeight of the last item: load, compare-and-swap, save.
SubLoad(kind) ==
  /\ up /\ sub[kind].pc = "mark" /\ sub[kind].todo = {}
  /\ sub' = [sub EXCEPT ![kind] = [@ EXCEPT !.pc = "cas", !.lsh = last[kind]]]
  /\ UNCHANGED <<setup, chain, diskLast, diskIncluded, meta, snap, layer, final, up,
                 last, cache, tick, included, incl, faults>>

\* After postSubmit: done, or the window moves on to the rest.
NextWindow(s) == IF s.rest = {} THEN Idle ELSE Retry(s, s.rest)

SubCas(kind) ==
  /\ up /\ sub[kind].pc = "cas"
  /\ IF Swaps(kind, sub[kind].lsh, sub[kind].top)
     THEN /\ last' = [last EXCEPT ![kind] = sub[kind].top]
          /\ sub' = [sub EXCEPT ![kind] = [@ EXCEPT !.pc = "save"]]
     ELSE /\ sub' = [sub EXCEPT ![kind] = NextWindow(@)]
          /\ UNCHANGED last
  /\ UNCHANGED <<setup, chain, diskLast, diskIncluded, meta, snap, layer, final, up,
                 cache, tick, included, incl, faults>>

SubSave(kind) ==
  /\ up /\ sub[kind].pc = "save"
  /\ diskLast' = [diskLast EXCEPT ![kind] = sub[kind].top]
  /\ sub' = [sub EXCEPT ![kind] = NextWindow(@)]
  /\ UNCHANGED <<setup, chain, diskIncluded, meta, snap, layer, final, up, last, cache,
                 tick, included, incl, faults>>

(***************************************************************************)
(* The DA inclusion loop                                                   *)
(***************************************************************************)

\* Slip: the data of the block is not asked for.
HeaderIncluded(h) == getDAIncludedByHeight(cache["header"], h) # 0

IsHeightDAIncluded(h) ==
  \A k \in Kinds : Needs(k, h) => getDAIncludedByHeight(cache[k], h) # 0

\* The DA height noted for a part of the block; the header's for empty data.
DAHeightOf(kind, h) ==
  IF Needs(kind, h) THEN getDAIncludedByHeight(cache[kind], h)
                    ELSE getDAIncludedByHeight(cache["header"], h)

Smaller(a, b) == IF a < b THEN a ELSE b

\* setNodeHeightToDAHeight of the next height.
MapHeight ==
  LET h == included + 1
  IN  /\ up /\ incl = "idle" /\ h <= Height /\ IsHeightDAIncluded(h)
      /\ daHeights' = [k \in Kinds |-> Put(daHeights[k], h, DAHeightOf(k, h))]
      /\ genesisDA' = IF included = 0
                      THEN Smaller(DAHeightOf("header", h), DAHeightOf("data", h))
                      ELSE genesisDA
      /\ incl' = "mapped"
      /\ UNCHANGED <<setup, chain, diskLast, diskIncluded, snap, layer, final, up, last,
                     cache, sub, tick, included, faults>>

SetFinal ==
  /\ up /\ incl = "mapped"
  /\ final' = included + 1
  /\ incl' = "final"
  /\ UNCHANGED <<setup, chain, diskLast, diskIncluded, meta, snap, layer, up, last,
                 cache, sub, tick, included, faults>>

SaveIncluded ==
  /\ up /\ incl = "final"
  /\ diskIncluded' = included + 1
  /\ incl' = "saved"
  /\ UNCHANGED <<setup, chain, diskLast, meta, snap, layer, final, up, last, cache,
                 sub, tick, included, faults>>

DeleteHeight(h) == cache' = [k \in Kinds |-> deleteAllForHeight(cache[k], h)]

\* The height advances in memory and DeleteHeight drops its cache entries.
AdvanceIncluded ==
  /\ up /\ incl = "saved"
  /\ included' = included + 1
  /\ DeleteHeight(included + 1)
  /\ incl' = "idle"
  /\ UNCHANGED <<setup, chain, diskLast, diskIncluded, meta, snap, layer, final, up,
                 last, sub, tick, faults>>

(***************************************************************************)
(* Stop, crash and restart                                                 *)
(***************************************************************************)

\* Memory is gone; a submission under way is abandoned.
Down ==
  /\ up' = FALSE /\ incl' = "idle" /\ included' = 0
  /\ last' = [k \in Kinds |-> 0] /\ cache' = [k \in Kinds |-> NewCache]
  /\ sub' = [k \in Kinds |-> Idle] /\ tick' = NoTick
  /\ faults' = faults + 1
  /\ UNCHANGED <<setup, chain, diskLast, diskIncluded, meta, layer, final>>

\* The submitter's goroutines return before Submitter.Stop does.
WoundDown ==
  /\ \A k \in Kinds : sub[k].pc \in {"idle", "submit"}
  /\ tick.pc = "idle"

SaveToStore == snap' = [k \in Kinds |-> Snapshot(cache[k])]

\* Components.Stop: the submitter winds down, then the caches are saved.
Stop ==
  /\ up /\ faults < setup.maxFaults
  /\ WoundDown /\ incl = "idle"
  /\ Down /\ SaveToStore

\* SetFinal failed MaxRetriesBeforeHalt times, or a single item is too big for
\* the DA layer: a critical error ends the node, which stops as above.
CriticalError ==
  /\ up /\ faults < setup.maxFaults
  /\ \/ incl = "mapped"
     \/ incl = "idle" /\ \E k \in Kinds : \E h \in sub[k].items :
          sub[k].pc = "submit" /\ sub[k].items = {h}
  /\ WoundDown
  /\ Down /\ SaveToStore

Crash ==
  /\ setup.mayCrash /\ up /\ faults < setup.maxFaults
  /\ Down /\ UNCHANGED snap

\* initDAHeightFromStore: the DA height of the last final block.
SeedDAHeight(c, kind) ==
  IF diskIncluded \in DOMAIN daHeights[kind]
  THEN setMaxDAHeight(c, daHeights[kind][diskIncluded]) ELSE c

\* init of the pending headers and data: the last submitted heights are read.
InitPending == last' = diskLast

\* NewManager and Submitter.Start.
Restart ==
  /\ ~up
  /\ up' = TRUE
  /\ InitPending
  /\ included' = diskIncluded
  /\ cache' = [k \in Kinds |-> SeedDAHeight(Restore(snap[k]), k)]
  /\ UNCHANGED <<setup, chain, diskLast, diskIncluded, meta, snap, layer, final, sub,
                 tick, incl, faults>>

Goroutine(kind) ==
  \/ StartSubmission(kind) \/ SubmitAccepted(kind) \/ Mark(kind)
  \/ SubLoad(kind) \/ SubCas(kind) \/ SubSave(kind)

Loop == TickStart \/ TickCas \/ TickSave

Inclusion == MapHeight \/ SetFinal \/ SaveIncluded \/ AdvanceIncluded

Next ==
  \/ Produce \/ Loop \/ Inclusion
  \/ \E k \in Kinds : Goroutine(k) \/ SubmitFails(k) \/ SubmitTooBig(k)
  \/ Stop \/ CriticalError \/ Crash \/ Restart

Spec == Init /\ [][Next]_vars

\* The loops run on tickers and each goroutine gets on; the DA layer takes
\* what it is given, after the failures that maxFaults allows.
FairSpec ==
  /\ Spec
  /\ WF_vars(Loop) /\ WF_vars(Inclusion) /\ WF_vars(Restart)
  /\ \A k \in Kinds : WF_vars(Goroutine(k))

(***************************************************************************)
(* Properties                                                              *)
(***************************************************************************)

\* A header or non-empty data at or below the last submitted height, in
\* memory or in the store, is on the DA layer: partial success, halving,
\* lost answers and the race for lastHeight never skip one.
SubmittedOnDA ==
  \A k \in Kinds : \A h \in 1..Height :
    h <= Larger(last[k], diskLast[k]) /\ Needs(k, h) => OnDA(k, h)

\* Blocks reported final to the execution layer or recorded as included are
\* on the DA layer with header and data.
FinalOnDA ==
  \A h \in 1..Larger(final, diskIncluded) : \A k \in Kinds :
    Needs(k, h) => OnDA(k, h)

\* lastHeight only grows while the node runs, whoever of the loop and the data
\* goroutine gets there first.
LastNeverBack ==
  [][up /\ up' => \A k \in Kinds : last'[k] >= last[k]]_vars

\* A DA height stored for a header or for data is one where it was posted, when
\* blocks have transactions of their own.
MappingTrue ==
  ~setup.mayRepeat =>
    \A k \in Kinds : \A h \in DOMAIN daHeights[k] :
      Needs(k, h) => <<k, h, daHeights[k][h]>> \in posted

\* The aggregator implements the abstract promise of finality.
F == INSTANCE Finality WITH
       produced <- Height,
       available <- {h \in 1..Height : \A k \in Kinds : Needs(k, h) => OnDA(k, h)},
       finalised <- diskIncluded

ImplementsFinality == F!FinalitySpec

\* What has been submitted and is not final yet is known as included, so that
\* the inclusion loop can reach it: a submitted height is never submitted
\* again.
InclusionKnown ==
  up => \A k \in Kinds : \A h \in (included + 1)..last[k] :
          Needs(k, h) => getDAIncludedByHeight(cache[k], h) # 0

\* Over any number of orderly stops (SaveToStore, RestoreFromStore) the caches
\* keep the inclusion of what was submitted and is not final, as long as no two
\* blocks have the same transactions (they share one entry of the data cache).
InclusionRemembered == ~setup.mayCrash /\ ~setup.mayRepeat => InclusionKnown

\* cache/manager.go 336: "Mutations already persist on every call, so this is
\* mainly a final flush."  So it is kept over a crash as well.
MutationsPersist == InclusionKnown

\* Every block becomes final once faults stop, if no crash has happened and
\* there is room on the DA layer for each part of each block and each retry, and
\* blocks have transactions of their own.
EventuallyFinal ==
  ~setup.mayCrash /\ ~setup.mayRepeat
  /\ setup.maxDA >= 2 * setup.maxHeight + setup.maxFaults
    => []<>(diskIncluded = Height)
=============================================================================
