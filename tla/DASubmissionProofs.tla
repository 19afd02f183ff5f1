------------------------- MODULE DASubmissionProofs -------------------------
(***************************************************************************)
(* Proofs about DASubmission, for chains of any length, any number of      *)
(* faults and any batch sizes.                                             *)
(***************************************************************************)
EXTENDS DASubmission, TLAPS

Windows ==
  [pc : {"idle", "submit", "mark", "cas", "save"}, items : SUBSET Nat,
   top : Nat, todo : SUBSET Nat, rest : SUBSET Nat, attempt : Nat, da : Nat, lsh : Nat]
Ticks == [pc : {"idle", "cas", "save"}, h : Nat, lsh : Nat]

\* The fields of a cache.
IsCache(c) ==
  c \in [seen : {c.seen}, daIncluded : {c.daIncluded}, hashByHeight : {c.hashByHeight},
         maxDAHeight : {c.maxDAHeight}]

Types ==
  /\ setup \in SetupType
  /\ chain \in Seq(Nat)
  /\ diskLast \in [Kinds -> Nat] /\ last \in [Kinds -> Nat]
  /\ \A k \in Kinds : diskLast[k] <= Height /\ last[k] <= Height
  /\ diskIncluded \in Nat /\ included \in Nat /\ final \in Nat
  /\ daTip \in Nat
  /\ posted \subseteq Kinds \X (1..Height) \X (1..daTip)
  /\ sub \in [Kinds -> Windows] /\ tick \in Ticks
  /\ incl \in {"idle", "mapped", "final", "saved"} /\ up \in BOOLEAN
  /\ cache = [k \in Kinds |-> cache[k]] /\ \A k \in Kinds : IsCache(cache[k])
  /\ snap = [k \in Kinds |-> snap[k]]

Settled(k, h) == Needs(k, h) => OnDA(k, h)
SettledTo(k, n) == \A h \in 1..n : Settled(k, h)

\* Heights between those of a window that are not in it are settled.
Gapless(k, hs) ==
  /\ hs \subseteq 1..Height
  /\ \A h \in hs : Needs(k, h)
  /\ \A i \in hs : \A h \in 1..i : h \in hs \/ Settled(k, h)

\* How far the goroutine of a kind has come with its window.
WindowInv(k, s) ==
  /\ s.pc = "submit" => Gapless(k, s.items)
  /\ s.pc = "mark" =>
       /\ s.todo \subseteq 1..Height
       /\ \A h \in s.todo : Needs(k, h) /\ <<k, h, s.da>> \in posted
  /\ s.pc \in {"mark", "cas", "save"} =>
       s.top <= Height /\ SettledTo(k, s.top) /\ Gapless(k, s.rest)

LoopInv ==
  /\ \A k \in Kinds : SettledTo(k, last[k]) /\ SettledTo(k, diskLast[k])
                     /\ WindowInv(k, sub[k])
  /\ tick.pc # "idle" => tick.h <= Height /\ SettledTo("data", tick.h)

CacheInv ==
  \A k \in Kinds :
    /\ \A h \in DOMAIN cache[k].hashByHeight : h \in 1..Height /\ OnDA(k, h)
    /\ \A h \in DOMAIN snap[k] : h \in 1..Height /\ OnDA(k, h)

InclusionInv ==
  /\ incl # "idle" =>
       up /\ included + 1 <= Height /\ \A k \in Kinds : Settled(k, included + 1)
  /\ up => diskIncluded = IF incl = "saved" THEN included + 1 ELSE included
  /\ diskIncluded <= Height /\ final <= Height
  /\ \A k \in Kinds : SettledTo(k, diskIncluded) /\ SettledTo(k, final)

IInv == Types /\ LoopInv /\ CacheInv /\ InclusionInv

-----------------------------------------------------------------------------
\* The chain and the DA layer only grow.
Growing ==
  /\ chain' = chain \/ \E c \in Nat : chain' = Append(chain, c)
  /\ posted \subseteq posted' /\ daTip' \in Nat /\ daTip <= daTip'

\* What was settled stays settled.
LEMMA SettledStays ==
  ASSUME Types, Growing
  PROVE  /\ Height \in Nat /\ Height' \in Nat /\ Height <= Height'
         /\ \A k \in Kinds : \A h \in 1..Height :
              /\ Needs(k, h)' <=> Needs(k, h)
              /\ OnDA(k, h) => OnDA(k, h)'
              /\ Settled(k, h) => Settled(k, h)'
  <1>1. /\ Len(chain) \in Nat /\ Len(chain') \in Nat /\ Len(chain) <= Len(chain')
        /\ \A h \in 1..Len(chain) : chain'[h] = chain[h]
    <2>1. chain \in Seq(Nat)
      BY DEF Types
    <2>2. CASE chain' = chain
      BY <2>1, <2>2
    <2>3. CASE \E c \in Nat : chain' = Append(chain, c)
      BY <2>1, <2>3
    <2> QED
      BY <2>2, <2>3 DEF Growing
  <1>2. ASSUME NEW k \in Kinds, NEW h \in 1..Height
        PROVE  (Needs(k, h)' <=> Needs(k, h)) /\ (OnDA(k, h) => OnDA(k, h)')
    <2>1. chain'[h] = chain[h]
      BY <1>1 DEF Height
    <2>2. Needs(k, h)' <=> Needs(k, h)
      BY <2>1 DEF Needs
    <2>3. OnDA(k, h) => OnDA(k, h)'
      <3>1. \A d \in 1..daTip : d \in 1..daTip'
        BY DEF Growing, Types
      <3> QED
        BY <3>1 DEF OnDA, Growing
    <2> QED
      BY <2>2, <2>3
  <1> QED
    BY <1>1, <1>2 DEF Height, Settled

\* So do the heights below one, and a window's invariant.
LEMMA WindowStays ==
  ASSUME Types, Growing
  PROVE  /\ \A k \in Kinds : \A n \in Nat :
              n <= Height /\ SettledTo(k, n) => n <= Height' /\ SettledTo(k, n)'
         /\ \A k \in Kinds : \A hs \in SUBSET Nat : Gapless(k, hs) => Gapless(k, hs)'
         /\ \A k \in Kinds : \A s \in Windows : WindowInv(k, s) => WindowInv(k, s)'
  <1>1. /\ Height \in Nat /\ Height' \in Nat /\ Height <= Height'
        /\ \A k \in Kinds : \A h \in 1..Height :
             /\ Needs(k, h)' <=> Needs(k, h)
             /\ Settled(k, h) => Settled(k, h)'
    BY SettledStays
  <1>2. ASSUME NEW k \in Kinds, NEW n \in Nat, n <= Height, SettledTo(k, n)
        PROVE  n <= Height' /\ SettledTo(k, n)'
    <2>1. n <= Height' /\ \A h \in 1..n : h \in 1..Height
      BY <1>1, <1>2
    <2> QED
      BY <1>1, <1>2, <2>1 DEF SettledTo
  <1>3. ASSUME NEW k \in Kinds, NEW hs \in SUBSET Nat, Gapless(k, hs)
        PROVE  Gapless(k, hs)'
    <2>1. hs \subseteq 1..Height /\ \A h \in hs : Needs(k, h)
      BY <1>3 DEF Gapless
    <2>2. \A i \in 1..Height : i \in 1..Height' /\ \A h \in 1..i : h \in 1..Height
      BY <1>1
    <2>3. \A i \in hs : \A h \in 1..i : h \in hs \/ Settled(k, h)
      BY <1>3 DEF Gapless
    <2> QED
      BY <1>1, <2>1, <2>2, <2>3 DEF Gapless
  <1>4. ASSUME NEW k \in Kinds, NEW s \in Windows, WindowInv(k, s)
        PROVE  WindowInv(k, s)'
    <2>1. /\ s.items \in SUBSET Nat /\ s.rest \in SUBSET Nat /\ s.top \in Nat
          /\ s.todo \in SUBSET Nat
      BY DEF Windows
    <2>2. s.pc = "submit" => Gapless(k, s.items)'
      BY <1>3, <1>4, <2>1 DEF WindowInv
    <2>3. s.pc \in {"mark", "cas", "save"} =>
            s.top <= Height' /\ SettledTo(k, s.top)' /\ Gapless(k, s.rest)'
      BY <1>2, <1>3, <1>4, <2>1 DEF WindowInv
    <2>4. s.pc = "mark" =>
            /\ s.todo \subseteq 1..Height'
            /\ \A h \in s.todo : Needs(k, h)' /\ <<k, h, s.da>> \in posted'
      <3>1. \A h \in 1..Height : h \in 1..Height'
        BY <1>1
      <3>2. s.pc = "mark" =>
            /\ s.todo \subseteq 1..Height
            /\ \A h \in s.todo : Needs(k, h) /\ <<k, h, s.da>> \in posted
        BY <1>4 DEF WindowInv
      <3> QED
        BY <1>1, <3>1, <3>2 DEF Growing
    <2> QED
      BY <2>2, <2>3, <2>4 DEF WindowInv
  <1> QED
    BY <1>2, <1>3, <1>4

\* A step of the submission loop or of a goroutine.
LEMMA LoopStep ==
  ASSUME IInv, UNCHANGED <<setup, chain, diskIncluded, snap, final, up, cache, included, incl>>,
         posted \subseteq posted', daTip' \in Nat, daTip <= daTip',
         posted' \subseteq Kinds \X (1..Height) \X (1..daTip'),
         last' \in [Kinds -> Nat], diskLast' \in [Kinds -> Nat],
         \A k \in Kinds : /\ last'[k] <= Height /\ SettledTo(k, last'[k])
                          /\ diskLast'[k] <= Height /\ SettledTo(k, diskLast'[k]),
         sub' \in [Kinds -> Windows],
         \A k \in Kinds : \A s \in Windows :
           s = sub'[k] => WindowInv(k, s) \/ WindowInv(k, s)',
         tick' \in Ticks,
         tick'.pc # "idle" => tick'.h <= Height /\ SettledTo("data", tick'.h)
  PROVE  IInv'
  <1>1. Types /\ Growing
    BY DEF IInv, Growing
  <1>2. Height' = Height /\ Height \in Nat
    BY <1>1, SettledStays DEF Height
  <1>3. Types'
    BY <1>1, <1>2 DEF Types
  <1>4. \A k \in Kinds : \A n \in Nat : n <= Height /\ SettledTo(k, n) => SettledTo(k, n)'
    BY SMTT(30), <1>1, WindowStays
  <1>5. ASSUME NEW k \in Kinds
        PROVE  SettledTo(k, last[k])' /\ SettledTo(k, diskLast[k])' /\ WindowInv(k, sub[k])'
    <2>1. PICK m \in Nat : m = last'[k]
      OBVIOUS
    <2>2. PICK n \in Nat : n = diskLast'[k]
      OBVIOUS
    <2>3. SettledTo(k, m)' /\ SettledTo(k, n)'
      BY <1>4, <2>1, <2>2
    <2>4. PICK s \in Windows : s = sub'[k]
      OBVIOUS
    <2>5. WindowInv(k, s)'
      BY <1>1, <2>4, WindowStays
    <2> QED
      BY Zenon, <2>1, <2>2, <2>3, <2>4, <2>5 DEF SettledTo, WindowInv
  <1>6. ASSUME tick'.pc # "idle"
        PROVE  tick'.h <= Height' /\ SettledTo("data", tick.h)'
    <2>1. PICK n \in Nat : n = tick'.h
      BY DEF Ticks
    <2>2. "data" \in Kinds
      BY DEF Kinds
    <2>3. SettledTo("data", n)'
      BY <1>4, <1>6, <2>1, <2>2
    <2> QED
      BY <1>2, <1>6, <2>1, <2>3 DEF SettledTo
  <1>7. LoopInv'
    BY <1>5, <1>6 DEF LoopInv
  <1>8. CacheInv'
    BY SMTT(30), <1>1, <1>2, SettledStays DEF IInv, CacheInv
  <1>9. InclusionInv'
    <2>1. InclusionInv /\ included + 1 \in Nat /\ diskIncluded \in Nat /\ final \in Nat
      BY <1>1 DEF IInv, Types
    <2>2. incl # "idle" => included + 1 \in 1..Height
      BY <1>1, <1>2, <2>1 DEF InclusionInv, Types
    <2>3. \A k \in Kinds : Settled(k, included + 1) /\ included + 1 \in 1..Height
                             => Settled(k, included + 1)'
      <3>1. PICK n \in Nat : n = included + 1
        BY SMTT(30), <2>1
      <3>2. \A k \in Kinds : Settled(k, n) /\ n \in 1..Height => Settled(k, n)'
        BY <1>1, SettledStays
      <3> QED
        BY Zenon, <3>1, <3>2 DEF Settled, Needs, OnDA
    <2>4. \A k \in Kinds : SettledTo(k, diskIncluded)' /\ SettledTo(k, final)'
      <3>1. PICK m \in Nat : m = diskIncluded
        BY <2>1
      <3>2. PICK n \in Nat : n = final
        BY <2>1
      <3>3. \A k \in Kinds : SettledTo(k, m)' /\ SettledTo(k, n)'
        BY <1>4, <2>1, <3>1, <3>2 DEF InclusionInv
      <3> QED
        BY <3>1, <3>2, <3>3 DEF SettledTo
    <2> QED
      BY <1>2, <2>1, <2>2, <2>3, <2>4 DEF InclusionInv
  <1> QED
    BY <1>3, <1>7, <1>8, <1>9 DEF IInv

-----------------------------------------------------------------------------
\* The next empty height is settled if the ones before it are.
LEMMA TickNextFacts ==
  ASSUME Types, NEW n \in Nat, n <= Height, SettledTo("data", n)
  PROVE  /\ TickNext(n + 1) \in Ticks
         /\ TickNext(n + 1).pc # "idle" =>
              TickNext(n + 1).h <= Height /\ SettledTo("data", TickNext(n + 1).h)
  <1>1. last["data"] \in Nat /\ n + 1 \in Nat
    BY DEF Types, Kinds
  <1>2. CASE n + 1 <= Height /\ chain[n + 1] = Empty
    <2>1. TickNext(n + 1) = [pc |-> "cas", h |-> n + 1, lsh |-> last["data"]]
      BY <1>2 DEF TickNext
    <2>2. Settled("data", n + 1)
      BY <1>2 DEF Settled, Needs
    <2>3. \A h \in 1..(n + 1) : h \in 1..n \/ h = n + 1
      OBVIOUS
    <2>4. SettledTo("data", n + 1)
      BY <2>2, <2>3 DEF SettledTo
    <2> QED
      BY <1>1, <1>2, <2>1, <2>4 DEF Ticks
  <1>3. CASE ~(n + 1 <= Height /\ chain[n + 1] = Empty)
    BY <1>3 DEF TickNext, NoTick, Ticks
  <1> QED
    BY <1>2, <1>3

\* What the loop and the goroutines are left with when they are not in the step.
LEMMA LoopFacts ==
  ASSUME IInv
  PROVE  /\ Types /\ LoopInv /\ Height \in Nat /\ Kinds = {"header", "data"}
         /\ last \in [Kinds -> Nat] /\ diskLast \in [Kinds -> Nat]
         /\ \A k \in Kinds : /\ last[k] <= Height /\ SettledTo(k, last[k])
                             /\ diskLast[k] <= Height /\ SettledTo(k, diskLast[k])
         /\ sub \in [Kinds -> Windows]
         /\ \A k \in Kinds : WindowInv(k, sub[k])
         /\ tick \in Ticks
         /\ tick.pc # "idle" => tick.h <= Height /\ SettledTo("data", tick.h)
         /\ posted \subseteq Kinds \X (1..Height) \X (1..daTip) /\ daTip \in Nat
  <1>1. Height \in Nat
    BY SMTT(30) DEF IInv, Types, Height
  <1> QED
    BY Zenon, <1>1 DEF IInv, Types, LoopInv, Kinds

LEMMA TickStartIInv == IInv /\ TickStart => IInv'
  <1> SUFFICES ASSUME IInv, TickStart PROVE IInv'
    OBVIOUS
  <1>1. "data" \in Kinds
    BY DEF Kinds
  <1>2. PICK n \in Nat : n = last["data"]
    BY <1>1, LoopFacts
  <1>3. /\ tick' \in Ticks
        /\ tick'.pc # "idle" => tick'.h <= Height /\ SettledTo("data", tick'.h)
    <2>1. tick' = TickNext(n + 1) /\ n <= Height /\ SettledTo("data", n)
      BY <1>1, <1>2, LoopFacts DEF TickStart
    <2> QED
      BY SMTT(30), <2>1, LoopFacts, TickNextFacts
  <1>4. /\ UNCHANGED <<setup, chain, diskIncluded, snap, final, up, cache, included, incl>>
        /\ UNCHANGED <<posted, daTip, last, diskLast, sub>>
    BY DEF TickStart, layer
  <1> QED
    BY <1>3, <1>4, LoopFacts, LoopStep

LEMMA TickCasIInv == IInv /\ TickCas => IInv'
  <1> SUFFICES ASSUME IInv, TickCas PROVE IInv'
    OBVIOUS
  <1>1. "data" \in Kinds /\ tick.pc = "cas" /\ tick \in Ticks
    BY LoopFacts DEF Kinds, TickCas
  <1>2. PICK n \in Nat : n = tick.h
    BY <1>1 DEF Ticks
  <1>3. n <= Height /\ SettledTo("data", n)
    BY <1>1, <1>2, LoopFacts
  <1>4. /\ UNCHANGED <<setup, chain, diskIncluded, snap, final, up, cache, included, incl>>
        /\ UNCHANGED <<posted, daTip, diskLast, sub>>
    BY SMTT(30) DEF TickCas, layer
  <1>5. CASE Swaps("data", tick.lsh, tick.h)
    <2>1. last' = [last EXCEPT !["data"] = n] /\ tick' = [tick EXCEPT !.pc = "save"]
      BY <1>2, <1>5 DEF TickCas
    <2>2. last' \in [Kinds -> Nat]
      BY <2>1, LoopFacts
    <2>3. \A k \in Kinds : last'[k] <= Height /\ SettledTo(k, last'[k])
      BY <1>3, <2>1, LoopFacts
    <2>4. tick' \in Ticks /\ tick'.h = n
      BY SMTT(30), <1>1, <1>2, <2>1 DEF Ticks
    <2> QED
      BY <1>3, <1>4, <2>2, <2>3, <2>4, LoopFacts, LoopStep
  <1>6. CASE ~Swaps("data", tick.lsh, tick.h)
    <2>1. tick' = TickNext(n + 1) /\ last' = last
      BY <1>2, <1>6 DEF TickCas
    <2>2. /\ tick' \in Ticks
          /\ tick'.pc # "idle" => tick'.h <= Height /\ SettledTo("data", tick'.h)
      BY SMTT(30), <1>3, <2>1, LoopFacts, TickNextFacts
    <2> QED
      BY <1>4, <2>1, <2>2, LoopFacts, LoopStep
  <1> QED
    BY <1>5, <1>6

LEMMA TickSaveIInv == IInv /\ TickSave => IInv'
  <1> SUFFICES ASSUME IInv, TickSave PROVE IInv'
    OBVIOUS
  <1>1. "data" \in Kinds /\ tick.pc = "save" /\ tick \in Ticks
    BY LoopFacts DEF Kinds, TickSave
  <1>2. PICK n \in Nat : n = tick.h
    BY <1>1 DEF Ticks
  <1>3. n <= Height /\ SettledTo("data", n)
    BY <1>1, <1>2, LoopFacts
  <1>4. /\ UNCHANGED <<setup, chain, diskIncluded, snap, final, up, cache, included, incl>>
        /\ UNCHANGED <<posted, daTip, last, sub>>
    BY DEF TickSave, layer
  <1>5. diskLast' = [diskLast EXCEPT !["data"] = n] /\ tick' = TickNext(n + 1)
    BY <1>2 DEF TickSave
  <1>6. diskLast' \in [Kinds -> Nat]
    BY <1>5, LoopFacts
  <1>7. \A k \in Kinds : diskLast'[k] <= Height /\ SettledTo(k, diskLast'[k])
    BY <1>3, <1>5, LoopFacts
  <1>8. /\ tick' \in Ticks
        /\ tick'.pc # "idle" => tick'.h <= Height /\ SettledTo("data", tick'.h)
    BY SMTT(30), <1>3, <1>5, LoopFacts, TickNextFacts
  <1> QED
    BY <1>4, <1>6, <1>7, <1>8, LoopFacts, LoopStep

-----------------------------------------------------------------------------
\* A step of one goroutine that leaves the last submitted heights alone.
LEMMA GoroutineStep ==
  ASSUME IInv, NEW k \in Kinds, NEW s \in Windows, sub' = [sub EXCEPT ![k] = s],
         WindowInv(k, s) \/ WindowInv(k, s)',
         UNCHANGED <<setup, chain, diskIncluded, snap, final, up, cache, included, incl>>,
         UNCHANGED <<last, diskLast, tick>>,
         posted \subseteq posted', daTip' \in Nat, daTip <= daTip',
         posted' \subseteq Kinds \X (1..Height) \X (1..daTip')
  PROVE  IInv'
  <1>1. sub' \in [Kinds -> Windows]
    BY LoopFacts
  <1>2. ASSUME NEW j \in Kinds, NEW w \in Windows, w = sub'[j]
        PROVE  WindowInv(j, w) \/ WindowInv(j, w)'
    <2>1. CASE j = k
      BY <1>2, <2>1, LoopFacts
    <2>2. CASE j # k
      <3>1. w = sub[j] /\ WindowInv(j, sub[j])
        BY <1>2, <2>2, LoopFacts
      <3> QED
        BY <3>1
    <2> QED
      BY <2>1, <2>2
  <1>3. \A j \in Kinds : \A w \in Windows :
          w = sub'[j] => WindowInv(j, w) \/ WindowInv(j, w)'
    BY SMTT(30), <1>2
  <1>4. /\ last' \in [Kinds -> Nat] /\ diskLast' \in [Kinds -> Nat]
        /\ \A j \in Kinds : /\ last'[j] <= Height /\ SettledTo(j, last'[j])
                            /\ diskLast'[j] <= Height /\ SettledTo(j, diskLast'[j])
        /\ tick' \in Ticks
        /\ tick'.pc # "idle" => tick'.h <= Height /\ SettledTo("data", tick'.h)
    BY LoopFacts
  <1> QED
    BY SMTT(30), <1>1, <1>3, <1>4, LoopStep

\* A window of which nothing is known to be posted yet.
LEMMA NewWindow ==
  ASSUME NEW n \in Nat, NEW hs \in SUBSET Nat
  PROVE  /\ Idle \in Windows /\ Idle.pc = "idle"
         /\ LET w == [Idle EXCEPT !.pc = "submit", !.attempt = n, !.items = hs]
            IN  w \in Windows /\ w.pc = "submit" /\ w.items = hs
         /\ LET w == [Idle EXCEPT !.pc = "submit", !.items = hs]
            IN  w \in Windows /\ w.pc = "submit" /\ w.items = hs
  <1>1. Idle \in Windows /\ Idle.pc = "idle"
    BY DEF Idle, Windows
  <1>2. PICK p \in {"idle", "submit", "mark", "cas", "save"} : p = "submit"
    OBVIOUS
  <1>3. LET w == [Idle EXCEPT !.pc = p, !.attempt = n, !.items = hs]
        IN  w \in Windows /\ w.pc = p /\ w.items = hs
    BY Zenon, <1>1 DEF Windows
  <1>4. LET w == [Idle EXCEPT !.pc = p, !.items = hs]
        IN  w \in Windows /\ w.pc = p /\ w.items = hs
    BY Zenon, <1>1 DEF Windows
  <1> QED
    BY <1>1, <1>2, <1>3, <1>4, Zenon

LEMMA RetryFacts ==
  ASSUME NEW w \in Windows, NEW hs \in SUBSET Nat, NEW k \in Kinds, Gapless(k, hs)
  PROVE  Retry(w, hs) \in Windows /\ WindowInv(k, Retry(w, hs))
  <1>1. w.attempt + 1 \in Nat
    BY DEF Windows
  <1>2. /\ Retry(w, hs) \in Windows
        /\ Retry(w, hs).pc = "idle"
             \/ (Retry(w, hs).pc = "submit" /\ Retry(w, hs).items = hs)
    BY ZenonT(30), <1>1, NewWindow DEF Retry
  <1> QED
    BY <1>2 DEF WindowInv

LEMMA NextWindowFacts ==
  ASSUME NEW w \in Windows, NEW k \in Kinds, Gapless(k, w.rest)
  PROVE  NextWindow(w) \in Windows /\ WindowInv(k, NextWindow(w))
  <1>1. w.rest \in SUBSET Nat
    BY DEF Windows
  <1>2. Idle \in Windows /\ WindowInv(k, Idle)
    BY Zenon, <1>1, NewWindow DEF WindowInv
  <1>3. Retry(w, w.rest) \in Windows /\ WindowInv(k, Retry(w, w.rest))
    BY SMTT(30), <1>1, RetryFacts
  <1> QED
    BY SMTT(30), <1>2, <1>3 DEF NextWindow

\* A prefix of a window, and what is left when it is on the DA layer.
LEMMA Prefix ==
  ASSUME NEW k \in Kinds, NEW hs \in SUBSET Nat, Gapless(k, hs), NEW top \in Nat
  PROVE  UpTo(hs, top) \in SUBSET Nat /\ Gapless(k, UpTo(hs, top))
  <1>1. \A i \in Nat : \A h \in 1..i : i <= top => h <= top
    OBVIOUS
  <1> QED
    BY Zenon, <1>1 DEF Gapless, UpTo

LEMMA StartSubmissionIInv ==
  ASSUME IInv, NEW k \in Kinds, StartSubmission(k) PROVE IInv'
  <1>1. PICK top \in Pending(k) :
          sub' = [sub EXCEPT ![k] =
                    [Idle EXCEPT !.pc = "submit", !.items = UpTo(Pending(k), top)]]
    BY Zenon DEF StartSubmission
  <1>2. last[k] \in Nat /\ last[k] <= Height /\ SettledTo(k, last[k]) /\ Height \in Nat
    BY SMTT(30), LoopFacts
  <1>3. Pending(k) \in SUBSET Nat /\ Gapless(k, Pending(k)) /\ top \in Nat
    <2>1. /\ Pending(k) \subseteq (last[k] + 1)..Height
          /\ \A h \in Pending(k) : Needs(k, h)
          /\ \A i \in Pending(k) : \A h \in (last[k] + 1)..i : Needs(k, h) => h \in Pending(k)
      <3>1. \A i \in getPending(k) : \A h \in (last[k] + 1)..i : h \in getPending(k)
        <4> SUFFICES ASSUME NEW i \in (last[k] + 1)..Height, i <= last[k] + setup.pendingLimit,
                            NEW h \in (last[k] + 1)..i
                     PROVE  h \in (last[k] + 1)..Height /\ h <= last[k] + setup.pendingLimit
          BY DEF getPending
        <4>1. setup.pendingLimit \in Nat
          BY LoopFacts DEF Types, SetupType
        <4> QED
          BY <1>2, <4>1
      <3> QED
        BY <3>1 DEF Pending, getPending
    <2>2. \A i \in (last[k] + 1)..Height :
            i \in 1..Height /\ \A h \in 1..i : h \in 1..last[k] \/ h \in (last[k] + 1)..i
      BY <1>2
    <2> QED
      BY <1>1, <1>2, <2>1, <2>2 DEF Gapless, SettledTo, Settled
  <1>4. PICK hs \in SUBSET Nat : hs = UpTo(Pending(k), top) /\ Gapless(k, hs)
    BY <1>3, Prefix
  <1>5. PICK w \in Windows : /\ w = [Idle EXCEPT !.pc = "submit", !.items = hs]
                             /\ w.pc = "submit" /\ w.items = hs
    BY Zenon, NewWindow
  <1>6. WindowInv(k, w) /\ sub' = [sub EXCEPT ![k] = w]
    BY <1>1, <1>4, <1>5 DEF WindowInv
  <1>7. /\ UNCHANGED <<setup, chain, diskIncluded, snap, final, up, cache, included, incl>>
        /\ UNCHANGED <<posted, daTip, last, diskLast, tick>>
    BY SMTT(30) DEF StartSubmission, layer
  <1>8. /\ posted \subseteq posted' /\ daTip' \in Nat /\ daTip <= daTip'
        /\ posted' \subseteq Kinds \X (1..Height) \X (1..daTip')
    BY <1>7, LoopFacts
  <1> QED
    BY Zenon, <1>6, <1>7, <1>8, GoroutineStep

\* What a post adds to the DA layer.
LEMMA PostFacts ==
  ASSUME Types, NEW k \in Kinds, NEW hs, hs \subseteq 1..Height, Post(k, hs)
  PROVE  /\ posted \subseteq posted' /\ daTip' = daTip + 1 /\ daTip' \in Nat /\ daTip <= daTip'
         /\ posted' \subseteq Kinds \X (1..Height) \X (1..daTip')
         /\ \A h \in hs : <<k, h, daTip'>> \in posted' /\ OnDA(k, h)'
  <1>1. daTip \in Nat /\ daTip' = daTip + 1
    BY DEF Types, Post
  <1>2. 1..daTip \subseteq 1..daTip' /\ daTip' \in 1..daTip' /\ daTip' \in Nat /\ daTip <= daTip'
    BY <1>1
  <1>3. posted' = posted \cup ({k} \X hs \X {daTip'})
    BY <1>1 DEF Post
  <1>4. posted' \subseteq Kinds \X (1..Height) \X (1..daTip')
    BY <1>2, <1>3 DEF Types
  <1>5. \A h \in hs : <<k, h, daTip'>> \in posted'
    BY <1>3
  <1>6. \A h \in hs : OnDA(k, h)'
    BY <1>2, <1>5 DEF OnDA
  <1> QED
    BY <1>1, <1>2, <1>3, <1>4, <1>5, <1>6

LEMMA SubmitFailsIInv ==
  ASSUME IInv, NEW k \in Kinds, SubmitFails(k) PROVE IInv'
  <1>1. /\ sub[k].pc = "submit" /\ sub' = [sub EXCEPT ![k] = Retry(sub[k], sub[k].items)]
        /\ UNCHANGED <<setup, chain, diskIncluded, snap, final, up, cache, included, incl>>
        /\ UNCHANGED <<last, diskLast, tick>>
        /\ sub[k] \in Windows /\ Types
    BY SMTT(30), LoopFacts DEF SubmitFails
  <1>2. Gapless(k, sub[k].items) /\ sub[k].items \in SUBSET Nat
    BY SMTT(30), <1>1, LoopFacts DEF WindowInv, Windows
  <1>3. PICK w \in Windows : w = Retry(sub[k], sub[k].items) /\ WindowInv(k, w)
    BY <1>1, <1>2, RetryFacts
  <1>4. /\ posted \subseteq posted' /\ daTip' \in Nat /\ daTip <= daTip'
        /\ posted' \subseteq Kinds \X (1..Height) \X (1..daTip')
    <2>1. CASE UNCHANGED layer
      BY SMTT(30), <2>1, LoopFacts DEF layer
    <2>2. CASE Post(k, sub[k].items)
      BY <1>1, <1>2, <2>2, PostFacts DEF Gapless
    <2> QED
      BY Zenon, <2>1, <2>2 DEF SubmitFails
  <1> QED
    BY Zenon, <1>1, <1>3, <1>4, GoroutineStep

LEMMA SubmitTooBigIInv ==
  ASSUME IInv, NEW k \in Kinds, SubmitTooBig(k) PROVE IInv'
  <1>1. PICK top \in sub[k].items :
          sub' = [sub EXCEPT ![k] = Retry(sub[k], FirstHalf(sub[k].items, top))]
    BY ZenonT(40), LoopFacts DEF SubmitTooBig
  <1>2. /\ sub[k].pc = "submit"
        /\ UNCHANGED <<setup, chain, diskIncluded, snap, final, up, cache, included, incl>>
        /\ UNCHANGED <<last, diskLast, tick, posted, daTip>>
        /\ sub[k] \in Windows
    BY SMTT(30), LoopFacts DEF SubmitTooBig, layer
  <1>3. Gapless(k, sub[k].items) /\ sub[k].items \in SUBSET Nat /\ top \in Nat
    BY <1>1, <1>2, LoopFacts DEF WindowInv, Windows
  <1>4. PICK hs \in SUBSET Nat : hs = FirstHalf(sub[k].items, top) /\ Gapless(k, hs)
    BY SMTT(30), <1>3, Prefix DEF FirstHalf
  <1>5. PICK w \in Windows : w = Retry(sub[k], hs) /\ WindowInv(k, w)
    BY Zenon, <1>2, <1>4, RetryFacts
  <1>6. /\ posted \subseteq posted' /\ daTip' \in Nat /\ daTip <= daTip'
        /\ posted' \subseteq Kinds \X (1..Height) \X (1..daTip')
    BY SMTT(30), <1>2, LoopFacts
  <1>7. sub' = [sub EXCEPT ![k] = w]
    BY <1>1, <1>4, <1>5
  <1> QED
    BY Zenon, <1>2, <1>5, <1>6, <1>7, GoroutineStep

LEMMA SubmittedFacts ==
  ASSUME Types, NEW w \in Windows, NEW top \in Nat
  PROVE  LET v == Submitted(w, top)
         IN  /\ v \in Windows /\ v.pc = "mark" /\ v.da = daTip + 1 /\ v.top = top
             /\ v.todo = UpTo(w.items, top) /\ v.rest = w.items \ UpTo(w.items, top)
  <1> DEFINE d == daTip + 1
             p == "mark"
             a == UpTo(w.items, top)
             b == w.items \ UpTo(w.items, top)
             v == [w EXCEPT !.pc = p, !.da = d, !.top = top, !.items = a, !.todo = a,
                            !.rest = b]
  <1>1. /\ d \in Nat /\ a \in SUBSET Nat /\ b \in SUBSET Nat
        /\ p \in {"idle", "submit", "mark", "cas", "save"}
    BY DEF Types, UpTo, Windows
  <1>2. Submitted(w, top) = v
    BY DEF Submitted
  <1> HIDE DEF d, p, a, b
  <1>3. v \in Windows
    BY Zenon, <1>1 DEF Windows
  <1>4. v.pc = p /\ v.da = d /\ v.top = top /\ v.todo = a /\ v.rest = b
    BY <1>1 DEF Windows
  <1> QED
    BY <1>2, <1>3, <1>4 DEF d, p, a, b

LEMMA SubmitAcceptedIInv ==
  ASSUME IInv, NEW k \in Kinds, SubmitAccepted(k) PROVE IInv'
  <1>1. PICK top \in sub[k].items :
          /\ Post(k, UpTo(sub[k].items, top))
          /\ sub' = [sub EXCEPT ![k] = Submitted(sub[k], top)]
    BY Zenon, LoopFacts DEF SubmitAccepted
  <1>2. /\ sub[k].pc = "submit"
        /\ UNCHANGED <<setup, chain, diskIncluded, snap, final, up, cache, included, incl>>
        /\ UNCHANGED <<last, diskLast, tick>>
        /\ sub[k] \in Windows /\ Types /\ Height \in Nat
    BY Zenon, LoopFacts DEF SubmitAccepted
  <1> DEFINE hs == sub[k].items
             posts == UpTo(hs, top)
  <1>3. Gapless(k, hs) /\ hs \in SUBSET Nat /\ hs \subseteq 1..Height /\ top \in 1..Height
    BY Zenon, <1>1, <1>2, LoopFacts DEF WindowInv, Windows, Gapless
  <1>4. top \in Nat /\ top <= Height /\ posts \subseteq 1..Height
    BY SMTT(30), <1>2, <1>3 DEF UpTo
  <1>5. PICK w \in Windows :
          /\ w = Submitted(sub[k], top)
          /\ w.pc = "mark" /\ w.da = daTip + 1 /\ w.top = top
          /\ w.todo = posts /\ w.rest = hs \ posts
    BY SMTT(30), <1>2, <1>4, SubmittedFacts
  <1>6. /\ posted \subseteq posted' /\ daTip' = daTip + 1 /\ daTip' \in Nat /\ daTip <= daTip'
        /\ posted' \subseteq Kinds \X (1..Height) \X (1..daTip')
        /\ \A h \in posts : <<k, h, daTip'>> \in posted' /\ OnDA(k, h)'
    BY <1>1, <1>2, <1>4, PostFacts
  <1>7. Growing /\ Height' = Height
    BY Zenon, <1>2, <1>6 DEF Growing, Height
  <1>8. \A h \in 1..Height : /\ Needs(k, h)' <=> Needs(k, h)
                             /\ Settled(k, h) => Settled(k, h)'
    BY Zenon, <1>2, <1>7, SettledStays
  <1>9. \A i \in hs : \A h \in 1..i : h \in hs \/ Settled(k, h)'
    <2>1. \A i \in hs : \A h \in 1..i : h \in 1..Height
      BY <1>2, <1>3
    <2> QED
      BY Zenon, <1>3, <1>8, <2>1 DEF Gapless
  <1>10. \A h \in posts : Settled(k, h)' /\ Needs(k, h)'
    BY Zenon, <1>3, <1>4, <1>6, <1>8 DEF Settled, Gapless, UpTo
  <1>11. SettledTo(k, top)'
    <2>1. \A h \in 1..top : h \in hs => h \in posts
      BY SMTT(30), <1>3 DEF UpTo
    <2>2. \A h \in 1..top : h \in hs \/ Settled(k, h)'
      BY <1>1, <1>9
    <2> QED
      BY <1>10, <2>1, <2>2 DEF SettledTo
  <1>12. Gapless(k, w.rest)'
    <2>1. w.rest \subseteq 1..Height' /\ \A h \in w.rest : Needs(k, h)'
      BY Zenon, <1>3, <1>5, <1>7, <1>8 DEF Gapless
    <2>2. \A i \in w.rest : \A h \in 1..i : h \in w.rest \/ Settled(k, h)'
      BY Zenon, <1>5, <1>9, <1>10
    <2> QED
      BY Zenon, <2>1, <2>2 DEF Gapless
  <1>13. \A h \in w.todo : Needs(k, h)' /\ <<k, h, w.da>> \in posted'
    BY Zenon, <1>5, <1>6, <1>10
  <1>14. WindowInv(k, w)'
    BY Zenon, <1>4, <1>5, <1>7, <1>11, <1>12, <1>13 DEF WindowInv
  <1>15. sub' = [sub EXCEPT ![k] = w]
    BY <1>1, <1>5
  <1> HIDE DEF hs, posts
  <1> QED
    BY Zenon, <1>2, <1>6, <1>14, <1>15, GoroutineStep

LEMMA SubLoadIInv ==
  ASSUME IInv, NEW k \in Kinds, SubLoad(k) PROVE IInv'
  <1>1. /\ sub[k].pc = "mark"
        /\ sub' = [sub EXCEPT ![k] = [sub[k] EXCEPT !.pc = "cas", !.lsh = last[k]]]
        /\ UNCHANGED <<setup, chain, diskIncluded, snap, final, up, cache, included, incl>>
        /\ UNCHANGED <<last, diskLast, tick, posted, daTip>>
        /\ sub[k] \in Windows /\ last[k] \in Nat
    BY LoopFacts DEF SubLoad, layer
  <1>2. PICK w \in Windows : /\ w = [sub[k] EXCEPT !.pc = "cas", !.lsh = last[k]]
                             /\ w.pc = "cas" /\ w.rest = sub[k].rest /\ w.top = sub[k].top
    <2>1. PICK p \in {"idle", "submit", "mark", "cas", "save"} : p = "cas"
      OBVIOUS
    <2>2. PICK n \in Nat : n = last[k]
      BY <1>1
    <2>3. [sub[k] EXCEPT !.pc = p, !.lsh = n] \in Windows
      BY Zenon, <1>1 DEF Windows
    <2>4. LET v == [sub[k] EXCEPT !.pc = p, !.lsh = n]
          IN  v.pc = p /\ v.rest = sub[k].rest /\ v.top = sub[k].top
      BY <1>1 DEF Windows
    <2> QED
      BY Zenon, <2>1, <2>2, <2>3, <2>4
  <1>3. WindowInv(k, w)
    BY <1>1, <1>2, LoopFacts DEF WindowInv
  <1>4. /\ posted \subseteq posted' /\ daTip' \in Nat /\ daTip <= daTip'
        /\ posted' \subseteq Kinds \X (1..Height) \X (1..daTip')
    BY <1>1, LoopFacts
  <1>5. sub' = [sub EXCEPT ![k] = w]
    BY <1>1, <1>2
  <1> QED
    BY Zenon, <1>1, <1>3, <1>4, <1>5, GoroutineStep

LEMMA SubCasIInv ==
  ASSUME IInv, NEW k \in Kinds, SubCas(k) PROVE IInv'
  <1>1. /\ sub[k].pc = "cas" /\ sub[k] \in Windows /\ Types
        /\ UNCHANGED <<setup, chain, diskIncluded, snap, final, up, cache, included, incl>>
        /\ UNCHANGED <<diskLast, tick, posted, daTip>>
    BY Zenon, LoopFacts DEF SubCas, layer
  <1>2. /\ sub[k].top \in Nat /\ sub[k].top <= Height /\ SettledTo(k, sub[k].top)
        /\ Gapless(k, sub[k].rest)
    BY Zenon, <1>1, LoopFacts DEF WindowInv, Windows
  <1>3. /\ posted \subseteq posted' /\ daTip' \in Nat /\ daTip <= daTip'
        /\ posted' \subseteq Kinds \X (1..Height) \X (1..daTip')
    BY SMTT(30), <1>1, LoopFacts
  <1>4. CASE Swaps(k, sub[k].lsh, sub[k].top)
    <2>1. /\ last' = [last EXCEPT ![k] = sub[k].top]
          /\ sub' = [sub EXCEPT ![k] = [sub[k] EXCEPT !.pc = "save"]]
      BY <1>4, LoopFacts DEF SubCas
    <2>2. PICK w \in Windows : /\ w = [sub[k] EXCEPT !.pc = "save"]
                               /\ w.pc = "save" /\ w.rest = sub[k].rest /\ w.top = sub[k].top
      <3>1. PICK p \in {"idle", "submit", "mark", "cas", "save"} : p = "save"
        OBVIOUS
      <3>2. [sub[k] EXCEPT !.pc = p] \in Windows
        BY <1>1 DEF Windows
      <3>3. LET v == [sub[k] EXCEPT !.pc = p]
            IN  v.pc = p /\ v.rest = sub[k].rest /\ v.top = sub[k].top
        BY <1>1 DEF Windows
      <3> QED
        BY Zenon, <3>1, <3>2, <3>3
    <2>3. WindowInv(k, w)
      BY <1>2, <2>2 DEF WindowInv
    <2>4. sub' \in [Kinds -> Windows]
      BY <2>1, <2>2, LoopFacts
    <2>5. \A j \in Kinds : \A v \in Windows : v = sub'[j] => WindowInv(j, v)
      BY <2>1, <2>2, <2>3, LoopFacts
    <2>6. last' \in [Kinds -> Nat]
      BY <1>2, <2>1, LoopFacts
    <2>7. \A j \in Kinds : last'[j] <= Height /\ SettledTo(j, last'[j])
      BY <1>2, <2>1, LoopFacts
    <2> QED
      BY <1>1, <1>3, <2>4, <2>5, <2>6, <2>7, LoopFacts, LoopStep
  <1>5. CASE ~Swaps(k, sub[k].lsh, sub[k].top)
    <2>1. last' = last /\ sub' = [sub EXCEPT ![k] = NextWindow(sub[k])]
      BY Zenon, <1>5, LoopFacts DEF SubCas
    <2>2. PICK w \in Windows : w = NextWindow(sub[k]) /\ WindowInv(k, w)
      BY <1>1, <1>2, NextWindowFacts
    <2>3. sub' = [sub EXCEPT ![k] = w]
      BY Zenon, <2>1, <2>2
    <2> QED
      BY Zenon, <1>1, <1>3, <2>1, <2>2, <2>3, GoroutineStep
  <1> QED
    BY <1>4, <1>5

LEMMA SubSaveIInv ==
  ASSUME IInv, NEW k \in Kinds, SubSave(k) PROVE IInv'
  <1>1. /\ sub[k].pc = "save" /\ sub[k] \in Windows /\ Types
        /\ UNCHANGED <<setup, chain, diskIncluded, snap, final, up, cache, included, incl>>
        /\ UNCHANGED <<last, tick, posted, daTip>>
        /\ diskLast' = [diskLast EXCEPT ![k] = sub[k].top]
        /\ sub' = [sub EXCEPT ![k] = NextWindow(sub[k])]
    BY Zenon, LoopFacts DEF SubSave, layer
  <1>2. /\ sub[k].top \in Nat /\ sub[k].top <= Height /\ SettledTo(k, sub[k].top)
        /\ Gapless(k, sub[k].rest)
    BY Zenon, <1>1, LoopFacts DEF WindowInv, Windows
  <1>3. /\ posted \subseteq posted' /\ daTip' \in Nat /\ daTip <= daTip'
        /\ posted' \subseteq Kinds \X (1..Height) \X (1..daTip')
    BY <1>1, LoopFacts
  <1>4. PICK w \in Windows : w = NextWindow(sub[k]) /\ WindowInv(k, w)
    BY Zenon, <1>1, <1>2, NextWindowFacts
  <1>5. sub' \in [Kinds -> Windows]
    BY Zenon, <1>1, <1>4, LoopFacts
  <1>6. \A j \in Kinds : \A v \in Windows : v = sub'[j] => WindowInv(j, v)
    BY Zenon, <1>1, <1>4, LoopFacts
  <1>7. diskLast' \in [Kinds -> Nat]
    BY Zenon, <1>1, <1>2, LoopFacts
  <1>8. \A j \in Kinds : diskLast'[j] <= Height /\ SettledTo(j, diskLast'[j])
    BY Zenon, <1>1, <1>2, LoopFacts
  <1> QED
    BY Zenon, <1>1, <1>3, <1>5, <1>6, <1>7, <1>8, LoopFacts, LoopStep

-----------------------------------------------------------------------------
\* The fields of a cache after each of its operations.
LEMMA CacheFacts ==
  ASSUME NEW c, IsCache(c)
  PROVE  /\ \A da : /\ IsCache(setMaxDAHeight(c, da))
                    /\ setMaxDAHeight(c, da).hashByHeight = c.hashByHeight
                    /\ setMaxDAHeight(c, da).daIncluded = c.daIncluded
         /\ \A key, da, h : /\ IsCache(setDAIncluded(c, key, da, h))
                            /\ setDAIncluded(c, key, da, h).hashByHeight
                                 = Put(c.hashByHeight, h, key)
         /\ \A h : /\ IsCache(deleteAllForHeight(c, h))
                   /\ DOMAIN deleteAllForHeight(c, h).hashByHeight
                        = DOMAIN c.hashByHeight \ {h}
  <1>1. ASSUME NEW e, IsCache(e), NEW da
        PROVE  /\ IsCache(setMaxDAHeight(e, da))
               /\ setMaxDAHeight(e, da).hashByHeight = e.hashByHeight
               /\ setMaxDAHeight(e, da).daIncluded = e.daIncluded
    BY <1>1 DEF setMaxDAHeight, IsCache
  <1>3. ASSUME NEW key, NEW da, NEW h
        PROVE  /\ IsCache(setDAIncluded(c, key, da, h))
               /\ setDAIncluded(c, key, da, h).hashByHeight = Put(c.hashByHeight, h, key)
    <2> DEFINE stale == IF h \in DOMAIN c.hashByHeight THEN {c.hashByHeight[h]} \ {key} ELSE {}
               a == Put([x \in DOMAIN c.daIncluded \ stale |-> c.daIncluded[x]], key, da)
               b == Put(c.hashByHeight, h, key)
               e == [c EXCEPT !.daIncluded = a, !.hashByHeight = b]
    <2>1. setDAIncluded(c, key, da, h) = setMaxDAHeight(e, da)
      BY DEF setDAIncluded
    <2> HIDE DEF a, b
    <2>2. IsCache(e) /\ e.hashByHeight = b
      BY Zenon DEF IsCache
    <2> HIDE DEF e
    <2>3. IsCache(setMaxDAHeight(e, da)) /\ setMaxDAHeight(e, da).hashByHeight = b
      BY <1>1, <2>2
    <2> QED
      BY <2>1, <2>3 DEF b
  <1>4. ASSUME NEW h
        PROVE  /\ IsCache(deleteAllForHeight(c, h))
               /\ DOMAIN deleteAllForHeight(c, h).hashByHeight = DOMAIN c.hashByHeight \ {h}
    <2>1. CASE h \notin DOMAIN c.hashByHeight
      BY <2>1 DEF deleteAllForHeight
    <2>2. CASE h \in DOMAIN c.hashByHeight
      <3> DEFINE k == c.hashByHeight[h]
                 a == c.seen \ {k}
                 b == Without(c.daIncluded, k)
                 d == Without(c.hashByHeight, h)
                 e == [c EXCEPT !.seen = a, !.daIncluded = b, !.hashByHeight = d]
      <3>1. deleteAllForHeight(c, h) = e /\ DOMAIN d = DOMAIN c.hashByHeight \ {h}
        BY <2>2 DEF deleteAllForHeight, Without
      <3> HIDE DEF a, b, d
      <3>2. IsCache(e) /\ e.hashByHeight = d
        BY Zenon DEF IsCache
      <3> QED
        BY <3>1, <3>2
    <2> QED
      BY <2>1, <2>2
  <1> QED
    BY <1>1, <1>3, <1>4

\* A step that leaves the chain and the DA layer alone keeps what is settled.
LEMMA SameSettled ==
  ASSUME UNCHANGED <<chain, posted, daTip>>
  PROVE  /\ Height' = Height
         /\ \A k, h : /\ Needs(k, h)' <=> Needs(k, h)
                      /\ OnDA(k, h)' <=> OnDA(k, h)
                      /\ Settled(k, h)' <=> Settled(k, h)
         /\ \A k, n : SettledTo(k, n)' <=> SettledTo(k, n)
         /\ \A k, hs : Gapless(k, hs)' <=> Gapless(k, hs)
         /\ \A k, s : WindowInv(k, s)' <=> WindowInv(k, s)
  <1>1. Height' = Height
    BY DEF Height
  <1>2. \A k, h : /\ Needs(k, h)' <=> Needs(k, h)
                  /\ OnDA(k, h)' <=> OnDA(k, h)
    BY DEF Needs, OnDA
  <1>3. \A k, h : Settled(k, h)' <=> Settled(k, h)
    BY <1>2 DEF Settled
  <1>4. \A k, n : SettledTo(k, n)' <=> SettledTo(k, n)
    BY <1>3 DEF SettledTo
  <1>5. \A k, hs : Gapless(k, hs)' <=> Gapless(k, hs)
    BY ZenonT(40), <1>1, <1>2, <1>3 DEF Gapless
  <1>6. \A k, s : WindowInv(k, s)' <=> WindowInv(k, s)
    BY <1>1, <1>2, <1>4, <1>5 DEF WindowInv
  <1> QED
    BY <1>1, <1>2, <1>3, <1>4, <1>5, <1>6

\* So does one that leaves the loop and its goroutines alone.
LEMMA SameLoop ==
  ASSUME IInv, UNCHANGED <<chain, posted, daTip, last, diskLast, sub, tick>>
  PROVE  LoopInv'
  <1>1. LoopInv
    BY SMTT(30) DEF IInv
  <1>2. ASSUME NEW k \in Kinds
        PROVE  SettledTo(k, last[k])' /\ SettledTo(k, diskLast[k])' /\ WindowInv(k, sub[k])'
    <2>1. PICK s \in Windows : s = sub[k]
      BY Zenon DEF IInv, Types
    <2>2. WindowInv(k, s)'
      BY Zenon, <1>1, <2>1, SameSettled DEF LoopInv
    <2>3. WindowInv(k, sub[k])'
      BY Zenon, <2>1, <2>2 DEF WindowInv
    <2>4. SettledTo(k, last[k])' /\ SettledTo(k, diskLast[k])'
      BY Zenon, <1>1, SameSettled DEF LoopInv, SettledTo
    <2> QED
      BY <2>3, <2>4
  <1>3. tick'.pc # "idle" => tick'.h <= Height' /\ SettledTo("data", tick.h)'
    BY <1>1, SameSettled DEF LoopInv, SettledTo, Settled
  <1> QED
    BY <1>2, <1>3 DEF LoopInv

\* And the caches, and the inclusion loop.
LEMMA SameCaches ==
  ASSUME IInv, UNCHANGED <<chain, posted, daTip, cache, snap>>
  PROVE  CacheInv'
  BY Zenon, SameSettled DEF IInv, CacheInv

LEMMA SameInclusion ==
  ASSUME IInv, UNCHANGED <<chain, posted, daTip, up, incl, included, diskIncluded, final>>
  PROVE  InclusionInv'
  <1>1. InclusionInv
    BY Zenon DEF IInv
  <1>2. \A k \in Kinds : SettledTo(k, diskIncluded)' /\ SettledTo(k, final)'
    BY <1>1, SameSettled DEF InclusionInv, SettledTo
  <1>3. \A k \in Kinds : Settled(k, included + 1) => Settled(k, included + 1)'
    BY DEF Settled, Needs, OnDA
  <1> QED
    BY <1>1, <1>2, <1>3, SameSettled DEF InclusionInv

LEMMA ProduceIInv == IInv /\ Produce => IInv'
  <1> SUFFICES ASSUME IInv, Produce PROVE IInv'
    BY Zenon
  <1>1. PICK c : /\ c \in {Empty, Height + 1}
                      \cup {chain[h] : h \in IF setup.mayRepeat THEN 1..Height ELSE {}}
                 /\ chain' = Append(chain, c)
    BY Zenon DEF Produce
  <1>2. /\ UNCHANGED <<setup, diskLast, diskIncluded, snap, posted, daTip, final, up, last>>
        /\ UNCHANGED <<cache, sub, tick, included, incl>>
    BY Zenon DEF Produce, layer
  <1>3. Types /\ chain \in Seq(Nat) /\ Height \in Nat /\ Height = Len(chain)
    BY Zenon, LoopFacts DEF Types, Height
  <1>4. c \in Nat
    BY SMTT(30), <1>1, <1>3 DEF Empty
  <1>5. Growing
    BY <1>1, <1>2, <1>3, <1>4 DEF Growing, Types
  <1>6. chain' \in Seq(Nat) /\ Height' = Height + 1
    BY <1>1, <1>3, <1>4 DEF Height
  <1>7. 1..Height \subseteq 1..Height' /\ Height <= Height' /\ Height' \in Nat
    BY <1>3, <1>6
  <1>8. \A n \in Nat : n <= Height => n <= Height'
    BY SMTT(30), <1>3, <1>6
  <1>9. Types'
    BY <1>2, <1>3, <1>6, <1>7, <1>8 DEF Types
  <1>10. \A k \in Kinds : \A n \in Nat :
           n <= Height /\ SettledTo(k, n) => n <= Height' /\ SettledTo(k, n)'
    BY <1>3, <1>5, WindowStays
  <1>11. LoopInv'
    <2>1. ASSUME NEW k \in Kinds
          PROVE  SettledTo(k, last[k])' /\ SettledTo(k, diskLast[k])' /\ WindowInv(k, sub[k])'
      <3>1. PICK s \in Windows : s = sub[k]
        BY LoopFacts
      <3>2. WindowInv(k, s)'
        BY Zenon, <1>3, <1>5, <3>1, LoopFacts, WindowStays
      <3>3. WindowInv(k, sub[k])'
        BY Zenon, <1>2, <3>1, <3>2 DEF WindowInv
      <3>4. PICK m \in Nat : m = last[k]
        BY Zenon, LoopFacts
      <3>5. PICK n \in Nat : n = diskLast[k]
        BY Zenon, LoopFacts
      <3>6. SettledTo(k, m)' /\ SettledTo(k, n)'
        BY Zenon, <1>10, <3>4, <3>5, LoopFacts
      <3>7. SettledTo(k, last[k])' /\ SettledTo(k, diskLast[k])'
        BY <1>2, <3>4, <3>5, <3>6 DEF SettledTo
      <3> QED
        BY <3>3, <3>7
    <2>2. ASSUME tick'.pc # "idle"
          PROVE  tick'.h <= Height' /\ SettledTo("data", tick.h)'
      <3>1. PICK n \in Nat : n = tick.h
        BY LoopFacts DEF Ticks
      <3>2. "data" \in Kinds
        BY Zenon DEF Kinds
      <3>3. n <= Height' /\ SettledTo("data", n)'
        BY Zenon, <1>2, <1>10, <2>2, <3>1, <3>2, LoopFacts
      <3> QED
        BY SMTT(30), <1>2, <3>1, <3>3 DEF SettledTo
    <2> QED
      BY SMTT(30), <2>1, <2>2 DEF LoopInv
  <1>12. CacheInv'
    BY Zenon, <1>2, <1>3, <1>5, <1>7, SettledStays DEF IInv, CacheInv
  <1>13. InclusionInv'
    <2>1. InclusionInv /\ included \in Nat /\ diskIncluded \in Nat /\ final \in Nat
      BY <1>3 DEF IInv, Types
    <2>2. incl # "idle" => \A k \in Kinds : Settled(k, included + 1)'
      <3>1. PICK n \in Nat : n = included + 1
        BY <2>1
      <3>2. incl # "idle" => n \in 1..Height
        BY <1>3, <2>1, <3>1 DEF InclusionInv
      <3>3. incl # "idle" => \A k \in Kinds : Settled(k, n)'
        BY <1>3, <1>5, <2>1, <3>1, <3>2, SettledStays DEF InclusionInv
      <3> QED
        BY <1>2, <3>1, <3>3 DEF Settled, Needs, OnDA
    <2>3. /\ diskIncluded' <= Height' /\ final' <= Height'
          /\ \A k \in Kinds : SettledTo(k, diskIncluded)' /\ SettledTo(k, final)'
      <3>1. PICK m \in Nat : m = diskIncluded
        BY <2>1
      <3>2. PICK n \in Nat : n = final
        BY <2>1
      <3>3. /\ m <= Height' /\ n <= Height'
            /\ \A k \in Kinds : SettledTo(k, m)' /\ SettledTo(k, n)'
        BY <1>8, <1>10, <2>1, <3>1, <3>2 DEF InclusionInv
      <3> QED
        BY <1>2, <3>1, <3>2, <3>3 DEF SettledTo
    <2>4. incl # "idle" => up /\ included + 1 <= Height'
      BY <1>8, <2>1 DEF InclusionInv
    <2> QED
      BY Zenon, <1>2, <2>1, <2>2, <2>3, <2>4 DEF InclusionInv
  <1> QED
    BY <1>9, <1>11, <1>12, <1>13 DEF IInv

LEMMA MarkIInv ==
  ASSUME IInv, NEW k \in Kinds, Mark(k) PROVE IInv'
  <1>1. PICK h \in sub[k].todo :
          /\ cache' = [cache EXCEPT ![k] = setDAIncluded(cache[k], Key(k, h), sub[k].da, h)]
          /\ sub' = [sub EXCEPT ![k] = [sub[k] EXCEPT !.todo = sub[k].todo \ {h}]]
    BY Zenon, LoopFacts DEF Mark, IInv, Types
  <1>2. /\ sub[k].pc = "mark" /\ sub[k] \in Windows /\ Types
        /\ UNCHANGED <<setup, chain, diskLast, diskIncluded, snap, posted, daTip, final, up>>
        /\ UNCHANGED <<last, tick, included, incl>>
    BY LoopFacts DEF Mark, layer
  <1>3. /\ h \in 1..Height /\ <<k, h, sub[k].da>> \in posted /\ sub[k].todo \in SUBSET Nat
        /\ WindowInv(k, sub[k])
    BY <1>1, <1>2, LoopFacts DEF WindowInv, Windows
  <1>4. OnDA(k, h)
    BY Zenon, <1>2, <1>3 DEF OnDA, Types
  <1>5. PICK w \in Windows : w = [sub[k] EXCEPT !.todo = sub[k].todo \ {h}] /\ WindowInv(k, w)
    <2>1. PICK hs \in SUBSET Nat : hs = sub[k].todo \ {h}
      BY Zenon, <1>3
    <2>2. [sub[k] EXCEPT !.todo = hs] \in Windows
      BY <1>2 DEF Windows
    <2>3. LET v == [sub[k] EXCEPT !.todo = hs]
          IN  /\ v.pc = sub[k].pc /\ v.rest = sub[k].rest /\ v.top = sub[k].top
              /\ v.todo = hs /\ v.da = sub[k].da
      BY <1>2 DEF Windows
    <2>4. PICK v \in Windows :
            /\ v = [sub[k] EXCEPT !.todo = hs]
            /\ v.pc = sub[k].pc /\ v.rest = sub[k].rest /\ v.top = sub[k].top
            /\ v.todo = hs /\ v.da = sub[k].da
      BY ZenonT(30), <2>2, <2>3
    <2>5. WindowInv(k, v)
      BY <1>2, <1>3, <2>1, <2>4 DEF WindowInv
    <2> QED
      BY <2>1, <2>4, <2>5
  <1>6. sub' = [sub EXCEPT ![k] = w] /\ sub' \in [Kinds -> Windows]
    BY Zenon, <1>1, <1>5, LoopFacts
  <1>7. LoopInv'
    <2>1. ASSUME NEW j \in Kinds PROVE WindowInv(j, sub[j])'
      <3>1. PICK v \in Windows : v = sub'[j]
        BY <1>6
      <3>2. WindowInv(j, v)
        BY Zenon, <1>5, <1>6, <3>1, LoopFacts
      <3>3. WindowInv(j, v)'
        BY Zenon, <1>2, <3>2, SameSettled
      <3> QED
        BY Zenon, <3>1, <3>3 DEF WindowInv
    <2>2. \A j \in Kinds : SettledTo(j, last[j])' /\ SettledTo(j, diskLast[j])'
      BY Zenon, <1>2, SameSettled, LoopFacts DEF SettledTo
    <2>3. tick'.pc # "idle" => tick'.h <= Height' /\ SettledTo("data", tick.h)'
      BY Zenon, <1>2, SameSettled, LoopFacts DEF SettledTo
    <2> QED
      BY Zenon, <2>1, <2>2, <2>3 DEF LoopInv
  <1>8. /\ \A j \in Kinds : IsCache(cache'[j]) /\ cache' = [i \in Kinds |-> cache'[i]]
        /\ \A j \in Kinds : DOMAIN cache'[j].hashByHeight \subseteq
             DOMAIN cache[j].hashByHeight \cup (IF j = k THEN {h} ELSE {})
    <2>1. IsCache(cache[k]) /\ cache = [i \in Kinds |-> cache[i]]
      BY <1>2 DEF Types
    <2>2. PICK c : c = setDAIncluded(cache[k], Key(k, h), sub[k].da, h)
      BY Zenon
    <2>3. IsCache(c) /\ c.hashByHeight = Put(cache[k].hashByHeight, h, Key(k, h))
      BY <2>1, <2>2, CacheFacts
    <2>4. DOMAIN c.hashByHeight = DOMAIN cache[k].hashByHeight \cup {h}
      BY Zenon, <2>3 DEF Put
    <2>5. cache' = [cache EXCEPT ![k] = c]
      BY <1>1, <2>2
    <2>6. \A j \in Kinds : cache'[j] = IF j = k THEN c ELSE cache[j]
      BY <2>1, <2>5
    <2>7. cache' = [i \in Kinds |-> cache'[i]]
      BY Zenon, <2>1, <2>5
    <2>8. \A j \in Kinds : IsCache(cache[j])
      BY Zenon, <1>2 DEF Types
    <2> QED
      BY Zenon, <2>3, <2>4, <2>6, <2>7, <2>8
  <1>9. CacheInv'
    BY SMTT(30), <1>2, <1>3, <1>4, <1>8, SameSettled DEF IInv, CacheInv
  <1>10. InclusionInv'
    BY <1>2, SameInclusion
  <1>11. Types'
    BY Zenon, <1>2, <1>6, <1>8 DEF Types, Height
  <1> QED
    BY <1>7, <1>9, <1>10, <1>11 DEF IInv

-----------------------------------------------------------------------------
\* The inclusion loop: a height that the caches know is on the DA layer.
LEMMA IncludedOnDA ==
  ASSUME IInv, NEW h \in Nat, IsHeightDAIncluded(h)
  PROVE  \A k \in Kinds : Settled(k, h)
  <1> SUFFICES ASSUME NEW k \in Kinds, Needs(k, h) PROVE OnDA(k, h)
    BY Zenon DEF Settled
  <1>1. h \in DOMAIN cache[k].hashByHeight
    BY Zenon DEF IsHeightDAIncluded, getDAIncludedByHeight
  <1> QED
    BY <1>1 DEF IInv, CacheInv

LEMMA MapHeightIInv == IInv /\ MapHeight => IInv'
  <1> SUFFICES ASSUME IInv, MapHeight PROVE IInv'
    BY Zenon
  <1>1. /\ up /\ incl = "idle" /\ incl' = "mapped" /\ included + 1 <= Height
        /\ IsHeightDAIncluded(included + 1)
        /\ UNCHANGED <<setup, chain, diskLast, diskIncluded, snap, posted, daTip, final, up>>
        /\ UNCHANGED <<last, cache, sub, tick, included>>
        /\ Types /\ InclusionInv /\ included \in Nat
    BY Zenon DEF MapHeight, layer, IInv, Types
  <1>2. \A k \in Kinds : Settled(k, included + 1)
    BY <1>1, IncludedOnDA
  <1>3. InclusionInv'
    <2>1. \A k \in Kinds : Settled(k, included + 1)'
      BY Zenon, <1>1, <1>2 DEF Settled, Needs, OnDA
    <2>2. \A k \in Kinds : SettledTo(k, diskIncluded)' /\ SettledTo(k, final)'
      BY <1>1, SameSettled DEF InclusionInv, SettledTo
    <2>3. Height' = Height
      BY Zenon, <1>1 DEF Height
    <2> QED
      BY Zenon, <1>1, <2>1, <2>2, <2>3 DEF InclusionInv
  <1>4. Types'
    BY Zenon, <1>1 DEF Types, Height
  <1> QED
    BY <1>1, <1>3, <1>4, SameLoop, SameCaches DEF IInv

LEMMA SetFinalIInv == IInv /\ SetFinal => IInv'
  <1> SUFFICES ASSUME IInv, SetFinal PROVE IInv'
    OBVIOUS
  <1>1. /\ up /\ incl = "mapped" /\ incl' = "final" /\ final' = included + 1
        /\ UNCHANGED <<setup, chain, diskLast, diskIncluded, snap, posted, daTip, up>>
        /\ UNCHANGED <<last, cache, sub, tick, included>>
        /\ Types /\ InclusionInv /\ included \in Nat /\ diskIncluded = included
    BY Zenon DEF SetFinal, layer, IInv, Types, InclusionInv
  <1>2. \A k \in Kinds : SettledTo(k, included + 1)
    <2>1. \A h \in 1..(included + 1) : h \in 1..included \/ h = included + 1
      BY <1>1
    <2> QED
      BY <1>1, <2>1 DEF InclusionInv, SettledTo
  <1>3. InclusionInv'
    <2>1. \A k \in Kinds : Settled(k, included + 1)'
      BY Zenon, <1>1 DEF Settled, Needs, OnDA, InclusionInv
    <2>2. \A k \in Kinds : SettledTo(k, diskIncluded)' /\ SettledTo(k, final)'
      BY <1>1, <1>2, SameSettled DEF InclusionInv, SettledTo
    <2>3. Height' = Height
      BY Zenon, <1>1 DEF Height
    <2> QED
      BY Zenon, <1>1, <2>1, <2>2, <2>3 DEF InclusionInv
  <1>4. Types'
    BY SMTT(30), <1>1 DEF Types, Height
  <1> QED
    BY Zenon, <1>1, <1>3, <1>4, SameLoop, SameCaches DEF IInv

LEMMA SaveIncludedIInv == IInv /\ SaveIncluded => IInv'
  <1> SUFFICES ASSUME IInv, SaveIncluded PROVE IInv'
    OBVIOUS
  <1>1. /\ up /\ incl = "final" /\ incl' = "saved" /\ diskIncluded' = included + 1
        /\ UNCHANGED <<setup, chain, diskLast, snap, posted, daTip, final, up>>
        /\ UNCHANGED <<last, cache, sub, tick, included>>
        /\ Types /\ InclusionInv /\ included \in Nat /\ diskIncluded = included
    BY Zenon DEF SaveIncluded, layer, IInv, Types, InclusionInv
  <1>2. \A k \in Kinds : SettledTo(k, included + 1)
    <2>1. \A h \in 1..(included + 1) : h \in 1..included \/ h = included + 1
      BY <1>1
    <2> QED
      BY SMTT(30), <1>1, <2>1 DEF InclusionInv, SettledTo
  <1>3. InclusionInv'
    <2>1. \A k \in Kinds : Settled(k, included + 1)'
      BY Zenon, <1>1 DEF Settled, Needs, OnDA, InclusionInv
    <2>2. \A k \in Kinds : SettledTo(k, diskIncluded)' /\ SettledTo(k, final)'
      BY <1>1, <1>2, SameSettled DEF InclusionInv, SettledTo
    <2>3. Height' = Height
      BY Zenon, <1>1 DEF Height
    <2> QED
      BY Zenon, <1>1, <2>1, <2>2, <2>3 DEF InclusionInv
  <1>4. Types'
    BY SMTT(30), <1>1 DEF Types, Height
  <1> QED
    BY Zenon, <1>1, <1>3, <1>4, SameLoop, SameCaches DEF IInv

LEMMA AdvanceIncludedIInv == IInv /\ AdvanceIncluded => IInv'
  <1> SUFFICES ASSUME IInv, AdvanceIncluded PROVE IInv'
    OBVIOUS
  <1>1. /\ up /\ incl = "saved" /\ incl' = "idle" /\ included' = included + 1
        /\ cache' = [k \in Kinds |-> deleteAllForHeight(cache[k], included + 1)]
        /\ UNCHANGED <<setup, chain, diskLast, diskIncluded, snap, posted, daTip, final, up>>
        /\ UNCHANGED <<last, sub, tick>>
        /\ Types /\ InclusionInv /\ included \in Nat /\ diskIncluded = included + 1
    BY Zenon DEF AdvanceIncluded, DeleteHeight, layer, IInv, Types, InclusionInv
  <1>2. InclusionInv'
    <2>1. \A k \in Kinds : SettledTo(k, diskIncluded)' /\ SettledTo(k, final)'
      BY <1>1, SameSettled DEF InclusionInv, SettledTo
    <2>2. Height' = Height
      BY Zenon, <1>1 DEF Height
    <2> QED
      BY Zenon, <1>1, <2>1, <2>2 DEF InclusionInv
  <1>3. \A k \in Kinds : /\ IsCache(cache'[k])
                         /\ DOMAIN cache'[k].hashByHeight \subseteq DOMAIN cache[k].hashByHeight
    <2>1. \A k \in Kinds : /\ IsCache(cache[k])
                           /\ cache'[k] = deleteAllForHeight(cache[k], included + 1)
      BY SMTT(30), <1>1 DEF Types
    <2>2. ASSUME NEW c, IsCache(c)
          PROVE  /\ IsCache(deleteAllForHeight(c, included + 1))
                 /\ DOMAIN deleteAllForHeight(c, included + 1).hashByHeight
                      \subseteq DOMAIN c.hashByHeight
      BY <2>2, CacheFacts
    <2> QED
      BY Zenon, <2>1, <2>2
  <1>4. CacheInv'
    BY Zenon, <1>1, <1>3, SameSettled DEF IInv, CacheInv
  <1>5. Types'
    BY SMTT(30), <1>1, <1>3 DEF Types, Height
  <1> QED
    BY Zenon, <1>1, <1>2, <1>4, <1>5, SameLoop DEF IInv

-----------------------------------------------------------------------------
\* The memory of a new process.
LEMMA Beginnings ==
  /\ Idle \in Windows /\ Idle.pc = "idle"
  /\ NoTick \in Ticks /\ NoTick.pc = "idle"
  /\ IsCache(NewCache) /\ DOMAIN NewCache.hashByHeight = {}
  <1>1. Idle \in Windows /\ Idle.pc = "idle"
    <2>1. 0 \in Nat /\ {} \in SUBSET Nat
      OBVIOUS
    <2> QED
      BY ONLY Zenon, <2>1, NewWindow
  <1>2. NoTick \in Ticks /\ NoTick.pc = "idle"
    BY SMTT(30) DEF NoTick, Ticks
  <1>3. IsCache(NewCache)
    BY SMTT(30) DEF IsCache, NewCache
  <1>4. DOMAIN NewCache.hashByHeight = {}
    BY DEF NewCache
  <1> QED
    BY <1>1, <1>2, <1>3, <1>4

\* The node goes down, with or without saving its caches.
LEMMA DownIInv ==
  ASSUME IInv, Down, SaveToStore \/ UNCHANGED snap
  PROVE  IInv'
  <1>1. /\ up' = FALSE /\ incl' = "idle" /\ included' = 0
        /\ last' = [k \in Kinds |-> 0] /\ cache' = [k \in Kinds |-> NewCache]
        /\ sub' = [k \in Kinds |-> Idle] /\ tick' = NoTick
        /\ UNCHANGED <<setup, chain, diskLast, diskIncluded, posted, daTip, final>>
        /\ Types /\ LoopInv /\ CacheInv /\ InclusionInv
    BY DEF Down, layer, IInv
  <1>2. Idle \in Windows /\ Idle.pc = "idle"
    BY Beginnings
  <1>3. NoTick \in Ticks /\ NoTick.pc = "idle"
    BY Beginnings
  <1>4. IsCache(NewCache) /\ DOMAIN NewCache.hashByHeight = {}
    BY Zenon, Beginnings
  <1>5. snap' = [k \in Kinds |-> snap'[k]]
    BY Zenon, <1>1 DEF SaveToStore, Types
  <1>6. Height' = Height /\ Height \in Nat
    BY Zenon, <1>1, LoopFacts DEF Height
  <1>7. Types'
    <2>1. last' \in [Kinds -> Nat] /\ \A k \in Kinds : last'[k] <= Height'
      BY <1>1, <1>6
    <2>2. sub' \in [Kinds -> Windows] /\ tick' \in Ticks
      BY <1>1, <1>2, <1>3
    <2>3. cache' = [k \in Kinds |-> cache'[k]] /\ \A k \in Kinds : IsCache(cache'[k])
      BY <1>1, <1>4
    <2>4. included' \in Nat /\ incl' \in {"idle", "mapped", "final", "saved"} /\ up' \in BOOLEAN
      BY Zenon, <1>1
    <2> QED
      BY <1>1, <1>5, <1>6, <2>1, <2>2, <2>3, <2>4 DEF Types
  <1>8. LoopInv'
    <2>1. ASSUME NEW k \in Kinds
          PROVE  SettledTo(k, last[k])' /\ SettledTo(k, diskLast[k])' /\ WindowInv(k, sub[k])'
      <3>1. WindowInv(k, sub[k])'
        BY Zenon, <1>1, <1>2 DEF WindowInv
      <3>2. SettledTo(k, last[k])'
        BY SMTT(30), <1>1 DEF SettledTo
      <3>3. SettledTo(k, diskLast[k])'
        BY <1>1, SameSettled DEF LoopInv, SettledTo
      <3> QED
        BY <3>1, <3>2, <3>3
    <2> QED
      BY Zenon, <1>1, <1>3, <2>1 DEF LoopInv
  <1>9. CacheInv'
    <2>1. \A k \in Kinds : DOMAIN cache'[k].hashByHeight = {}
      BY <1>1, <1>4
    <2>2. \A k \in Kinds : DOMAIN snap'[k] \subseteq DOMAIN snap[k] \cup DOMAIN cache[k].hashByHeight
      BY ZenonT(30) DEF SaveToStore, Snapshot
    <2> QED
      BY Zenon, <1>1, <2>1, <2>2, SameSettled DEF CacheInv
  <1>10. InclusionInv'
    <2>1. \A k \in Kinds : SettledTo(k, diskIncluded)' /\ SettledTo(k, final)'
      BY SMTT(30), <1>1, SameSettled DEF InclusionInv, SettledTo
    <2> QED
      BY Zenon, <1>1, <1>6, <2>1 DEF InclusionInv
  <1> QED
    BY Zenon, <1>7, <1>8, <1>9, <1>10 DEF IInv

LEMMA RestartIInv == IInv /\ Restart => IInv'
  <1> SUFFICES ASSUME IInv, Restart PROVE IInv'
    BY Zenon
  <1>1. /\ ~up /\ up' = TRUE /\ last' = diskLast /\ included' = diskIncluded
        /\ cache' = [k \in Kinds |-> SeedDAHeight(Restore(snap[k]), k)]
        /\ UNCHANGED <<setup, chain, diskLast, diskIncluded, posted, daTip, final, snap>>
        /\ UNCHANGED <<sub, tick, incl>>
        /\ Types /\ LoopInv /\ CacheInv /\ InclusionInv
    BY Zenon DEF Restart, InitPending, layer, IInv
  <1>2. incl = "idle"
    BY Zenon, <1>1 DEF InclusionInv
  <1>3. ASSUME NEW k \in Kinds
        PROVE  IsCache(cache'[k]) /\ DOMAIN cache'[k].hashByHeight = DOMAIN snap[k]
    <2>1. IsCache(Restore(snap[k])) /\ DOMAIN Restore(snap[k]).hashByHeight = DOMAIN snap[k]
      BY Zenon DEF Restore, IsCache
    <2>2. PICK c : c = Restore(snap[k])
      OBVIOUS
    <2>3. CASE diskIncluded \in DOMAIN daHeights[k]
      <3>1. PICK d : d = daHeights[k][diskIncluded]
        OBVIOUS
      <3>2. SeedDAHeight(c, k) = setMaxDAHeight(c, d)
        BY Zenon, <2>3, <3>1 DEF SeedDAHeight
      <3>3. IsCache(c)
        BY Zenon, <2>1, <2>2
      <3>4. IsCache(setMaxDAHeight(c, d)) /\ setMaxDAHeight(c, d).hashByHeight = c.hashByHeight
        BY ONLY ZenonT(40), <3>3, CacheFacts
      <3> QED
        BY Zenon, <1>1, <2>1, <2>2, <3>2, <3>4
    <2>4. CASE diskIncluded \notin DOMAIN daHeights[k]
      <3>1. SeedDAHeight(c, k) = c
        BY <2>4 DEF SeedDAHeight
      <3> QED
        BY <1>1, <2>1, <2>2, <3>1
    <2> QED
      BY <2>3, <2>4
  <1>4. Height' = Height
    BY Zenon, <1>1 DEF Height
  <1>5. Types'
    <2>1. last' \in [Kinds -> Nat] /\ \A k \in Kinds : last'[k] <= Height'
      BY Zenon, <1>1, <1>4, LoopFacts
    <2>2. cache' = [k \in Kinds |-> cache'[k]]
      BY Zenon, <1>1
    <2>3. \A k \in Kinds : IsCache(cache'[k])
      BY Zenon, <1>3
    <2> QED
      BY SMTT(30), <1>1, <1>4, <2>1, <2>2, <2>3 DEF Types
  <1>6. LoopInv'
    <2>1. ASSUME NEW k \in Kinds
          PROVE  SettledTo(k, last[k])' /\ SettledTo(k, diskLast[k])' /\ WindowInv(k, sub[k])'
      <3>1. PICK s \in Windows : s = sub[k]
        BY Zenon, LoopFacts
      <3>2. WindowInv(k, s)'
        BY <1>1, <3>1, SameSettled DEF LoopInv
      <3>3. WindowInv(k, sub[k])'
        BY Zenon, <1>1, <3>1, <3>2 DEF WindowInv
      <3>4. SettledTo(k, last[k])' /\ SettledTo(k, diskLast[k])'
        BY Zenon, <1>1, SameSettled DEF LoopInv, SettledTo
      <3> QED
        BY Zenon, <3>3, <3>4
    <2>2. tick'.pc # "idle" => tick'.h <= Height' /\ SettledTo("data", tick.h)'
      BY <1>1, SameSettled DEF LoopInv, SettledTo
    <2> QED
      BY Zenon, <2>1, <2>2 DEF LoopInv
  <1>7. CacheInv'
    BY Zenon, <1>1, <1>3, SameSettled DEF CacheInv
  <1>8. InclusionInv'
    <2>1. \A k \in Kinds : SettledTo(k, diskIncluded)' /\ SettledTo(k, final)'
      BY <1>1, SameSettled DEF InclusionInv, SettledTo
    <2> QED
      BY Zenon, <1>1, <1>2, <1>4, <2>1 DEF InclusionInv
  <1> QED
    BY <1>5, <1>6, <1>7, <1>8 DEF IInv

LEMMA InitIInv == Init => IInv
  <1> SUFFICES ASSUME Init PROVE IInv
    BY Zenon
  <1>1. /\ setup \in SetupType /\ chain = <<>> /\ diskLast = [k \in Kinds |-> 0]
        /\ diskIncluded = 0 /\ snap = [k \in Kinds |-> <<>>] /\ posted = {} /\ daTip = 0
        /\ final = 0 /\ up = TRUE /\ last = [k \in Kinds |-> 0]
        /\ cache = [k \in Kinds |-> NewCache] /\ sub = [k \in Kinds |-> Idle]
        /\ tick = NoTick /\ included = 0 /\ incl = "idle"
    BY SubmissionAssumption DEF Init
  <1>2. Idle \in Windows /\ Idle.pc = "idle"
    BY Beginnings
  <1>3. NoTick \in Ticks /\ NoTick.pc = "idle"
    BY Beginnings
  <1>4. IsCache(NewCache) /\ DOMAIN NewCache.hashByHeight = {} /\ DOMAIN <<>> = {}
    BY Beginnings
  <1>5. chain \in Seq(Nat) /\ Height = 0
    BY SMTT(30), <1>1 DEF Height
  <1>6. Types
    <2>1. /\ last \in [Kinds -> Nat] /\ diskLast \in [Kinds -> Nat]
          /\ \A k \in Kinds : diskLast[k] <= Height /\ last[k] <= Height
      BY <1>1, <1>5
    <2>2. sub \in [Kinds -> Windows] /\ tick \in Ticks
      BY Zenon, <1>1, <1>2, <1>3
    <2>3. /\ cache = [k \in Kinds |-> cache[k]] /\ \A k \in Kinds : IsCache(cache[k])
          /\ snap = [k \in Kinds |-> snap[k]]
      BY Zenon, <1>1, <1>4
    <2> QED
      BY Zenon, <1>1, <1>5, <2>1, <2>2, <2>3 DEF Types
  <1>7. LoopInv
    <2>1. \A k \in Kinds : WindowInv(k, sub[k])
      BY Zenon, <1>1, <1>2 DEF WindowInv
    <2>2. \A k \in Kinds : SettledTo(k, last[k]) /\ SettledTo(k, diskLast[k])
      BY SMTT(30), <1>1 DEF SettledTo
    <2> QED
      BY Zenon, <1>1, <1>3, <2>1, <2>2 DEF LoopInv
  <1>8. CacheInv
    BY Zenon, <1>1, <1>4 DEF CacheInv
  <1>9. InclusionInv
    BY <1>1, <1>5 DEF InclusionInv, SettledTo
  <1> QED
    BY <1>6, <1>7, <1>8, <1>9 DEF IInv

LEMMA StepIInv == IInv /\ [Next]_vars => IInv'
  <1> SUFFICES ASSUME IInv, [Next]_vars PROVE IInv'
    BY Zenon
  <1>1. ASSUME NEW k \in Kinds, Goroutine(k) \/ SubmitFails(k) \/ SubmitTooBig(k)
        PROVE  IInv'
    BY <1>1, StartSubmissionIInv, SubmitAcceptedIInv, MarkIInv, SubLoadIInv, SubCasIInv,
       SubSaveIInv, SubmitFailsIInv, SubmitTooBigIInv DEF Goroutine
  <1>2. CASE Produce \/ Loop \/ Inclusion
    BY Zenon, <1>2, ProduceIInv, TickStartIInv, TickCasIInv, TickSaveIInv, MapHeightIInv,
       SetFinalIInv, SaveIncludedIInv, AdvanceIncludedIInv DEF Loop, Inclusion
  <1>3. CASE Stop \/ CriticalError \/ Crash
    BY Zenon, <1>3, DownIInv DEF Stop, CriticalError, Crash
  <1>4. CASE UNCHANGED vars
    <2>1. /\ UNCHANGED <<setup, chain, diskLast, diskIncluded, snap, posted, daTip, final, up>>
          /\ UNCHANGED <<last, cache, sub, tick, included, incl>>
      BY Zenon, <1>4 DEF vars, layer, meta
    <2>2. Types'
      BY Zenon, <2>1 DEF IInv, Types, Height
    <2> QED
      BY Zenon, <2>1, <2>2, SameLoop, SameCaches, SameInclusion DEF IInv
  <1> QED
    BY <1>1, <1>2, <1>3, <1>4, RestartIInv DEF Next

-----------------------------------------------------------------------------
\* The invariant above holds in every state that the node reaches.
THEOREM SubmissionInvariance == Spec => []IInv
  BY InitIInv, StepIInv, PTL DEF Spec

\* A header or non-empty data at or below the last submitted height, in memory or
\* in the store, is on the DA layer: partial success, halving, lost answers and
\* the race for lastHeight never skip one.
THEOREM SubmittedIsPosted == Spec => []SubmittedOnDA
  <1>1. IInv => SubmittedOnDA
    <2> SUFFICES ASSUME IInv, NEW k \in Kinds, NEW h \in 1..Height,
                        h <= Larger(last[k], diskLast[k]), Needs(k, h)
                 PROVE  OnDA(k, h)
      BY Zenon DEF SubmittedOnDA
    <2>1. last[k] \in Nat /\ diskLast[k] \in Nat /\ Height \in Nat
      BY Zenon, LoopFacts
    <2>2. h \in 1..last[k] \/ h \in 1..diskLast[k]
      BY <2>1 DEF Larger
    <2> QED
      BY Zenon, <2>2, LoopFacts DEF SettledTo, Settled
  <1> QED
    BY <1>1, SubmissionInvariance, PTL

\* Blocks reported final to the execution layer or recorded as included are on
\* the DA layer with header and data.
THEOREM FinalIsPosted == Spec => []FinalOnDA
  <1>1. IInv => FinalOnDA
    <2> SUFFICES ASSUME IInv, NEW h \in 1..Larger(final, diskIncluded), NEW k \in Kinds,
                        Needs(k, h)
                 PROVE  OnDA(k, h)
      BY Zenon DEF FinalOnDA
    <2>1. h \in 1..final \/ h \in 1..diskIncluded
      BY DEF Larger
    <2> QED
      BY <2>1 DEF IInv, InclusionInv, SettledTo, Settled
  <1> QED
    BY <1>1, SubmissionInvariance, PTL

\* lastHeight only grows while the node runs, whoever of the loop and the data
\* goroutine gets there first.
THEOREM LastGrows == Spec => LastNeverBack
  <1> DEFINE Grows == up /\ up' => \A k \in Kinds : last'[k] >= last[k]
  <1>1. IInv /\ [Next]_vars => [Grows]_vars
    <2> SUFFICES ASSUME IInv, Next, up, up' PROVE \A k \in Kinds : last'[k] >= last[k]
      OBVIOUS
    <2>1. last \in [Kinds -> Nat] /\ tick \in Ticks /\ sub \in [Kinds -> Windows]
      BY Zenon, LoopFacts
    <2>2. CASE UNCHANGED last
      BY <2>1, <2>2
    <2>3. CASE TickCas
      <3>1. CASE Swaps("data", tick.lsh, tick.h)
        <4>1. last' = [last EXCEPT !["data"] = tick.h] /\ tick.h > last["data"]
          BY <2>3, <3>1 DEF TickCas, Swaps
        <4>2. tick.h \in Nat
          BY <2>1 DEF Ticks
        <4> QED
          BY <2>1, <4>1, <4>2
      <3> QED
        BY <2>2, <2>3, <3>1 DEF TickCas
    <2>4. ASSUME NEW k \in Kinds, SubCas(k) PROVE \A j \in Kinds : last'[j] >= last[j]
      <3>1. CASE Swaps(k, sub[k].lsh, sub[k].top)
        <4>1. last' = [last EXCEPT ![k] = sub[k].top] /\ sub[k].top > last[k]
          BY <2>4, <3>1 DEF SubCas, Swaps
        <4>2. sub[k].top \in Nat
          BY <2>1 DEF Windows
        <4> QED
          BY <2>1, <4>1, <4>2
      <3> QED
        BY Zenon, <2>2, <2>4, <3>1 DEF SubCas
    <2>5. ASSUME NEW k \in Kinds, Goroutine(k) \/ SubmitFails(k) \/ SubmitTooBig(k)
          PROVE  UNCHANGED last \/ SubCas(k)
      BY Zenon, <2>5 DEF Goroutine, StartSubmission, SubmitAccepted, Mark, SubLoad, SubSave,
         SubmitFails, SubmitTooBig
    <2>6. CASE Produce \/ Loop \/ Inclusion
      <3>1. UNCHANGED last \/ TickCas
        BY Zenon, <2>6 DEF Produce, Loop, Inclusion, TickStart, TickSave, MapHeight, SetFinal,
           SaveIncluded, AdvanceIncluded
      <3> QED
        BY <2>2, <2>3, <3>1
    <2>7. ~(Stop \/ CriticalError \/ Crash \/ Restart)
      BY DEF Stop, CriticalError, Crash, Restart, Down
    <2> QED
      BY Zenon, <2>2, <2>4, <2>5, <2>6, <2>7 DEF Next
  <1>2. Spec => [][Grows]_vars
    BY <1>1, SubmissionInvariance, PTL DEF Spec
  <1> QED
    BY Zenon, <1>2 DEF LastNeverBack

\* The heights that are on the DA layer with both parts.
Available == {h \in 1..Height : \A k \in Kinds : Needs(k, h) => OnDA(k, h)}

LEMMA AvailableStays ==
  ASSUME IInv, UNCHANGED <<chain, posted, daTip>>
  PROVE  Height' = Height /\ Available' = Available
  BY Zenon, SameSettled DEF Available

\* Every step of the node is one of Finality or leaves it alone.
LEMMA StepFinality == IInv /\ [Next]_vars => [F!FinalityNext]_(F!finalityVars)
  <1> SUFFICES ASSUME IInv, [Next]_vars
               PROVE  F!FinalityNext \/ UNCHANGED <<Height, Available, diskIncluded>>
    BY SMTT(30) DEF F!finalityVars, Available
  <1>1. Types /\ Height \in Nat
    BY LoopFacts
  <1>2. ASSUME UNCHANGED <<chain, posted, daTip, diskIncluded>>
        PROVE  UNCHANGED <<Height, Available, diskIncluded>>
    BY <1>2, AvailableStays
  <1>3. ASSUME NEW k \in Kinds, SubmitAccepted(k) \/ SubmitFails(k)
        PROVE  F!FinalityNext
    <2>1. UNCHANGED <<chain, diskIncluded>> /\ Height' = Height
      BY <1>3 DEF SubmitAccepted, SubmitFails, Height
    <2>2. sub[k].pc = "submit" /\ sub[k].items \subseteq 1..Height /\ sub[k].items \in SUBSET Nat
      BY ZenonT(30), <1>3, LoopFacts DEF SubmitAccepted, SubmitFails, WindowInv, Gapless, Windows
    <2>3. UNCHANGED layer \/ \E hs : hs \subseteq 1..Height /\ Post(k, hs)
      BY Zenon, <1>3, <2>2 DEF SubmitAccepted, SubmitFails, UpTo
    <2>4. Growing
      BY SMTT(30), <1>1, <2>1, <2>3, PostFacts DEF Growing, layer, Types
    <2>5. Available \subseteq Available' /\ Available' \in SUBSET (1..Height)
      BY SMTT(30), <1>1, <2>1, <2>4, SettledStays DEF Available
    <2>6. Available' = Available \cup Available'
      BY Zenon, <2>5
    <2> QED
      BY ZenonT(40), <2>1, <2>5, <2>6 DEF F!FinalityNext, F!BecomeAvailable, Available
  <1>4. CASE Produce
    <2>1. PICK c : chain' = Append(chain, c)
      BY Zenon, <1>4 DEF Produce
    <2>2. UNCHANGED <<posted, daTip, diskIncluded>>
      BY Zenon, <1>4 DEF Produce, layer
    <2>3. Height' = Height + 1 /\ \A h \in 1..Height : chain'[h] = chain[h]
      BY <1>1, <2>1 DEF Types, Height
    <2>4. \A h \in 1..Height' : h \in 1..Height \/ h = Height + 1
      BY <1>1, <2>3
    <2>5. 1..Height \subseteq 1..Height'
      BY SMTT(30), <1>1, <2>3
    <2>6. \A k \in Kinds : \A h \in 1..Height :
            (Needs(k, h)' <=> Needs(k, h)) /\ (OnDA(k, h)' <=> OnDA(k, h))
      BY <2>2, <2>3 DEF Needs, OnDA
    <2>7. Height + 1 \notin Available'
      <3>1. PICK n : n = Height + 1
        OBVIOUS
      <3>2. n \notin 1..Height
        BY <1>1, <3>1
      <3>3. ~OnDA("header", n)'
        BY Zenon, <1>1, <2>2, <3>2 DEF OnDA, Types
      <3>4. Needs("header", n)' /\ "header" \in Kinds
        BY DEF Needs, Kinds
      <3>5. n \notin Available'
        BY <3>3, <3>4 DEF Available
      <3> QED
        BY <3>1, <3>5
    <2>8. Available' = Available
      <3>1. \A h \in 1..Height : h \in Available' <=> h \in Available
        BY Zenon, <2>5, <2>6 DEF Available
      <3> QED
        BY Zenon, <2>4, <2>7, <3>1 DEF Available
    <2> QED
      BY <2>2, <2>3, <2>8 DEF F!FinalityNext, F!ProduceBlock, Available
  <1>5. CASE SaveIncluded
    <2>1. /\ UNCHANGED <<chain, posted, daTip>> /\ diskIncluded' = included + 1
          /\ incl = "final" /\ up
      BY Zenon, <1>5 DEF SaveIncluded, layer
    <2>2. /\ diskIncluded = included /\ included \in Nat /\ included + 1 <= Height
          /\ \A k \in Kinds : Settled(k, included + 1)
      BY Zenon, <2>1 DEF IInv, InclusionInv, Types
    <2>3. diskIncluded + 1 \in Available /\ diskIncluded' = diskIncluded + 1
      BY <1>1, <2>1, <2>2 DEF Available, Settled
    <2> QED
      BY Zenon, <2>1, <2>3, AvailableStays DEF F!FinalityNext, F!Finalise, Available
  <1>6. ASSUME NEW k \in Kinds, Goroutine(k) \/ SubmitTooBig(k), ~SubmitAccepted(k)
        PROVE  UNCHANGED <<chain, posted, daTip, diskIncluded>>
    BY Zenon, <1>6 DEF Goroutine, StartSubmission, Mark, SubLoad, SubCas, SubSave, SubmitTooBig, layer
  <1>7. CASE Loop \/ MapHeight \/ SetFinal \/ AdvanceIncluded
    BY Zenon, <1>2, <1>7 DEF Loop, TickStart, TickCas, TickSave, MapHeight, SetFinal, AdvanceIncluded,
       layer
  <1>8. CASE Stop \/ CriticalError \/ Crash \/ Restart
    BY Zenon, <1>2, <1>8 DEF Stop, CriticalError, Crash, Restart, Down, layer
  <1>9. CASE UNCHANGED vars
    BY <1>2, <1>9 DEF vars, layer
  <1> QED
    BY <1>2, <1>3, <1>4, <1>5, <1>6, <1>7, <1>8, <1>9 DEF Next, Inclusion

\* The aggregator implements the abstract promise of finality: heights become
\* final one after the other, each only once its header and data are on the DA
\* layer, and neither is ever undone, over any crash and restart.
THEOREM FinalityImplemented == Spec => ImplementsFinality
  <1>1. Init => F!FinalityInit
    <2> SUFFICES ASSUME Init PROVE F!FinalityInit
      OBVIOUS
    <2>1. Height = 0
      BY DEF Init, Height
    <2> QED
      BY <2>1 DEF Init, F!FinalityInit
  <1> QED
    BY <1>1, StepFinality, SubmissionInvariance, PTL DEF Spec, ImplementsFinality, F!FinalitySpec

=============================================================================
