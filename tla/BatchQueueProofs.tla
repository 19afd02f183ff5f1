-------------------------- MODULE BatchQueueProofs --------------------------
(***************************************************************************)
(* Proofs about BatchQueue, for every set of batches and every bound: the  *)
(* log always holds the queue, and the queue in memory and log together is *)
(* a durable queue.                                                        *)
(***************************************************************************)
EXTENDS BatchQueue, FiniteSetTheorems, TLAPS

\* The sequence s lists the elements of S in increasing order.
Lists(s, S) ==
  /\ s \in Seq(Int)
  /\ \A i, j \in 1..Len(s) : i < j => s[i] < s[j]
  /\ S = {s[i] : i \in 1..Len(s)}

\* A list and its set.
LEMMA ListsFacts ==
  ASSUME NEW S, NEW s, Lists(s, S)
  PROVE  /\ s \in Seq(Int) /\ Len(s) \in Nat
         /\ \A m, n \in 1..Len(s) : m < n => s[m] < s[n]
         /\ S = {s[m] : m \in 1..Len(s)}
         /\ \A m \in 1..Len(s) : s[m] \in Int
  <1>1. s \in Seq(Int)
    BY DEF Lists
  <1>2. Len(s) \in Nat /\ \A m \in 1..Len(s) : s[m] \in Int
    BY <1>1
  <1> QED
    BY <1>1, <1>2, Zenon DEF Lists

\* The numbers up to n are n numbers.
LEMMA UpTo ==
  ASSUME NEW n \in Nat
  PROVE  IsFiniteSet(1..n) /\ Cardinality(1..n) = n
  <1>1. IsFiniteSet(1..n) /\ Cardinality(1..n) = IF 1 > n THEN 0 ELSE n - 1 + 1
    BY FS_Interval
  <1> QED
    BY <1>1

\* The i-th element of a set of numbers has i - 1 smaller ones.
LEMMA ListsRank ==
  ASSUME NEW S, NEW s, Lists(s, S), NEW i \in 1..Len(s)
  PROVE  Cardinality({j \in S : j < s[i]}) = i - 1
  <1> DEFINE T == {j \in S : j < s[i]}
             f == [m \in 1..(i - 1) |-> s[m]]
  <1>1. /\ s \in Seq(Int) /\ Len(s) \in Nat
        /\ \A m, n \in 1..Len(s) : m < n => s[m] < s[n]
        /\ S = {s[m] : m \in 1..Len(s)}
        /\ \A m \in 1..Len(s) : s[m] \in Int
    BY ListsFacts
  <1>2. \A m \in 1..Len(s) : s[m] < s[i] <=> m < i
    <2> SUFFICES ASSUME NEW m \in 1..Len(s) PROVE s[m] < s[i] <=> m < i
      OBVIOUS
    <2>1. s[m] \in Int /\ s[i] \in Int /\ m \in Int /\ i \in Int
      BY <1>1
    <2>2. m < i => s[m] < s[i]
      BY <1>1
    <2>3. i < m => s[i] < s[m]
      BY <1>1
    <2>4. m < i \/ i < m \/ m = i
      BY <2>1
    <2> QED
      BY <2>1, <2>2, <2>3, <2>4
  <1>3. \A m \in 1..(i - 1) : m \in 1..Len(s) /\ m < i
    BY <1>1
  <1>4. f \in [1..(i - 1) -> T]
    BY <1>1, <1>2, <1>3
  <1>5. \A t \in T : \E m \in 1..(i - 1) : f[m] = t
    <2> SUFFICES ASSUME NEW t \in T PROVE \E m \in 1..(i - 1) : f[m] = t
      OBVIOUS
    <2>1. PICK m \in 1..Len(s) : t = s[m]
      BY <1>1
    <2>2. m < i
      BY <1>2, <2>1
    <2>3. m \in 1..(i - 1)
      BY <1>1, <2>2
    <2> QED
      BY <2>1, <2>3
  <1>6. \A m, n \in 1..(i - 1) : f[m] = f[n] => m = n
    <2> SUFFICES ASSUME NEW m \in 1..(i - 1), NEW n \in 1..(i - 1), s[m] = s[n]
                 PROVE  m = n
      OBVIOUS
    <2>1. m \in 1..Len(s) /\ n \in 1..Len(s) /\ s[m] \in Int /\ s[n] \in Int
      BY <1>1, <1>3
    <2>2. ~(m < n) /\ ~(n < m)
      BY <1>1, <2>1
    <2> QED
      BY <2>1, <2>2
  <1>7. f \in Bijection(1..(i - 1), T)
    BY SMTT(30), <1>4, <1>5, <1>6 DEF Bijection, Injection, IsInjective, Surjection
  <1>8. IsFiniteSet(1..(i - 1)) /\ Cardinality(1..(i - 1)) = i - 1
    <2>1. i - 1 \in Nat
      BY <1>1
    <2> QED
      BY <2>1, UpTo
  <1> QED
    BY <1>7, <1>8, FS_Bijection DEF ExistsBijection

\* A listed set has as many elements as its list.
LEMMA ListsCardinality ==
  ASSUME NEW S, NEW s, Lists(s, S)
  PROVE  IsFiniteSet(S) /\ Cardinality(S) = Len(s)
  <1>1. /\ s \in Seq(Int) /\ Len(s) \in Nat
        /\ \A m, n \in 1..Len(s) : m < n => s[m] < s[n]
        /\ S = {s[m] : m \in 1..Len(s)}
        /\ \A m \in 1..Len(s) : s[m] \in Int
    BY ListsFacts
  <1>2. \A m, n \in 1..Len(s) : s[m] = s[n] => m = n
    <2> SUFFICES ASSUME NEW m \in 1..Len(s), NEW n \in 1..Len(s), s[m] = s[n]
                 PROVE  m = n
      OBVIOUS
    <2>1. ~(m < n) /\ ~(n < m)
      BY <1>1
    <2> QED
      BY <1>1, <2>1
  <1> DEFINE f == [m \in 1..Len(s) |-> s[m]]
  <1>3. f \in Bijection(1..Len(s), S)
    BY <1>1, <1>2 DEF Bijection, Injection, IsInjective, Surjection
  <1>4. IsFiniteSet(1..Len(s)) /\ Cardinality(1..Len(s)) = Len(s)
    BY <1>1, UpTo
  <1> QED
    BY <1>3, <1>4, FS_Bijection DEF ExistsBijection

\* Sorted gives the entries in the order of the list.
LEMMA SortedLists ==
  ASSUME NEW S, NEW s, Lists(s, S)
  PROVE  Sorted(S) = [i \in 1..Len(s) |-> Item(s[i])]
  <1>1. Len(s) \in Nat /\ Cardinality(S) = Len(s) /\ \A i \in 1..Len(s) : s[i] \in S
    BY ListsCardinality, ListsFacts
  <1>2. ASSUME NEW i \in 1..Len(s)
        PROVE  (CHOOSE k \in S : Cardinality({j \in S : j < k}) = i - 1) = s[i]
    <2>1. ASSUME NEW k \in S, Cardinality({j \in S : j < k}) = i - 1
          PROVE  k = s[i]
      <3>1. PICK m \in 1..Len(s) : k = s[m]
        BY DEF Lists
      <3>2. Cardinality({j \in S : j < s[m]}) = m - 1
        BY ListsRank
      <3>3. m - 1 = i - 1
        BY <2>1, <3>1, <3>2
      <3> QED
        BY <1>1, <3>1, <3>3
    <2>2. s[i] \in S /\ Cardinality({j \in S : j < s[i]}) = i - 1
      BY <1>1, ListsRank
    <2> QED
      BY <2>1, <2>2
  <1>3. \A i \in 1..Len(s) :
          Item(CHOOSE k \in S : Cardinality({j \in S : j < k}) = i - 1) = Item(s[i])
    BY Zenon, <1>2
  <1> QED
    BY Zenon, <1>1, <1>3 DEF Sorted

\* A larger element goes to the end of the list,
LEMMA ListsAppend ==
  ASSUME NEW S, NEW s, Lists(s, S), NEW k \in Int, \A x \in S : x < k
  PROVE  Lists(Append(s, k), S \cup {k})
  <1>1. /\ s \in Seq(Int) /\ Len(s) \in Nat
        /\ \A m, n \in 1..Len(s) : m < n => s[m] < s[n]
        /\ S = {s[m] : m \in 1..Len(s)}
    BY ListsFacts
  <1>2. /\ Append(s, k) \in Seq(Int) /\ Len(Append(s, k)) = Len(s) + 1
        /\ Append(s, k)[Len(s) + 1] = k
        /\ \A m \in 1..Len(s) : Append(s, k)[m] = s[m] /\ s[m] < k
    BY <1>1
  <1>3. \A m \in 1..(Len(s) + 1) : m \in 1..Len(s) \/ m = Len(s) + 1
    BY <1>1
  <1>4. \A m, n \in 1..(Len(s) + 1) :
          m < n => Append(s, k)[m] < Append(s, k)[n]
    BY <1>1, <1>2, <1>3
  <1>5. S \cup {k} = {Append(s, k)[m] : m \in 1..(Len(s) + 1)}
    BY <1>1, <1>2, <1>3
  <1> QED
    BY <1>2, <1>4, <1>5 DEF Lists

\* a smaller one to its front,
LEMMA ListsPrepend ==
  ASSUME NEW S, NEW s, Lists(s, S), NEW k \in Int, \A x \in S : k < x
  PROVE  Lists(<<k>> \o s, S \cup {k})
  <1>1. /\ s \in Seq(Int) /\ Len(s) \in Nat
        /\ \A m, n \in 1..Len(s) : m < n => s[m] < s[n]
        /\ S = {s[m] : m \in 1..Len(s)}
    BY ListsFacts
  <1> DEFINE t == <<k>> \o s
  <1>2. /\ t \in Seq(Int) /\ Len(t) = Len(s) + 1 /\ t[1] = k
        /\ \A m \in 1..Len(s) : t[m + 1] = s[m] /\ k < s[m]
    BY <1>1
  <1>3. \A m \in 1..Len(t) :
          m = 1 \/ (m - 1 \in 1..Len(s) /\ t[m] = s[m - 1] /\ k < t[m])
    <2> SUFFICES ASSUME NEW m \in 1..Len(t), m # 1
                 PROVE  m - 1 \in 1..Len(s) /\ t[m] = s[m - 1] /\ k < t[m]
      OBVIOUS
    <2>1. m - 1 \in 1..Len(s) /\ (m - 1) + 1 = m
      BY <1>1, <1>2
    <2> QED
      BY <1>2, <2>1
  <1>4. \A m, n \in 1..Len(t) : m < n => t[m] < t[n]
    <2> SUFFICES ASSUME NEW m \in 1..Len(t), NEW n \in 1..Len(t), m < n
                 PROVE  t[m] < t[n]
      OBVIOUS
    <2>1. n # 1 /\ (m # 1 => m - 1 < n - 1)
      BY <1>1, <1>2
    <2> QED
      BY Zenon, <1>1, <1>2, <1>3, <2>1
  <1>5. S \cup {k} = {t[m] : m \in 1..Len(t)}
    <2>1. \A m \in 1..Len(s) : m + 1 \in 1..Len(t)
      BY <1>1, <1>2
    <2>2. 1 \in 1..Len(t)
      BY <1>1, <1>2
    <2> HIDE DEF t
    <2>3. S \cup {k} \subseteq {t[m] : m \in 1..Len(t)}
      <3>1. \A m \in 1..Len(s) : s[m] \in {t[n] : n \in 1..Len(t)}
        BY Zenon, <1>2, <2>1
      <3> QED
        BY ZenonT(30), <1>1, <1>2, <2>2, <3>1
    <2>4. {t[m] : m \in 1..Len(t)} \subseteq S \cup {k}
      BY SMTT(30), <1>1, <1>2, <1>3
    <2> QED
      BY <2>3, <2>4
  <1> QED
    BY <1>2, <1>4, <1>5 DEF Lists

\* and without its first element a list lists the others.
LEMMA ListsTail ==
  ASSUME NEW S, NEW s, Lists(s, S), s # <<>>
  PROVE  s[1] \in S /\ Lists(Tail(s), S \ {s[1]})
  <1>1. /\ s \in Seq(Int) /\ Len(s) \in Nat /\ Len(s) > 0
        /\ \A m, n \in 1..Len(s) : m < n => s[m] < s[n]
        /\ S = {s[m] : m \in 1..Len(s)}
        /\ \A m \in 1..Len(s) : s[m] \in Int
    BY ListsFacts
  <1> DEFINE t == Tail(s)
  <1>2. /\ t \in Seq(Int) /\ Len(t) = Len(s) - 1
        /\ \A m \in 1..Len(t) : t[m] = s[m + 1]
    BY <1>1
  <1>3. \A m \in 1..Len(t) : m + 1 \in 1..Len(s) /\ 1 < m + 1
    BY <1>1, <1>2
  <1>4. \A m, n \in 1..Len(t) : m < n => t[m] < t[n]
    <2> SUFFICES ASSUME NEW m \in 1..Len(t), NEW n \in 1..Len(t), m < n
                 PROVE  t[m] < t[n]
      OBVIOUS
    <2>1. m + 1 < n + 1
      BY <1>1, <1>2
    <2> QED
      BY <1>1, <1>2, <1>3, <2>1
  <1>5. 1 \in 1..Len(s)
    BY <1>1
  <1>6. \A m \in 1..Len(t) : t[m] \in S /\ t[m] # s[1]
    <2> SUFFICES ASSUME NEW m \in 1..Len(t) PROVE t[m] \in S /\ t[m] # s[1]
      BY Zenon
    <2>1. s[1] < s[m + 1]
      BY <1>1, <1>3, <1>5
    <2>2. s[1] \in Int /\ s[m + 1] \in S
      BY <1>1, <1>3, <1>5
    <2> QED
      BY <1>2, <2>1, <2>2
  <1>7. \A m \in 1..Len(s) : m = 1 \/ (m - 1 \in 1..Len(t) /\ t[m - 1] = s[m])
    <2> SUFFICES ASSUME NEW m \in 1..Len(s), m # 1
                 PROVE  m - 1 \in 1..Len(t) /\ t[m - 1] = s[m]
      OBVIOUS
    <2>1. m - 1 \in 1..Len(t) /\ (m - 1) + 1 = m
      BY <1>1, <1>2
    <2> QED
      BY <1>2, <2>1
  <1>8. S \ {s[1]} = {t[m] : m \in 1..Len(t)}
    <2> HIDE DEF t
    <2>1. {t[m] : m \in 1..Len(t)} \subseteq S \ {s[1]}
      BY <1>6
    <2>2. \A m \in 1..Len(s) : s[m] # s[1] => s[m] \in {t[n] : n \in 1..Len(t)}
      BY <1>7
    <2> QED
      BY <1>1, <2>1, <2>2
  <1> QED
    BY <1>1, <1>2, <1>4, <1>5, <1>8 DEF Lists

\* A listed set without one of its elements can be listed.
LEMMA ListsRemove ==
  ASSUME NEW S, NEW s, Lists(s, S), NEW k \in S
  PROVE  \E t : Lists(t, S \ {k})
  <1>1. /\ s \in Seq(Int) /\ Len(s) \in Nat
        /\ \A m, n \in 1..Len(s) : m < n => s[m] < s[n]
        /\ S = {s[m] : m \in 1..Len(s)}
        /\ \A m \in 1..Len(s) : s[m] \in Int
    BY ListsFacts
  <1>2. PICK p \in 1..Len(s) : k = s[p]
    BY <1>1
  <1> DEFINE at(m) == IF m < p THEN m ELSE m + 1
             t == [m \in 1..(Len(s) - 1) |-> s[at(m)]]
  <1>3. p \in Nat /\ Len(s) - 1 \in Nat
    BY <1>1
  <1>4. \A m \in 1..(Len(s) - 1) : at(m) \in 1..Len(s) /\ at(m) # p
    BY <1>1, <1>3
  <1>5. t \in Seq(Int) /\ Len(t) = Len(s) - 1
    BY <1>1, <1>3, <1>4
  <1>6. \A m, n \in 1..(Len(s) - 1) : m < n => at(m) < at(n)
    BY <1>1, <1>3
  <1>7. \A m, n \in 1..Len(t) : m < n => t[m] < t[n]
    BY Zenon, <1>1, <1>4, <1>5, <1>6
  <1>8. \A m \in 1..Len(s) : m # p => s[m] # k
    <2> SUFFICES ASSUME NEW m \in 1..Len(s), m # p PROVE s[m] # k
      OBVIOUS
    <2>1. m < p \/ p < m
      BY <1>1
    <2>2. s[m] < s[p] \/ s[p] < s[m]
      BY <1>1, <2>1
    <2> QED
      BY <1>1, <1>2, <2>2
  <1>9. \A m \in 1..Len(s) : m # p => \E n \in 1..(Len(s) - 1) : at(n) = m
    <2> SUFFICES ASSUME NEW m \in 1..Len(s), m # p
                 PROVE  \E n \in 1..(Len(s) - 1) : at(n) = m
      OBVIOUS
    <2>1. CASE m < p
      <3>1. m \in 1..(Len(s) - 1) /\ at(m) = m
        BY <1>1, <1>3, <2>1
      <3> QED
        BY <3>1
    <2>2. CASE p < m
      <3>1. m - 1 \in 1..(Len(s) - 1) /\ at(m - 1) = m
        BY <1>1, <1>3, <2>2
      <3> QED
        BY <3>1
    <2> QED
      BY <1>1, <2>1, <2>2
  <1>10. S \ {k} = {t[m] : m \in 1..Len(t)}
    <2> HIDE DEF at
    <2>1. {t[m] : m \in 1..Len(t)} \subseteq S \ {k}
      BY Zenon, <1>1, <1>4, <1>5, <1>8
    <2>2. S \ {k} \subseteq {t[m] : m \in 1..Len(t)}
      <3> SUFFICES ASSUME NEW m \in 1..Len(s), s[m] # k
                   PROVE  s[m] \in {t[n] : n \in 1..Len(t)}
        BY <1>1, Zenon
      <3>1. PICK n \in 1..(Len(s) - 1) : at(n) = m
        BY <1>2, <1>9
      <3> QED
        BY <1>5, <3>1
    <2> QED
      BY Zenon, <2>1, <2>2
  <1> QED
    BY Zenon, <1>5, <1>7, <1>10 DEF Lists

-----------------------------------------------------------------------------
All == Batches \cup Legacy
Items == [key : Int, batch : All]

KeySeq(q) == [i \in 1..Len(q) |-> q[i].key]

\* The entries of the log that are not left over from a failed deletion are those
\* of the queue.
MemoryFits ==
  /\ Lists(KeySeq(queue), Keys \ stale)
  /\ \A i \in 1..Len(queue) : queue[i].batch = wal[queue[i].key]
  /\ \A k \in Keys : nextPrependSeq < k /\ k < nextAddSeq

Types ==
  /\ TypeOK
  /\ nextAddSeq \in Int /\ nextPrependSeq \in Int
  /\ inHand \in Seq(All) /\ Range(inHand) \subseteq handed
  /\ todo # {} => up

LogInv ==
  /\ \E s : Lists(s, Keys)
  /\ \E s : Lists(s, Keys \ stale)
  /\ up => MemoryFits
  /\ \A k \in stale : wal[k] \in handed

IInv == Types /\ LogInv

\* Sequences with the same elements are the same.
LEMMA SameSequence ==
  ASSUME NEW s \in Seq(Int), NEW t \in Seq(Int), Len(s) = Len(t),
         \A i \in 1..Len(s) : s[i] = t[i]
  PROVE  s = t
  OBVIOUS

\* The keys of a queue with one more item.
LEMMA KeySeqs ==
  ASSUME NEW q \in Seq(Items)
  PROVE  /\ KeySeq(q) \in Seq(Int) /\ Len(KeySeq(q)) = Len(q)
         /\ \A e \in Items : KeySeq(Append(q, e)) = Append(KeySeq(q), e.key)
         /\ \A e \in Items : KeySeq(<<e>> \o q) = <<e.key>> \o KeySeq(q)
         /\ q # <<>> => KeySeq(Tail(q)) = Tail(KeySeq(q))
  <1>1. Len(q) \in Nat /\ \A e \in Items : e.key \in Int
    BY DEF Items
  <1>2. ASSUME NEW p \in Seq(Items)
        PROVE  /\ KeySeq(p) \in Seq(Int) /\ Len(KeySeq(p)) = Len(p)
               /\ \A i \in 1..Len(p) : KeySeq(p)[i] = p[i].key
    <2>1. Len(p) \in Nat /\ \A i \in 1..Len(p) : p[i] \in Items
      OBVIOUS
    <2>2. \A i \in 1..Len(p) : p[i].key \in Int
      BY <1>1, <2>1
    <2> QED
      BY <2>1, <2>2 DEF KeySeq
  <1>3. ASSUME NEW e \in Items
        PROVE  KeySeq(Append(q, e)) = Append(KeySeq(q), e.key)
    <2>1. /\ Append(q, e) \in Seq(Items) /\ Len(Append(q, e)) = Len(q) + 1
          /\ Append(q, e)[Len(q) + 1] = e
          /\ \A i \in 1..Len(q) : Append(q, e)[i] = q[i]
      OBVIOUS
    <2>2. /\ KeySeq(Append(q, e)) \in Seq(Int)
          /\ Len(KeySeq(Append(q, e))) = Len(q) + 1
          /\ \A i \in 1..(Len(q) + 1) : KeySeq(Append(q, e))[i] = Append(q, e)[i].key
      BY Zenon, <1>2, <2>1
    <2>3. e.key \in Int
      BY DEF Items
    <2>4. /\ KeySeq(q) \in Seq(Int) /\ Len(KeySeq(q)) = Len(q)
          /\ \A i \in 1..Len(q) : KeySeq(q)[i] = q[i].key
      BY <1>2
    <2>5. /\ Append(KeySeq(q), e.key) \in Seq(Int)
          /\ Len(Append(KeySeq(q), e.key)) = Len(q) + 1
          /\ Append(KeySeq(q), e.key)[Len(q) + 1] = e.key
          /\ \A i \in 1..Len(q) : Append(KeySeq(q), e.key)[i] = q[i].key
      BY <2>3, <2>4
    <2>6. \A i \in 1..(Len(q) + 1) : i \in 1..Len(q) \/ i = Len(q) + 1
      BY <1>1
    <2>7. \A i \in 1..(Len(q) + 1) :
            KeySeq(Append(q, e))[i] = Append(KeySeq(q), e.key)[i]
      BY Zenon, <2>1, <2>2, <2>5, <2>6
    <2> QED
      BY <2>2, <2>5, <2>7, SameSequence
  <1>4. ASSUME NEW e \in Items
        PROVE  KeySeq(<<e>> \o q) = <<e.key>> \o KeySeq(q)
    <2>1. /\ <<e>> \o q \in Seq(Items) /\ Len(<<e>> \o q) = Len(q) + 1
          /\ (<<e>> \o q)[1] = e
          /\ \A i \in 1..Len(q) : (<<e>> \o q)[i + 1] = q[i]
      OBVIOUS
    <2>2. /\ KeySeq(<<e>> \o q) \in Seq(Int)
          /\ Len(KeySeq(<<e>> \o q)) = Len(q) + 1
          /\ \A i \in 1..(Len(q) + 1) : KeySeq(<<e>> \o q)[i] = (<<e>> \o q)[i].key
      BY Zenon, <1>2, <2>1
    <2>3. e.key \in Int
      BY DEF Items
    <2>4. /\ KeySeq(q) \in Seq(Int) /\ Len(KeySeq(q)) = Len(q)
          /\ \A i \in 1..Len(q) : KeySeq(q)[i] = q[i].key
      BY <1>2
    <2>5. /\ <<e.key>> \o KeySeq(q) \in Seq(Int)
          /\ Len(<<e.key>> \o KeySeq(q)) = Len(q) + 1
          /\ (<<e.key>> \o KeySeq(q))[1] = e.key
          /\ \A i \in 1..Len(q) : (<<e.key>> \o KeySeq(q))[i + 1] = q[i].key
      BY <2>3, <2>4
    <2>6. \A i \in 1..(Len(q) + 1) : i = 1 \/ \E j \in 1..Len(q) : i = j + 1
      <3> SUFFICES ASSUME NEW i \in 1..(Len(q) + 1), i # 1
                   PROVE  i - 1 \in 1..Len(q) /\ i = (i - 1) + 1
        OBVIOUS
      <3> QED
        BY <1>1
    <2>7. \A i \in 1..(Len(q) + 1) :
            KeySeq(<<e>> \o q)[i] = (<<e.key>> \o KeySeq(q))[i]
      BY ZenonT(30), <2>1, <2>2, <2>5, <2>6
    <2> QED
      BY Zenon, <2>2, <2>5, <2>7, SameSequence
  <1>5. ASSUME q # <<>>
        PROVE  KeySeq(Tail(q)) = Tail(KeySeq(q))
    <2>1. /\ Tail(q) \in Seq(Items) /\ Len(Tail(q)) = Len(q) - 1
          /\ \A i \in 1..(Len(q) - 1) : Tail(q)[i] = q[i + 1]
          /\ Len(q) > 0
      BY <1>5
    <2>2. /\ KeySeq(Tail(q)) \in Seq(Int)
          /\ Len(KeySeq(Tail(q))) = Len(q) - 1
          /\ \A i \in 1..(Len(q) - 1) : KeySeq(Tail(q))[i] = Tail(q)[i].key
      BY Zenon, <1>2, <2>1
    <2>3. /\ KeySeq(q) \in Seq(Int) /\ Len(KeySeq(q)) = Len(q)
          /\ \A i \in 1..Len(q) : KeySeq(q)[i] = q[i].key
      BY <1>2
    <2>4. \A i \in 1..(Len(q) - 1) : i + 1 \in 1..Len(q)
      BY <1>1, <2>1
    <2>5. /\ Tail(KeySeq(q)) \in Seq(Int)
          /\ Len(Tail(KeySeq(q))) = Len(q) - 1
          /\ \A i \in 1..(Len(q) - 1) : Tail(KeySeq(q))[i] = KeySeq(q)[i + 1]
      BY <1>1, <2>1, <2>3
    <2>6. \A i \in 1..(Len(q) - 1) : KeySeq(Tail(q))[i] = Tail(KeySeq(q))[i]
      BY <2>1, <2>2, <2>3, <2>4, <2>5
    <2> QED
      BY Zenon, <2>2, <2>5, <2>6, SameSequence
  <1> QED
    BY Zenon, <1>2, <1>3, <1>4, <1>5

\* The keys of a listed queue.
LEMMA QueueKeys ==
  ASSUME NEW q \in Seq(Items), NEW S, Lists(KeySeq(q), S)
  PROVE  /\ \A i \in 1..Len(q) : q[i].key \in S
         /\ \A x \in S : \E i \in 1..Len(q) : q[i].key = x
  <1>1. /\ Len(KeySeq(q)) = Len(q)
        /\ \A i \in 1..Len(q) : KeySeq(q)[i] = q[i].key
    BY Zenon, KeySeqs DEF KeySeq
  <1>2. S = {KeySeq(q)[i] : i \in 1..Len(KeySeq(q))}
    BY DEF Lists
  <1> QED
    BY <1>1, <1>2

\* A new entry of the log.
LEMMA Persisted ==
  ASSUME NEW k, NEW b, persistBatch(k, b), k \notin Keys
  PROVE  /\ Keys' = Keys \cup {k}
         /\ wal'[k] = b
         /\ \A x \in Keys : wal'[x] = wal[x]
         /\ Range(wal') = Range(wal) \cup {b}
  <1>1. Keys' = Keys \cup {k} /\ wal'[k] = b /\ \A x \in Keys : wal'[x] = wal[x]
    BY DEF persistBatch, Keys
  <1>2. Range(wal') = Range(wal) \cup {b}
    <2>1. Range(wal) = {wal[x] : x \in Keys} /\ Range(wal') = {wal'[x] : x \in Keys'}
      BY DEF Range, Keys
    <2>2. \A x \in Keys' : wal'[x] \in {wal[y] : y \in Keys} \cup {b}
      BY <1>1
    <2>3. \A x \in Keys : wal[x] \in {wal'[y] : y \in Keys'}
      BY <1>1
    <2>4. b \in {wal'[y] : y \in Keys'}
      BY <1>1
    <2> QED
      BY <2>1, <2>2, <2>3, <2>4
  <1> QED
    BY <1>1, <1>2

\* The numbers that Load goes on with are beyond all numbers in the log.
LEMMA BeyondAll ==
  ASSUME NEW S, NEW s, Lists(s, S)
  PROVE  /\ Beyond(S).add \in Int /\ Beyond(S).add >= 0
         /\ Beyond(S).prepend \in Int /\ Beyond(S).prepend < 0
         /\ \A k \in S : Beyond(S).prepend < k /\ k < Beyond(S).add
  <1>1. /\ s \in Seq(Int) /\ Len(s) \in Nat
        /\ \A m, n \in 1..Len(s) : m < n => s[m] < s[n]
        /\ S = {s[m] : m \in 1..Len(s)}
        /\ \A m \in 1..Len(s) : s[m] \in Int
    BY ListsFacts
  <1>2. S \subseteq Int
    BY <1>1
  <1>3. S # {} => \E x \in S : \A y \in S : x >= y
    <2> SUFFICES ASSUME S # {} PROVE \E x \in S : \A y \in S : x >= y
      OBVIOUS
    <2>1. Len(s) \in 1..Len(s)
      BY <1>1
    <2>2. \A m \in 1..Len(s) : s[Len(s)] >= s[m]
      BY <1>1, <2>1
    <2>3. s[Len(s)] \in S /\ \A y \in S : s[Len(s)] >= y
      BY <1>1, <2>1, <2>2
    <2> QED
      BY <2>3
  <1>4. S # {} => \E x \in S : \A y \in S : x <= y
    <2> SUFFICES ASSUME S # {} PROVE \E x \in S : \A y \in S : x <= y
      OBVIOUS
    <2>1. 1 \in 1..Len(s)
      BY <1>1
    <2>2. \A m \in 1..Len(s) : s[1] <= s[m]
      BY <1>1, <2>1
    <2>3. s[1] \in S /\ \A y \in S : s[1] <= y
      BY <1>1, <2>1, <2>2
    <2> QED
      BY <2>3
  <1>5. \E x \in S \cup {-1} : \A y \in S \cup {-1} : x >= y
    BY <1>2, <1>3
  <1>6. \E x \in S \cup {0} : \A y \in S \cup {0} : x <= y
    BY <1>2, <1>4
  <1>7. /\ Max(S \cup {-1}) \in S \cup {-1}
        /\ \A y \in S \cup {-1} : Max(S \cup {-1}) >= y
    BY <1>5 DEF Max
  <1>8. /\ Min(S \cup {0}) \in S \cup {0}
        /\ \A y \in S \cup {0} : Min(S \cup {0}) <= y
    BY <1>6 DEF Min
  <1> DEFINE hi == Max(S \cup {-1})
             lo == Min(S \cup {0})
  <1> HIDE DEF hi, lo
  <1>9. /\ hi \in Int /\ lo \in Int /\ hi >= -1 /\ lo <= 0
        /\ \A k \in S : lo <= k /\ k <= hi
    <2>1. hi \in S \cup {-1} /\ \A y \in S \cup {-1} : hi >= y
      BY <1>7 DEF hi
    <2>2. lo \in S \cup {0} /\ \A y \in S \cup {0} : lo <= y
      BY <1>8 DEF lo
    <2>3. hi \in Int /\ lo \in Int
      BY <1>2, <2>1, <2>2
    <2>4. hi >= -1 /\ lo <= 0
      BY <2>1, <2>2
    <2>5. \A k \in S : lo <= k /\ hi >= k
      BY <2>1, <2>2
    <2> QED
      BY <1>2, <2>3, <2>4, <2>5
  <1>10. Beyond(S).add = hi + 1 /\ Beyond(S).prepend = lo - 1
    BY DEF Beyond, hi, lo
  <1> QED
    BY <1>2, <1>9, <1>10

\* A batch goes to the end of the queue and of the log.
LEMMA AddLastIInv ==
  ASSUME IInv, up, NEW b \in All,
         persistBatch(nextAddSeq, b),
         queue' = Append(queue, [key |-> nextAddSeq, batch |-> b]),
         nextAddSeq' = nextAddSeq + 1,
         UNCHANGED <<up, nextPrependSeq, stale, handed>>
  PROVE  /\ LogInv'
         /\ Keys' \subseteq Int /\ Range(wal') \subseteq All /\ stale' \subseteq Keys'
         /\ queue' \in Seq(Items) /\ nextAddSeq' \in Int /\ nextAddSeq' >= 0
  <1> DEFINE k == nextAddSeq
             e == [key |-> k, batch |-> b]
  <1>1. /\ k \in Int /\ k >= 0 /\ nextPrependSeq \in Int /\ nextPrependSeq < 0
        /\ queue \in Seq(Items) /\ Keys \subseteq Int /\ stale \subseteq Keys
        /\ Range(wal) \subseteq All
    BY SMTT(30) DEF IInv, Types, TypeOK, Items, All
  <1>2. /\ Lists(KeySeq(queue), Keys \ stale)
        /\ \A i \in 1..Len(queue) : queue[i].batch = wal[queue[i].key]
        /\ \A x \in Keys : nextPrependSeq < x /\ x < k
    BY DEF IInv, LogInv, MemoryFits
  <1>3. k \notin Keys /\ e \in Items /\ e.key = k /\ e.batch = b
    BY <1>1, <1>2 DEF Items
  <1>4. /\ Keys' = Keys \cup {k} /\ wal'[k] = b
        /\ \A x \in Keys : wal'[x] = wal[x]
        /\ Range(wal') = Range(wal) \cup {b}
    BY <1>3, Persisted
  <1>5. (Keys \ stale) \cup {k} = Keys' \ stale'
    BY <1>1, <1>3, <1>4
  <1>6. Lists(KeySeq(queue'), Keys' \ stale')
    <2>1. Lists(Append(KeySeq(queue), k), (Keys \ stale) \cup {k})
      BY Zenon, <1>1, <1>2, ListsAppend
    <2>2. KeySeq(queue') = Append(KeySeq(queue), k)
      BY <1>1, <1>3, KeySeqs
    <2> QED
      BY Zenon, <1>5, <2>1, <2>2
  <1>7. \E s : Lists(s, Keys')
    <2>1. PICK s : Lists(s, Keys)
      BY DEF IInv, LogInv
    <2>2. Lists(Append(s, k), Keys \cup {k})
      BY Zenon, <1>1, <1>2, <2>1, ListsAppend
    <2> QED
      BY <1>4, <2>2
  <1>8. \A i \in 1..Len(queue') : queue'[i].batch = wal'[queue'[i].key]
    <2>1. /\ Len(queue) \in Nat /\ Len(queue') = Len(queue) + 1
          /\ queue'[Len(queue) + 1] = e
          /\ \A i \in 1..Len(queue) : queue'[i] = queue[i]
      BY <1>1, <1>3
    <2>2. \A i \in 1..Len(queue) : queue[i].key \in Keys
      BY <1>1, <1>2, QueueKeys
    <2>3. \A i \in 1..Len(queue') : i \in 1..Len(queue) \/ i = Len(queue) + 1
      BY <2>1
    <2> QED
      BY <1>2, <1>3, <1>4, <2>1, <2>2, <2>3
  <1>9. \A x \in Keys' : nextPrependSeq' < x /\ x < nextAddSeq'
    BY <1>1, <1>2, <1>4
  <1>10. \A x \in stale' : wal'[x] \in handed'
    BY SMTT(30), <1>1, <1>4 DEF IInv, LogInv
  <1>11. LogInv'
    BY <1>6, <1>7, <1>8, <1>9, <1>10 DEF LogInv, MemoryFits
  <1> QED
    BY <1>1, <1>3, <1>4, <1>11

LEMMA AddBatchIInv == IInv /\ AddBatch => IInv'
  <1> SUFFICES ASSUME IInv, AddBatch PROVE IInv'
    OBVIOUS
  <1>1. PICK b \in Batches :
          /\ persistBatch(nextAddSeq, b)
          /\ queue' = Append(queue, [key |-> nextAddSeq, batch |-> b])
          /\ submitted' = submitted \cup {b}
    BY DEF AddBatch
  <1>2. /\ up /\ nextAddSeq' = nextAddSeq + 1
        /\ UNCHANGED <<old, up, todo, nextPrependSeq, taken, inHand, handed, stale>>
    BY DEF AddBatch, Ready
  <1>3. /\ LogInv'
        /\ Keys' \subseteq Int /\ Range(wal') \subseteq All /\ stale' \subseteq Keys'
        /\ queue' \in Seq(Items) /\ nextAddSeq' \in Int /\ nextAddSeq' >= 0
    BY <1>1, <1>2, AddLastIInv DEF All
  <1>4. Types'
    BY <1>1, <1>2, <1>3 DEF IInv, Types, TypeOK, Items, All
  <1> QED
    BY <1>3, <1>4 DEF IInv

LEMMA MigrateIInv == IInv /\ Migrate => IInv'
  <1> SUFFICES ASSUME IInv, Migrate PROVE IInv'
    OBVIOUS
  <1>1. PICK b \in todo, gone \in BOOLEAN :
          /\ persistBatch(nextAddSeq, b)
          /\ queue' = Append(queue, [key |-> nextAddSeq, batch |-> b])
          /\ todo' = todo \ {b}
          /\ old' = IF gone THEN old \ {b} ELSE old
    BY Zenon DEF Migrate
  <1>2. /\ nextAddSeq' = nextAddSeq + 1
        /\ UNCHANGED <<up, nextPrependSeq, submitted, taken, inHand, handed, stale>>
    BY DEF Migrate
  <1>3. up /\ b \in Legacy
    BY DEF IInv, Types, TypeOK
  <1>4. /\ LogInv'
        /\ Keys' \subseteq Int /\ Range(wal') \subseteq All /\ stale' \subseteq Keys'
        /\ queue' \in Seq(Items) /\ nextAddSeq' \in Int /\ nextAddSeq' >= 0
    BY <1>1, <1>2, <1>3, AddLastIInv DEF All
  <1>5. old' \subseteq Legacy /\ todo' \subseteq old' /\ (todo' # {} => up')
    BY <1>1, <1>2, <1>3 DEF IInv, Types, TypeOK
  <1>6. Types'
    BY <1>2, <1>4, <1>5 DEF IInv, Types, TypeOK, Items, All
  <1> QED
    BY <1>4, <1>6 DEF IInv

\* The batch in hand goes to the front of the queue and of the log.
LEMMA PrependIInv == IInv /\ Prepend => IInv'
  <1> SUFFICES ASSUME IInv, Prepend PROVE IInv'
    OBVIOUS
  <1> DEFINE k == nextPrependSeq
             b == inHand[1]
             e == [key |-> k, batch |-> b]
  <1>1. /\ k \in Int /\ k < 0 /\ nextAddSeq \in Int /\ nextAddSeq >= 0
        /\ queue \in Seq(Items) /\ Keys \subseteq Int /\ stale \subseteq Keys
        /\ Range(wal) \subseteq All
    BY DEF IInv, Types, TypeOK, Items, All
  <1>2. /\ up /\ persistBatch(k, b) /\ queue' = <<e>> \o queue
        /\ nextPrependSeq' = k - 1 /\ inHand' = <<>>
        /\ taken' = taken \ Range(inHand)
        /\ UNCHANGED <<old, up, todo, nextAddSeq, submitted, handed, stale>>
    BY DEF Prepend, Ready, PrependKey
  <1>3. b \in All
    BY SMTT(30) DEF Prepend, IInv, Types
  <1>4. /\ Lists(KeySeq(queue), Keys \ stale)
        /\ \A i \in 1..Len(queue) : queue[i].batch = wal[queue[i].key]
        /\ \A x \in Keys : k < x /\ x < nextAddSeq
    BY <1>2 DEF IInv, LogInv, MemoryFits
  <1>5. k \notin Keys /\ e \in Items /\ e.key = k /\ e.batch = b
    BY <1>1, <1>3, <1>4 DEF Items
  <1>6. /\ Keys' = Keys \cup {k} /\ wal'[k] = b
        /\ \A x \in Keys : wal'[x] = wal[x]
        /\ Range(wal') = Range(wal) \cup {b}
    BY <1>2, <1>5, Persisted
  <1>7. (Keys \ stale) \cup {k} = Keys' \ stale'
    BY <1>1, <1>2, <1>5, <1>6
  <1>8. Lists(KeySeq(queue'), Keys' \ stale')
    <2>1. Lists(<<k>> \o KeySeq(queue), (Keys \ stale) \cup {k})
      BY Zenon, <1>1, <1>4, ListsPrepend
    <2>2. KeySeq(queue') = <<k>> \o KeySeq(queue)
      BY Zenon, <1>1, <1>2, <1>5, KeySeqs
    <2> QED
      BY Zenon, <1>7, <2>1, <2>2
  <1>9. \E s : Lists(s, Keys')
    <2>1. PICK s : Lists(s, Keys)
      BY DEF IInv, LogInv
    <2>2. Lists(<<k>> \o s, Keys \cup {k})
      BY Zenon, <1>1, <1>4, <2>1, ListsPrepend
    <2> QED
      BY <1>6, <2>2
  <1>10. \A i \in 1..Len(queue') : queue'[i].batch = wal'[queue'[i].key]
    <2>1. /\ Len(queue) \in Nat /\ Len(queue') = Len(queue) + 1
          /\ queue'[1] = e
          /\ \A i \in 1..Len(queue) : queue'[i + 1] = queue[i]
      BY SMTT(30), <1>1, <1>2, <1>5
    <2>2. \A i \in 1..Len(queue) : queue[i].key \in Keys
      BY <1>1, <1>4, QueueKeys
    <2>3. \A i \in 1..Len(queue') : i = 1 \/ (i - 1 \in 1..Len(queue) /\ i = (i - 1) + 1)
      BY <2>1
    <2>4. \A i \in 1..Len(queue') : i = 1 \/ \E j \in 1..Len(queue) : queue'[i] = queue[j]
      BY Zenon, <2>1, <2>3
    <2>5. e.batch = wal'[e.key]
      BY SMTT(30), <1>5, <1>6
    <2>6. \A j \in 1..Len(queue) : queue[j].batch = wal'[queue[j].key]
      BY SMTT(30), <1>4, <1>6, <2>2
    <2> HIDE DEF e
    <2> QED
      BY Zenon, <2>1, <2>4, <2>5, <2>6
  <1>11. \A x \in Keys' : nextPrependSeq' < x /\ x < nextAddSeq'
    BY <1>1, <1>2, <1>4, <1>6
  <1>12. \A x \in stale' : wal'[x] \in handed'
    BY SMTT(30), <1>1, <1>2, <1>6 DEF IInv, LogInv
  <1>13. LogInv'
    BY <1>8, <1>9, <1>10, <1>11, <1>12 DEF LogInv, MemoryFits
  <1>14. queue' \in Seq(Items) /\ Range(inHand') = {}
    BY <1>1, <1>2, <1>5 DEF Range
  <1>15. /\ Keys' \subseteq Int /\ Range(wal') \subseteq All /\ stale' \subseteq Keys'
         /\ nextPrependSeq' \in Int /\ nextPrependSeq' < 0
    <2>1. nextPrependSeq' \in Int /\ nextPrependSeq' < 0
      BY <1>1, <1>2
    <2>2. Keys' \subseteq Int /\ stale' \subseteq Keys'
      BY <1>1, <1>2, <1>6
    <2>3. Range(wal') \subseteq All
      BY <1>1, <1>3, <1>6
    <2> QED
      BY <2>1, <2>2, <2>3
  <1>16. Types'
    BY <1>2, <1>14, <1>15 DEF IInv, Types, TypeOK, Items, All
  <1> QED
    BY <1>13, <1>16 DEF IInv

\* The first batch of the queue is handed out; its log entry is deleted or stays
\* behind.
LEMMA NextBatchIInv == IInv /\ NextBatch => IInv'
  <1> SUFFICES ASSUME IInv, NextBatch PROVE IInv'
    BY SMTT(30)
  <1> DEFINE e == Head(queue)
             k == Head(queue).key
  <1>1. /\ nextPrependSeq \in Int /\ nextAddSeq \in Int
        /\ queue \in Seq(Items) /\ Keys \subseteq Int /\ stale \subseteq Keys
        /\ Range(wal) \subseteq All /\ queue # <<>> /\ up
    BY DEF IInv, Types, TypeOK, Items, All, NextBatch, Ready
  <1>2. /\ queue' = Tail(queue) /\ inHand' = <<e.batch>>
        /\ taken' = taken \cup Range(inHand') /\ handed' = handed \cup Range(inHand')
        /\ UNCHANGED <<old, up, todo, nextAddSeq, nextPrependSeq, submitted>>
        /\ \/ Delete(k) /\ UNCHANGED stale
           \/ stale' = stale \cup {k} /\ UNCHANGED wal
    BY DEF NextBatch
  <1>3. /\ Lists(KeySeq(queue), Keys \ stale)
        /\ \A i \in 1..Len(queue) : queue[i].batch = wal[queue[i].key]
        /\ \A x \in Keys : nextPrependSeq < x /\ x < nextAddSeq
    BY <1>1 DEF IInv, LogInv, MemoryFits
  <1>4. /\ Len(queue) \in Nat /\ 1 \in 1..Len(queue) /\ e = queue[1] /\ e \in Items
        /\ Tail(queue) \in Seq(Items) /\ Len(Tail(queue)) = Len(queue) - 1
        /\ \A i \in 1..(Len(queue) - 1) : Tail(queue)[i] = queue[i + 1]
    BY <1>1
  <1>5. k \in Keys \ stale /\ e.batch = wal[k] /\ e.batch \in All
    <2>1. k \in Keys \ stale
      BY <1>1, <1>3, <1>4, QueueKeys
    <2> QED
      BY <1>3, <1>4, <2>1 DEF Items
  <1>6. Range(inHand') = {e.batch} /\ inHand' \in Seq(All)
    BY SMTT(30), <1>2, <1>5 DEF Range
  <1>7. /\ Keys' \ stale' = (Keys \ stale) \ {k}
        /\ Keys' \subseteq Keys /\ stale' \subseteq Keys'
        /\ \A x \in Keys' : wal'[x] = wal[x]
    <2>1. CASE Delete(k) /\ UNCHANGED stale
      <3>1. Keys' = Keys \ {k} /\ \A x \in Keys' : wal'[x] = wal[x]
        BY <2>1 DEF Delete, Keys
      <3> QED
        BY <1>1, <1>5, <2>1, <3>1
    <2>2. CASE stale' = stale \cup {k} /\ UNCHANGED wal
      <3>1. Keys' = Keys /\ \A x \in Keys' : wal'[x] = wal[x]
        BY <2>2 DEF Keys
      <3> QED
        BY Zenon, <1>1, <1>5, <2>2, <3>1
    <2> QED
      BY <1>2, <2>1, <2>2
  <1>8. Lists(KeySeq(queue'), Keys' \ stale')
    <2>1. KeySeq(queue) # <<>> /\ KeySeq(queue)[1] = k
      <3>1. Len(KeySeq(queue)) = Len(queue) /\ KeySeq(queue)[1] = queue[1].key
        BY Zenon, <1>1, <1>4, KeySeqs DEF KeySeq
      <3> QED
        BY <1>4, <3>1
    <2>2. Lists(Tail(KeySeq(queue)), (Keys \ stale) \ {k})
      BY <1>3, <2>1, ListsTail
    <2>3. KeySeq(queue') = Tail(KeySeq(queue))
      BY <1>1, <1>2, KeySeqs
    <2> QED
      BY ZenonT(30), <1>7, <2>2, <2>3
  <1>9. \E s : Lists(s, Keys')
    <2>1. PICK s : Lists(s, Keys)
      BY DEF IInv, LogInv
    <2>2. \E t : Lists(t, Keys \ {k})
      BY <1>5, <2>1, ListsRemove
    <2>3. Keys' = Keys \ {k} \/ Keys' = Keys
      BY <1>2 DEF Delete, Keys
    <2> QED
      BY <2>1, <2>2, <2>3
  <1>10. \A i \in 1..Len(queue') : queue'[i].batch = wal'[queue'[i].key]
    <2>1. \A i \in 1..Len(queue') : i + 1 \in 1..Len(queue) /\ queue'[i] = queue[i + 1]
      BY <1>2, <1>4
    <2>2. \A i \in 1..Len(queue') : queue'[i].key \in Keys' \ stale'
      <3>1. queue' \in Seq(Items)
        BY Zenon, <1>2, <1>4
      <3> QED
        BY <1>8, <3>1, QueueKeys
    <2> QED
      BY <1>3, <1>7, <2>1, <2>2
  <1>11. \A x \in Keys' : nextPrependSeq' < x /\ x < nextAddSeq'
    BY <1>2, <1>3, <1>7
  <1>12. \A x \in stale' : wal'[x] \in handed'
    <2> SUFFICES ASSUME NEW x \in stale' PROVE wal'[x] \in handed'
      BY Zenon
    <2>1. wal'[x] = wal[x] /\ (x \in stale \/ x = k)
      BY <1>2, <1>7
    <2>2. x \in stale => wal[x] \in handed
      BY DEF IInv, LogInv
    <2> QED
      BY <1>2, <1>5, <1>6, <2>1, <2>2
  <1>13. LogInv'
    BY <1>8, <1>9, <1>10, <1>11, <1>12 DEF LogInv, MemoryFits
  <1>14. Range(wal') \subseteq All
    <2>1. Range(wal') = {wal'[x] : x \in Keys'} /\ Range(wal) = {wal[x] : x \in Keys}
      BY SMTT(30) DEF Range, Keys
    <2> QED
      BY <1>1, <1>7, <2>1
  <1>15. taken' \subseteq handed' /\ handed' \subseteq All /\ Len(inHand') <= 1
    BY <1>2, <1>5, <1>6 DEF IInv, Types, TypeOK, All
  <1>16. Types'
    BY Zenon, <1>1, <1>2, <1>4, <1>6, <1>7, <1>14, <1>15 DEF IInv, Types, TypeOK, Items, All
  <1> QED
    BY <1>13, <1>16 DEF IInv

\* A crash empties the memory, the log stays.
LEMMA CrashIInv == IInv /\ Crash => IInv'
  <1> SUFFICES ASSUME IInv, Crash PROVE IInv'
    OBVIOUS
  <1>1. /\ up' = FALSE /\ todo' = {} /\ inHand' = <<>> /\ queue' = <<>>
        /\ nextAddSeq' = 0 /\ nextPrependSeq' = -1
        /\ UNCHANGED <<wal, old, submitted, taken, handed, stale>>
    BY DEF Crash
  <1>2. Keys' = Keys /\ Range(wal') = Range(wal) /\ Range(inHand') = {}
    BY SMTT(30), <1>1 DEF Keys, Range
  <1>3. LogInv'
    BY <1>1, <1>2 DEF IInv, LogInv
  <1>4. Types'
    <2>1. /\ queue' \in Seq([key : Int, batch : Batches \cup Legacy])
          /\ inHand' \in Seq(All) /\ Len(inHand') <= 1
      BY <1>1
    <2>2. /\ nextAddSeq' \in Int /\ nextAddSeq' >= 0
          /\ nextPrependSeq' \in Int /\ nextPrependSeq' < 0
      BY <1>1
    <2> QED
      BY Zenon, <1>1, <1>2, <2>1, <2>2 DEF IInv, Types, TypeOK
  <1> QED
    BY <1>3, <1>4 DEF IInv

\* Load sorts the log into the queue.
LEMMA LoadIInv == IInv /\ Load => IInv'
  <1> SUFFICES ASSUME IInv, Load PROVE IInv'
    OBVIOUS
  <1>1. /\ queue' = Sorted(Keys) /\ up' = TRUE /\ todo' = old /\ stale' = {}
        /\ nextAddSeq' = Beyond(Keys).add /\ nextPrependSeq' = Beyond(Keys).prepend
        /\ UNCHANGED <<wal, old, submitted, taken, inHand, handed>>
    BY Zenon DEF Load
  <1>2. Keys' = Keys /\ Range(wal') = Range(wal) /\ Range(inHand') = Range(inHand)
    BY <1>1 DEF Keys, Range
  <1>3. PICK s : Lists(s, Keys)
    BY DEF IInv, LogInv
  <1>4. /\ Len(s) \in Nat /\ s \in Seq(Int) /\ Keys \subseteq Int
        /\ \A i \in 1..Len(s) : s[i] \in Keys
    BY <1>3, ListsFacts
  <1>5. queue' = [i \in 1..Len(s) |-> Item(s[i])]
    BY <1>1, <1>3, SortedLists
  <1>6. \A x \in Keys : Item(x) \in Items /\ Item(x).key = x /\ Item(x).batch = wal[x]
    <2>1. \A x \in Keys : wal[x] \in All
      BY DEF IInv, Types, TypeOK, All, Range, Keys
    <2> QED
      BY <1>4, <2>1 DEF Item, Items
  <1>7. /\ queue' \in Seq(Items) /\ Len(queue') = Len(s)
        /\ \A i \in 1..Len(s) : queue'[i] = Item(s[i])
    <2>1. \A i \in 1..Len(s) : Item(s[i]) \in Items
      BY <1>4, <1>6
    <2> QED
      BY <1>4, <1>5, <2>1
  <1>8. \A i \in 1..Len(s) : queue'[i].key = s[i] /\ queue'[i].batch = wal[s[i]]
    BY <1>4, <1>6, <1>7
  <1>9. KeySeq(queue') = s
    <2>1. /\ KeySeq(queue') \in Seq(Int) /\ Len(KeySeq(queue')) = Len(s)
          /\ \A i \in 1..Len(s) : KeySeq(queue')[i] = s[i]
      BY Zenon, <1>7, <1>8, KeySeqs DEF KeySeq
    <2> QED
      BY <1>4, <2>1, SameSequence
  <1>10. /\ nextAddSeq' \in Int /\ nextAddSeq' >= 0
         /\ nextPrependSeq' \in Int /\ nextPrependSeq' < 0
         /\ \A x \in Keys : nextPrependSeq' < x /\ x < nextAddSeq'
    BY <1>1, <1>3, BeyondAll
  <1>11. Keys' \ stale' = Keys'
    BY Zenon, <1>1
  <1>12. MemoryFits'
    BY <1>1, <1>2, <1>3, <1>7, <1>8, <1>9, <1>10, <1>11 DEF MemoryFits
  <1>13. LogInv'
    BY Zenon, <1>1, <1>2, <1>3, <1>11, <1>12 DEF LogInv
  <1>14. Types'
    BY <1>1, <1>2, <1>7, <1>10 DEF IInv, Types, TypeOK, Items, All
  <1> QED
    BY <1>13, <1>14 DEF IInv

LEMMA InitIInv == Init => IInv
  <1> SUFFICES ASSUME Init PROVE IInv
    OBVIOUS
  <1>1. Keys = {} /\ Range(wal) = {} /\ Range(inHand) = {}
    BY DEF Init, Keys, Range
  <1>2. Lists(<<>>, {})
    BY DEF Lists
  <1>3. Types
    <2>1. /\ queue \in Seq([key : Int, batch : Batches \cup Legacy])
          /\ inHand \in Seq(All) /\ Len(inHand) <= 1
      BY DEF Init
    <2>2. /\ nextAddSeq \in Int /\ nextAddSeq >= 0
          /\ nextPrependSeq \in Int /\ nextPrependSeq < 0
      BY DEF Init
    <2> QED
      BY Zenon, <1>1, <2>1, <2>2 DEF Init, Types, TypeOK
  <1>4. LogInv
    BY <1>1, <1>2 DEF Init, LogInv
  <1> QED
    BY <1>3, <1>4 DEF IInv

LEMMA StepIInv == IInv /\ [Next]_vars => IInv'
  <1> SUFFICES ASSUME IInv, [Next]_vars PROVE IInv'
    OBVIOUS
  <1>1. CASE UNCHANGED vars
    <2>1. Keys' = Keys /\ Range(wal') = Range(wal) /\ Range(inHand') = Range(inHand)
      BY Zenon, <1>1 DEF vars, Keys, Range
    <2>2. Types'
      BY SMTT(30), <1>1, <2>1 DEF vars, memory, IInv, Types, TypeOK
    <2>3. LogInv'
      BY <1>1, <2>1 DEF vars, memory, IInv, LogInv, MemoryFits
    <2> QED
      BY <2>2, <2>3 DEF IInv
  <1> QED
    BY <1>1, AddBatchIInv, PrependIInv, NextBatchIInv, CrashIInv, LoadIInv,
       MigrateIInv DEF Next

\* The keys that the running process has in memory are those of the log, in the
\* log's order, and the next numbers lie beyond them: in every state.
THEOREM QueueInvariance == Spec => []IInv
  BY InitIInv, StepIInv, PTL DEF Spec

\* The variables keep their types.
THEOREM QueueTypes == Spec => []TypeOK
  <1>1. IInv => TypeOK
    BY DEF IInv, Types
  <1> QED
    BY <1>1, QueueInvariance, PTL

\* What is in memory is the log in the order of its keys.
LEMMA QueueSorted ==
  ASSUME IInv, up
  PROVE  Sorted(Keys \ stale) = queue
  <1>1. /\ queue \in Seq(Items) /\ Lists(KeySeq(queue), Keys \ stale)
        /\ \A i \in 1..Len(queue) : queue[i].batch = wal[queue[i].key]
    BY Zenon DEF IInv, Types, TypeOK, LogInv, MemoryFits, Items, All
  <1>2. /\ Len(queue) \in Nat /\ Len(KeySeq(queue)) = Len(queue)
        /\ \A i \in 1..Len(queue) : KeySeq(queue)[i] = queue[i].key
    <2>1. Len(queue) \in Nat /\ Len(KeySeq(queue)) = Len(queue)
      BY <1>1, KeySeqs
    <2>2. \A i \in 1..Len(queue) : KeySeq(queue)[i] = queue[i].key
      BY Zenon DEF KeySeq
    <2> QED
      BY Zenon, <2>1, <2>2
  <1>3. Sorted(Keys \ stale) = [i \in 1..Len(queue) |-> Item(KeySeq(queue)[i])]
    BY <1>1, <1>2, SortedLists
  <1>4. \A x \in Items : x = [key |-> x.key, batch |-> x.batch]
    BY SMTT(30) DEF Items
  <1>5. \A i \in 1..Len(queue) : Item(KeySeq(queue)[i]) = queue[i]
    <2> SUFFICES ASSUME NEW i \in 1..Len(queue)
                 PROVE  Item(KeySeq(queue)[i]) = queue[i]
      OBVIOUS
    <2>1. queue[i] \in Items
      BY <1>1
    <2>2. queue[i] = [key |-> queue[i].key, batch |-> queue[i].batch]
      BY Zenon, <1>4, <2>1
    <2>3. Item(KeySeq(queue)[i]) = [key |-> queue[i].key, batch |-> wal[queue[i].key]]
      BY <1>2 DEF Item
    <2> QED
      BY <1>1, <2>2, <2>3
  <1>6. queue = [i \in 1..Len(queue) |-> queue[i]]
    BY <1>1
  <1> QED
    BY Zenon, <1>3, <1>5, <1>6

\* While the process runs, the log without the entries whose deletion failed is
\* the queue in memory, key by key: Load after a crash at any moment gives the
\* same queue (queue.go).
THEOREM LogIsTheQueue == Spec => []LogHoldsQueue
  <1>1. IInv => LogHoldsQueue
    BY QueueSorted DEF LogHoldsQueue
  <1> QED
    BY <1>1, QueueInvariance, PTL

\* An accepted or moved batch stays in the log until it is handed out.
LEMMA StepNothingLost == IInv /\ NothingLost /\ [Next]_vars => NothingLost'
  <1> SUFFICES ASSUME IInv, NothingLost, [Next]_vars PROVE NothingLost'
    OBVIOUS
  <1>1. ASSUME NEW b, persistBatch(nextAddSeq, b), up
        PROVE  Range(wal') = Range(wal) \cup {b}
    <2>1. nextAddSeq \notin Keys
      BY <1>1 DEF IInv, Types, LogInv, MemoryFits
    <2> QED
      BY SMTT(30), <1>1, <2>1, Persisted
  <1>2. CASE AddBatch
    <2>1. up /\ UNCHANGED <<old, taken>>
      BY <1>2 DEF AddBatch, Ready
    <2>2. PICK b \in Batches : persistBatch(nextAddSeq, b) /\ submitted' = submitted \cup {b}
      BY <1>2 DEF AddBatch
    <2> QED
      BY <1>1, <2>1, <2>2 DEF NothingLost
  <1>3. CASE Migrate
    <2>1. UNCHANGED <<submitted, taken>>
      BY <1>3 DEF Migrate
    <2>2. PICK b \in todo : persistBatch(nextAddSeq, b) /\ old \ {b} \subseteq old'
      BY <1>3 DEF Migrate
    <2>3. up
      BY <2>2 DEF IInv, Types
    <2> QED
      BY <1>1, <2>1, <2>2, <2>3 DEF NothingLost
  <1>4. CASE Prepend
    <2>1. /\ up /\ inHand # <<>> /\ persistBatch(nextPrependSeq, inHand[1])
          /\ taken' = taken \ Range(inHand) /\ UNCHANGED <<old, submitted>>
      BY SMTT(30), <1>4 DEF Prepend, Ready
    <2>2. nextPrependSeq \notin Keys
      BY <2>1 DEF IInv, Types, LogInv, MemoryFits
    <2>3. Range(wal') = Range(wal) \cup {inHand[1]}
      BY <2>1, <2>2, Persisted
    <2>4. Range(inHand) = {inHand[1]}
      <3>1. inHand \in Seq(All) /\ Len(inHand) <= 1
        BY DEF IInv, Types, TypeOK
      <3>2. Len(inHand) \in Nat /\ Len(inHand) # 0 /\ DOMAIN inHand = 1..Len(inHand)
        BY <2>1, <3>1
      <3>3. Len(inHand) = 1
        BY <3>1, <3>2
      <3>4. DOMAIN inHand = {1}
        BY <3>2, <3>3
      <3> QED
        BY <3>4 DEF Range
    <2> QED
      BY <2>1, <2>3, <2>4 DEF NothingLost
  <1>5. CASE NextBatch
    <2> DEFINE k == Head(queue).key
    <2>1. /\ up /\ queue # <<>> /\ inHand' = <<Head(queue).batch>>
          /\ taken' = taken \cup Range(inHand') /\ UNCHANGED <<old, submitted>>
          /\ Delete(k) \/ UNCHANGED wal
      BY Zenon, <1>5 DEF NextBatch, Ready
    <2>2. Head(queue).batch = wal[k]
      <3>1. queue \in Seq(Items)
        BY DEF IInv, Types, TypeOK, Items, All
      <3>2. Head(queue) = queue[1] /\ 1 \in 1..Len(queue)
        BY <2>1, <3>1
      <3> QED
        BY <2>1, <3>2 DEF IInv, LogInv, MemoryFits
    <2>3. Range(inHand') = {wal[k]}
      BY <2>1, <2>2 DEF Range
    <2>4. Range(wal) \subseteq Range(wal') \cup {wal[k]}
      BY <2>1 DEF Delete, Range, Keys
    <2> QED
      BY Zenon, <2>1, <2>3, <2>4 DEF NothingLost
  <1>6. CASE Crash \/ Load \/ UNCHANGED vars
    BY <1>6 DEF Crash, Load, vars, NothingLost
  <1> QED
    BY <1>2, <1>3, <1>4, <1>5, <1>6 DEF Next

\* A batch that AddBatch accepted, or that Load moved to the new format, is in the
\* log until it has been handed out, whatever crashes and whichever deletion fails
\* (queue.go).
THEOREM QueueKeeps == Spec => []NothingLost
  <1>1. Init => NothingLost
    BY DEF Init, NothingLost
  <1> QED
    BY <1>1, QueueInvariance, StepNothingLost, PTL DEF Spec

-----------------------------------------------------------------------------
\* The batches of a queue with one more or one less item.
LEMMA BatchSeqs ==
  ASSUME NEW q \in Seq(Items)
  PROVE  /\ BatchesOf(q) \in Seq(All) /\ Len(BatchesOf(q)) = Len(q)
         /\ \A i \in 1..Len(q) : BatchesOf(q)[i] = q[i].batch
         /\ \A e \in Items : BatchesOf(Append(q, e)) = Append(BatchesOf(q), e.batch)
         /\ \A e \in Items : BatchesOf(<<e>> \o q) = <<e.batch>> \o BatchesOf(q)
         /\ q # <<>> => /\ BatchesOf(Tail(q)) = Tail(BatchesOf(q))
                        /\ BatchesOf(q) # <<>>
                        /\ Head(BatchesOf(q)) = Head(q).batch
  <1>1. Len(q) \in Nat /\ \A e \in Items : e.batch \in All
    BY DEF Items
  <1>2. ASSUME NEW p \in Seq(Items)
        PROVE  /\ BatchesOf(p) \in Seq(All) /\ Len(BatchesOf(p)) = Len(p)
               /\ \A i \in 1..Len(p) : BatchesOf(p)[i] = p[i].batch
    <2>1. Len(p) \in Nat /\ \A i \in 1..Len(p) : p[i] \in Items
      OBVIOUS
    <2>2. \A i \in 1..Len(p) : p[i].batch \in All
      BY <1>1, <2>1
    <2> QED
      BY <2>1, <2>2 DEF BatchesOf
  <1>3. ASSUME NEW s \in Seq(All), NEW t \in Seq(All), Len(s) = Len(t),
               \A i \in 1..Len(s) : s[i] = t[i]
        PROVE  s = t
    BY SMTT(30), <1>3
  <1>4. ASSUME NEW e \in Items
        PROVE  BatchesOf(Append(q, e)) = Append(BatchesOf(q), e.batch)
    <2>1. /\ Append(q, e) \in Seq(Items) /\ Len(Append(q, e)) = Len(q) + 1
          /\ Append(q, e)[Len(q) + 1] = e
          /\ \A i \in 1..Len(q) : Append(q, e)[i] = q[i]
      OBVIOUS
    <2>2. /\ BatchesOf(Append(q, e)) \in Seq(All)
          /\ Len(BatchesOf(Append(q, e))) = Len(q) + 1
          /\ \A i \in 1..(Len(q) + 1) : BatchesOf(Append(q, e))[i] = Append(q, e)[i].batch
      BY Zenon, <1>2, <2>1
    <2>3. e.batch \in All
      BY <1>1
    <2>4. /\ BatchesOf(q) \in Seq(All) /\ Len(BatchesOf(q)) = Len(q)
          /\ \A i \in 1..Len(q) : BatchesOf(q)[i] = q[i].batch
      BY <1>2
    <2>5. /\ Append(BatchesOf(q), e.batch) \in Seq(All)
          /\ Len(Append(BatchesOf(q), e.batch)) = Len(q) + 1
          /\ Append(BatchesOf(q), e.batch)[Len(q) + 1] = e.batch
          /\ \A i \in 1..Len(q) : Append(BatchesOf(q), e.batch)[i] = q[i].batch
      BY <2>3, <2>4
    <2>6. \A i \in 1..(Len(q) + 1) : i \in 1..Len(q) \/ i = Len(q) + 1
      BY <1>1
    <2>7. \A i \in 1..(Len(q) + 1) :
            BatchesOf(Append(q, e))[i] = Append(BatchesOf(q), e.batch)[i]
      BY <2>1, <2>2, <2>5, <2>6
    <2> QED
      BY <1>3, <2>2, <2>5, <2>7
  <1>5. ASSUME NEW e \in Items
        PROVE  BatchesOf(<<e>> \o q) = <<e.batch>> \o BatchesOf(q)
    <2>1. /\ <<e>> \o q \in Seq(Items) /\ Len(<<e>> \o q) = Len(q) + 1
          /\ (<<e>> \o q)[1] = e
          /\ \A i \in 1..Len(q) : (<<e>> \o q)[i + 1] = q[i]
      OBVIOUS
    <2>2. /\ BatchesOf(<<e>> \o q) \in Seq(All)
          /\ Len(BatchesOf(<<e>> \o q)) = Len(q) + 1
          /\ \A i \in 1..(Len(q) + 1) : BatchesOf(<<e>> \o q)[i] = (<<e>> \o q)[i].batch
      BY Zenon, <1>2, <2>1
    <2>3. e.batch \in All
      BY <1>1
    <2>4. /\ BatchesOf(q) \in Seq(All) /\ Len(BatchesOf(q)) = Len(q)
          /\ \A i \in 1..Len(q) : BatchesOf(q)[i] = q[i].batch
      BY <1>2
    <2>5. /\ <<e.batch>> \o BatchesOf(q) \in Seq(All)
          /\ Len(<<e.batch>> \o BatchesOf(q)) = Len(q) + 1
          /\ (<<e.batch>> \o BatchesOf(q))[1] = e.batch
          /\ \A i \in 1..Len(q) : (<<e.batch>> \o BatchesOf(q))[i + 1] = q[i].batch
      BY <2>3, <2>4
    <2>6. \A i \in 1..(Len(q) + 1) : i = 1 \/ \E j \in 1..Len(q) : i = j + 1
      <3> SUFFICES ASSUME NEW i \in 1..(Len(q) + 1), i # 1
                   PROVE  i - 1 \in 1..Len(q) /\ i = (i - 1) + 1
        OBVIOUS
      <3> QED
        BY <1>1
    <2>7. \A i \in 1..(Len(q) + 1) :
            BatchesOf(<<e>> \o q)[i] = (<<e.batch>> \o BatchesOf(q))[i]
      BY ZenonT(30), <2>1, <2>2, <2>5, <2>6
    <2> QED
      BY Zenon, <1>3, <2>2, <2>5, <2>7
  <1>6. ASSUME q # <<>>
        PROVE  /\ BatchesOf(Tail(q)) = Tail(BatchesOf(q))
               /\ BatchesOf(q) # <<>>
               /\ Head(BatchesOf(q)) = Head(q).batch
    <2>1. /\ Tail(q) \in Seq(Items) /\ Len(Tail(q)) = Len(q) - 1
          /\ \A i \in 1..(Len(q) - 1) : Tail(q)[i] = q[i + 1]
          /\ Len(q) > 0 /\ Head(q) = q[1]
      BY <1>6
    <2>2. /\ BatchesOf(Tail(q)) \in Seq(All)
          /\ Len(BatchesOf(Tail(q))) = Len(q) - 1
          /\ \A i \in 1..(Len(q) - 1) : BatchesOf(Tail(q))[i] = Tail(q)[i].batch
      BY Zenon, <1>2, <2>1
    <2>3. /\ BatchesOf(q) \in Seq(All) /\ Len(BatchesOf(q)) = Len(q)
          /\ \A i \in 1..Len(q) : BatchesOf(q)[i] = q[i].batch
      BY <1>2
    <2>4. 1 \in 1..Len(q) /\ \A i \in 1..(Len(q) - 1) : i + 1 \in 1..Len(q)
      BY <1>1, <2>1
    <2>5. /\ Tail(BatchesOf(q)) \in Seq(All)
          /\ Len(Tail(BatchesOf(q))) = Len(q) - 1
          /\ \A i \in 1..(Len(q) - 1) : Tail(BatchesOf(q))[i] = BatchesOf(q)[i + 1]
          /\ BatchesOf(q) # <<>> /\ Head(BatchesOf(q)) = BatchesOf(q)[1]
      BY SMTT(30), <1>1, <2>1, <2>3
    <2>6. \A i \in 1..(Len(q) - 1) : BatchesOf(Tail(q))[i] = Tail(BatchesOf(q))[i]
      BY Zenon, <2>1, <2>2, <2>3, <2>4, <2>5
    <2>7. BatchesOf(Tail(q)) = Tail(BatchesOf(q))
      BY Zenon, <1>3, <2>2, <2>5, <2>6
    <2>8. Head(BatchesOf(q)) = Head(q).batch
      BY Zenon, <2>1, <2>3, <2>4, <2>5
    <2> QED
      BY <2>5, <2>7, <2>8
  <1> QED
    BY Zenon, <1>2, <1>4, <1>5, <1>6

\* The queue as it is in the log.
Held == BatchesOf(IF up THEN queue ELSE Sorted(Keys \ stale))

LEMMA HeldInLog ==
  ASSUME IInv
  PROVE  Held = BatchesOf(Sorted(Keys \ stale)) /\ (up => Held = BatchesOf(queue))
  BY QueueSorted DEF Held

\* The batches of a sorted log.
LEMMA SortedBatches ==
  ASSUME IInv, NEW S, NEW s, Lists(s, S), S \subseteq Keys
  PROVE  BatchesOf(Sorted(S)) = [i \in 1..Len(s) |-> wal[s[i]]]
  <1>1. Len(s) \in Nat /\ s \in Seq(Int)
    BY ListsFacts
  <1>2. Sorted(S) = [i \in 1..Len(s) |-> Item(s[i])]
    BY SortedLists
  <1>3. /\ Len(Sorted(S)) = Len(s)
        /\ \A i \in 1..Len(s) : Sorted(S)[i] = Item(s[i])
    BY SMTT(30), <1>1, <1>2
  <1>4. \A i \in 1..Len(s) : Sorted(S)[i].batch = wal[s[i]]
    <2>1. \A x : Item(x).batch = wal[x]
      BY DEF Item
    <2> QED
      BY <1>3, <2>1
  <1> QED
    BY Zenon, <1>3, <1>4 DEF BatchesOf

LEMMA AddedLast == IInv /\ AddBatch => Q!AddLast
  <1> SUFFICES ASSUME IInv, AddBatch PROVE Q!AddLast
    BY Zenon
  <1>1. PICK b \in Batches : queue' = Append(queue, [key |-> nextAddSeq, batch |-> b])
    BY SMTT(30) DEF AddBatch
  <1>2. /\ up /\ up' /\ handed' = handed /\ ~Full(Len(queue))
        /\ queue \in Seq(Items) /\ nextAddSeq \in Int
    BY DEF AddBatch, Ready, IInv, Types, TypeOK, Items, All
  <1>3. [key |-> nextAddSeq, batch |-> b] \in Items
    BY SMTT(30), <1>2 DEF Items, All
  <1>4. /\ BatchesOf(queue') = Append(BatchesOf(queue), b)
        /\ Len(BatchesOf(queue)) = Len(queue) /\ Len(queue) \in Nat
    BY <1>1, <1>2, <1>3, BatchSeqs
  <1>5. MaxQueueSize = 0 \/ Len(queue) < MaxQueueSize
    BY <1>2, <1>4, QueueAssumption DEF Full
  <1> QED
    BY <1>2, <1>4, <1>5 DEF Q!AddLast

LEMMA TakenOver == IInv /\ Migrate => Q!TakeOver
  <1> SUFFICES ASSUME IInv, Migrate PROVE Q!TakeOver
    BY Zenon
  <1>1. PICK b \in todo : queue' = Append(queue, [key |-> nextAddSeq, batch |-> b])
    BY Zenon DEF Migrate
  <1>2. /\ up /\ up' /\ handed' = handed /\ b \in Legacy
        /\ queue \in Seq(Items) /\ nextAddSeq \in Int
    BY DEF Migrate, IInv, Types, TypeOK, Items, All
  <1>3. [key |-> nextAddSeq, batch |-> b] \in Items
    BY SMTT(30), <1>2 DEF Items, All
  <1>4. BatchesOf(queue') = Append(BatchesOf(queue), b)
    BY <1>1, <1>2, <1>3, BatchSeqs
  <1> QED
    BY <1>2, <1>4 DEF Q!TakeOver

LEMMA PutBack == IInv /\ Prepend => Q!PutFirst
  <1> SUFFICES ASSUME IInv, Prepend PROVE Q!PutFirst
    BY Zenon
  <1>1. /\ up /\ up' /\ handed' = handed /\ inHand # <<>>
        /\ queue \in Seq(Items) /\ nextPrependSeq \in Int
        /\ inHand \in Seq(All) /\ Range(inHand) \subseteq handed
        /\ queue' = <<[key |-> nextPrependSeq, batch |-> inHand[1]]>> \o queue
    BY DEF Prepend, Ready, IInv, Types, TypeOK, Items, All
  <1>2. 1 \in DOMAIN inHand /\ inHand[1] \in All
    BY <1>1
  <1>3. inHand[1] \in handed
    BY SMTT(30), <1>1, <1>2 DEF Range
  <1>4. [key |-> nextPrependSeq, batch |-> inHand[1]] \in Items
    BY <1>1, <1>2 DEF Items
  <1>5. BatchesOf(queue') = <<inHand[1]>> \o BatchesOf(queue)
    BY Zenon, <1>1, <1>4, BatchSeqs
  <1> QED
    BY Zenon, <1>1, <1>3, <1>5 DEF Q!PutFirst

LEMMA HandedOut == IInv /\ NextBatch => Q!Take
  <1> SUFFICES ASSUME IInv, NextBatch PROVE Q!Take
    BY Zenon
  <1>1. /\ up /\ up' /\ queue # <<>> /\ queue' = Tail(queue)
        /\ inHand' = <<Head(queue).batch>> /\ handed' = handed \cup Range(inHand')
        /\ queue \in Seq(Items)
    BY DEF NextBatch, Ready, IInv, Types, TypeOK, Items, All
  <1>2. Range(inHand') = {Head(queue).batch}
    BY SMTT(30), <1>1 DEF Range
  <1>3. /\ BatchesOf(queue') = Tail(BatchesOf(queue))
        /\ BatchesOf(queue) # <<>> /\ Head(BatchesOf(queue)) = Head(queue).batch
    BY <1>1, BatchSeqs
  <1> QED
    BY <1>1, <1>2, <1>3 DEF Q!Take

\* Load brings back the queue, and between its batches those whose deletion
\* failed, which were handed out.
LEMMA Redelivered == IInv /\ Load => Q!Redeliver
  <1> SUFFICES ASSUME IInv, Load PROVE Q!Redeliver
    BY Zenon
  <1>1. /\ ~up /\ up' /\ queue' = Sorted(Keys) /\ handed' = handed
        /\ stale \subseteq Keys
    BY SMTT(30) DEF Load, IInv, Types, TypeOK
  <1>2. PICK s : Lists(s, Keys)
    BY DEF IInv, LogInv
  <1>3. PICK r : Lists(r, Keys \ stale)
    BY Zenon DEF IInv, LogInv
  <1> DEFINE was == BatchesOf(Sorted(Keys \ stale))
             now == BatchesOf(Sorted(Keys))
             kept == [i \in 1..Len(r) |-> CHOOSE p \in 1..Len(s) : s[p] = r[i]]
  <1>4. /\ Len(s) \in Nat /\ \A m, n \in 1..Len(s) : m < n => s[m] < s[n]
        /\ Keys = {s[m] : m \in 1..Len(s)} /\ \A m \in 1..Len(s) : s[m] \in Int
    BY <1>2, ListsFacts
  <1>5. /\ Len(r) \in Nat /\ \A m, n \in 1..Len(r) : m < n => r[m] < r[n]
        /\ Keys \ stale = {r[m] : m \in 1..Len(r)} /\ \A m \in 1..Len(r) : r[m] \in Int
    <2>1. \A S : Lists(r, S) =>
            /\ Len(r) \in Nat /\ \A m, n \in 1..Len(r) : m < n => r[m] < r[n]
            /\ S = {r[m] : m \in 1..Len(r)} /\ \A m \in 1..Len(r) : r[m] \in Int
      BY SMTT(30), ListsFacts
    <2> QED
      BY Zenon, <1>3, <2>1
  <1>6. now = [i \in 1..Len(s) |-> wal[s[i]]] /\ was = [i \in 1..Len(r) |-> wal[r[i]]]
    BY SMTT(30), <1>2, <1>3, SortedBatches
  <1>7. DOMAIN now = 1..Len(s) /\ DOMAIN was = 1..Len(r)
    BY <1>6
  <1>8. \A i \in 1..Len(r) : kept[i] \in 1..Len(s) /\ s[kept[i]] = r[i]
    <2>1. \A i \in 1..Len(r) : \E p \in 1..Len(s) : s[p] = r[i]
      BY Zenon, <1>4, <1>5
    <2> QED
      BY <2>1
  <1>9. kept \in [1..Len(r) -> 1..Len(s)]
    BY Zenon, <1>8
  <1> HIDE DEF kept
  <1>10. \A i, j \in 1..Len(r) : i < j => kept[i] < kept[j]
    <2> SUFFICES ASSUME NEW i \in 1..Len(r), NEW j \in 1..Len(r), i < j
                 PROVE  kept[i] < kept[j]
      BY SMTT(30)
    <2>1. s[kept[i]] < s[kept[j]]
      BY SMTT(30), <1>5, <1>8
    <2>2. kept[i] \in 1..Len(s) /\ kept[j] \in 1..Len(s)
      BY SMTT(30), <1>8
    <2>3. ~(kept[j] < kept[i]) /\ kept[i] # kept[j]
      BY SMTT(30), <1>4, <2>1, <2>2
    <2> QED
      BY <1>4, <2>2, <2>3
  <1>11. \A i \in 1..Len(r) : now[kept[i]] = was[i]
    BY SMTT(30), <1>6, <1>8
  <1>12. \A j \in 1..Len(s) : j \notin {kept[i] : i \in 1..Len(r)} => now[j] \in handed
    <2> SUFFICES ASSUME NEW j \in 1..Len(s), j \notin {kept[i] : i \in 1..Len(r)}
                 PROVE  now[j] \in handed
      BY Zenon
    <2>1. s[j] \in stale
      <3> SUFFICES ASSUME s[j] \notin stale PROVE FALSE
        BY Zenon
      <3>1. PICK i \in 1..Len(r) : r[i] = s[j]
        BY Zenon, <1>4, <1>5
      <3>2. kept[i] \in 1..Len(s) /\ s[kept[i]] = s[j] /\ kept[i] # j
        BY SMTT(30), <1>8, <3>1
      <3>3. kept[i] < j \/ j < kept[i]
        BY SMTT(30), <1>4, <3>2
      <3> QED
        BY <1>4, <3>2, <3>3
    <2>2. wal[s[j]] \in handed
      BY SMTT(30), <2>1 DEF IInv, LogInv
    <2> QED
      BY <1>6, <2>2
  <1>13. /\ Held = was /\ Held' = now
    BY SMTT(30), <1>1, HeldInLog DEF Held
  <1> HIDE DEF was, now
  <1>14. \E f \in [DOMAIN Held -> DOMAIN Held'] :
           /\ \A i, j \in DOMAIN Held : i < j => f[i] < f[j]
           /\ \A i \in DOMAIN Held : Held'[f[i]] = Held[i]
           /\ \A j \in DOMAIN Held' \ {f[i] : i \in DOMAIN Held} : Held'[j] \in handed
    BY <1>7, <1>9, <1>10, <1>11, <1>12, <1>13
  <1> QED
    BY Zenon, <1>1, <1>14 DEF Q!Redeliver, Held

\* A crash leaves the queue as the log has it.
LEMMA CrashKeeps == IInv /\ Crash => UNCHANGED <<Held, handed>>
  <1> SUFFICES ASSUME IInv, Crash PROVE UNCHANGED <<Held, handed>>
    OBVIOUS
  <1>1. ~up' /\ UNCHANGED <<wal, stale, handed>>
    BY SMTT(30) DEF Crash
  <1>2. Sorted(Keys \ stale)' = Sorted(Keys \ stale)
    BY <1>1 DEF Sorted, Item, Keys
  <1> QED
    BY SMTT(30), <1>1, <1>2, HeldInLog DEF Held

\* Memory and log together are the durable queue that the sequencer expects
\* (queue.go): a crash is no step of it, and Load only brings back, between the
\* batches that were waiting, some that were handed out before.
THEOREM QueueImplemented == Spec => ImplementsQueue
  <1>1. Init => Held = <<>> /\ handed = {}
    <2> SUFFICES ASSUME Init PROVE Held = <<>> /\ handed = {}
      OBVIOUS
    <2>1. ~up /\ Keys \ stale = {} /\ handed = {}
      BY DEF Init, Keys
    <2>2. Lists(<<>>, {}) /\ {} \subseteq Keys
      BY DEF Lists
    <2>3. BatchesOf(Sorted({})) = [i \in 1..Len(<<>>) |-> wal[<<>>[i]]]
      BY <2>2, InitIInv, SortedBatches
    <2>4. [i \in 1..Len(<<>>) |-> wal[<<>>[i]]] = <<>>
      OBVIOUS
    <2> QED
      BY Zenon, <2>1, <2>3, <2>4 DEF Held
  <1>2. ASSUME IInv, [Next]_vars
        PROVE  [Q!AddLast \/ Q!TakeOver \/ Q!Take \/ Q!PutFirst \/ Q!Redeliver]_<<Held, handed>>
    <2>1. CASE UNCHANGED vars
      BY <2>1 DEF vars, memory, Held, Sorted, Item, Keys
    <2> QED
      BY Zenon, <1>2, <2>1, AddedLast, TakenOver, PutBack, HandedOut, Redelivered,
         CrashKeeps DEF Next
  <1> QED
    BY <1>1, <1>2, QueueInvariance, PTL DEF Spec, ImplementsQueue, Q!QueueSpec, Held
=============================================================================
