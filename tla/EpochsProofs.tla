---------------------------- MODULE EpochsProofs ----------------------------
(***************************************************************************)
(* The epochs of types/epoch.go cut the DA heights from the start height   *)
(* on into intervals of the epoch size, for every start and every size.    *)
(***************************************************************************)
EXTENDS Epochs, TLAPS

\* What integer division by a positive number gives.
LEMMA Division ==
  ASSUME NEW a \in Nat, NEW b \in Nat, b > 0
  PROVE  /\ a \div b \in Nat
         /\ (a \div b) * b <= a
         /\ a < (a \div b) * b + b
  OBVIOUS

\* The quotient is the only number of whole epochs that fits.
LEMMA Quotient ==
  ASSUME NEW a \in Nat, NEW b \in Nat, b > 0, NEW n \in Nat,
         n * b <= a, a < n * b + b
  PROVE  a \div b = n
  OBVIOUS

\* CalculateEpochBoundaries: a height lies in its epoch, which is size long.
THEOREM HeightInEpoch ==
  ASSUME NEW start \in Nat, NEW size \in Nat, size > 0,
         NEW h \in Nat, h >= start
  PROVE  /\ EpochStart(h, start, size) <= h
         /\ h <= EpochEnd(h, start, size)
         /\ EpochEnd(h, start, size) = EpochStart(h, start, size) + size - 1
<1> DEFINE n == (h - start) \div size
<1>1. h - start \in Nat
  OBVIOUS
<1>2. n \in Nat /\ n * size <= h - start /\ h - start < n * size + size
  BY <1>1, Division
<1>3. EpochStart(h, start, size) = start + n * size
  BY <1>2 DEF EpochStart, CalculateEpochNumber
<1>4. EpochEnd(h, start, size) = start + n * size + size - 1
  BY <1>2 DEF EpochEnd, CalculateEpochNumber
<1>5. QED
  BY <1>2, <1>3, <1>4

\* Heights of one epoch agree on its boundaries, so that the sequencer, the
\* retriever and a full node that checks forced inclusion cut the DA layer alike.
THEOREM EpochsAgree ==
  ASSUME NEW start \in Nat, NEW size \in Nat, size > 0,
         NEW h \in Nat, h >= start,
         NEW g \in EpochStart(h, start, size)..EpochEnd(h, start, size)
  PROVE  /\ g \in Nat /\ g >= start
         /\ CalculateEpochNumber(g, start, size) = CalculateEpochNumber(h, start, size)
         /\ EpochStart(g, start, size) = EpochStart(h, start, size)
         /\ EpochEnd(g, start, size) = EpochEnd(h, start, size)
<1> DEFINE n == (h - start) \div size
<1>1. n \in Nat
  BY Division, h - start \in Nat
<1>2. EpochStart(h, start, size) = start + n * size
  BY <1>1 DEF EpochStart, CalculateEpochNumber
<1>3. EpochEnd(h, start, size) = start + n * size + size - 1
  BY <1>1 DEF EpochEnd, CalculateEpochNumber
<1>4. n * size \in Nat
  BY <1>1
<1>5. /\ g \in Nat /\ g >= start /\ g - start \in Nat
      /\ n * size <= g - start /\ g - start < n * size + size
  BY <1>2, <1>3, <1>4
<1>6. (g - start) \div size = n
  BY <1>1, <1>5, Quotient
<1>7. CalculateEpochNumber(g, start, size) = CalculateEpochNumber(h, start, size)
  BY <1>5, <1>6 DEF CalculateEpochNumber
<1>8. QED
  BY <1>5, <1>7 DEF EpochStart, EpochEnd

\* The next epoch begins where an epoch ends: the checkpoint, which moves from
\* the last height of an epoch to the following height, skips none.
THEOREM EpochsAdjacent ==
  ASSUME NEW start \in Nat, NEW size \in Nat, size > 0,
         NEW h \in Nat, h >= start
  PROVE  LET next == EpochEnd(h, start, size) + 1
         IN  /\ EpochStart(next, start, size) = next
             /\ CalculateEpochNumber(next, start, size)
                  = CalculateEpochNumber(h, start, size) + 1
<1> DEFINE n == (h - start) \div size
           next == EpochEnd(h, start, size) + 1
<1>1. n \in Nat
  BY Division, h - start \in Nat
<1>2. next = start + (n + 1) * size
  BY <1>1 DEF EpochEnd, CalculateEpochNumber
<1>3. (n + 1) * size \in Nat /\ n + 1 \in Nat
  BY <1>1
<1> HIDE DEF n
<1>4. next \in Nat /\ next >= start /\ next - start = (n + 1) * size
  BY <1>2, <1>3
<1>5. (next - start) \div size = n + 1
  BY <1>3, <1>4, Quotient
<1>6. CalculateEpochNumber(next, start, size) = n + 2
  BY <1>1, <1>4, <1>5 DEF CalculateEpochNumber
<1>7. CalculateEpochNumber(h, start, size) = n + 1
  BY DEF CalculateEpochNumber, n
<1>8. EpochStart(next, start, size)
        = start + (CalculateEpochNumber(next, start, size) - 1) * size
  <2> HIDE DEF next
  <2>1. QED
    BY <1>4 DEF EpochStart
<1>9. CalculateEpochNumber(next, start, size) - 1 = n + 1
  BY <1>1, <1>6
<1>10. EpochStart(next, start, size) = next
  BY <1>2, <1>8, <1>9
<1>11. QED
  BY <1>1, <1>6, <1>7, <1>10
=============================================================================
