-------------------------- MODULE CosmosExecProofs --------------------------
(***************************************************************************)
(* Proofs about CosmosExec, for every setup and every number of attempts:  *)
(* no committed block is lost by the executor, and the two processes agree *)
(* on what is final.                                                       *)
(***************************************************************************)
EXTENDS CosmosExec, TLAPS

Requests == [op : Waits \cup {"SetFinal"}, height : Int, live : BOOLEAN]
MainPCs == Waits \cup {"down", "loaded", "ahead", "behind", "idle", "commit"}
ExecTypes == [initialized : BOOLEAN, root : Int, last : Int, final : Int, version : Int]
MetaTypes == [initialized : BOOLEAN, root : Int, last : Int, final : Int]
ChainTypes == [initialized : BOOLEAN, height : Int, final : Int]
FinalityTypes == [pc : {"idle", "SetFinal", "record"}, attempts : Int]
MainTypes == [pc : MainPCs, attempts : Int, execHeight : Int]

Types ==
  /\ stored \in Int /\ logged \subseteq Int
  /\ logged = {} \/ \E m \in logged : \A k \in logged : k <= m
  /\ meta \in MetaTypes /\ exec \in ExecTypes
  /\ up \in BOOLEAN
  /\ calls \in Seq(Requests)
  /\ chain \in ChainTypes
  /\ main \in MainTypes
  /\ finality \in FinalityTypes

\* A call asks for something that fits the chain, whether or not its caller waits.
Fits(c) ==
  /\ c.op = "InitChain" => chain.height = 0 /\ ~chain.initialized
  /\ c.op = "Rollback" => c.height = chain.height
  /\ c.op = "ExecuteTxs" => c.height = chain.height + 1
  /\ c.op = "SetFinal" => c.height <= chain.height
  /\ c.op \in {"ExecuteTxs", "Replay"} => chain.initialized

\* A live call has its caller.
Awaited(c) ==
  /\ c.op # "SetFinal" =>
       main.pc = c.op /\ (c.op = "Replay" => c.height = main.execHeight + 1)
  /\ c.op = "SetFinal" => finality.pc = "SetFinal" /\ c.height = chain.final + 1

\* No call of the node's start or production is left before the first state is
\* stored, or a block is.
Alone == main.pc = "commit" \/ (main.pc = "loaded" /\ ~chain.initialized)

QueueInv ==
  /\ \A i \in 1..Len(calls) : Fits(calls[i]) /\ (calls[i].live => Awaited(calls[i]))
  /\ \A i, j \in 1..Len(calls) :
       i < j /\ calls[i].live /\ calls[i].op # "SetFinal" => calls[j].op = "SetFinal"
  /\ \A i, j \in 1..Len(calls) :
       i < j /\ calls[i].live /\ calls[j].live /\ calls[i].op = "SetFinal" => calls[j].op # "SetFinal"
  /\ Alone => \A i \in 1..Len(calls) : calls[i].op = "SetFinal"
  /\ ~chain.initialized => chain.height = 0
  /\ main.pc \notin {"down", "InitChain", "loaded"} => chain.initialized

-----------------------------------------------------------------------------
\* The calls that are left, less their first d, with no new caller.
LEMMA FewerCalls ==
  ASSUME Types, QueueInv, calls' \in Seq(Requests), UNCHANGED chain,
         NEW d \in Nat, Len(calls') + d = Len(calls),
         \A i \in 1..Len(calls') :
           calls'[i].op = calls[i + d].op /\ calls'[i].height = calls[i + d].height,
         \A i \in 1..Len(calls') : calls'[i].live =>
           /\ calls[i + d].live
           /\ calls'[i].op # "SetFinal" => main'.pc = main.pc /\ main'.execHeight = main.execHeight
           /\ calls'[i].op = "SetFinal" => finality'.pc = finality.pc,
         Alone' => \A i \in 1..Len(calls') : calls'[i].op = "SetFinal",
         main'.pc \notin {"down", "InitChain", "loaded"} => chain.initialized
  PROVE  QueueInv'
  <1>1. Len(calls) \in Nat /\ Len(calls') \in Nat
    <2>1. calls \in Seq(Requests) /\ calls' \in Seq(Requests)
      BY DEF Types
    <2> QED
      BY ONLY <2>1
  <1>2. \A i \in 1..Len(calls') : i + d \in 1..Len(calls)
    <2> DEFINE m == Len(calls)
               n == Len(calls')
    <2>1. m \in Nat /\ n \in Nat /\ n + d = m
      BY <1>1
    <2> HIDE DEF m, n
    <2>2. \A i \in 1..n : i + d \in 1..m
      BY ONLY <2>1, d \in Nat
    <2> QED
      BY <2>2 DEF m, n
  <1>4. ASSUME NEW i \in 1..Len(calls')
        PROVE  Fits(calls[i])' /\ (calls'[i].live => Awaited(calls[i])')
    <2>1. Fits(calls[i + d]) /\ (calls[i + d].live => Awaited(calls[i + d]))
      BY <1>2 DEF QueueInv
    <2>2. Fits(calls[i])'
      BY <2>1 DEF Fits
    <2>3. calls'[i].live => Awaited(calls[i])'
      BY <2>1 DEF Awaited
    <2> QED
      BY <2>2, <2>3
  <1>5. \A i, j \in 1..Len(calls') :
          i < j /\ calls'[i].live /\ calls'[i].op # "SetFinal" => calls'[j].op = "SetFinal"
    <2> SUFFICES ASSUME NEW i \in 1..Len(calls'), NEW j \in 1..Len(calls'),
                        i < j, calls'[i].live, calls'[i].op # "SetFinal"
                 PROVE  calls'[j].op = "SetFinal"
      OBVIOUS
    <2>1. i + d \in 1..Len(calls) /\ j + d \in 1..Len(calls) /\ i + d < j + d
      BY <1>1, <1>2
    <2> QED
      BY Zenon, <2>1 DEF QueueInv
  <1>6. \A i, j \in 1..Len(calls') :
          i < j /\ calls'[i].live /\ calls'[j].live /\ calls'[i].op = "SetFinal"
            => calls'[j].op # "SetFinal"
    <2> SUFFICES ASSUME NEW i \in 1..Len(calls'), NEW j \in 1..Len(calls'),
                        i < j, calls'[i].live, calls'[j].live, calls'[i].op = "SetFinal"
                 PROVE  calls'[j].op # "SetFinal"
      BY Zenon
    <2>1. i + d \in 1..Len(calls) /\ j + d \in 1..Len(calls) /\ i + d < j + d
      BY <1>1, <1>2
    <2>2. /\ calls[i + d].live /\ calls[j + d].live
          /\ calls[i + d].op = "SetFinal" /\ calls'[j].op = calls[j + d].op
      OBVIOUS
    <2>3. calls[j + d].op # "SetFinal"
      BY <2>1, <2>2 DEF QueueInv
    <2> QED
      BY <2>2, <2>3
  <1>7. /\ ~chain'.initialized => chain'.height = 0
        /\ main'.pc \notin {"down", "InitChain", "loaded"} => chain'.initialized
    BY DEF QueueInv
  <1> QED
    BY <1>4, <1>5, <1>6, <1>7 DEF QueueInv

\* One more call, whose caller waits.
LEMMA OneMoreCall ==
  ASSUME Types, QueueInv, NEW c \in Requests, calls' = Append(calls, c),
         UNCHANGED chain, Fits(c), Awaited(c)',
         Alone' => c.op = "SetFinal" /\ \A i \in 1..Len(calls) : calls[i].op = "SetFinal",
         main'.pc \notin {"down", "InitChain", "loaded"} => chain.initialized,
         \A i \in 1..Len(calls) : calls[i].live =>
           IF c.op # "SetFinal" THEN calls[i].op = "SetFinal" /\ finality'.pc = finality.pc
           ELSE calls[i].op # "SetFinal" /\ main' = main
  PROVE  QueueInv'
  <1>1. /\ Len(calls) \in Nat /\ Len(calls') = Len(calls) + 1
        /\ calls'[Len(calls) + 1] = c
        /\ \A i \in 1..Len(calls) : calls'[i] = calls[i]
        /\ \A i \in 1..Len(calls') : i \in 1..Len(calls) \/ i = Len(calls) + 1
    BY DEF Types
  <1>2. ASSUME NEW i \in 1..Len(calls')
        PROVE  Fits(calls[i])' /\ (calls'[i].live => Awaited(calls[i])')
    <2>1. CASE i \in 1..Len(calls)
      <3>1. Fits(calls[i]) /\ (calls[i].live => Awaited(calls[i]))
        BY <2>1 DEF QueueInv
      <3>2. Fits(calls[i])'
        BY <1>1, <2>1, <3>1 DEF Fits
      <3>3. calls'[i].live => Awaited(calls[i])'
        BY <1>1, <2>1, <3>1 DEF Awaited
      <3> QED
        BY <3>2, <3>3
    <2>2. CASE i = Len(calls) + 1
      BY <1>1, <2>2 DEF Fits, Awaited
    <2> QED
      BY <1>1, <2>1, <2>2
  <1>3. \A i, j \in 1..Len(calls') :
          i < j /\ calls'[i].live /\ calls'[i].op # "SetFinal" => calls'[j].op = "SetFinal"
    <2> SUFFICES ASSUME NEW i \in 1..Len(calls'), NEW j \in 1..Len(calls'),
                        i < j, calls'[i].live, calls'[i].op # "SetFinal"
                 PROVE  calls'[j].op = "SetFinal"
      BY Zenon
    <2>1. i \in 1..Len(calls)
      BY <1>1
    <2>2. CASE j \in 1..Len(calls)
      BY <1>1, <2>1, <2>2 DEF QueueInv
    <2>3. CASE j = Len(calls) + 1
      BY <1>1, <2>1, <2>3
    <2> QED
      BY <1>1, <2>2, <2>3
  <1>4. \A i, j \in 1..Len(calls') :
          i < j /\ calls'[i].live /\ calls'[j].live /\ calls'[i].op = "SetFinal"
            => calls'[j].op # "SetFinal"
    <2> SUFFICES ASSUME NEW i \in 1..Len(calls'), NEW j \in 1..Len(calls'),
                        i < j, calls'[i].live, calls'[j].live, calls'[i].op = "SetFinal"
                 PROVE  calls'[j].op # "SetFinal"
      OBVIOUS
    <2>1. i \in 1..Len(calls)
      BY <1>1
    <2>2. CASE j \in 1..Len(calls)
      BY SMTT(30), <1>1, <2>1, <2>2 DEF QueueInv
    <2>3. CASE j = Len(calls) + 1
      BY <1>1, <2>1, <2>3
    <2> QED
      BY <1>1, <2>2, <2>3
  <1>5. ~chain'.initialized => chain'.height = 0
    BY DEF QueueInv
  <1>6. Alone' => \A i \in 1..Len(calls') : calls'[i].op = "SetFinal"
    BY <1>1
  <1> QED
    BY <1>2, <1>3, <1>4, <1>5, <1>6 DEF QueueInv

-----------------------------------------------------------------------------
NodeTypes ==
  /\ calls \in Seq(Requests)
  /\ main \in MainTypes
  /\ finality \in FinalityTypes

\* What a returning call does to its caller.
Unheeded == ~Call.live /\ calls' = Tail(calls) /\ UNCHANGED <<main, finality>>
Ends == NodeEnds(Tail(calls))
Recorded ==
  /\ Call.live /\ Call.op = "SetFinal" /\ calls' = Tail(calls)
  /\ finality'.pc \in {"record", "idle"} /\ finality'.attempts \in Int
  /\ finality' = [pc |-> finality'.pc, attempts |-> finality'.attempts]
  /\ UNCHANGED main
Answered ==
  /\ Call.live /\ Call.op # "SetFinal" /\ calls' = Tail(calls)
  /\ MainGets(Call.op) /\ UNCHANGED finality
Again ==
  /\ Call.live /\ Call.op # "SetFinal" /\ calls' = Tail(calls)
  /\ main.pc = "ExecuteTxs" /\ main' = [main EXCEPT !.pc = "idle", !.attempts = @ + 1]
  /\ UNCHANGED finality

LEMMA ReturnCases ==
  ASSUME Types, NEW ok \in BOOLEAN, Return(ok)
  PROVE  /\ step' = "none" /\ UNCHANGED <<setup, up, chain>>
         /\ \/ Unheeded
            \/ ~ok /\ Ends
            \/ Recorded /\ (finality'.pc = "record" => ok)
            \/ ok /\ Answered
            \/ ~ok /\ Again
  <1>1. step' = "none" /\ UNCHANGED <<setup, up, chain>>
    BY DEF Return
  <1>2. CASE ~Call.live
    BY Zenon, <1>2 DEF Return, Unheeded
  <1>3. CASE Call.live /\ ~ok /\ Call.op = "SetFinal"
    <2>1. FinalityFails(Tail(calls))
      BY <1>3 DEF Return
    <2>2. CASE finality.attempts + 1 < MaxAttempts
      <3>1. /\ finality' = [pc |-> "idle", attempts |-> finality.attempts + 1]
            /\ calls' = Tail(calls) /\ UNCHANGED main
        BY <2>1, <2>2 DEF FinalityFails
      <3>2. finality.attempts + 1 \in Int
        BY DEF Types, FinalityTypes
      <3>3. Recorded /\ finality'.pc # "record"
        BY <1>3, <3>1, <3>2 DEF Recorded
      <3> QED
        BY <1>1, <3>3
    <2>3. CASE ~(finality.attempts + 1 < MaxAttempts)
      BY <1>1, <1>3, <2>1, <2>3 DEF FinalityFails, Ends
    <2> QED
      BY <2>2, <2>3
  <1>4. CASE Call.live /\ ~ok /\ Call.op # "SetFinal"
    <2>1. MainFails(Tail(calls))
      BY Zenon, <1>4 DEF Return
    <2> QED
      BY <1>1, <1>4, <2>1 DEF MainFails, Ends, Again
  <1>5. CASE Call.live /\ ok /\ Call.op = "SetFinal"
    <2>1. finality' = At("record") /\ calls' = Tail(calls) /\ UNCHANGED main
      BY <1>5 DEF Return
    <2>2. Recorded
      BY <1>5, <2>1 DEF Recorded, At
    <2> QED
      BY <1>1, <1>5, <2>2
  <1>6. CASE Call.live /\ ok /\ Call.op # "SetFinal"
    BY Zenon, <1>1, <1>6 DEF Return, Answered
  <1> QED
    BY <1>1, <1>2, <1>3, <1>4, <1>5, <1>6

LEMMA MainExcept ==
  ASSUME NEW m \in MainTypes, NEW p \in MainPCs, NEW a \in Int
  PROVE  /\ [m EXCEPT !.pc = p, !.attempts = a] \in MainTypes
         /\ [m EXCEPT !.pc = p, !.attempts = a].pc = p
         /\ [m EXCEPT !.pc = p, !.attempts = a].execHeight = m.execHeight
         /\ [m EXCEPT !.pc = p] \in MainTypes /\ [m EXCEPT !.pc = p].pc = p
         /\ [m EXCEPT !.pc = p].execHeight = m.execHeight
  <1>1. [m EXCEPT !.pc = p, !.attempts = a] \in MainTypes
    BY Zenon DEF MainTypes
  <1>2. [m EXCEPT !.pc = p, !.attempts = a].pc = p
    BY DEF MainTypes
  <1>3. [m EXCEPT !.pc = p, !.attempts = a].execHeight = m.execHeight
    BY DEF MainTypes
  <1>4. [m EXCEPT !.pc = p] \in MainTypes /\ [m EXCEPT !.pc = p].pc = p
    BY DEF MainTypes
  <1>5. [m EXCEPT !.pc = p].execHeight = m.execHeight
    BY DEF MainTypes
  <1> QED
    BY <1>1, <1>2, <1>3, <1>4, <1>5

\* Where the node is after an answer.
LEMMA MainGetsFacts ==
  ASSUME Types, NEW op \in Waits, MainGets(op)
  PROVE  /\ main' \in MainTypes
         /\ op = "InitChain" => main'.pc = "loaded"
         /\ op = "ExecuteTxs" => main'.pc = "commit"
         /\ op = "Rollback" => main'.pc = "idle"
         /\ op \in {"GetLatestHeight", "Replay"} => main'.pc \in {"ahead", "behind", "idle"}
         /\ op = "GetLatestHeight" /\ main'.pc = "idle" => exec.last = chain.height
         /\ op = "Replay" /\ main'.pc = "idle" => main.execHeight + 1 = chain.height
  <1>1. ASSUME NEW h \in Int, Compare(h)
        PROVE  /\ main' \in MainTypes
               /\ main'.pc \in {"ahead", "behind", "idle"}
               /\ main'.pc = "idle" => h = chain.height
    <2>1. chain.height \in Int
      BY DEF Types, ChainTypes
    <2>2. CASE h > chain.height
      <3>1. main' = [pc |-> "ahead", attempts |-> 0, execHeight |-> h]
        BY <1>1, <2>1, <2>2 DEF Compare
      <3> QED
        BY <3>1 DEF MainPCs, MainTypes
    <2>3. CASE h < chain.height
      <3>1. main' = [pc |-> "behind", attempts |-> 0, execHeight |-> h]
        BY <1>1, <2>1, <2>3 DEF Compare
      <3> QED
        BY <3>1 DEF MainPCs, MainTypes
    <2>4. CASE h = chain.height
      <3>1. main' = [pc |-> "idle", attempts |-> 0, execHeight |-> h]
        BY <1>1, <2>1, <2>4 DEF Compare
      <3> QED
        BY <2>4, <3>1 DEF MainPCs, MainTypes
    <2> QED
      BY <2>1, <2>2, <2>3, <2>4
  <1>2. ASSUME NEW pc \in MainPCs, MainAt(pc)
        PROVE  /\ main' \in MainTypes
               /\ main'.pc = pc
    <2>1. main \in MainTypes
      BY DEF Types
    <2>2. 0 \in Int
      OBVIOUS
    <2> QED
      BY Zenon, <1>2, <2>1, <2>2, MainExcept DEF MainAt
  <1>3. exec.last \in Int /\ main.execHeight + 1 \in Int
    BY DEF Types, MainTypes, ExecTypes
  <1>4. CASE op = "InitChain"
    BY <1>2, <1>4 DEF MainGets, MainPCs
  <1>5. CASE op = "GetLatestHeight"
    BY <1>1, <1>3, <1>5 DEF MainGets
  <1>6. CASE op = "Rollback"
    BY <1>2, <1>6 DEF MainGets, MainPCs
  <1>7. CASE op = "Replay"
    BY <1>1, <1>3, <1>7 DEF MainGets
  <1>8. CASE op = "ExecuteTxs"
    BY <1>2, <1>8 DEF MainGets, MainPCs
  <1> QED
    BY <1>4, <1>5, <1>6, <1>7, <1>8 DEF Waits

\* The calls after the first.
LEMMA TailCalls ==
  ASSUME NEW q \in Seq(Requests), q # <<>>
  PROVE  /\ Len(q) \in Nat /\ 1 \in 1..Len(q) /\ Head(q) = q[1] /\ Head(q) \in Requests
         /\ Tail(q) \in Seq(Requests) /\ Len(Tail(q)) + 1 = Len(q)
         /\ \A i \in 1..Len(Tail(q)) : Tail(q)[i] = q[i + 1]
  OBVIOUS

LEMMA AbandonedCalls ==
  ASSUME NEW q \in Seq(Requests)
  PROVE  /\ Abandoned(q) \in Seq(Requests) /\ Len(Abandoned(q)) = Len(q)
         /\ \A i \in 1..Len(q) :
              /\ Abandoned(q)[i].op = q[i].op /\ Abandoned(q)[i].height = q[i].height
              /\ ~Abandoned(q)[i].live
  <1>1. Len(q) \in Nat /\ DOMAIN q = 1..Len(q)
    OBVIOUS
  <1>2. \A c \in Requests : /\ [c EXCEPT !.live = FALSE] \in Requests
                            /\ [c EXCEPT !.live = FALSE].op = c.op
                            /\ [c EXCEPT !.live = FALSE].height = c.height
                            /\ ~[c EXCEPT !.live = FALSE].live
    BY Zenon DEF Requests
  <1>3. \A i \in 1..Len(q) : q[i] \in Requests
    OBVIOUS
  <1>4. Abandoned(q) = [i \in 1..Len(q) |-> [q[i] EXCEPT !.live = FALSE]]
    BY <1>1 DEF Abandoned
  <1>5. \A i \in 1..Len(q) : [q[i] EXCEPT !.live = FALSE] \in Requests
    BY <1>2, <1>3
  <1>6. Abandoned(q) \in Seq(Requests) /\ Len(Abandoned(q)) = Len(q)
    BY <1>1, <1>4, <1>5
  <1> QED
    BY Zenon, <1>2, <1>3, <1>4, <1>6

\* A call returns.
LEMMA ReturnQueue ==
  ASSUME Types, QueueInv, calls # <<>>, NEW ok \in BOOLEAN, Return(ok)
  PROVE  NodeTypes' /\ QueueInv'
  <1>1. /\ Len(calls) \in Nat /\ 1 \in 1..Len(calls) /\ Call = calls[1] /\ Call \in Requests
        /\ Tail(calls) \in Seq(Requests) /\ Len(Tail(calls)) + 1 = Len(calls)
        /\ \A i \in 1..Len(Tail(calls)) : Tail(calls)[i] = calls[i + 1]
    BY TailCalls DEF Types, Call
  <1>2. /\ main \in MainTypes
        /\ finality \in FinalityTypes
    BY DEF Types
  <1>3. UNCHANGED chain
    BY ReturnCases
  <1>4. \A i \in 1..Len(Tail(calls)) : i + 1 \in 1..Len(calls) /\ 1 < i + 1
    BY <1>1
  <1>5. Call.live /\ Call.op # "SetFinal" =>
          /\ \A i \in 1..Len(Tail(calls)) : Tail(calls)[i].op = "SetFinal"
          /\ main.pc = Call.op
    BY <1>1, <1>4 DEF QueueInv, Awaited
  <1>6. Call.live /\ Call.op = "SetFinal" =>
          \A i \in 1..Len(Tail(calls)) : Tail(calls)[i].live => Tail(calls)[i].op # "SetFinal"
    BY <1>1, <1>4 DEF QueueInv
  <1>7. CASE Unheeded
    <2>1. calls' = Tail(calls) /\ main' = main /\ finality' = finality
      BY <1>7 DEF Unheeded
    <2>2. NodeTypes'
      BY <1>1, <1>2, <2>1 DEF NodeTypes
    <2>3. Alone' => \A i \in 1..Len(calls') : calls'[i].op = "SetFinal"
      BY <1>1, <1>3, <1>4, <2>1 DEF Alone, QueueInv
    <2>4. main'.pc \notin {"down", "InitChain", "loaded"} => chain.initialized
      BY <2>1 DEF QueueInv
    <2>5. QueueInv'
      BY Zenon, <1>1, <1>3, <2>1, <2>3, <2>4, FewerCalls
    <2> QED
      BY <2>2, <2>5
  <1>8. CASE Ends
    <2>1. calls' = Abandoned(Tail(calls)) /\ main' = NodeDown /\ finality' = At("idle")
      BY <1>8 DEF Ends, NodeEnds
    <2>2. /\ calls' \in Seq(Requests) /\ Len(calls') = Len(Tail(calls))
          /\ \A i \in 1..Len(calls') :
               /\ calls'[i].op = calls[i + 1].op /\ calls'[i].height = calls[i + 1].height
               /\ ~calls'[i].live
      <3> DEFINE t == Tail(calls)
      <3>1. t \in Seq(Requests) /\ \A i \in 1..Len(t) : t[i] = calls[i + 1]
        BY <1>1
      <3> HIDE DEF t
      <3>2. /\ Abandoned(t) \in Seq(Requests) /\ Len(Abandoned(t)) = Len(t)
            /\ \A i \in 1..Len(t) :
                 /\ Abandoned(t)[i].op = t[i].op /\ Abandoned(t)[i].height = t[i].height
                 /\ ~Abandoned(t)[i].live
        BY <3>1, AbandonedCalls
      <3>3. calls' = Abandoned(t)
        BY <2>1 DEF t
      <3>4. Len(calls') = Len(t)
        BY <3>2, <3>3
      <3>5. \A i \in 1..Len(calls') :
               /\ calls'[i].op = calls[i + 1].op /\ calls'[i].height = calls[i + 1].height
               /\ ~calls'[i].live
        BY <3>1, <3>2, <3>3, <3>4
      <3> QED
        BY <3>2, <3>3, <3>5 DEF t
    <2>3. NodeTypes'
      BY <2>1, <2>2 DEF NodeTypes, NodeDown, At, MainPCs, MainTypes, FinalityTypes
    <2>4. main'.pc = "down"
      BY <2>1 DEF NodeDown
    <2>5. QueueInv'
      BY <1>1, <1>3, <2>2, <2>4, FewerCalls DEF Alone
    <2> QED
      BY <2>3, <2>5
  <1>9. CASE Recorded
    <2>1. /\ Call.live /\ Call.op = "SetFinal" /\ calls' = Tail(calls) /\ main' = main
          /\ finality' \in FinalityTypes
      BY <1>9 DEF Recorded, FinalityTypes
    <2>2. NodeTypes'
      BY <1>1, <1>2, <2>1 DEF NodeTypes
    <2>3. Alone' => \A i \in 1..Len(calls') : calls'[i].op = "SetFinal"
      BY <1>1, <1>3, <1>4, <2>1 DEF Alone, QueueInv
    <2>4. main'.pc \notin {"down", "InitChain", "loaded"} => chain.initialized
      BY <2>1 DEF QueueInv
    <2>5. QueueInv'
      BY Zenon, <1>1, <1>3, <1>6, <2>1, <2>3, <2>4, FewerCalls
    <2> QED
      BY <2>2, <2>5
  <1>10. CASE Answered
    <2>1. /\ Call.live /\ Call.op # "SetFinal" /\ calls' = Tail(calls)
          /\ MainGets(Call.op) /\ finality' = finality /\ Call.op \in Waits
      BY <1>1, <1>10 DEF Answered, Requests
    <2>2. /\ main' \in MainTypes
          /\ Call.op = "InitChain" => main'.pc = "loaded"
      BY <2>1, MainGetsFacts
    <2>3. NodeTypes'
      BY <1>1, <1>2, <2>1, <2>2 DEF NodeTypes
    <2>4. \A i \in 1..Len(calls') : calls'[i].op = "SetFinal"
      BY <1>5, <2>1
    <2>5. main'.pc \notin {"down", "InitChain", "loaded"} => chain.initialized
      <3>1. Call.op # "InitChain" => chain.initialized
        BY <1>5, <2>1 DEF QueueInv, Waits
      <3> QED
        BY <2>2, <3>1
    <2>6. QueueInv'
      BY Zenon, <1>1, <1>3, <2>1, <2>4, <2>5, FewerCalls
    <2> QED
      BY <2>3, <2>6
  <1>11. CASE Again
    <2>1. /\ Call.live /\ Call.op # "SetFinal" /\ calls' = Tail(calls)
          /\ main.pc = "ExecuteTxs" /\ finality' = finality
          /\ main' = [main EXCEPT !.pc = "idle", !.attempts = @ + 1]
      BY <1>11 DEF Again
    <2>2. main' \in MainTypes /\ main'.pc = "idle"
      <3> DEFINE a == main.attempts + 1
                 p == "idle"
      <3>1. a \in Int /\ p \in MainPCs
        BY <1>2 DEF MainPCs, MainTypes
      <3>2. main' = [main EXCEPT !.pc = p, !.attempts = a]
        BY <2>1
      <3> HIDE DEF a, p
      <3>3. main' \in MainTypes
        BY Zenon, <1>2, <3>1, <3>2 DEF MainTypes
      <3>4. main'.pc = p
        BY <1>2, <3>1, <3>2 DEF MainTypes
      <3> QED
        BY <3>3, <3>4 DEF p
    <2>3. NodeTypes'
      BY <1>1, <1>2, <2>1, <2>2 DEF NodeTypes
    <2>4. \A i \in 1..Len(calls') : calls'[i].op = "SetFinal"
      BY <1>5, <2>1
    <2>5. main'.pc \notin {"down", "InitChain", "loaded"} => chain.initialized
      BY <2>1 DEF QueueInv
    <2>6. QueueInv'
      BY Zenon, <1>1, <1>3, <2>1, <2>4, <2>5, FewerCalls
    <2> QED
      BY <2>3, <2>6
  <1> QED
    BY <1>7, <1>8, <1>9, <1>10, <1>11, ReturnCases

-----------------------------------------------------------------------------
Running == {"ExecuteTxs", "Replay"}

\* How far the call at the head has come.
StepInv ==
  /\ step # "none" => up /\ calls # <<>> /\ Call.op # "GetLatestHeight"
  /\ step \in {"finalized", "committed"} => Call.op \in Running
  /\ step = "finalized" => Call.height = exec.last + 1 /\ Call.height = exec.version + 1
  /\ step \in {"committed", "meta"} /\ Call.op \in Running =>
       /\ exec.last = Call.height /\ exec.version = Call.height
       /\ exec.root = Call.height /\ stored = Call.height
  /\ step = "meta" /\ Call.op = "SetFinal" => exec.final >= Call.height

\* The height that the node has committed or is about to commit.
Reached == IF main.pc = "commit" THEN chain.height + 1 ELSE chain.height

DiskInv ==
  setup.persistent =>
    /\ Reached <= stored
    /\ \E k \in logged \cup {meta.last} : Reached <= k
    /\ up => Reached <= exec.last /\ Reached <= exec.version

\* The height that the node has recorded as final or is about to record.
Recording == IF finality.pc = "record" THEN chain.final + 1 ELSE chain.final

FinalInv ==
  setup.persistent =>
    /\ Recording <= meta.final /\ meta.final <= chain.height
    /\ up => meta.final <= exec.final /\ exec.final <= chain.height

IInv == Types /\ QueueInv /\ StepInv /\ DiskInv /\ FinalInv

\* The state of a restarted executor.
LEMMA RestartedFacts ==
  ASSUME Types
  PROVE  /\ Restarted \in ExecTypes
         /\ Restarted.version = stored /\ Restarted.final = meta.final
         /\ Restarted.root = meta.root
         /\ Restarted.last \in logged \cup {meta.last}
         /\ \A k \in logged \cup {meta.last} : k <= Restarted.last
  <1> DEFINE S == logged \cup {meta.last}
  <1>1. /\ S \subseteq Int /\ meta.last \in Int /\ logged \subseteq Int
        /\ logged = {} \/ \E m \in logged : \A k \in logged : k <= m
    BY Zenon DEF Types, MetaTypes
  <1>2. \E m \in S : \A k \in S : m >= k
    <2>1. CASE logged = {}
      BY <1>1, <2>1
    <2>2. CASE logged # {}
      <3>1. PICK m \in logged : \A k \in logged : k <= m
        BY <1>1, <2>2
      <3>2. CASE m >= meta.last
        BY <1>1, <3>1, <3>2
      <3>3. CASE meta.last > m
        BY <1>1, <3>1, <3>3
      <3> QED
        BY <1>1, <3>1, <3>2, <3>3
    <2> QED
      BY <2>1, <2>2
  <1>3. Max(S) \in S /\ \A k \in S : Max(S) >= k
    BY <1>2 DEF Max
  <1>4. /\ Restarted.last = Max(S) /\ Restarted.version = stored
        /\ Restarted.final = meta.final /\ Restarted.root = meta.root
    BY DEF Restarted
  <1>5. Restarted \in ExecTypes
    <2>1. Max(S) \in Int /\ stored \in Int /\ meta.initialized \in BOOLEAN
          /\ meta.root \in Int /\ meta.final \in Int
      BY <1>1, <1>3 DEF Types, MetaTypes
    <2> QED
      BY <2>1 DEF Restarted, ExecTypes
  <1>6. \A k \in S : k <= Max(S)
    BY <1>1, <1>3
  <1> QED
    BY <1>3, <1>4, <1>5, <1>6

\* The numbers in the state.
LEMMA Numbers ==
  ASSUME Types
  PROVE  /\ stored \in Int /\ logged \subseteq Int /\ meta.last \in Int /\ meta.final \in Int
         /\ meta.root \in Int
         /\ exec.last \in Int /\ exec.version \in Int /\ exec.final \in Int /\ exec.root \in Int
         /\ chain.height \in Int /\ chain.final \in Int /\ Reached \in Int
         /\ Recording \in Int
  <1>1. /\ stored \in Int /\ logged \subseteq Int /\ meta.last \in Int /\ meta.final \in Int
        /\ meta.root \in Int
    BY DEF Types, MetaTypes
  <1>2. /\ exec.last \in Int /\ exec.version \in Int /\ exec.final \in Int
        /\ exec.root \in Int
    BY DEF Types, ExecTypes
  <1>3. chain.height \in Int /\ chain.final \in Int
    BY DEF Types, ChainTypes
  <1> QED
    BY <1>1, <1>2, <1>3 DEF Reached, Recording

LEMMA NextNumbers ==
  ASSUME Types'
  PROVE  /\ meta'.last \in Int /\ meta'.final \in Int /\ chain'.height \in Int
         /\ exec'.last \in Int /\ exec'.version \in Int /\ exec'.final \in Int
         /\ Reached' \in Int /\ Recording' \in Int
  <1>1. meta'.last \in Int /\ meta'.final \in Int
    BY DEF Types, MetaTypes
  <1>2. exec'.last \in Int /\ exec'.version \in Int /\ exec'.final \in Int
    BY DEF Types, ExecTypes
  <1>3. chain'.height \in Int /\ chain'.final \in Int
    BY DEF Types, ChainTypes
  <1> QED
    BY <1>1, <1>2, <1>3 DEF Reached, Recording

\* A step of the node: it changes nothing of the executor's, keeps the call that is
\* being served, and goes no further than it has been told.
LEMMA NodeStep ==
  ASSUME IInv, UNCHANGED <<setup, disk, executor>>, NodeTypes', chain' \in ChainTypes,
         QueueInv',
         calls # <<>> => /\ calls' # <<>> /\ Call'.op = Call.op
                         /\ Call'.height = Call.height,
         Reached' <= Reached, Recording' <= Recording, chain.height <= chain'.height
  PROVE  IInv'
  <1>1. Types'
    BY Zenon DEF IInv, Types, NodeTypes, disk, executor
  <1>2. StepInv'
    BY DEF IInv, StepInv, disk, executor
  <1>3. Types
    BY DEF IInv
  <1>4. UNCHANGED <<setup, stored, logged, meta, exec, up>>
    BY DEF disk, executor
  <1>5. Reached' \in Int /\ Recording' \in Int /\ chain'.height \in Int
    BY <1>1, NextNumbers
  <1>6. DiskInv'
    <2> SUFFICES ASSUME setup.persistent
                 PROVE  /\ Reached' <= stored
                        /\ \E k \in logged \cup {meta.last} : Reached' <= k
                        /\ up => Reached' <= exec.last /\ Reached' <= exec.version
      BY <1>4 DEF DiskInv
    <2>1. /\ Reached <= stored
          /\ \E k \in logged \cup {meta.last} : Reached <= k
          /\ up => Reached <= exec.last /\ Reached <= exec.version
      BY DEF IInv, DiskInv
    <2>2. PICK k \in logged \cup {meta.last} : Reached <= k
      BY <2>1
    <2>3. k \in Int
      BY <1>3, Numbers
    <2>4. Reached' <= k
      BY <1>3, <1>5, <2>2, <2>3, Numbers
    <2>5. Reached' <= stored /\ (up => Reached' <= exec.last /\ Reached' <= exec.version)
      BY SMTT(30), <1>3, <1>5, <2>1, Numbers
    <2> QED
      BY <2>4, <2>5
  <1>7. FinalInv'
    <2> SUFFICES ASSUME setup.persistent
                 PROVE  /\ Recording' <= meta.final /\ meta.final <= chain'.height
                        /\ up => meta.final <= exec.final /\ exec.final <= chain'.height
      BY <1>4 DEF FinalInv
    <2>1. /\ Recording <= meta.final /\ meta.final <= chain.height
          /\ up => meta.final <= exec.final /\ exec.final <= chain.height
      BY DEF IInv, FinalInv
    <2> QED
      BY <1>3, <1>5, <2>1, Numbers
  <1> QED
    BY <1>1, <1>2, <1>6, <1>7 DEF IInv

\* A call returns to the node, and may have saved the metadata.
LEMMA ReturnIInv ==
  ASSUME IInv, calls # <<>>, NEW ok \in BOOLEAN, Return(ok),
         UNCHANGED <<stored, logged, exec>>, meta' \in MetaTypes, up,
         meta' = meta \/ (meta'.last = exec.last /\ meta'.final = exec.final),
         ok /\ Call.op = "ExecuteTxs" =>
           /\ exec.last = Call.height /\ exec.version = Call.height /\ stored = Call.height
           /\ setup.persistent => meta'.last = exec.last,
         ok /\ Call.op = "SetFinal" => (setup.persistent => meta'.final >= Call.height)
  PROVE  IInv'
  <1>1. Types /\ QueueInv /\ Call = calls[1] /\ 1 \in 1..Len(calls)
    BY TailCalls DEF IInv, Types, Call
  <1>2. NodeTypes' /\ QueueInv'
    BY <1>1, ReturnQueue
  <1>3. step' = "none" /\ UNCHANGED <<setup, up, chain>>
    BY Zenon, <1>1, ReturnCases
  <1>4. Types'
    BY <1>1, <1>2, <1>3 DEF Types, NodeTypes
  <1>5. StepInv'
    BY <1>3 DEF StepInv
  <1>6. Fits(Call) /\ (Call.live => Awaited(Call))
    BY <1>1 DEF QueueInv
  <1>7. Reached' <= Reached \/ (ok /\ Call.op = "ExecuteTxs" /\ Reached' = chain.height + 1)
    <2>1. chain.height \in Int
      BY <1>1, Numbers
    <2>2. CASE main'.pc # "commit" \/ main' = main
      BY <1>3, <2>1, <2>2 DEF Reached
    <2>3. CASE main'.pc = "commit" /\ main' # main
      <3>1. ~Unheeded /\ ~Recorded
        BY <2>3 DEF Unheeded, Recorded
      <3>2. ~Ends
        BY <2>3 DEF Ends, NodeEnds, NodeDown
      <3>3. ~Again
        <4> SUFFICES ASSUME Again PROVE FALSE
          OBVIOUS
        <4>1. main \in MainTypes /\ main' = [main EXCEPT !.pc = "idle", !.attempts = @ + 1]
          BY <1>1 DEF Types, Again
        <4>2. main'.pc = "idle"
          BY <4>1 DEF MainTypes
        <4> QED
          BY <2>3, <4>2
      <3>4. ok /\ Answered
        BY Zenon, <1>1, <3>1, <3>2, <3>3, ReturnCases
      <3>5. MainGets(Call.op) /\ Call.op \in Waits
        BY Zenon, <1>1, <3>4, TailCalls DEF Answered, Types, Requests, Call
      <3>6. Call.op = "ExecuteTxs"
        BY <1>1, <2>3, <3>5, MainGetsFacts DEF Waits
      <3> QED
        BY <1>3, <2>3, <3>4, <3>6 DEF Reached
    <2> QED
      BY <2>2, <2>3
  <1>8. DiskInv'
    <2> SUFFICES ASSUME setup.persistent
                 PROVE  /\ Reached' <= stored
                        /\ \E k \in logged \cup {meta'.last} : Reached' <= k
                        /\ Reached' <= exec.last /\ Reached' <= exec.version
      BY <1>3 DEF DiskInv
    <2>1. /\ Reached <= stored
          /\ \E k \in logged \cup {meta.last} : Reached <= k
          /\ Reached <= exec.last /\ Reached <= exec.version
      BY SMTT(30) DEF IInv, DiskInv
    <2>2. /\ Reached \in Int /\ Reached' \in Int /\ stored \in Int /\ logged \subseteq Int
          /\ exec.last \in Int /\ exec.version \in Int /\ meta.last \in Int
          /\ meta'.last \in Int
      BY <1>1, <1>4, Numbers, NextNumbers
    <2>3. CASE Reached' <= Reached
      <3>1. \E k \in logged \cup {meta'.last} : Reached' <= k
        <4>1. PICK k \in logged \cup {meta.last} : Reached <= k
          BY <2>1
        <4>2. CASE meta' = meta
          BY <2>2, <2>3, <4>1, <4>2
        <4>3. CASE meta'.last = exec.last
          BY <2>1, <2>2, <2>3, <4>3
        <4> QED
          BY <4>2, <4>3
      <3> QED
        BY <2>1, <2>2, <2>3, <3>1
    <2>4. CASE ok /\ Call.op = "ExecuteTxs" /\ Reached' = chain.height + 1
      <3>1. Call.height = chain.height + 1
        BY <1>6, <2>4 DEF Fits
      <3>2. /\ exec.last = Reached' /\ exec.version = Reached' /\ stored = Reached'
            /\ meta'.last = Reached'
        BY <2>4, <3>1
      <3> QED
        BY <2>2, <3>2
    <2> QED
      BY <1>7, <2>3, <2>4
  <1>9. Recording' <= Recording \/ (ok /\ Call.op = "SetFinal" /\ Recording' = Call.height)
    <2>1. chain.final \in Int
      BY <1>1, Numbers
    <2>2. CASE finality'.pc # "record" \/ finality' = finality
      BY <1>3, <2>1, <2>2 DEF Recording
    <2>3. CASE finality'.pc = "record" /\ finality' # finality
      <3>1. ~Unheeded /\ ~Ends /\ ~Answered /\ ~Again
        BY <2>3 DEF Unheeded, Ends, NodeEnds, At, Answered, Again
      <3>2. Recorded /\ ok
        BY Zenon, <1>1, <2>3, <3>1, ReturnCases
      <3>3. Call.op = "SetFinal" /\ Call.height = chain.final + 1
        BY <1>6, <3>2 DEF Recorded, Awaited
      <3> QED
        BY <1>3, <2>3, <3>2, <3>3 DEF Recording
    <2> QED
      BY <2>2, <2>3
  <1>10. FinalInv'
    <2> SUFFICES ASSUME setup.persistent
                 PROVE  /\ Recording' <= meta'.final /\ meta'.final <= chain.height
                        /\ meta'.final <= exec.final /\ exec.final <= chain.height
      BY <1>3 DEF FinalInv
    <2>1. /\ Recording <= meta.final /\ meta.final <= chain.height
          /\ meta.final <= exec.final /\ exec.final <= chain.height
      BY DEF IInv, FinalInv
    <2>2. /\ Recording \in Int /\ Recording' \in Int /\ chain.height \in Int
          /\ exec.final \in Int /\ meta.final \in Int /\ meta'.final \in Int
      BY <1>1, <1>4, Numbers, NextNumbers
    <2>3. meta'.final <= chain.height /\ meta'.final <= exec.final /\ meta.final <= meta'.final
      BY <2>1, <2>2
    <2>4. Recording' <= meta'.final
      <3>1. CASE Recording' <= Recording
        BY <2>1, <2>2, <2>3, <3>1
      <3>2. CASE ok /\ Call.op = "SetFinal" /\ Recording' = Call.height
        <4>1. meta'.final >= Recording'
          BY <3>2
        <4> QED
          BY <2>2, <4>1
      <3> QED
        BY SMTT(30), <1>9, <3>1, <3>2
    <2> QED
      BY <2>1, <2>3, <2>4
  <1> QED
    BY <1>2, <1>4, <1>5, <1>8, <1>10 DEF IInv

-----------------------------------------------------------------------------
\* The call at the head of the queue.
LEMMA HeadCall ==
  ASSUME IInv, calls # <<>>
  PROVE  /\ Call \in Requests /\ Call.height \in Int
         /\ Fits(Call) /\ (Call.live => Awaited(Call))
         /\ main.pc = "commit" => Call.op = "SetFinal"
  <1>1. calls \in Seq(Requests) /\ QueueInv
    BY DEF IInv, Types
  <1>2. Call = calls[1] /\ 1 \in 1..Len(calls) /\ Call \in Requests
    BY <1>1, TailCalls DEF Call
  <1>3. Call.height \in Int
    BY <1>2 DEF Requests
  <1>4. Fits(calls[1]) /\ (calls[1].live => Awaited(calls[1]))
    BY SMTT(30), <1>1, <1>2 DEF QueueInv
  <1>5. main.pc = "commit" => calls[1].op = "SetFinal"
    BY <1>1, <1>2 DEF QueueInv, Alone
  <1> QED
    BY <1>2, <1>3, <1>4, <1>5

\* A step of the executor within a call: the queue and the node stay as they are.
LEMMA Within ==
  ASSUME IInv, UNCHANGED <<setup, up, calls, node>>,
         stored' \in Int, logged' \subseteq Int,
         logged' = {} \/ \E m \in logged' : \A k \in logged' : k <= m,
         UNCHANGED meta, exec' \in ExecTypes,
         StepInv',
         setup.persistent =>
           /\ Reached <= stored' /\ logged \subseteq logged'
           /\ up => Reached <= exec'.last /\ Reached <= exec'.version
           /\ up => meta.final <= exec'.final /\ exec'.final <= chain.height
  PROVE  IInv'
  <1>1. Types'
    BY SMTT(30) DEF IInv, Types, node
  <1>2. QueueInv'
    BY DEF IInv, QueueInv, Fits, Awaited, Alone, node
  <1>3. Reached' = Reached /\ Recording' = Recording
    BY DEF Reached, Recording, node
  <1>4. DiskInv'
    BY Zenon, <1>3 DEF IInv, DiskInv
  <1>5. FinalInv'
    BY <1>3 DEF IInv, FinalInv, node
  <1> QED
    BY <1>1, <1>2, <1>4, <1>5 DEF IInv

LEMMA InitChainIInv == IInv /\ InitChain => IInv'
  <1> SUFFICES ASSUME IInv, InitChain PROVE IInv'
    OBVIOUS
  <1>1. up /\ step = "none" /\ calls # <<>> /\ Call.op = "InitChain" /\ Types
    BY DEF InitChain, Serves, IInv
  <1>2. CASE exec.initialized
    <2>1. Return(TRUE) /\ UNCHANGED <<disk, exec, faults>>
      BY Zenon, <1>2 DEF InitChain
    <2>2. meta' \in MetaTypes /\ UNCHANGED <<stored, logged, meta>>
      BY <1>1, <2>1 DEF disk, Types
    <2> QED
      BY Zenon, <1>1, <2>1, <2>2, ReturnIInv
  <1>3. CASE ~exec.initialized
    <2>1. /\ exec' = [exec EXCEPT !.initialized = TRUE, !.root = 0, !.last = 0]
          /\ step' = "meta" /\ UNCHANGED <<setup, disk, up, calls, node, faults>>
      BY Zenon, <1>3 DEF InitChain, GoOn
    <2>2. exec \in ExecTypes
      BY <1>1 DEF Types
    <2>3. exec' \in ExecTypes
      <3> DEFINE b == TRUE
                 z == 0
      <3>1. /\ exec' = [exec EXCEPT !.initialized = b, !.root = z, !.last = z]
            /\ b \in BOOLEAN /\ z \in Int
        BY <2>1
      <3> HIDE DEF b, z
      <3> QED
        BY Zenon, <2>2, <3>1 DEF ExecTypes
    <2>4. exec'.last = 0 /\ exec'.version = exec.version /\ exec'.final = exec.final
      BY <2>1, <2>2 DEF ExecTypes
    <2>5. chain.height = 0 /\ main.pc # "commit"
      BY <1>1, HeadCall DEF Fits
    <2>6. Reached = 0
      BY <2>5 DEF Reached
    <2>7. StepInv'
      BY <1>1, <2>1 DEF StepInv, Call, Running
    <2>8. setup.persistent => /\ Reached <= stored /\ Reached <= exec'.last
                              /\ Reached <= exec'.version
                              /\ meta.final <= exec'.final /\ exec'.final <= chain.height
      BY <1>1, <2>4, <2>6 DEF IInv, DiskInv, FinalInv
    <2> QED
      BY <1>1, <2>1, <2>3, <2>7, <2>8, Within DEF disk, Types
  <1> QED
    BY <1>2, <1>3

LEMMA ExecuteTxsIInv == IInv /\ ExecuteTxs => IInv'
  <1> SUFFICES ASSUME IInv, ExecuteTxs PROVE IInv'
    OBVIOUS
  <1>1. up /\ step = "none" /\ calls # <<>> /\ Call.op \in Running /\ Types
    BY DEF ExecuteTxs, Serves, IInv, Running
  <1>2. CASE ~Acceptable(Call.height)
    <2>1. Return(FALSE) /\ UNCHANGED <<disk, exec, faults>>
      BY Zenon, <1>2 DEF ExecuteTxs
    <2>2. meta' \in MetaTypes /\ UNCHANGED <<stored, logged, meta>>
      BY <1>1, <2>1 DEF disk, Types
    <2> QED
      BY Zenon, <1>1, <2>1, <2>2, ReturnIInv
  <1>3. CASE Acceptable(Call.height)
    <2>1. exec' = exec /\ step' = "finalized" /\ UNCHANGED <<setup, disk, up, calls, node, faults>>
      BY <1>3 DEF ExecuteTxs, GoOn
    <2>2. StepInv'
      BY <1>1, <1>3, <2>1 DEF StepInv, Call, Running, Acceptable
    <2>3. setup.persistent => /\ Reached <= stored /\ Reached <= exec.last
                              /\ Reached <= exec.version
                              /\ meta.final <= exec.final /\ exec.final <= chain.height
      BY <1>1 DEF IInv, DiskInv, FinalInv
    <2> QED
      BY <1>1, <2>1, <2>2, <2>3, Within DEF disk, Types
  <1> QED
    BY <1>2, <1>3

LEMMA AppCommitIInv == IInv /\ AppCommit => IInv'
  <1> SUFFICES ASSUME IInv, AppCommit PROVE IInv'
    OBVIOUS
  <1> DEFINE h == Call.height
  <1>1. /\ up /\ step = "finalized" /\ stored' = h /\ step' = "committed"
        /\ exec' = [exec EXCEPT !.version = h, !.root = h, !.last = h]
        /\ UNCHANGED <<setup, logged, meta, up, calls, node, faults>> /\ Types
    BY DEF AppCommit, IInv
  <1>2. /\ calls # <<>> /\ Call.op \in Running
        /\ h = exec.last + 1 /\ h = exec.version + 1
    BY <1>1 DEF IInv, StepInv
  <1>3. h \in Int
    BY <1>2, HeadCall
  <1>4. exec \in ExecTypes
    BY <1>1 DEF Types
  <1> HIDE DEF h
  <1>5. exec' \in ExecTypes
    BY Zenon, <1>1, <1>3, <1>4 DEF ExecTypes
  <1>6. exec'.last = h /\ exec'.version = h
    BY <1>1, <1>3, <1>4 DEF ExecTypes
  <1>7. exec'.root = h /\ exec'.final = exec.final
    BY <1>1, <1>3, <1>4 DEF ExecTypes
  <1>8. Call' = Call
    BY <1>1 DEF Call
  <1>9. StepInv'
    BY <1>1, <1>2, <1>6, <1>7, <1>8 DEF StepInv, Running, h
  <1>10. setup.persistent => /\ Reached <= h
                             /\ meta.final <= exec.final /\ exec.final <= chain.height
    BY SMTT(30), <1>1, <1>2, Numbers DEF IInv, DiskInv, FinalInv
  <1> QED
    BY <1>1, <1>3, <1>5, <1>6, <1>7, <1>9, <1>10, Within DEF Types

LEMMA AppendBlockIInv == IInv /\ AppendBlock => IInv'
  <1> SUFFICES ASSUME IInv, AppendBlock PROVE IInv'
    OBVIOUS
  <1> DEFINE h == Call.height
  <1>1. /\ up /\ step = "committed" /\ step' = "meta"
        /\ logged' = IF setup.persistent THEN logged \cup {h} ELSE logged
        /\ UNCHANGED <<setup, stored, meta, exec, up, calls, node, faults>> /\ Types
    BY DEF AppendBlock, IInv
  <1>2. calls # <<>> /\ Call.op \in Running
    BY <1>1 DEF IInv, StepInv
  <1>3. h \in Int
    BY <1>2, HeadCall
  <1>4. Call' = Call
    BY SMTT(30), <1>1 DEF Call
  <1>5. StepInv'
    BY <1>1, <1>2, <1>4 DEF IInv, StepInv, Running
  <1> HIDE DEF h
  <1>6. logged' \subseteq Int /\ logged \subseteq logged'
    BY <1>1, <1>3 DEF Types
  <1>7. logged' = {} \/ \E m \in logged' : \A k \in logged' : k <= m
    <2>1. CASE logged' = logged
      BY Zenon, <1>1, <2>1 DEF Types
    <2>2. CASE logged' = logged \cup {h}
      <3>1. CASE logged = {}
        BY <1>3, <2>2, <3>1
      <3>2. CASE logged # {}
        <4>1. PICK m \in logged : \A k \in logged : k <= m
          BY Zenon, <1>1, <3>2 DEF Types
        <4>2. m \in Int
          BY <1>1 DEF Types
        <4>3. CASE h <= m
          BY <2>2, <4>1, <4>3
        <4>4. CASE m < h
          <5>1. \A k \in logged : k \in Int /\ k <= h
            BY <1>1, <1>3, <4>1, <4>2, <4>4 DEF Types
          <5> QED
            BY <1>3, <2>2, <5>1
        <4> QED
          BY <1>3, <4>2, <4>3, <4>4
      <3> QED
        BY <3>1, <3>2
    <2> QED
      BY <1>1, <2>1, <2>2
  <1>8. setup.persistent => /\ Reached <= stored /\ Reached <= exec.last
                            /\ Reached <= exec.version
                            /\ meta.final <= exec.final /\ exec.final <= chain.height
    BY <1>1 DEF IInv, DiskInv, FinalInv
  <1> QED
    BY <1>1, <1>5, <1>6, <1>7, <1>8, Within DEF Types

LEMMA SaveMetadataIInv == IInv /\ SaveMetadata => IInv'
  <1> SUFFICES ASSUME IInv, SaveMetadata PROVE IInv'
    OBVIOUS
  <1>1. /\ up /\ step = "meta" /\ Return(TRUE) /\ UNCHANGED <<stored, logged, exec, faults>>
        /\ meta' = IF setup.persistent
                   THEN [initialized |-> exec.initialized, root |-> exec.root,
                         last |-> exec.last, final |-> exec.final]
                   ELSE meta
        /\ Types
    BY Zenon DEF SaveMetadata, IInv
  <1>2. calls # <<>>
    BY <1>1 DEF IInv, StepInv
  <1>3. exec \in ExecTypes /\ meta \in MetaTypes
    BY <1>1 DEF Types
  <1>4. /\ meta' \in MetaTypes
        /\ setup.persistent => meta'.last = exec.last /\ meta'.final = exec.final
        /\ ~setup.persistent => meta' = meta
    BY SMTT(30), <1>1, <1>3 DEF ExecTypes, MetaTypes
  <1>5. Call.op = "ExecuteTxs" =>
          exec.last = Call.height /\ exec.version = Call.height /\ stored = Call.height
    BY SMTT(30), <1>1 DEF IInv, StepInv, Running
  <1>6. Call.op = "SetFinal" => exec.final >= Call.height
    BY <1>1 DEF IInv, StepInv
  <1> QED
    BY Zenon, <1>1, <1>2, <1>4, <1>5, <1>6, ReturnIInv

\* A step that answers at once.
LEMMA AnsweredIInv ==
  ASSUME IInv, up, calls # <<>>, NEW ok \in BOOLEAN, Return(ok), UNCHANGED <<disk, exec>>,
         ok => Call.op \notin {"ExecuteTxs", "SetFinal"}
  PROVE  IInv'
  <1>1. meta' \in MetaTypes /\ UNCHANGED <<stored, logged, meta>>
    BY DEF disk, IInv, Types
  <1> QED
    BY <1>1, ReturnIInv

LEMMA RollbackIInv == IInv /\ Rollback => IInv'
  <1> SUFFICES ASSUME IInv, Rollback PROVE IInv'
    OBVIOUS
  <1> DEFINE h == Call.height
  <1>1. up /\ step = "none" /\ calls # <<>> /\ Call.op = "Rollback" /\ Types
    BY DEF Rollback, RollbackTo, Serves, IInv
  <1>2. CASE Return(TRUE) /\ UNCHANGED <<disk, exec, faults>>
    BY Zenon, <1>1, <1>2, AnsweredIInv
  <1>3. CASE Return(FALSE) /\ UNCHANGED <<disk, exec, faults>>
    BY Zenon, <1>1, <1>3, AnsweredIInv
  <1>4. CASE /\ h < exec.last
             /\ exec' = [exec EXCEPT !.version = h, !.root = h, !.last = h,
                                     !.final = IF @ > h THEN h ELSE @]
             /\ GoOn("meta")
    <2>1. step' = "meta" /\ UNCHANGED <<setup, disk, up, calls, node, faults>>
      BY <1>4 DEF GoOn
    <2>2. h \in Int /\ h = chain.height /\ main.pc # "commit"
      BY <1>1, HeadCall DEF Fits
    <2>3. exec \in ExecTypes /\ exec.final \in Int
      BY <1>1 DEF Types, ExecTypes
    <2> DEFINE f == IF exec.final > h THEN h ELSE exec.final
    <2>4. /\ exec' = [exec EXCEPT !.version = h, !.root = h, !.last = h, !.final = f]
          /\ f \in Int
      BY <1>4, <2>2, <2>3
    <2> HIDE DEF h, f
    <2>5. exec' \in ExecTypes
      BY Zenon, <2>2, <2>3, <2>4 DEF ExecTypes
    <2>6. exec'.last = h /\ exec'.version = h
      BY <2>2, <2>3, <2>4 DEF ExecTypes
    <2>7. exec'.final = f
      BY <2>2, <2>3, <2>4 DEF ExecTypes
    <2>8. StepInv'
      BY <1>1, <2>1 DEF StepInv, Call, Running
    <2>9. Reached = h
      BY SMTT(30), <2>2 DEF Reached
    <2>10. setup.persistent => meta.final <= f /\ f <= chain.height
      <3>1. setup.persistent => meta.final <= chain.height /\ meta.final <= exec.final
        BY <1>1 DEF IInv, FinalInv
      <3> QED
        BY <1>1, <2>2, <2>3, <3>1, Numbers DEF f
    <2>11. setup.persistent => Reached <= stored /\ Reached <= exec'.last /\ Reached <= exec'.version
      BY <2>2, <2>6, <2>9 DEF IInv, DiskInv
    <2> QED
      BY <1>1, <2>1, <2>5, <2>7, <2>8, <2>10, <2>11, Within DEF disk, Types
  <1> QED
    BY Zenon, <1>2, <1>3, <1>4 DEF Rollback, RollbackTo

LEMMA SetFinalIInv == IInv /\ SetFinal => IInv'
  <1> SUFFICES ASSUME IInv, SetFinal PROVE IInv'
    OBVIOUS
  <1> DEFINE h == Call.height
             f == IF h > exec.final THEN h ELSE exec.final
  <1>1. up /\ step = "none" /\ calls # <<>> /\ Call.op = "SetFinal" /\ Types
    BY DEF SetFinal, Serves, IInv
  <1>2. CASE Return(FALSE) /\ UNCHANGED <<disk, exec, faults>>
    BY Zenon, <1>1, <1>2, AnsweredIInv
  <1>3. CASE exec' = [exec EXCEPT !.final = IF h > @ THEN h ELSE @] /\ GoOn("meta")
    <2>1. step' = "meta" /\ UNCHANGED <<setup, disk, up, calls, node, faults>>
      BY <1>3 DEF GoOn
    <2>2. h \in Int /\ h <= chain.height
      BY <1>1, HeadCall DEF Fits
    <2>3. exec \in ExecTypes /\ exec.final \in Int
      BY <1>1 DEF Types, ExecTypes
    <2>4. exec' = [exec EXCEPT !.final = f] /\ f \in Int /\ f >= h /\ exec.final <= f
      BY <1>3, <2>2, <2>3
    <2>5. f = h \/ f = exec.final
      OBVIOUS
    <2> HIDE DEF f
    <2>6. exec' \in ExecTypes
      BY <2>3, <2>4 DEF ExecTypes
    <2>7. exec'.final = f /\ exec'.last = exec.last /\ exec'.version = exec.version
      BY <2>3, <2>4 DEF ExecTypes
    <2>8. StepInv'
      BY <1>1, <2>1, <2>4, <2>7 DEF StepInv, Call, Running
    <2>9. setup.persistent => meta.final <= f /\ f <= chain.height
      <3>1. setup.persistent => exec.final <= chain.height /\ meta.final <= exec.final
        BY <1>1 DEF IInv, FinalInv
      <3>2. meta.final \in Int /\ chain.height \in Int
        BY <1>1, Numbers
      <3> QED
        BY <2>2, <2>3, <2>4, <2>5, <3>1, <3>2
    <2>10. setup.persistent => Reached <= stored /\ Reached <= exec'.last /\ Reached <= exec'.version
      BY <1>1, <2>7 DEF IInv, DiskInv
    <2> QED
      BY <1>1, <2>1, <2>6, <2>7, <2>8, <2>9, <2>10, Within DEF disk, Types
  <1> QED
    BY Zenon, <1>2, <1>3 DEF SetFinal

LEMMA StartExecutorIInv == IInv /\ StartExecutor => IInv'
  <1> SUFFICES ASSUME IInv, StartExecutor PROVE IInv'
    OBVIOUS
  <1>1. /\ ~up /\ up' = TRUE /\ exec' = Restarted
        /\ UNCHANGED <<setup, disk, step, calls, node, faults>> /\ Types
    BY DEF StartExecutor, IInv
  <1>2. step' = "none"
    BY Zenon, <1>1 DEF IInv, StepInv
  <1>3. Types'
    BY ZenonT(40), <1>1, RestartedFacts DEF Types, disk, node
  <1>4. QueueInv'
    BY <1>1 DEF IInv, QueueInv, Fits, Awaited, Alone, node
  <1>5. Reached' = Reached /\ Recording' = Recording
    BY Zenon, <1>1 DEF Reached, Recording, node
  <1>6. /\ exec'.version = stored /\ exec'.final = meta.final /\ exec'.last \in Int
        /\ \A k \in logged \cup {meta.last} : k <= exec'.last
    BY SMTT(30), <1>1, <1>3, RestartedFacts, NextNumbers
  <1>7. DiskInv'
    <2> SUFFICES ASSUME setup.persistent
                 PROVE  /\ Reached <= stored
                        /\ \E k \in logged \cup {meta.last} : Reached <= k
                        /\ Reached <= exec'.last /\ Reached <= exec'.version
      BY <1>1, <1>5 DEF DiskInv, disk
    <2>1. PICK k \in logged \cup {meta.last} : Reached <= k
      BY SMTT(30) DEF IInv, DiskInv
    <2>2. k \in Int /\ Reached \in Int /\ k <= exec'.last
      BY <1>1, <1>6, Numbers
    <2>3. Reached <= stored
      BY DEF IInv, DiskInv
    <2>4. Reached <= exec'.last
      BY SMTT(30), <1>6, <2>1, <2>2
    <2> QED
      BY <1>6, <2>1, <2>3, <2>4
  <1>8. FinalInv'
    BY <1>1, <1>5, <1>6, Numbers DEF IInv, FinalInv, disk, node
  <1>9. StepInv'
    BY <1>2 DEF StepInv
  <1> QED
    BY <1>3, <1>4, <1>7, <1>8, <1>9 DEF IInv

-----------------------------------------------------------------------------
\* Calls stay at the head of the queue.
LEMMA HeadStays ==
  ASSUME NEW q \in Seq(Requests), q # <<>>
  PROVE  /\ \A c : Append(q, c) # <<>> /\ Head(Append(q, c)) = Head(q)
         /\ Abandoned(q) # <<>> /\ Head(Abandoned(q)).op = Head(q).op
         /\ Head(Abandoned(q)).height = Head(q).height
  <1>1. Len(q) \in Nat /\ 1 \in 1..Len(q) /\ Head(q) = q[1]
    OBVIOUS
  <1>2. \A c : Append(q, c) # <<>> /\ Head(Append(q, c)) = Head(q)
    BY <1>1
  <1>3. /\ Abandoned(q) \in Seq(Requests) /\ Len(Abandoned(q)) = Len(q)
        /\ Abandoned(q)[1].op = q[1].op /\ Abandoned(q)[1].height = q[1].height
    BY <1>1, AbandonedCalls
  <1>4. Abandoned(q) # <<>> /\ Head(Abandoned(q)) = Abandoned(q)[1]
    BY SMTT(30), <1>1, <1>3
  <1> QED
    BY <1>1, <1>2, <1>3, <1>4

\* No call of the start or the production is live while the node is elsewhere.
LEMMA NoneLive ==
  ASSUME QueueInv, NEW i \in 1..Len(calls), calls[i].live, calls[i].op # "SetFinal"
  PROVE  main.pc = calls[i].op
  BY DEF QueueInv, Awaited

\* The node makes a call of its start or its production.
LEMMA CallingIInv ==
  ASSUME IInv, NEW op \in Waits, NEW h \in Int, Calling(op, h),
         main.pc \notin Waits \cup {"commit"}, op # "InitChain" => chain.initialized,
         op = "Replay" => h = main.execHeight + 1,
         Fits([op |-> op, height |-> h, live |-> TRUE])
  PROVE  IInv'
  <1> DEFINE c == [op |-> op, height |-> h, live |-> TRUE]
  <1>1. /\ calls' = IF up THEN Append(calls, c) ELSE calls
        /\ main' = [main EXCEPT !.pc = op]
        /\ UNCHANGED <<setup, disk, executor, chain, finality, faults>>
        /\ Types /\ QueueInv
    BY DEF Calling, Asks, IInv
  <1>2. main \in MainTypes /\ op \in MainPCs /\ calls \in Seq(Requests)
    BY <1>1 DEF Types, MainPCs
  <1>3. main' \in MainTypes
    BY <1>1, <1>2 DEF MainTypes
  <1>4. main'.pc = op /\ main'.execHeight = main.execHeight
    BY <1>1, <1>2 DEF MainTypes
  <1>5. c \in Requests /\ c.op = op /\ c.height = h /\ op # "SetFinal"
    BY SMTT(30) DEF Requests, Waits
  <1>6. op \notin {"commit", "loaded", "down"}
    BY SMTT(30) DEF Waits
  <1>7. ~Alone'
    BY SMTT(30), <1>4, <1>6 DEF Alone
  <1>8. \A i \in 1..Len(calls) : calls[i].live => calls[i].op = "SetFinal"
    <2> SUFFICES ASSUME NEW i \in 1..Len(calls), calls[i].live, calls[i].op # "SetFinal"
                 PROVE  FALSE
      OBVIOUS
    <2>1. main.pc = calls[i].op
      BY SMTT(30), <1>1, NoneLive
    <2>2. calls[i].op \in Waits \cup {"SetFinal"}
      <3>1. calls[i] \in Requests
        BY <1>2
      <3> QED
        BY SMTT(30), <3>1 DEF Requests
    <2> QED
      BY SMTT(30), <2>1, <2>2
  <1>9. main'.pc \notin {"down", "InitChain", "loaded"} => chain.initialized
    BY <1>4
  <1>10. QueueInv' /\ calls' \in Seq(Requests)
    <2>1. CASE up
      <3>1. calls' = Append(calls, c)
        BY SMTT(30), <1>1, <2>1
      <3>2. Awaited(c)'
        BY <1>4, <1>5 DEF Awaited
      <3> HIDE DEF c
      <3>3. QueueInv'
        BY <1>1, <1>5, <1>7, <1>8, <1>9, <3>1, <3>2, OneMoreCall DEF c
      <3> QED
        BY <1>2, <1>5, <3>1, <3>3
    <2>2. CASE ~up
      <3>1. calls' = calls /\ finality' = finality /\ chain' = chain
        BY <1>1, <2>2
      <3>2. Len(calls) \in Nat /\ Len(calls') + 0 = Len(calls) /\ calls' \in Seq(Requests)
        BY <1>2, <3>1
      <3>3. \A i \in 1..Len(calls') : i + 0 = i
        BY <3>2
      <3>4. QueueInv'
        BY Zenon, <1>1, <1>7, <1>8, <1>9, <3>1, <3>2, <3>3, FewerCalls
      <3> QED
        BY <3>2, <3>4
    <2> QED
      BY SMTT(30), <1>1, <2>1, <2>2 DEF Types
  <1>11. NodeTypes' /\ chain' \in ChainTypes
    BY <1>1, <1>3, <1>10 DEF NodeTypes, Types
  <1>12. calls # <<>> => /\ calls' # <<>> /\ Call'.op = Call.op
                         /\ Call'.height = Call.height
    BY Zenon, <1>1, <1>2, HeadStays DEF Call
  <1>13. Reached' = Reached /\ Recording' = Recording /\ chain'.height = chain.height
    BY <1>1, <1>4, <1>6 DEF Reached, Recording
  <1>14. Reached' <= Reached /\ Recording' <= Recording /\ chain.height <= chain'.height
    BY SMTT(30), <1>1, <1>13, Numbers
  <1> QED
    BY <1>1, <1>10, <1>11, <1>12, <1>14, NodeStep

\* The node moves on without a call, none of its calls being live.
LEMMA MovingIInv ==
  ASSUME IInv, NEW p \in MainPCs, main' \in MainTypes, main'.pc = p,
         UNCHANGED <<setup, disk, executor, chain, finality, calls>>,
         \A i \in 1..Len(calls) : calls[i].live => calls[i].op = "SetFinal",
         p \notin {"commit", "down", "InitChain"}, chain.initialized
  PROVE  IInv'
  <1>1. Types /\ QueueInv /\ calls \in Seq(Requests)
    BY SMTT(30) DEF IInv, Types
  <1>2. ~Alone'
    BY DEF Alone
  <1>3. /\ Len(calls) \in Nat /\ Len(calls') + 0 = Len(calls) /\ calls' \in Seq(Requests)
        /\ \A i \in 1..Len(calls') : i + 0 = i
    BY <1>1
  <1>4. QueueInv'
    BY Zenon, <1>1, <1>2, <1>3, FewerCalls
  <1>5. NodeTypes' /\ chain' \in ChainTypes
    BY SMTT(30), <1>1 DEF NodeTypes, Types
  <1>6. /\ Reached' = chain.height /\ Recording' = Recording /\ chain'.height = chain.height
        /\ Reached \in {chain.height, chain.height + 1}
    BY SMTT(30) DEF Reached, Recording
  <1>7. Reached' <= Reached /\ Recording' <= Recording /\ chain.height <= chain'.height
    BY SMTT(30), <1>1, <1>6, Numbers
  <1>8. Call' = Call
    BY DEF Call
  <1> QED
    BY Zenon, <1>4, <1>5, <1>7, <1>8, NodeStep

\* The node's process ends.
LEMMA EndsIInv ==
  ASSUME IInv, NodeEnds(calls), UNCHANGED <<setup, disk, executor, chain>>
  PROVE  IInv'
  <1>1. Types /\ QueueInv /\ calls \in Seq(Requests) /\ chain \in ChainTypes
    BY DEF IInv, Types
  <1>2. calls' = Abandoned(calls) /\ main' = NodeDown /\ finality' = At("idle")
    BY DEF NodeEnds
  <1>3. /\ calls' \in Seq(Requests) /\ Len(calls') = Len(calls) /\ Len(calls) \in Nat
        /\ \A i \in 1..Len(calls') :
             /\ calls'[i].op = calls[i].op /\ calls'[i].height = calls[i].height
             /\ ~calls'[i].live
    BY <1>1, <1>2, AbandonedCalls
  <1>4. main'.pc = "down" /\ finality'.pc = "idle"
    BY <1>2 DEF NodeDown, At
  <1>5. Len(calls') + 0 = Len(calls) /\ \A i \in 1..Len(calls') : i + 0 = i
    BY SMTT(30), <1>3
  <1>6. QueueInv'
    BY Zenon, <1>1, <1>3, <1>4, <1>5, FewerCalls DEF Alone
  <1>7. NodeTypes' /\ chain' \in ChainTypes
    BY <1>1, <1>2, <1>3 DEF NodeTypes, NodeDown, At, MainTypes, MainPCs, FinalityTypes
  <1>8. /\ Reached' = chain.height /\ Recording' = chain.final /\ chain'.height = chain.height
        /\ Reached \in {chain.height, chain.height + 1}
        /\ Recording \in {chain.final, chain.final + 1}
    BY <1>4 DEF Reached, Recording
  <1>9. Reached' <= Reached /\ Recording' <= Recording /\ chain.height <= chain'.height
    BY <1>1, <1>8, Numbers
  <1>10. calls # <<>> => /\ calls' # <<>> /\ Call'.op = Call.op
                         /\ Call'.height = Call.height
    BY SMTT(30), <1>1, <1>2, HeadStays DEF Call
  <1> QED
    BY Zenon, <1>6, <1>7, <1>9, <1>10, NodeStep

\* Where the node makes no calls, none is live.
LEMMA Elsewhere ==
  ASSUME IInv, main.pc \notin Waits
  PROVE  \A i \in 1..Len(calls) : calls[i].live => calls[i].op = "SetFinal"
  <1> SUFFICES ASSUME NEW i \in 1..Len(calls), calls[i].live, calls[i].op # "SetFinal"
               PROVE  FALSE
    OBVIOUS
  <1>1. calls \in Seq(Requests) /\ QueueInv
    BY DEF IInv, Types
  <1>2. calls[i] \in Requests
    BY <1>1
  <1>3. calls[i].op \in Waits \cup {"SetFinal"}
    BY <1>2 DEF Requests
  <1>4. main.pc = calls[i].op
    BY <1>1, NoneLive
  <1> QED
    BY <1>3, <1>4

\* MainAt with a constant.
LEMMA MainAtFacts ==
  ASSUME main \in MainTypes, NEW p \in MainPCs, MainAt(p)
  PROVE  main' \in MainTypes /\ main'.pc = p /\ main'.execHeight = main.execHeight
  <1> DEFINE z == 0
  <1>1. main' = [main EXCEPT !.pc = p, !.attempts = z] /\ z \in Int
    BY DEF MainAt
  <1> HIDE DEF z
  <1>2. main' \in MainTypes
    BY Zenon, <1>1 DEF MainTypes
  <1>3. main'.pc = p
    BY <1>1 DEF MainTypes
  <1>4. main'.execHeight = main.execHeight
    BY <1>1 DEF MainTypes
  <1> QED
    BY <1>2, <1>3, <1>4

LEMMA StartNodeIInv == IInv /\ StartNode => IInv'
  <1> SUFFICES ASSUME IInv, StartNode PROVE IInv'
    OBVIOUS
  <1>1. main.pc = "down" /\ Types /\ QueueInv /\ main \in MainTypes
    BY DEF StartNode, IInv, Types
  <1>2. CASE ~chain.initialized /\ Calling("InitChain", 0)
    <2>1. chain.height = 0
      BY SMTT(30), <1>1, <1>2 DEF QueueInv
    <2>2. Fits([op |-> "InitChain", height |-> 0, live |-> TRUE])
      BY <1>2, <2>1 DEF Fits
    <2>3. "InitChain" \in Waits /\ 0 \in Int /\ "down" \notin Waits \cup {"commit"}
      BY SMTT(30) DEF Waits
    <2> QED
      BY Zenon, <1>1, <1>2, <2>2, <2>3, CallingIInv
  <1>3. CASE /\ chain.initialized /\ MainAt("loaded")
             /\ UNCHANGED <<setup, disk, executor, calls, chain, finality, faults>>
    <2>1. main' \in MainTypes /\ main'.pc = "loaded"
      BY <1>1, <1>3, MainAtFacts DEF MainPCs
    <2>2. \A i \in 1..Len(calls) : calls[i].live => calls[i].op = "SetFinal"
      BY <1>1, Elsewhere DEF Waits
    <2>3. "loaded" \in MainPCs
      BY DEF MainPCs
    <2> QED
      BY <1>3, <2>1, <2>2, <2>3, MovingIInv
  <1> QED
    BY <1>2, <1>3 DEF StartNode

LEMMA SyncToHeightIInv == IInv /\ SyncToHeight => IInv'
  <1> SUFFICES ASSUME IInv, SyncToHeight PROVE IInv'
    OBVIOUS
  <1>1. /\ main.pc = "loaded" /\ chain' = [chain EXCEPT !.initialized = TRUE]
        /\ IF chain.height < 1
           THEN MainAt("idle") /\ UNCHANGED calls
           ELSE Asks("GetLatestHeight", 0) /\ main' = [main EXCEPT !.pc = "GetLatestHeight"]
        /\ UNCHANGED <<setup, disk, executor, finality, faults>>
        /\ Types /\ QueueInv /\ main \in MainTypes /\ chain \in ChainTypes
        /\ calls \in Seq(Requests)
    BY DEF SyncToHeight, IInv, Types
  <1>2. /\ chain' \in ChainTypes /\ chain'.initialized /\ chain'.height = chain.height
        /\ chain'.final = chain.final
    BY Zenon, <1>1 DEF ChainTypes
  <1>3. \A i \in 1..Len(calls) : calls[i].live => calls[i].op = "SetFinal"
    BY <1>1, Elsewhere DEF Waits
  <1>4. CASE chain.initialized
    <2>1. chain' = chain
      BY <1>1, <1>4 DEF ChainTypes
    <2>2. CASE chain.height < 1
      <3>1. main' \in MainTypes /\ main'.pc = "idle" /\ "idle" \in MainPCs /\ UNCHANGED calls
        BY <1>1, <2>2, MainAtFacts DEF MainPCs
      <3> QED
        BY <1>1, <1>3, <1>4, <2>1, <3>1, MovingIInv
    <2>3. CASE ~(chain.height < 1)
      <3>1. Calling("GetLatestHeight", 0)
        BY <1>1, <2>1, <2>3 DEF Calling
      <3>2. /\ "GetLatestHeight" \in Waits /\ 0 \in Int
            /\ "loaded" \notin Waits \cup {"commit"}
        BY DEF Waits
      <3>3. Fits([op |-> "GetLatestHeight", height |-> 0, live |-> TRUE])
        BY DEF Fits
      <3> QED
        BY <1>1, <1>4, <3>1, <3>2, <3>3, CallingIInv
    <2> QED
      BY <2>2, <2>3
  <1>5. CASE ~chain.initialized
    <2>1. chain.height = 0 /\ \A i \in 1..Len(calls) : calls[i].op = "SetFinal"
      BY <1>1, <1>5 DEF QueueInv, Alone
    <2>2. main' \in MainTypes /\ main'.pc = "idle" /\ UNCHANGED calls
      BY SMTT(30), <1>1, <2>1, MainAtFacts DEF MainPCs
    <2>3. QueueInv'
      <3>1. ASSUME NEW i \in 1..Len(calls)
            PROVE  Fits(calls[i])' /\ (calls[i].live => Awaited(calls[i])')
        <4>1. Fits(calls[i]) /\ (calls[i].live => Awaited(calls[i])) /\ calls[i].op = "SetFinal"
          BY ZenonT(40), <1>1, <2>1 DEF QueueInv
        <4>2. Fits(calls[i])'
          BY <1>2, <2>2, <4>1 DEF Fits
        <4>3. calls[i].live => Awaited(calls[i])'
          BY <1>1, <1>2, <2>2, <4>1 DEF Awaited
        <4> QED
          BY <4>2, <4>3
      <3>2. \A i, j \in 1..Len(calls) :
              i < j /\ calls[i].live /\ calls[j].live /\ calls[i].op = "SetFinal"
                => calls[j].op # "SetFinal"
        BY <1>1 DEF QueueInv
      <3>3. ~Alone'
        BY <2>2 DEF Alone
      <3> QED
        BY <1>2, <2>1, <2>2, <3>1, <3>2, <3>3 DEF QueueInv
    <2>4. NodeTypes'
      BY <1>1, <2>2 DEF NodeTypes, Types
    <2>5. Reached' = Reached /\ Recording' = Recording
      BY <1>1, <1>2, <2>2 DEF Reached, Recording
    <2>6. Reached' <= Reached /\ Recording' <= Recording /\ chain.height <= chain'.height
      BY <1>1, <1>2, <2>5, Numbers
    <2>7. Call' = Call
      BY <2>2 DEF Call
    <2> QED
      BY <1>1, <1>2, <2>2, <2>3, <2>4, <2>6, <2>7, NodeStep
  <1> QED
    BY <1>4, <1>5

LEMMA CallsIInv == IInv /\ (RollbackExec \/ ReplayBlock \/ ApplyBlock) => IInv'
  <1> SUFFICES ASSUME IInv, RollbackExec \/ ReplayBlock \/ ApplyBlock PROVE IInv'
    OBVIOUS
  <1>1. main.pc \in {"ahead", "behind", "idle"} /\ Types /\ QueueInv
    BY Zenon DEF RollbackExec, ReplayBlock, ApplyBlock, IInv
  <1>2. chain.initialized /\ main.pc \notin Waits \cup {"commit"}
    BY Zenon, <1>1 DEF QueueInv, Waits
  <1>3. chain.height \in Int /\ chain.height + 1 \in Int /\ main.execHeight + 1 \in Int
    BY SMTT(30), <1>1, Numbers DEF Types, MainTypes
  <1>4. {"Rollback", "Replay", "ExecuteTxs"} \subseteq Waits
    BY DEF Waits
  <1>5. CASE Calling("Rollback", chain.height)
    <2>1. Fits([op |-> "Rollback", height |-> chain.height, live |-> TRUE])
      BY DEF Fits
    <2> QED
      BY Zenon, <1>2, <1>3, <1>4, <1>5, <2>1, CallingIInv
  <1>6. CASE Calling("Replay", main.execHeight + 1)
    <2>1. Fits([op |-> "Replay", height |-> main.execHeight + 1, live |-> TRUE])
      BY SMTT(30), <1>2 DEF Fits
    <2> QED
      BY SMTT(30), <1>2, <1>3, <1>4, <1>6, <2>1, CallingIInv
  <1>7. CASE Calling("ExecuteTxs", chain.height + 1)
    <2>1. Fits([op |-> "ExecuteTxs", height |-> chain.height + 1, live |-> TRUE])
      BY <1>2 DEF Fits
    <2> QED
      BY <1>2, <1>3, <1>4, <1>7, <2>1, CallingIInv
  <1> QED
    BY <1>5, <1>6, <1>7 DEF RollbackExec, ReplayBlock, ApplyBlock

LEMMA CommitIInv == IInv /\ Commit => IInv'
  <1> SUFFICES ASSUME IInv, Commit PROVE IInv'
    OBVIOUS
  <1>1. /\ main.pc = "commit" /\ chain' = [chain EXCEPT !.height = @ + 1] /\ MainAt("idle")
        /\ UNCHANGED <<setup, disk, executor, calls, finality, faults>>
        /\ Types /\ QueueInv /\ main \in MainTypes /\ chain \in ChainTypes
    BY DEF Commit, IInv, Types
  <1>2. chain' \in ChainTypes
    BY <1>1 DEF ChainTypes
  <1>3. /\ chain'.height = chain.height + 1 /\ chain'.final = chain.final
        /\ chain'.initialized = chain.initialized
    BY <1>1 DEF ChainTypes
  <1>4. main' \in MainTypes /\ main'.pc = "idle"
    BY <1>1, MainAtFacts DEF MainPCs
  <1>5. chain.initialized /\ \A i \in 1..Len(calls) : calls[i].op = "SetFinal"
    BY <1>1 DEF QueueInv, Alone
  <1>6. chain.height \in Int /\ calls \in Seq(Requests)
    BY <1>1, Numbers DEF Types
  <1>7. QueueInv'
    <2>1. ASSUME NEW i \in 1..Len(calls)
          PROVE  Fits(calls[i])' /\ (calls[i].live => Awaited(calls[i])')
      <3>1. Fits(calls[i]) /\ (calls[i].live => Awaited(calls[i])) /\ calls[i].op = "SetFinal"
        BY <1>1, <1>5 DEF QueueInv
      <3>2. calls[i] \in Requests
        BY <1>6
      <3>3. calls[i].height \in Int
        BY SMTT(30), <3>2 DEF Requests
      <3>4. calls[i].height <= chain'.height
        BY <1>3, <1>6, <3>1, <3>3 DEF Fits
      <3>5. Fits(calls[i])'
        BY <1>1, <3>1, <3>4 DEF Fits
      <3>6. calls[i].live => Awaited(calls[i])'
        BY <1>1, <1>3, <3>1 DEF Awaited
      <3> QED
        BY <3>5, <3>6
    <2>2. \A i, j \in 1..Len(calls) :
            i < j /\ calls[i].live /\ calls[j].live /\ calls[i].op = "SetFinal"
              => calls[j].op # "SetFinal"
      BY <1>1 DEF QueueInv
    <2>3. ~Alone'
      BY <1>4 DEF Alone
    <2> QED
      BY <1>1, <1>3, <1>5, <2>1, <2>2, <2>3 DEF QueueInv
  <1>8. NodeTypes'
    BY <1>1, <1>4, <1>6 DEF NodeTypes, Types
  <1>9. Reached' = Reached /\ Recording' = Recording
    BY <1>1, <1>3, <1>4 DEF Reached, Recording
  <1>10. Reached' <= Reached /\ Recording' <= Recording /\ chain.height <= chain'.height
    BY <1>1, <1>3, <1>9, Numbers
  <1>11. Call' = Call
    BY <1>1 DEF Call
  <1> QED
    BY <1>1, <1>2, <1>7, <1>8, <1>10, <1>11, NodeStep

LEMMA MainCutOffIInv == IInv /\ MainCutOff => IInv'
  <1> SUFFICES ASSUME IInv, MainCutOff PROVE IInv'
    BY SMTT(30)
  <1>1. /\ CutOff(Waits) /\ MainFails(calls)
        /\ UNCHANGED <<setup, disk, executor, chain, faults>>
        /\ Types /\ main \in MainTypes /\ calls \in Seq(Requests) /\ QueueInv
    BY DEF MainCutOff, IInv, Types
  <1>2. CASE NodeEnds(calls)
    BY <1>1, <1>2, EndsIInv
  <1>3. CASE /\ main.pc = "ExecuteTxs"
             /\ main' = [main EXCEPT !.pc = "idle", !.attempts = @ + 1]
             /\ calls' = calls /\ UNCHANGED finality
    <2>1. main' \in MainTypes /\ main'.pc = "idle"
      <3> DEFINE a == main.attempts + 1
                 p == "idle"
      <3>1. a \in Int /\ p \in MainPCs
        BY <1>1 DEF MainPCs, MainTypes
      <3>2. main' = [main EXCEPT !.pc = p, !.attempts = a]
        BY <1>3
      <3> HIDE DEF a, p
      <3>3. main' \in MainTypes
        BY Zenon, <1>1, <3>1, <3>2 DEF MainTypes
      <3>4. main'.pc = p
        BY <1>1, <3>1, <3>2 DEF MainTypes
      <3> QED
        BY <3>3, <3>4 DEF p
    <2>2. \A i \in 1..Len(calls) : calls[i].live => calls[i].op = "SetFinal"
      <3> SUFFICES ASSUME NEW i \in 1..Len(calls), calls[i].live, calls[i].op # "SetFinal"
                   PROVE  FALSE
        OBVIOUS
      <3>1. calls[i] \in Requests /\ i \in DOMAIN calls
        BY <1>1
      <3>2. calls[i].op \in Waits
        BY <3>1 DEF Requests
      <3> QED
        BY <1>1, <3>1, <3>2 DEF CutOff
    <2>3. chain.initialized
      BY <1>1, <1>3 DEF QueueInv
    <2>4. "idle" \in MainPCs
      BY Zenon DEF MainPCs
    <2> QED
      BY <1>1, <1>3, <2>1, <2>2, <2>3, <2>4, MovingIInv
  <1> QED
    BY <1>1, <1>2, <1>3 DEF MainFails

\* A step of the inclusion loop that leaves the calls and the chain alone.
LEMMA FinalityMoves ==
  ASSUME IInv, finality' \in FinalityTypes, finality'.pc # "record",
         UNCHANGED <<setup, disk, executor, chain, main, calls>>,
         \A i \in 1..Len(calls) : calls[i].live => calls[i].op # "SetFinal"
  PROVE  IInv'
  <1>1. Types /\ QueueInv /\ calls \in Seq(Requests)
    BY Zenon DEF IInv, Types
  <1>2. /\ Len(calls) \in Nat /\ Len(calls') + 0 = Len(calls) /\ calls' \in Seq(Requests)
        /\ \A i \in 1..Len(calls') : i + 0 = i
    BY SMTT(30), <1>1
  <1>3. Alone' => \A i \in 1..Len(calls) : calls[i].op = "SetFinal"
    BY Zenon, <1>1 DEF Alone, QueueInv
  <1>4. main'.pc \notin {"down", "InitChain", "loaded"} => chain.initialized
    BY <1>1 DEF QueueInv
  <1>5. QueueInv'
    BY Zenon, <1>1, <1>2, <1>3, <1>4, FewerCalls
  <1>6. NodeTypes' /\ chain' \in ChainTypes
    BY Zenon, <1>1 DEF NodeTypes, Types
  <1>7. /\ Reached' = Reached /\ Recording' = chain.final /\ chain'.height = chain.height
        /\ Recording \in {chain.final, chain.final + 1}
    BY Zenon DEF Reached, Recording
  <1>8. Reached' <= Reached /\ Recording' <= Recording /\ chain.height <= chain'.height
    BY SMTT(30), <1>1, <1>7, Numbers
  <1>9. Call' = Call
    BY DEF Call
  <1> QED
    BY Zenon, <1>5, <1>6, <1>8, <1>9, NodeStep

LEMMA FinalizeIInv == IInv /\ Finalize => IInv'
  <1> SUFFICES ASSUME IInv, Finalize PROVE IInv'
    OBVIOUS
  <1> DEFINE h == chain.final + 1
  <1>1. /\ finality.pc = "idle" /\ chain.final < chain.height
        /\ calls' = IF up
                  THEN Append(calls, [op |-> "SetFinal", height |-> h, live |-> TRUE])
                  ELSE calls
        /\ finality' = [finality EXCEPT !.pc = "SetFinal"]
        /\ UNCHANGED <<setup, disk, executor, chain, main, faults>>
        /\ Types /\ QueueInv /\ calls \in Seq(Requests) /\ finality \in FinalityTypes
    BY DEF Finalize, Asks, IInv, Types
  <1>2. finality' \in FinalityTypes /\ finality'.pc = "SetFinal"
    BY <1>1 DEF FinalityTypes
  <1>3. \A i \in 1..Len(calls) : calls[i].live => calls[i].op # "SetFinal"
    BY <1>1 DEF QueueInv, Awaited
  <1>4. h \in Int /\ h <= chain.height
    <2>1. chain.final \in Int /\ chain.height \in Int /\ chain.final < chain.height
      BY Zenon, <1>1, Numbers
    <2> QED
      BY ONLY <2>1
  <1>5. CASE ~up
    <2>1. UNCHANGED <<setup, disk, executor, chain, main, calls>> /\ finality'.pc # "record"
      BY <1>1, <1>2, <1>5
    <2> QED
      BY <1>2, <1>3, <2>1, FinalityMoves
  <1>6. CASE up
    <2>1. PICK c \in Requests : c = [op |-> "SetFinal", height |-> h, live |-> TRUE]
      BY Zenon, <1>4 DEF Requests
    <2>2. c.op = "SetFinal" /\ c.height = h
      BY <2>1
    <2>3. Fits(c)
      BY <1>4, <2>2 DEF Fits
    <2>4. Awaited(c)'
      BY <1>1, <1>2, <2>2 DEF Awaited
    <2>5. Alone' => c.op = "SetFinal" /\ \A i \in 1..Len(calls) : calls[i].op = "SetFinal"
      BY <1>1, <2>2 DEF Alone, QueueInv
    <2>6. calls' = Append(calls, c) /\ main' = main
      BY <1>1, <1>6, <2>1
    <2>7. QueueInv'
      <3>1. main'.pc \notin {"down", "InitChain", "loaded"} => chain.initialized
        BY <1>1 DEF QueueInv
      <3>2. \A i \in 1..Len(calls) : calls[i].live =>
              IF c.op # "SetFinal" THEN calls[i].op = "SetFinal" /\ finality'.pc = finality.pc
              ELSE calls[i].op # "SetFinal" /\ main' = main
        BY <1>3, <2>2, <2>6
      <3> QED
        BY <1>1, <2>3, <2>4, <2>5, <2>6, <3>1, <3>2, OneMoreCall
    <2>8. NodeTypes' /\ chain' \in ChainTypes
      BY <1>1, <1>2, <2>1, <2>6 DEF NodeTypes, Types
    <2>9. /\ Reached' = Reached /\ Recording' = Recording /\ chain'.height = chain.height
      BY <1>1, <1>2 DEF Reached, Recording
    <2>10. Reached' <= Reached /\ Recording' <= Recording /\ chain.height <= chain'.height
      <3>1. Reached \in Int /\ Recording \in Int /\ chain.height \in Int
        BY <1>1, Numbers
      <3> QED
        BY ONLY <2>9, <3>1
    <2>11. calls # <<>> => /\ calls' # <<>> /\ Call'.op = Call.op
                           /\ Call'.height = Call.height
      BY <1>1, <2>6, HeadStays DEF Call
    <2> QED
      BY <1>1, <2>7, <2>8, <2>10, <2>11, NodeStep
  <1> QED
    BY <1>5, <1>6 DEF IInv, Types

LEMMA RecordFinalIInv == IInv /\ RecordFinal => IInv'
  <1> SUFFICES ASSUME IInv, RecordFinal PROVE IInv'
    OBVIOUS
  <1>1. /\ finality.pc = "record" /\ chain' = [chain EXCEPT !.final = @ + 1]
        /\ finality' = At("idle")
        /\ UNCHANGED <<setup, disk, executor, calls, main, faults>>
        /\ Types /\ QueueInv /\ chain \in ChainTypes /\ calls \in Seq(Requests)
    BY DEF RecordFinal, IInv, Types
  <1>2. chain' \in ChainTypes
    BY <1>1 DEF ChainTypes
  <1>3. /\ chain'.height = chain.height /\ chain'.final = chain.final + 1
        /\ chain'.initialized = chain.initialized
    BY <1>1 DEF ChainTypes
  <1>4. finality' \in FinalityTypes /\ finality'.pc = "idle"
    BY <1>1 DEF At, FinalityTypes
  <1>5. \A i \in 1..Len(calls) : calls[i].live => calls[i].op # "SetFinal"
    BY <1>1 DEF QueueInv, Awaited
  <1>6. QueueInv'
    <2>1. ASSUME NEW i \in 1..Len(calls)
          PROVE  Fits(calls[i])' /\ (calls[i].live => Awaited(calls[i])')
      <3>1. Fits(calls[i]) /\ (calls[i].live => Awaited(calls[i]))
        BY <1>1 DEF QueueInv
      <3>2. Fits(calls[i])'
        BY <1>1, <1>3, <3>1 DEF Fits
      <3>3. calls[i].live => Awaited(calls[i])'
        BY <1>1, <1>5, <3>1 DEF Awaited
      <3> QED
        BY <3>2, <3>3
    <2>2. Alone' = Alone
      BY <1>1, <1>3 DEF Alone
    <2> QED
      BY <1>1, <1>3, <2>1, <2>2 DEF QueueInv
  <1>7. NodeTypes'
    BY <1>1, <1>4 DEF NodeTypes, Types
  <1>8. Reached' = Reached /\ Recording' = Recording
    BY <1>1, <1>3, <1>4 DEF Reached, Recording
  <1>9. Reached' <= Reached /\ Recording' <= Recording /\ chain.height <= chain'.height
    <2>1. Reached \in Int /\ Recording \in Int /\ chain.height \in Int
      BY <1>1, Numbers
    <2> QED
      BY ONLY <1>3, <1>8, <2>1
  <1>10. Call' = Call
    BY <1>1 DEF Call
  <1> QED
    BY <1>1, <1>2, <1>6, <1>7, <1>9, <1>10, NodeStep

LEMMA FinalityCutOffIInv == IInv /\ FinalityCutOff => IInv'
  <1> SUFFICES ASSUME IInv, FinalityCutOff PROVE IInv'
    OBVIOUS
  <1>1. /\ CutOff({"SetFinal"}) /\ FinalityFails(calls)
        /\ UNCHANGED <<setup, disk, executor, chain, faults>>
        /\ finality \in FinalityTypes /\ calls \in Seq(Requests)
    BY DEF FinalityCutOff, IInv, Types
  <1>2. CASE NodeEnds(calls)
    BY Zenon, <1>1, <1>2, EndsIInv
  <1>3. CASE /\ finality' = [pc |-> "idle", attempts |-> finality.attempts + 1]
             /\ calls' = calls /\ UNCHANGED main
    <2>1. finality' \in FinalityTypes /\ finality'.pc = "idle"
      BY SMTT(30), <1>1, <1>3 DEF FinalityTypes
    <2>2. \A i \in 1..Len(calls) : calls[i].live => calls[i].op # "SetFinal"
      BY SMTT(30), <1>1 DEF CutOff
    <2> QED
      BY SMTT(30), <1>1, <1>3, <2>1, <2>2, FinalityMoves
  <1> QED
    BY Zenon, <1>1, <1>2, <1>3 DEF FinalityFails

LEMMA TimesOutIInv == IInv /\ TimesOut => IInv'
  <1> SUFFICES ASSUME IInv, TimesOut PROVE IInv'
    OBVIOUS
  <1>1. PICK k \in DOMAIN calls : calls' = [calls EXCEPT ![k].live = FALSE]
    BY Zenon DEF TimesOut
  <1>2. /\ UNCHANGED <<setup, disk, executor, chain, main, finality>>
        /\ Types /\ QueueInv /\ calls \in Seq(Requests)
    BY DEF TimesOut, node, IInv, Types
  <1>3. Len(calls) \in Nat /\ DOMAIN calls = 1..Len(calls)
    BY <1>2
  <1>4. \A i \in 1..Len(calls) : calls[i] \in Requests
    BY <1>2
  <1> DEFINE f == FALSE
             c == [calls[k] EXCEPT !.live = f]
  <1>5. c \in Requests /\ c.op = calls[k].op /\ c.height = calls[k].height /\ ~c.live
    <2>1. calls[k] \in Requests /\ f \in BOOLEAN
      BY <1>3, <1>4
    <2> HIDE DEF f
    <2>2. c \in Requests
      BY <2>1 DEF Requests
    <2>3. c.op = calls[k].op /\ c.height = calls[k].height /\ c.live = f
      BY <2>1 DEF Requests
    <2> QED
      BY <2>2, <2>3 DEF f
  <1>6. calls' = [calls EXCEPT ![k] = c]
    BY <1>1
  <1> HIDE DEF c, f
  <1>7. /\ calls' \in Seq(Requests) /\ Len(calls') = Len(calls) /\ calls'[k] = c
        /\ \A i \in 1..Len(calls) : i # k => calls'[i] = calls[i]
    BY <1>2, <1>3, <1>5, <1>6
  <1>8. \A i \in 1..Len(calls') :
          /\ calls'[i].op = calls[i].op /\ calls'[i].height = calls[i].height
          /\ calls'[i].live => calls[i].live
    <2> SUFFICES ASSUME NEW i \in 1..Len(calls')
                 PROVE  /\ calls'[i].op = calls[i].op /\ calls'[i].height = calls[i].height
                        /\ calls'[i].live => calls[i].live
      BY Zenon
    <2>1. CASE i = k
      BY SMTT(30), <1>5, <1>7, <2>1
    <2>2. CASE i # k
      BY <1>7, <2>2
    <2> QED
      BY Zenon, <2>1, <2>2
  <1>9. Len(calls') + 0 = Len(calls) /\ \A i \in 1..Len(calls') : i + 0 = i
    BY SMTT(30), <1>3, <1>7
  <1>10. Alone' => \A i \in 1..Len(calls') : calls'[i].op = "SetFinal"
    BY ZenonT(40), <1>2, <1>7, <1>8 DEF Alone, QueueInv
  <1>11. main'.pc \notin {"down", "InitChain", "loaded"} => chain.initialized
    BY <1>2 DEF QueueInv
  <1>12. QueueInv'
    BY Zenon, <1>2, <1>7, <1>8, <1>9, <1>10, <1>11, FewerCalls
  <1>13. NodeTypes' /\ chain' \in ChainTypes
    BY SMTT(30), <1>2, <1>7 DEF NodeTypes, Types
  <1>14. Reached' = Reached /\ Recording' = Recording /\ chain'.height = chain.height
    BY <1>2 DEF Reached, Recording
  <1>15. Reached' <= Reached /\ Recording' <= Recording /\ chain.height <= chain'.height
    BY SMTT(30), <1>2, <1>14, Numbers
  <1>16. calls # <<>> => /\ calls' # <<>> /\ Call'.op = Call.op
                         /\ Call'.height = Call.height
    <2> SUFFICES ASSUME calls # <<>>
                 PROVE  calls' # <<>> /\ Call'.op = Call.op /\ Call'.height = Call.height
      OBVIOUS
    <2>1. 1 \in 1..Len(calls) /\ Head(calls) = calls[1]
      BY <1>2
    <2>2. calls' # <<>> /\ Head(calls') = calls'[1]
      BY <1>3, <1>7, <2>1
    <2> QED
      BY Zenon, <1>7, <1>8, <2>1, <2>2 DEF Call
  <1> QED
    BY <1>2, <1>12, <1>13, <1>15, <1>16, NodeStep

LEMMA PersistFailsIInv == IInv /\ PersistFails => IInv'
  <1> SUFFICES ASSUME IInv, PersistFails PROVE IInv'
    OBVIOUS
  <1>1. up /\ step # "none" /\ Return(FALSE) /\ UNCHANGED <<disk, exec>>
    BY Zenon DEF PersistFails
  <1>2. calls # <<>>
    BY <1>1 DEF IInv, StepInv, Running
  <1> QED
    BY Zenon, <1>1, <1>2, AnsweredIInv

LEMMA GetLatestHeightIInv == IInv /\ GetLatestHeight => IInv'
  <1> SUFFICES ASSUME IInv, GetLatestHeight PROVE IInv'
    OBVIOUS
  <1>1. /\ up /\ calls # <<>> /\ Call.op = "GetLatestHeight"
        /\ Return(TRUE) /\ UNCHANGED <<disk, exec>>
    BY Zenon DEF GetLatestHeight, Serves
  <1> QED
    BY Zenon, <1>1, AnsweredIInv

LEMMA NodeCrashIInv == IInv /\ NodeCrash => IInv'
  <1> SUFFICES ASSUME IInv, NodeCrash PROVE IInv'
    OBVIOUS
  <1> QED
    BY EndsIInv DEF NodeCrash

LEMMA ExecutorDiesIInv == IInv /\ ExecutorDies => IInv'
  <1> SUFFICES ASSUME IInv, ExecutorDies PROVE IInv'
    BY SMTT(30)
  <1>1. /\ up' = FALSE /\ exec' = NoExec /\ step' = "none" /\ calls' = <<>>
        /\ stored' = (IF setup.persistent THEN stored ELSE 0)
        /\ UNCHANGED <<setup, logged, meta, chain, main, finality>>
        /\ Types /\ QueueInv /\ DiskInv /\ FinalInv /\ calls \in Seq(Requests)
    BY SMTT(30) DEF ExecutorDies, node, IInv, Types
  <1>2. NoExec \in ExecTypes /\ <<>> \in Seq(Requests) /\ Len(<<>>) = 0
    BY SMTT(30) DEF NoExec, NoMeta, ExecTypes
  <1>3. Types'
    <2>1. stored \in Int /\ 0 \in Int
      BY <1>1 DEF Types
    <2>2. stored' \in Int
      BY SMTT(30), <1>1, <2>1
    <2>3. /\ logged \subseteq Int /\ (logged = {} \/ \E m \in logged : \A k \in logged : k <= m)
          /\ meta \in MetaTypes /\ chain \in ChainTypes /\ main \in MainTypes
          /\ finality \in FinalityTypes
      BY <1>1 DEF Types
    <2>4. exec' \in ExecTypes /\ up' \in BOOLEAN /\ calls' \in Seq(Requests)
      BY ZenonT(40), <1>1, <1>2
    <2> QED
      BY <1>1, <2>2, <2>3, <2>4 DEF Types
  <1>4. QueueInv'
    <2>1. Len(calls) \in Nat /\ Len(calls') = 0 /\ 1..0 = {} /\ 0 + Len(calls) = Len(calls)
      BY <1>1, <1>2
    <2>2. 1..Len(calls') = {}
      BY SMTT(30), <2>1
    <2>3. main'.pc \notin {"down", "InitChain", "loaded"} => chain.initialized
      BY SMTT(30), <1>1 DEF QueueInv
    <2> QED
      BY <1>1, <2>2, <2>3 DEF QueueInv
  <1>5. StepInv'
    BY SMTT(30), <1>1 DEF StepInv
  <1>6. Reached' = Reached /\ Recording' = Recording
    BY SMTT(30), <1>1 DEF Reached, Recording
  <1>7. DiskInv'
    BY SMTT(30), <1>1, <1>6 DEF DiskInv
  <1>8. FinalInv'
    BY <1>1, <1>6 DEF FinalInv
  <1> QED
    BY <1>3, <1>4, <1>5, <1>7, <1>8 DEF IInv

LEMMA InitIInv == Init => IInv
  <1> SUFFICES ASSUME Init PROVE IInv
    BY Zenon
  <1>1. /\ stored = 0 /\ logged = {} /\ meta = NoMeta /\ exec = Restarted /\ up = TRUE
        /\ step = "none" /\ calls = <<>>
        /\ chain = [initialized |-> FALSE, height |-> 0, final |-> 0]
        /\ main = NodeDown /\ finality = At("idle")
    BY Zenon DEF Init
  <1>2. /\ meta \in MetaTypes /\ meta.last = 0 /\ meta.final = 0
        /\ chain \in ChainTypes /\ ~chain.initialized /\ chain.height = 0 /\ chain.final = 0
        /\ calls \in Seq(Requests) /\ Len(calls) = 0
    BY SMTT(30), <1>1 DEF NoMeta, MetaTypes, ChainTypes
  <1>3. main \in MainTypes /\ main.pc = "down"
    BY SMTT(30), <1>1 DEF NodeDown, MainTypes, MainPCs
  <1>4. finality \in FinalityTypes /\ finality.pc = "idle"
    BY <1>1 DEF At, FinalityTypes
  <1>5. Max(logged \cup {meta.last}) = 0
    <2>1. \E x \in {0} : \A y \in {0} : x >= y
      OBVIOUS
    <2>2. logged \cup {meta.last} = {0}
      BY Zenon, <1>1, <1>2
    <2> QED
      BY <2>1, <2>2 DEF Max
  <1>6. exec \in ExecTypes /\ exec.last = 0 /\ exec.version = 0 /\ exec.final = 0
    BY Zenon, <1>1, <1>2, <1>5 DEF Restarted, ExecTypes, MetaTypes
  <1>7. Types
    BY SMTT(30), <1>1, <1>2, <1>3, <1>4, <1>6 DEF Types
  <1>8. QueueInv
    <2>1. 1..Len(calls) = {}
      BY SMTT(30), <1>2
    <2> QED
      BY <1>2, <1>3, <2>1 DEF QueueInv
  <1>9. StepInv
    BY <1>1 DEF StepInv
  <1>10. Reached = 0 /\ Recording = 0
    BY SMTT(30), <1>2, <1>3, <1>4 DEF Reached, Recording
  <1>11. DiskInv /\ FinalInv
    BY <1>1, <1>2, <1>6, <1>10 DEF DiskInv, FinalInv
  <1> QED
    BY <1>7, <1>8, <1>9, <1>11 DEF IInv

LEMMA StepIInv == IInv /\ [Next]_vars => IInv'
  <1> SUFFICES ASSUME IInv, [Next]_vars PROVE IInv'
    OBVIOUS
  <1>1. CASE ExecutorSteps
    BY <1>1, InitChainIInv, ExecuteTxsIInv, AppCommitIInv, AppendBlockIInv, SaveMetadataIInv,
       GetLatestHeightIInv, RollbackIInv, SetFinalIInv, StartExecutorIInv DEF ExecutorSteps
  <1>2. CASE NodeSteps
    BY <1>2, StartNodeIInv, SyncToHeightIInv, CallsIInv, CommitIInv, MainCutOffIInv
       DEF NodeSteps
  <1>3. CASE InclusionSteps
    BY <1>3, FinalizeIInv, RecordFinalIInv, FinalityCutOffIInv DEF InclusionSteps
  <1>4. CASE Faults
    BY SMTT(30), <1>4, NodeCrashIInv, ExecutorDiesIInv, PersistFailsIInv, TimesOutIInv DEF Faults
  <1>5. CASE UNCHANGED vars
    <2>1. /\ UNCHANGED <<setup, disk, executor>> /\ Types
          /\ UNCHANGED <<calls, chain, main, finality>>
      BY <1>5 DEF vars, node, IInv
    <2>2. NodeTypes' /\ chain' \in ChainTypes
      BY SMTT(30), <2>1 DEF NodeTypes, Types
    <2>3. QueueInv' /\ Call' = Call
      BY ZenonT(40), <2>1 DEF IInv, QueueInv, Fits, Awaited, Alone, Call
    <2>4. Reached' = Reached /\ Recording' = Recording /\ chain' = chain
      BY SMTT(30), <2>1 DEF Reached, Recording
    <2>5. Reached' <= Reached /\ Recording' <= Recording /\ chain.height <= chain'.height
      BY SMTT(30), <2>1, <2>4, Numbers
    <2> QED
      BY <2>1, <2>2, <2>3, <2>5, NodeStep
  <1> QED
    BY <1>1, <1>2, <1>3, <1>4, <1>5 DEF Next

-----------------------------------------------------------------------------
\* What the invariant says in every state that the two processes reach.
THEOREM ExecutorInvariance == Spec => []IInv
  BY InitIInv, StepIInv, PTL DEF Spec

\* The executor, running or started again from its disk, is never behind the
\* chain that the node has committed.
THEOREM CommittedKept == Spec => []NothingCommittedLost
  <1>1. IInv => NothingCommittedLost
    <2> SUFFICES ASSUME IInv, setup.persistent
                 PROVE  LET e == IF up THEN exec ELSE Restarted
                        IN  chain.height <= e.last /\ chain.height <= e.version
      BY DEF NothingCommittedLost
    <2>1. Types /\ DiskInv
      BY DEF IInv
    <2>2. chain.height <= Reached /\ chain.height \in Int /\ Reached \in Int
      <3>1. chain.height \in Int /\ Reached \in {chain.height, chain.height + 1}
        BY <2>1, Numbers DEF Reached
      <3> QED
        BY <3>1
    <2>3. CASE up
      <3>1. /\ Reached <= exec.last /\ Reached <= exec.version
            /\ exec.last \in Int /\ exec.version \in Int
        BY <2>1, <2>3, Numbers DEF DiskInv
      <3>2. chain.height <= exec.last /\ chain.height <= exec.version
        BY ONLY <2>2, <3>1
      <3> QED
        BY SMTT(30), <2>3, <3>2
    <2>4. CASE ~up
      <3>1. PICK k \in logged \cup {meta.last} : Reached <= k
        BY SMTT(30), <2>1 DEF DiskInv
      <3>2. /\ Restarted.version = stored /\ k <= Restarted.last /\ Restarted.last \in Int
            /\ k \in Int /\ stored \in Int /\ Reached <= stored
        BY <2>1, <3>1, RestartedFacts, Numbers DEF DiskInv, ExecTypes
      <3>3. chain.height <= Restarted.last /\ chain.height <= Restarted.version
        BY ONLY <2>2, <3>1, <3>2
      <3> QED
        BY <2>4, <3>3
    <2> QED
      BY <2>1, <2>3, <2>4 DEF Types
  <1> QED
    BY <1>1, ExecutorInvariance, PTL

\* The node records a block as final only after the executor's metadata does,
\* and the metadata never has a final block that the node has not committed.
THEOREM FinalAgreed == Spec => []FinalityAgrees
  <1>1. IInv => FinalityAgrees
    <2> SUFFICES ASSUME IInv, setup.persistent
                 PROVE  chain.final <= meta.final /\ meta.final <= chain.height
      BY DEF FinalityAgrees
    <2>1. Types /\ FinalInv
      BY SMTT(30) DEF IInv
    <2>2. chain.final \in Int /\ Recording \in {chain.final, chain.final + 1} /\ meta.final \in Int
      BY <2>1, Numbers DEF Recording
    <2>3. Recording <= meta.final /\ meta.final <= chain.height
      BY <2>1 DEF FinalInv
    <2> QED
      BY <2>2, <2>3
  <1> QED
    BY <1>1, ExecutorInvariance, PTL

\* A final height is never taken back, and no block at or below it is executed
\* again, whatever restarts, rollbacks and abandoned calls happen.
THEOREM FinalStays == Spec => FinalKept
  <1> DEFINE Keeps ==
        setup.persistent => /\ meta'.final >= meta.final
                            /\ AppCommit => Call.height > meta.final
  <1>1. IInv /\ [Next]_vars => [Keeps]_vars
    <2> SUFFICES ASSUME IInv, Next, setup.persistent
                 PROVE  /\ meta'.final >= meta.final
                        /\ AppCommit => Call.height > meta.final
      OBVIOUS
    <2>1. Types /\ FinalInv /\ DiskInv /\ StepInv
      BY Zenon DEF IInv
    <2>2. /\ meta.final \in Int /\ exec.final \in Int /\ chain.height \in Int
          /\ Reached \in {chain.height, chain.height + 1} /\ exec.last \in Int
      BY <2>1, Numbers DEF Reached
    <2>3. UNCHANGED meta \/ SaveMetadata
      <3>1. CASE ExecutorSteps
        BY Zenon, <3>1 DEF ExecutorSteps, InitChain, ExecuteTxs, AppCommit, AppendBlock, GetLatestHeight,
           Rollback, RollbackTo, SetFinal, StartExecutor, GoOn, disk
      <3>2. CASE NodeSteps
        BY <3>2 DEF NodeSteps, StartNode, SyncToHeight, RollbackExec, ReplayBlock, ApplyBlock,
           Commit, MainCutOff, Calling, disk
      <3>3. CASE InclusionSteps
        BY <3>3 DEF InclusionSteps, Finalize, RecordFinal, FinalityCutOff, disk
      <3>4. CASE Faults
        BY Zenon, <3>4 DEF Faults, NodeCrash, ExecutorDies, PersistFails, TimesOut, disk
      <3> QED
        BY <3>1, <3>2, <3>3, <3>4 DEF Next
    <2>4. meta'.final >= meta.final
      <3>1. CASE UNCHANGED meta
        BY <2>2, <3>1
      <3>2. CASE SaveMetadata
        <4>1. up /\ meta'.final = exec.final
          BY <3>2 DEF SaveMetadata
        <4>2. meta.final <= exec.final
          BY <2>1, <4>1 DEF FinalInv
        <4> QED
          BY Zenon, <2>2, <4>1, <4>2
      <3> QED
        BY <2>3, <3>1, <3>2
    <2>5. ASSUME AppCommit PROVE Call.height > meta.final
      <3>1. up /\ step = "finalized"
        BY SMTT(30), <2>5 DEF AppCommit
      <3>2. /\ Call.height = exec.last + 1 /\ Reached <= exec.last
            /\ meta.final <= chain.height
        BY <2>1, <3>1 DEF StepInv, DiskInv, FinalInv
      <3> QED
        BY <2>2, <3>2
    <2> QED
      BY <2>4, <2>5
  <1>2. Spec => [][Keeps]_vars
    BY <1>1, ExecutorInvariance, PTL DEF Spec
  <1> QED
    BY <1>2 DEF FinalKept
=============================================================================
