---------------------------- MODULE DurableQueue ----------------------------
(***************************************************************************)
(* What the sequencer expects of its batch queue: a queue of bounded size  *)
(* that outlives the process and delivers at least once.  A batch that was *)
(* handed out can be returned to the front; a restart may bring back ones  *)
(* that were handed out, between the others.                               *)
(***************************************************************************)
EXTENDS Naturals, Sequences

CONSTANTS New, Legacy, Bound   \* Bound = 0: no bound

VARIABLES q, out   \* the queue; batches handed out so far

AddLast ==
  /\ Bound = 0 \/ Len(q) < Bound
  /\ \E b \in New : q' = Append(q, b)
  /\ UNCHANGED out

\* Batches of an earlier version are taken over without regard to the bound.
TakeOver == \E b \in Legacy : q' = Append(q, b) /\ UNCHANGED out

Take == q # <<>> /\ q' = Tail(q) /\ out' = out \cup {Head(q)}

PutFirst == \E b \in out : q' = <<b>> \o q /\ UNCHANGED out

\* The queue stays as it was but for batches between its own that were handed out;
\* kept says where each of its own is now.
Redeliver ==
  /\ \E kept \in [DOMAIN q -> DOMAIN q'] :
       /\ \A i, j \in DOMAIN q : i < j => kept[i] < kept[j]
       /\ \A i \in DOMAIN q : q'[kept[i]] = q[i]
       /\ \A j \in DOMAIN q' \ {kept[i] : i \in DOMAIN q} : q'[j] \in out
  /\ UNCHANGED out

QueueSpec ==
  /\ q = <<>> /\ out = {}
  /\ [][AddLast \/ TakeOver \/ Take \/ PutFirst \/ Redeliver]_<<q, out>>
=============================================================================
