------------------------------ MODULE FifoQueue -----------------------------
(* What CTSQueue promises: items leave in the order in which they have come *)
(* in, each of them once. Those whose nodes are linked by one exchange come *)
(* in together.                                                             *)
EXTENDS Sequences, SequencesExt

CONSTANTS Items

VARIABLES queue, taken     \* in the queue; taken out of it, in order
content == <<queue, taken>>

Init == queue = << >> /\ taken = << >>

Enqueue ==
  LET batch == SubSeq(queue', Len(queue) + 1, Len(queue')) IN
  /\ batch \in Seq(Items) /\ batch # << >> /\ queue' = queue \o batch
  /\ ToSet(batch) \cap ToSet(taken \o queue) = {} /\ IsInjective(batch)
  /\ UNCHANGED taken

Dequeue ==
  /\ queue # << >>
  /\ queue' = Tail(queue)
  /\ taken' = Append(taken, Head(queue))

Next == Enqueue \/ Dequeue

Spec == Init /\ [][Next]_content
=============================================================================
