---------------------------- MODULE LockFreeLists ---------------------------
(* What CTSListBase promises: each Push, Pop and Detach takes effect at once *)
(* on a stack of nodes, and a node is in one list or in one thread's hands.  *)
EXTENDS Sequences, SequencesExt

CONSTANTS Threads, Nodes, Lists

VARIABLES stack, held
shared == <<stack, held>>

Init ==
  /\ stack = [l \in Lists |-> << >>]
  /\ held \in [Threads -> SUBSET Nodes]
  /\ \A t, u \in Threads : t # u => held[t] \cap held[u] = {}

Push(t, l, n) ==
  /\ n \in held[t]
  /\ stack' = [stack EXCEPT ![l] = <<n>> \o @]
  /\ held' = [held EXCEPT ![t] = @ \ {n}]

Pop(t, l) ==
  /\ stack[l] # << >>
  /\ stack' = [stack EXCEPT ![l] = Tail(@)]
  /\ held' = [held EXCEPT ![t] = @ \cup {Head(stack[l])}]

Detach(t, l) ==
  /\ stack' = [stack EXCEPT ![l] = << >>]
  /\ held' = [held EXCEPT ![t] = @ \cup ToSet(stack[l])]

Next ==
  \E t \in Threads, l \in Lists :
    (\E n \in Nodes : Push(t, l, n)) \/ Pop(t, l) \/ Detach(t, l)

Spec == Init /\ [][Next]_shared
=============================================================================
