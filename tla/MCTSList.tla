------------------------------ MODULE MCTSList ------------------------------
(***************************************************************************)
(* The instance of TSList that TLC checks: a list and the free list beside *)
(* it, as in CTSListWithFreeList. Nodes are interchangeable.               *)
(***************************************************************************)
EXTENDS TSList, FiniteSets, TLC

CONSTANTS t1, t2, MaxHeld

Symmetry == Permutations(Nodes)

\* One thread has all the nodes at first.
MCInit == ListsInit /\ held[t1] = Nodes

\* A thread that has MaxHeld nodes in its hands takes no more.
MCNext ==
  \E t \in Threads :
    \/ \E l \in Lists, n \in Nodes : Push(t, l, n)
    \/ Cardinality(held[t]) < MaxHeld /\ \E l \in Lists : Pop(t, l)
    \/ held[t] = {} /\ Detach(t, "list")
    \/ ListStep(t)

MCSpec == MCInit /\ [][MCNext]_listVars
=============================================================================
