------------------------------- MODULE TSList -------------------------------
(***************************************************************************)
(* CTSListBase, the lock-free list of nodes under the pools, free lists    *)
(* and call queues. The head holds the first node, the depth and a         *)
(* sequence number, and is exchanged as a whole, if it is still what was   *)
(* read; it is read word by word, in the order the compiler likes.         *)
(*                                                                         *)
(* Nodes are never given back while threads use the lists, but they move   *)
(* from one list to another, as those of CTSListWithFreeList do, so a Pop  *)
(* may read the link of a node that has long been in other hands.          *)
(***************************************************************************)
EXTENDS TSNodes, Naturals, Sequences, SequencesExt

CONSTANTS
  Lists,
  SeqSize     \* values of the sequence number: 2^16

ASSUME SeqAssumption == SeqSize \in Nat \ {0, 1}

VARIABLES
  heads,      \* m_Head of a list: next, depth, seq
  next,       \* TSLNodeBase_t::Next
  op, list, node,   \* what a thread has called, on which list, with which node
  step,       \* how far it is
  toRead,     \* the words of the head that are still to be read
  old, new,   \* oldHead, newHead.value.Next
  held,       \* the nodes in a thread's hands
  stack,      \* history: the nodes of a list, the last one pushed first
  age         \* history: pushes on the list since the thread has read seq

shared == <<heads, next, held, stack>>
call == <<op, list, node>>
listLocal == <<step, toRead, old, new, age>>
listVars == <<shared, call, listLocal>>

Words == {"next", "stamp"}
NoHead == [next |-> NULL, depth |-> 0, seq |-> 0]

ListsInit ==
  /\ heads = [l \in Lists |-> NoHead]
  /\ next = [n \in Nodes |-> NULL]
  /\ held \in [Threads -> SUBSET Nodes]
  /\ \A t, u \in Threads : t # u => held[t] \cap held[u] = {}
  /\ stack = [l \in Lists |-> << >>]
  /\ op = [t \in Threads |-> "none"]
  /\ list = [t \in Threads |-> NULL] /\ node = [t \in Threads |-> NULL]
  /\ step = [t \in Threads |-> "read"] /\ toRead = [t \in Threads |-> Words]
  /\ old = [t \in Threads |-> NoHead]
  /\ new = [t \in Threads |-> NULL]
  /\ age = [t \in Threads |-> 0]

-----------------------------------------------------------------------------
(* A thread calls Push, Pop or Detach.                                     *)

Calls(t, o, l, n) ==
  /\ op[t] = "none"
  /\ op' = [op EXCEPT ![t] = o] /\ list' = [list EXCEPT ![t] = l]
  /\ node' = [node EXCEPT ![t] = n]
  /\ UNCHANGED <<shared, listLocal>>

Push(t, l, n) == n \in held[t] /\ Calls(t, "push", l, n)
Pop(t, l) == Calls(t, "pop", l, NULL)
Detach(t, l) == Calls(t, "detach", l, NULL)

\* The head has to be read, again.
Restarts(t) ==
  /\ step' = [step EXCEPT ![t] = "read"] /\ toRead' = [toRead EXCEPT ![t] = Words]
  /\ old' = [old EXCEPT ![t] = NoHead] /\ new' = [new EXCEPT ![t] = NULL]

ListReturns(t) ==
  /\ op' = [op EXCEPT ![t] = "none"]
  /\ list' = [list EXCEPT ![t] = NULL] /\ node' = [node EXCEPT ![t] = NULL]
  /\ Restarts(t)

\* oldHead = m_Head
ReadFirst(t) ==
  /\ op[t] # "none" /\ step[t] = "read" /\ "next" \in toRead[t]
  /\ old' = [old EXCEPT ![t].next = heads[list[t]].next]
  /\ toRead' = [toRead EXCEPT ![t] = @ \ {"next"}]
  /\ UNCHANGED <<shared, call, step, new, age>>

ReadStamp(t) ==
  /\ op[t] # "none" /\ step[t] = "read" /\ "stamp" \in toRead[t]
  /\ old' = [old EXCEPT ![t].depth = heads[list[t]].depth, ![t].seq = heads[list[t]].seq]
  /\ toRead' = [toRead EXCEPT ![t] = @ \ {"stamp"}]
  /\ UNCHANGED <<shared, call, step, new, age>>

Ready(t, o) == op[t] = o /\ step[t] = "read" /\ toRead[t] = {}

\* pNode->Next = oldHead.value.Next
PushLink(t) ==
  /\ Ready(t, "push")
  /\ next' = [next EXCEPT ![node[t]] = old[t].next]
  /\ new' = [new EXCEPT ![t] = node[t]]
  /\ step' = [step EXCEPT ![t] = "swap"]
  /\ UNCHANGED <<heads, held, stack, call, toRead, old, age>>

\* oldHead.value.Next->Next, whoever has that node by now
PopLink(t) ==
  /\ Ready(t, "pop") /\ old[t].next # NULL
  /\ new' = [new EXCEPT ![t] = next[old[t].next]]
  /\ step' = [step EXCEPT ![t] = "swap"]
  /\ UNCHANGED <<shared, call, toRead, old, age>>

DetachLink(t) ==
  /\ Ready(t, "detach") /\ old[t].next # NULL
  /\ new' = [new EXCEPT ![t] = NULL]
  /\ step' = [step EXCEPT ![t] = "swap"]
  /\ UNCHANGED <<shared, call, toRead, old, age>>

\* Pop and Detach return NULL.
Empty(t) ==
  /\ Ready(t, "pop") \/ Ready(t, "detach")
  /\ old[t].next = NULL
  /\ ListReturns(t) /\ age' = [age EXCEPT ![t] = 0]
  /\ UNCHANGED shared

-----------------------------------------------------------------------------
(* ThreadInterlockedAssignIf64x128                                         *)

\* Faulty variant: only the node is compared.
SameNode(t) == heads[list[t]].next = old[t].next

Unchanged(t) == heads[list[t]] = old[t]

Swapping(t, o) == op[t] = o /\ step[t] = "swap" /\ Unchanged(t)

\* DepthAndSequence + 0x10001: seq wraps around.
SeqAfter(s) == IF s = SeqSize - 1 THEN 0 ELSE s + 1

\* The thread has read the sequence number of the list.
Aging(t, l) == list[t] = l /\ "stamp" \notin toRead[t]

\* Nobody sleeps through as many pushes as there are sequence numbers.
NobodyOversleeps(l) == \A t \in Threads : Aging(t, l) => age[t] + 1 < SeqSize

PushSwap(t) ==
  LET l == list[t] IN
  /\ Swapping(t, "push") /\ NobodyOversleeps(l)
  /\ heads' = [heads EXCEPT ![l] =
       [next |-> new[t], depth |-> old[t].depth + 1, seq |-> SeqAfter(old[t].seq)]]
  /\ stack' = [stack EXCEPT ![l] = <<node[t]>> \o @]
  /\ held' = [held EXCEPT ![t] = @ \ {node[t]}]
  /\ age' = [u \in Threads |-> IF u = t THEN 0 ELSE IF Aging(u, l) THEN age[u] + 1 ELSE age[u]]
  /\ ListReturns(t)
  /\ UNCHANGED next

PopSwap(t) ==
  LET l == list[t] IN
  /\ Swapping(t, "pop")
  /\ heads' = [heads EXCEPT ![l] =
       [next |-> new[t], depth |-> old[t].depth - 1, seq |-> old[t].seq]]
  /\ stack' = [stack EXCEPT ![l] = SubSeq(@, 2, Len(@))]
  /\ held' = [held EXCEPT ![t] = @ \cup {old[t].next}]
  /\ ListReturns(t) /\ age' = [age EXCEPT ![t] = 0]
  /\ UNCHANGED next

\* Faulty variant: the depth stays.
DepthKept(d) == d

\* DepthAndSequence & 0xffff0000
DepthCleared(d) == 0

\* The caller gets the whole list.
DetachSwap(t) ==
  LET l == list[t] IN
  /\ Swapping(t, "detach")
  /\ heads' = [heads EXCEPT ![l] =
       [next |-> new[t], depth |-> DepthCleared(old[t].depth), seq |-> old[t].seq]]
  /\ stack' = [stack EXCEPT ![l] = << >>]
  /\ held' = [held EXCEPT ![t] = @ \cup ToSet(stack[l])]
  /\ ListReturns(t) /\ age' = [age EXCEPT ![t] = 0]
  /\ UNCHANGED next

\* The head has changed: once more.
Retry(t) ==
  /\ op[t] # "none" /\ step[t] = "swap" /\ ~Unchanged(t)
  /\ Restarts(t) /\ age' = [age EXCEPT ![t] = 0]
  /\ UNCHANGED <<shared, call>>

ListStep(t) ==
  \/ ReadFirst(t) \/ ReadStamp(t)
  \/ PushLink(t) \/ PopLink(t) \/ DetachLink(t) \/ Empty(t)
  \/ PushSwap(t) \/ PopSwap(t) \/ DetachSwap(t) \/ Retry(t)

ListsNext ==
  \E t \in Threads :
    \/ \E l \in Lists : (\E n \in Nodes : Push(t, l, n)) \/ Pop(t, l) \/ Detach(t, l)
    \/ ListStep(t)

ListsSpec == ListsInit /\ [][ListsNext]_listVars

-----------------------------------------------------------------------------
(* Properties.                                                             *)

Head0 == [next : Nodes \cup {NULL}, depth : Nat, seq : 0 .. SeqSize - 1]

\* Types of the lists and of the calls under way.
ListsTypeOK ==
  /\ heads \in [Lists -> Head0]
  /\ next \in [Nodes -> Nodes \cup {NULL}]
  /\ op \in [Threads -> {"none", "push", "pop", "detach"}]
  /\ list \in [Threads -> Lists \cup {NULL}]
  /\ \A t \in Threads : op[t] # "none" => list[t] \in Lists
  /\ node \in [Threads -> Nodes \cup {NULL}]
  /\ step \in [Threads -> {"read", "swap"}]
  /\ toRead \in [Threads -> SUBSET Words]
  /\ old \in [Threads -> Head0] /\ new \in [Threads -> Nodes \cup {NULL}]
  /\ held \in [Threads -> SUBSET Nodes]
  /\ stack \in [Lists -> Seq(Nodes)]
  /\ age \in [Threads -> 0 .. SeqSize - 1]
  /\ \A t \in Threads : op[t] = "push" <=> node[t] # NULL

First(s) == IF s = << >> THEN NULL ELSE s[1]

\* From the head the links lead through the nodes that have been pushed and not
\* been taken, the last one first, and Count() tells how many they are.
Linked ==
  \A l \in Lists :
    /\ heads[l].next = First(stack[l]) /\ heads[l].depth = Len(stack[l])
    /\ \A i \in 1 .. Len(stack[l]) :
         next[stack[l][i]] = IF i = Len(stack[l]) THEN NULL ELSE stack[l][i + 1]

\* No node is in two places: in two lists, twice in one, or in a list and in
\* the hands of a thread, or in the hands of two threads.
NodesApart ==
  /\ \A l \in Lists : \A i, j \in 1 .. Len(stack[l]) :
       stack[l][i] = stack[l][j] => i = j
  /\ \A l, k \in Lists : l # k => ToSet(stack[l]) \cap ToSet(stack[k]) = {}
  /\ \A t, u \in Threads : t # u => held[t] \cap held[u] = {}
  /\ \A t \in Threads, l \in Lists : held[t] \cap ToSet(stack[l]) = {}
  /\ \A t \in Threads : op[t] = "push" => node[t] \in held[t]

Abstract == INSTANCE LockFreeLists

\* Every call of CTSListBase takes effect at one moment between its call and its
\* return: nothing is lost or handed out twice, whatever the nodes were used for
\* between the reading of the head and its exchange.
ImplementsLists == Abstract!Spec
=============================================================================
