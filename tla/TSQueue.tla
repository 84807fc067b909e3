------------------------------- MODULE TSQueue ------------------------------
(***************************************************************************)
(* CTSQueue, the lock-free queue under CTSCallQueue. Its first node is a   *)
(* dummy. A push links its node to the node it takes for the last one and  *)
(* then moves m_Tail there; who finds m_Tail behind helps it along. A pop  *)
(* moves m_Head to the next node and returns the old dummy with the item   *)
(* of that node. m_Head and m_Tail are exchanged with a sequence number,   *)
(* but read word by word; the links of the nodes have no such number.      *)
(*                                                                         *)
(* PushItem and PopItem keep the nodes in m_FreeNodes (TSList).            *)
(***************************************************************************)
EXTENDS TSNodes, Integers, FiniteSets, SequencesExt

CONSTANTS
  END,         \* End(), the link of the last node
  MaxItems,    \* bound: items pushed
  MaxEmpty     \* bound: pops that find nothing

ASSUME EndAssumption == END \notin Nodes /\ END # NULL
ASSUME FiniteAssumption == IsFiniteSet(Nodes) /\ IsFiniteSet(Threads)
ASSUME DummyAssumption == Nodes # {} /\ MaxItems \in Nat

VARIABLES
  head, tail,   \* m_Head, m_Tail: node, seq
  pNext, elem,  \* of a node
  count,        \* m_Count
  free, unused, \* m_FreeNodes; memory that has never been allocated
  pc, own,      \* where a thread is; the node that it pushes or has popped
  link,         \* its copy of m_Tail or m_Head
  tailSeq, nxt, item,   \* Pop's tailSequence; the link it has read, the item
  pushed, empties,  \* history: items pushed, pops that found nothing
  taken,            \* history: the items popped, in order
  none              \* history: there was no item when Pop read the link of the dummy

queue == <<head, tail, pNext, elem, count>>
memory == <<free, unused>>
local == <<own, link, tailSeq, nxt, item>>
history == <<pushed, empties, taken, none>>
vars == <<queue, memory, pc, local, history>>

NoLink == [node |-> NULL, seq |-> 0]

Init ==
  LET dummy == CHOOSE n \in Nodes : TRUE IN
    /\ head = [node |-> dummy, seq |-> 0] /\ tail = head
    /\ pNext = [n \in Nodes |-> IF n = dummy THEN END ELSE NULL]
    /\ elem = [n \in Nodes |-> 0] /\ count = 0
    /\ free = {} /\ unused = Nodes \ {dummy}
    /\ pc = [t \in Threads |-> "idle"] /\ own = [t \in Threads |-> NULL]
    /\ link = [t \in Threads |-> NoLink] /\ tailSeq = [t \in Threads |-> 0]
    /\ nxt = [t \in Threads |-> NULL] /\ item = [t \in Threads |-> 0]
    /\ pushed = 0 /\ empties = 0 /\ taken = << >>
    /\ none = [t \in Threads |-> FALSE]

\* The nodes that the links meet from a node to End(); at most all of them.
Walk(links, first) ==
  LET at[k \in 1 .. Cardinality(Nodes)] ==
        IF k = 1 THEN first
        ELSE IF at[k - 1] \in Nodes THEN links[at[k - 1]] ELSE END
      met == {k \in 1 .. Cardinality(Nodes) : at[k] \in Nodes}
  IN [k \in 1 .. Cardinality(met) |-> at[k]]

\* The nodes of the queue, the dummy first.
Chain == Walk(pNext, head.node)

InQueue == [k \in 1 .. Len(Chain) - 1 |-> elem[Chain[k + 1]]]

Goes(t, from, to) == pc[t] = from /\ pc' = [pc EXCEPT ![t] = to]

\* The call ends; it knows no node any more.
Returns(t, from) ==
  /\ Goes(t, from, "idle")
  /\ own' = [own EXCEPT ![t] = NULL] /\ link' = [link EXCEPT ![t] = NoLink]
  /\ tailSeq' = [tailSeq EXCEPT ![t] = 0]
  /\ nxt' = [nxt EXCEPT ![t] = NULL] /\ item' = [item EXCEPT ![t] = 0]
  /\ none' = [none EXCEPT ![t] = FALSE]

-----------------------------------------------------------------------------
(* Push                                                                    *)

\* A free node if there is one, or else a new one.
AvailableNodes == IF free # {} THEN free ELSE unused

\* PushItem: the node is filled and its link is set to End().
PushItem(t) ==
  /\ pushed < MaxItems /\ Goes(t, "idle", "readTail")
  /\ \E n \in AvailableNodes :
       /\ own' = [own EXCEPT ![t] = n]
       /\ elem' = [elem EXCEPT ![n] = pushed + 1]
       /\ item' = [item EXCEPT ![t] = pushed + 1]
       /\ pNext' = [pNext EXCEPT ![n] = END]
       /\ free' = free \ {n} /\ unused' = unused \ {n}
  /\ pushed' = pushed + 1
  /\ UNCHANGED <<head, tail, count, link, tailSeq, nxt, empties, taken, none>>

\* oldTail is read word by word, in the order the compiler likes.
ReadTailSeq(t) ==
  /\ Goes(t, "readTail", "readTailNode") \/ Goes(t, "readTailSeq", "link")
  /\ link' = [link EXCEPT ![t].seq = tail.seq]
  /\ UNCHANGED <<queue, memory, own, tailSeq, nxt, item, history>>

ReadTailNode(t) ==
  /\ Goes(t, "readTail", "readTailSeq") \/ Goes(t, "readTailNode", "link")
  /\ link' = [link EXCEPT ![t].node = tail.node]
  /\ UNCHANGED <<queue, memory, own, tailSeq, nxt, item, history>>

\* Faulty variant: the link of the last node is not compared.
AnyLink(n) == TRUE

IsEnd(n) == pNext[n] = END

\* InterlockedCompareExchangeNode
Link(t) ==
  /\ pc[t] = "link"
  /\ IF IsEnd(link[t].node)
     THEN /\ Goes(t, "link", "finish")
          /\ pNext' = [pNext EXCEPT ![link[t].node] = own[t]]
     ELSE Goes(t, "link", "readLink") /\ UNCHANGED pNext
  /\ UNCHANGED <<head, tail, elem, count, memory, local, history>>

\* "Another thread is trying to push, help it along"
ReadLink(t) ==
  /\ Goes(t, "readLink", "helpPush")
  /\ nxt' = [nxt EXCEPT ![t] = pNext[link[t].node]]
  /\ UNCHANGED <<queue, memory, own, link, tailSeq, item, history>>

\* Faulty variant: m_Tail is set whatever it is by now.
AlwaysMoved(old, n) == [node |-> n, seq |-> old.seq + 1]

\* InterlockedCompareExchangeNodeLink( &m_Tail, newTail, oldTail )
TailMoved(old, n) == IF tail = old THEN [node |-> n, seq |-> old.seq + 1] ELSE tail

\* Faulty variant: m_Tail is left to the thread that has linked its node.
NotHelped(old, n) == tail

Helped(old, n) == TailMoved(old, n)

HelpPush(t) ==
  /\ Goes(t, "helpPush", "readTail")
  /\ tail' = Helped(link[t], nxt[t])
  /\ link' = [link EXCEPT ![t] = NoLink] /\ nxt' = [nxt EXCEPT ![t] = NULL]
  /\ UNCHANGED <<head, pNext, elem, count, memory, own, tailSeq, item, history>>

\* "This can fail if another thread pushed between the sequence and node grabs
\* above. Later pushes or pops corrects"
FinishPush(t) ==
  /\ Goes(t, "finish", "countUp")
  /\ tail' = TailMoved(link[t], own[t])
  /\ UNCHANGED <<head, pNext, elem, count, memory, local, history>>

CountUp(t) ==
  /\ Returns(t, "countUp")
  /\ count' = count + 1
  /\ UNCHANGED <<head, tail, pNext, elem, free, unused, pushed, empties, taken>>

-----------------------------------------------------------------------------
(* Pop                                                                     *)

PopItem(t) ==
  /\ empties < MaxEmpty /\ Goes(t, "idle", "readHeadSeq")
  /\ UNCHANGED <<queue, memory, local, history>>

\* "must grab sequence first"
ReadHeadSeq(t) ==
  /\ Goes(t, "readHeadSeq", "readHeadNode")
  /\ link' = [link EXCEPT ![t].seq = head.seq]
  /\ UNCHANGED <<queue, memory, own, tailSeq, nxt, item, history>>

ReadHeadNode(t) ==
  /\ Goes(t, "readHeadNode", "readSeqOfTail")
  /\ link' = [link EXCEPT ![t].node = head.node]
  /\ UNCHANGED <<queue, memory, own, tailSeq, nxt, item, history>>

ReadSeqOfTail(t) ==
  /\ Goes(t, "readSeqOfTail", "readNext")
  /\ tailSeq' = [tailSeq EXCEPT ![t] = tail.seq]
  /\ UNCHANGED <<queue, memory, own, link, nxt, item, history>>

ReadNext(t) ==
  /\ Goes(t, "readNext", "check")
  /\ nxt' = [nxt EXCEPT ![t] = pNext[link[t].node]]
  /\ none' = [none EXCEPT ![t] = InQueue = << >>]
  /\ UNCHANGED <<queue, memory, own, link, tailSeq, item, pushed, empties, taken>>

\* Faulty variant: m_Head may have moved on.
NotNull(t) == nxt[t] # NULL

\* pNext is the link of the dummy.
Consistent(t) == nxt[t] # NULL /\ link[t].seq = head.seq

Again(t, from) ==
  /\ Goes(t, from, "readHeadSeq")
  /\ link' = [link EXCEPT ![t] = NoLink] /\ tailSeq' = [tailSeq EXCEPT ![t] = 0]
  /\ nxt' = [nxt EXCEPT ![t] = NULL] /\ item' = [item EXCEPT ![t] = 0]
  /\ none' = [none EXCEPT ![t] = FALSE]
  /\ UNCHANGED own

Check(t) ==
  /\ pc[t] = "check"
  /\ IF Consistent(t)
     THEN Goes(t, "check", "compare") /\ UNCHANGED <<local, none>>
     ELSE Again(t, "check")
  /\ UNCHANGED <<queue, memory, pushed, empties, taken>>

\* head.value.pNode == *pTailNode
AtTail(t) == link[t].node = tail.node

PopEmpty(t) ==
  /\ pc[t] = "compare" /\ AtTail(t) /\ nxt[t] = END
  /\ Returns(t, "compare")
  /\ empties' = empties + 1
  /\ UNCHANGED <<queue, free, unused, pushed, taken>>

Compare(t) ==
  /\ \/ AtTail(t) /\ nxt[t] # END /\ Goes(t, "compare", "helpPop") /\ UNCHANGED <<local, none>>
     \/ ~AtTail(t) /\ nxt[t] # END /\ Goes(t, "compare", "readItem") /\ UNCHANGED <<local, none>>
     \/ ~AtTail(t) /\ nxt[t] = END /\ Again(t, "compare")
  /\ UNCHANGED <<queue, memory, pushed, empties, taken>>

HelpPop(t) ==
  /\ Again(t, "helpPop")
  /\ tail' = Helped([node |-> link[t].node, seq |-> tailSeq[t]], nxt[t])
  /\ UNCHANGED <<head, pNext, elem, count, memory, pushed, empties, taken>>

\* "NOTE: next could be a freed node here, by design"
ReadItem(t) ==
  /\ Goes(t, "readItem", "swapHead")
  /\ item' = [item EXCEPT ![t] = elem[nxt[t]]]
  /\ UNCHANGED <<queue, memory, own, link, tailSeq, nxt, history>>

\* Faulty variant: the sequence number is not compared.
SameHeadNode(t) == head.node = link[t].node

SameHead(t) == head = link[t]

\* InterlockedCompareExchangeNodeLink( pHead, newHead, head )
SwapHead(t) ==
  /\ pc[t] = "swapHead"
  /\ IF SameHead(t)
     THEN /\ Goes(t, "swapHead", "countDown")
          /\ head' = [node |-> nxt[t], seq |-> link[t].seq + 1]
          /\ own' = [own EXCEPT ![t] = link[t].node]
          /\ taken' = Append(taken, item[t])
          /\ UNCHANGED <<link, tailSeq, nxt, item, none>>
     ELSE Again(t, "swapHead") /\ UNCHANGED <<head, taken>>
  /\ UNCHANGED <<tail, pNext, elem, count, memory, pushed, empties>>

\* m_Count goes down, the old dummy gets the item, and PopItem frees it. Its
\* link is what it is in m_FreeNodes now.
CountDown(t) ==
  /\ Returns(t, "countDown")
  /\ count' = count - 1
  /\ elem' = [elem EXCEPT ![own[t]] = item[t]]
  /\ free' = free \cup {own[t]}
  /\ \E n \in free \cup {NULL} : pNext' = [pNext EXCEPT ![own[t]] = n]
  /\ UNCHANGED <<head, tail, unused, pushed, empties, taken>>

Step(t) ==
  \/ ReadTailSeq(t) \/ ReadTailNode(t) \/ Link(t) \/ ReadLink(t) \/ HelpPush(t)
  \/ FinishPush(t) \/ CountUp(t)
  \/ ReadHeadSeq(t) \/ ReadHeadNode(t) \/ ReadSeqOfTail(t) \/ ReadNext(t) \/ Check(t)
  \/ PopEmpty(t) \/ Compare(t) \/ HelpPop(t) \/ ReadItem(t) \/ SwapHead(t) \/ CountDown(t)

Next == \E t \in Threads : PushItem(t) \/ PopItem(t) \/ Step(t)

Spec == Init /\ [][Next]_vars

\* The operating system runs every thread that is in a call.
FairSpec == Spec /\ \A t \in Threads : WF_vars(Step(t))

-----------------------------------------------------------------------------
(* Properties.                                                             *)

Links == [node : Nodes \cup {NULL}, seq : Nat]
PushPoints == {"readTail", "readTailSeq", "readTailNode", "link", "readLink", "helpPush"}
Points == PushPoints \cup {"idle", "finish", "countUp", "readHeadSeq", "readHeadNode",
  "readSeqOfTail", "readNext", "check", "compare", "helpPop", "readItem", "swapHead", "countDown"}

\* Types of the queue and of the calls under way; m_Head and m_Tail are nodes.
TypeOK ==
  /\ head \in Links /\ tail \in Links /\ NULL \notin {head.node, tail.node}
  /\ pNext \in [Nodes -> Nodes \cup {NULL, END}]
  /\ elem \in [Nodes -> 0 .. MaxItems] /\ count \in Int
  /\ free \subseteq Nodes /\ unused \subseteq Nodes /\ free \cap unused = {}
  /\ pc \in [Threads -> Points] /\ own \in [Threads -> Nodes \cup {NULL}]
  /\ link \in [Threads -> Links] /\ tailSeq \in [Threads -> Nat]
  /\ nxt \in [Threads -> Nodes \cup {NULL, END}]
  /\ item \in [Threads -> 0 .. MaxItems] /\ taken \in Seq(1 .. MaxItems)
  /\ none \in [Threads -> BOOLEAN]

Fifo == INSTANCE FifoQueue WITH queue <- InQueue, Items <- 1 .. MaxItems

\* "Lock free queue": whatever pushes and pops do between each other's reads
\* and exchanges, and although the nodes they have read are used again, items
\* are popped in the order in which they were linked, none of them twice, and
\* none is lost once it is linked to the queue.
ImplementsFifo == Fifo!Spec

\* When no call is under way, m_Count tells how many items there are, and every
\* item that was pushed is in the queue or has been popped.
CountsItems ==
  (\A t \in Threads : pc[t] = "idle") =>
    count = Len(InQueue) /\ ToSet(InQueue) \cup ToSet(taken) = 1 .. pushed

\* Pop returns NULL only if there was no item when it read the link of the
\* dummy, although by then that node may have been popped, used again and be the
\* last one of the queue once more.
EmptyIfNone == \A t \in Threads : pc[t] = "compare" /\ AtTail(t) /\ nxt[t] = END => none[t]

\* The items behind the node that a push has not linked yet, its own first.
HeldBy(t) ==
  IF pc[t] \in PushPoints
  THEN {elem[n] : n \in ToSet(Walk(pNext, own[t]))}
  ELSE {}

\* "The PushItem()/PopItem() for handles this by keeping a persistent free list":
\* a node may be used again while a push still takes it for the last of the
\* queue, and that push, although it has returned, has then put its item behind
\* a node that is not in the queue. No item is lost that way: whatever was
\* pushed and not popped is in the queue, or hangs behind the node of a push
\* under way, whose own item is newer, and gets into the queue with it.
PushedIsReachable ==
  /\ \A i \in 1 .. pushed :
       i \in ToSet(InQueue) \cup ToSet(taken) \cup UNION {HeldBy(t) : t \in Threads}
  /\ \A t \in Threads : \A i \in HeldBy(t) : i <= item[t]

\* Every call returns: nobody waits for a thread that stands still, unless
\* others push and pop for ever.
CallsReturn == \A t \in Threads : pc[t] # "idle" ~> pc[t] = "idle"
=============================================================================
