---------------------------- MODULE TSListProofs ----------------------------
(***************************************************************************)
(* Proofs about CTSListBase and CTSQueue, for any threads, nodes and lists *)
(* and any number of sequence numbers of the lists; of the queue, for      *)
(* finitely many threads and nodes.                                        *)
(*                                                                         *)
(* The lists are right because a call that finds the head as it has read   *)
(* it has slept through no push: the sequence number of the head is the    *)
(* one read plus the pushes since then, modulo SeqSize (SeqIs), so equal   *)
(* numbers mean no push. Pops alone cannot bring a node back to the front, *)
(* so the link that a pop has read is still the one to the second node     *)
(* (Prepared). ListsInv adds this knowledge of each call, Fresh, to the    *)
(* invariants that the run checks.                                         *)
(*                                                                         *)
(* The queue is right because every node is in one place (Layout): in the  *)
(* queue, free, new, or in the row of a call, which is the node of a push  *)
(* with whatever others have linked behind it by mistake, or the dummy     *)
(* that a pop has taken. Only the last node of the queue and of a row has  *)
(* the link End(), so an exchange of a link joins a row to the queue or to *)
(* another row; never to itself, because the items of a row get older from *)
(* node to node and what a push has read carries a newer one (KnownTo).    *)
(* What a call has read is true when it exchanges m_Head or m_Tail: their  *)
(* sequence numbers grow with every exchange (Reads). IInv says that there *)
(* are a queue and rows of this shape.                                     *)
(***************************************************************************)
EXTENDS TSList, TSQueue, FiniteSetTheorems, SequenceTheorems, WellFoundedInduction, TLAPS

-----------------------------------------------------------------------------
(* The lists.                                                              *)

\* A list with one node more in front.
LEMMA PushedSeq ==
  ASSUME NEW s \in Seq(Nodes), NEW n \in Nodes
  PROVE  /\ <<n>> \o s \in Seq(Nodes)
         /\ Len(<<n>> \o s) = Len(s) + 1
         /\ (<<n>> \o s)[1] = n
         /\ \A i \in 1 .. Len(s) : (<<n>> \o s)[i + 1] = s[i]
  OBVIOUS

\* A list without its first node.
LEMMA PoppedSeq ==
  ASSUME NEW s \in Seq(Nodes), s # << >>
  PROVE  /\ SubSeq(s, 2, Len(s)) \in Seq(Nodes)
         /\ Len(SubSeq(s, 2, Len(s))) = Len(s) - 1
         /\ \A i \in 1 .. Len(s) - 1 : SubSeq(s, 2, Len(s))[i] = s[i + 1]
         /\ SubSeq(s, 2, Len(s)) = Tail(s)
<1>1. SubSeq(s, 2, Len(s)) = Tail(s)
  BY TailIsSubSeq
<1>2. Tail(s) \in Seq(Nodes) /\ Len(Tail(s)) = Len(s) - 1
  BY HeadTailProperties
<1>3. \A i \in 1 .. Len(s) - 1 : Tail(s)[i] = s[i + 1]
  BY HeadTailProperties
<1> QED BY <1>1, <1>2, <1>3

\* What the first link of a list leads to.
LEMMA FirstPopped ==
  ASSUME NEW s \in Seq(Nodes), s # << >>
  PROVE  First(SubSeq(s, 2, Len(s))) = IF Len(s) = 1 THEN NULL ELSE s[2]
<1>0. Len(s) \in Nat /\ Len(s) # 0
  BY EmptySeq
<1>1. SubSeq(s, 2, Len(s)) = Tail(s)
  BY PoppedSeq
<1>2. Tail(s) \in Seq(Nodes) /\ Len(Tail(s)) = Len(s) - 1
  BY HeadTailProperties
<1>3. Tail(s) = << >> <=> Len(Tail(s)) = 0
  BY <1>2, EmptySeq
<1>4. Len(s) # 1 => Tail(s)[1] = s[2]
  <2> SUFFICES ASSUME Len(s) # 1 PROVE Tail(s)[1] = s[2]
    OBVIOUS
  <2> DEFINE n == Len(s)
  <2>0. n \in Nat /\ n # 0 /\ n # 1
    BY <1>0
  <2>1. 1 \in 1 .. n - 1 /\ 1 + 1 = 2
    <3> HIDE DEF n
    <3> QED BY <2>0
  <2>2. \A i \in 1 .. Len(s) - 1 : Tail(s)[i] = s[i + 1]
    BY <1>1, PoppedSeq
  <2> QED BY <2>1, <2>2
<1> QED BY <1>0, <1>1, <1>2, <1>3, <1>4 DEF First

\* The nodes of a list are the ones at its positions.
LEMMA SetOf ==
  ASSUME NEW s \in Seq(Nodes)
  PROVE  /\ ToSet(s) \subseteq Nodes
         /\ \A x : x \in ToSet(s) <=> \E i \in 1 .. Len(s) : x = s[i]
  BY DEF ToSet

\* A push adds its node to those of the list.
LEMMA PushedSet ==
  ASSUME NEW s \in Seq(Nodes), NEW n \in Nodes
  PROVE  ToSet(<<n>> \o s) = ToSet(s) \cup {n}
<1> DEFINE r == <<n>> \o s
<1>0. r \in Seq(Nodes) /\ Len(s) \in Nat
  BY PushedSeq
<1>1. ASSUME NEW x, x \in ToSet(r) PROVE x \in ToSet(s) \cup {n}
  <2>1. PICK i \in 1 .. Len(r) : x = r[i]
    BY <1>0, <1>1, SetOf
  <2>2. CASE i = 1
    BY <2>1, <2>2, PushedSeq
  <2>3. CASE i # 1
    <3>1. i - 1 \in 1 .. Len(s) /\ r[(i - 1) + 1] = s[i - 1]
      BY <1>0, <2>1, <2>3, PushedSeq
    <3> QED BY <3>1, <2>1, SetOf
  <2> QED BY <2>2, <2>3
<1>2. ASSUME NEW x, x \in ToSet(s) \cup {n} PROVE x \in ToSet(r)
  <2>1. CASE x = n
    <3>1. 1 \in 1 .. Len(r) /\ r[1] = n
      BY <1>0, PushedSeq
    <3> QED BY <1>0, <2>1, <3>1, SetOf
  <2>2. CASE x \in ToSet(s)
    <3>1. PICK i \in 1 .. Len(s) : x = s[i]
      BY <2>2, SetOf
    <3>2. i + 1 \in 1 .. Len(r) /\ r[i + 1] = x
      BY <1>0, <3>1, PushedSeq
    <3> QED BY <1>0, <3>2, SetOf
  <2> QED BY <1>2, <2>1, <2>2
<1> QED BY <1>1, <1>2

\* A push of a node that is not in the list leaves no node twice in it.
LEMMA PushedApart ==
  ASSUME NEW s \in Seq(Nodes), NEW n \in Nodes, n \notin ToSet(s),
         \A a, b \in 1 .. Len(s) : s[a] = s[b] => a = b
  PROVE  \A i, j \in 1 .. Len(<<n>> \o s) : (<<n>> \o s)[i] = (<<n>> \o s)[j] => i = j
<1> DEFINE r == <<n>> \o s
           m == Len(s)
<1>0. /\ m \in Nat /\ Len(r) = m + 1 /\ r[1] = n
      /\ \A a \in 1 .. m : r[a + 1] = s[a] /\ s[a] # n
  BY PushedSeq, SetOf
<1> HIDE DEF r
<1>1. ASSUME NEW i \in 1 .. Len(r), i # 1
      PROVE  i - 1 \in 1 .. m /\ r[i] = s[i - 1] /\ r[i] # n
  <2> HIDE DEF m
  <2>1. i - 1 \in 1 .. m /\ (i - 1) + 1 = i
    BY <1>0, <1>1
  <2> QED BY <1>0, <2>1
<1>2. ASSUME NEW i \in 1 .. Len(r), NEW j \in 1 .. Len(r), r[i] = r[j]
      PROVE  i = j
  <2>1. CASE i = 1 \/ j = 1
    BY <1>0, <1>1, <1>2, <2>1
  <2>2. CASE i # 1 /\ j # 1
    <3>1. i - 1 = j - 1
      BY <1>1, <1>2, <2>2
    <3> QED BY <1>0, <3>1
  <2> QED BY <2>1, <2>2
<1> QED BY <1>2 DEF r

\* A pop leaves no node twice in the list, and not the one it takes.
LEMMA PoppedApart ==
  ASSUME NEW s \in Seq(Nodes), s # << >>,
         \A a, b \in 1 .. Len(s) : s[a] = s[b] => a = b
  PROVE  /\ s[1] \notin ToSet(SubSeq(s, 2, Len(s)))
         /\ \A i, j \in 1 .. Len(SubSeq(s, 2, Len(s))) :
              SubSeq(s, 2, Len(s))[i] = SubSeq(s, 2, Len(s))[j] => i = j
<1> DEFINE r == SubSeq(s, 2, Len(s))
           m == Len(s)
<1>0. /\ m \in Nat /\ m # 0 /\ r \in Seq(Nodes) /\ Len(r) = m - 1
      /\ \A a \in 1 .. m - 1 : r[a] = s[a + 1]
  BY PoppedSeq, EmptySeq
<1> HIDE DEF r
<1>1. ASSUME NEW i \in 1 .. Len(r)
      PROVE  i + 1 \in 1 .. m /\ i + 1 # 1 /\ 1 \in 1 .. m /\ r[i] = s[i + 1]
  <2> HIDE DEF m
  <2> QED BY <1>0
<1>2. s[1] \notin ToSet(r)
  BY <1>0, <1>1, SetOf
<1>3. ASSUME NEW i \in 1 .. Len(r), NEW j \in 1 .. Len(r), r[i] = r[j]
      PROVE  i = j
  <2>1. i + 1 = j + 1
    BY <1>1, <1>3
  <2> QED BY <1>0, <2>1
<1> QED BY <1>2, <1>3 DEF r

\* A pop adds no node to the list.
LEMMA PoppedSet ==
  ASSUME NEW s \in Seq(Nodes), s # << >>
  PROVE  ToSet(SubSeq(s, 2, Len(s))) \subseteq ToSet(s)
<1> DEFINE r == SubSeq(s, 2, Len(s))
<1>1. ASSUME NEW x, x \in ToSet(r) PROVE x \in ToSet(s)
  <2>1. r \in Seq(Nodes) /\ Len(r) = Len(s) - 1 /\ Len(s) \in Nat
    BY PoppedSeq
  <2>2. PICK i \in 1 .. Len(r) : x = r[i]
    BY <1>1, <2>1, SetOf
  <2>3. i + 1 \in 1 .. Len(s) /\ s[i + 1] = x
    BY <2>1, <2>2, PoppedSeq
  <2> QED BY <2>3, SetOf
<1> QED BY <1>1

-----------------------------------------------------------------------------

\* s is the sequence number a pushes after o.
SeqIs(s, o, a) == s = o + a \/ s = o + a - SeqSize

\* A call that is about to exchange the head: a pop has read the link of the node
\* it would take, if that node has not left the list since.
Prepared(t) ==
  /\ toRead[t] = {}
  /\ op[t] = "push" => new[t] = node[t] /\ next[node[t]] = old[t].next
  /\ op[t] = "pop" =>
       /\ old[t].next \in Nodes
       /\ age[t] = 0 /\ old[t].next \in ToSet(stack[list[t]]) => new[t] = next[old[t].next]
  /\ op[t] = "detach" => old[t].next \in Nodes /\ new[t] = NULL

\* What the call of a thread knows of its list.
Fresh(t) ==
  /\ op[t] = "none" => step[t] = "read" /\ toRead[t] = Words /\ list[t] = NULL
  /\ "stamp" \in toRead[t] => age[t] = 0
  /\ "stamp" \notin toRead[t] => SeqIs(heads[list[t]].seq, old[t].seq, age[t])
  /\ step[t] = "swap" => Prepared(t)

\* The inductive invariant.
ListsInv == ListsTypeOK /\ Linked /\ NodesApart /\ \A t \in Threads : Fresh(t)

\* A step of another thread leaves the call of u alone.
Kept(u) ==
  /\ op'[u] = op[u] /\ list'[u] = list[u] /\ node'[u] = node[u] /\ step'[u] = step[u]
  /\ toRead'[u] = toRead[u] /\ old'[u] = old[u] /\ new'[u] = new[u] /\ age'[u] = age[u]

\* A step of another thread that leaves the links and the heads alone changes
\* nothing for a call.
LEMMA OthersFresh ==
  ASSUME NEW u \in Threads, Fresh(u), Kept(u), UNCHANGED shared
  PROVE  Fresh(u)'
  BY DEF Fresh, Prepared, Kept, SeqIs, shared

\* A step that leaves the links and the heads alone leaves the lists as they are.
LEMMA ListsStay ==
  ASSUME ListsInv, UNCHANGED shared,
         \A t \in Threads : op'[t] = "push" => node'[t] \in held[t]
  PROVE  Linked' /\ NodesApart'
<1>1. Linked'
  BY DEF ListsInv, Linked, shared, First
<1>2. NodesApart'
  BY DEF ListsInv, NodesApart, shared
<1> QED BY <1>1, <1>2

-----------------------------------------------------------------------------

\* A call begins.
LEMMA CallsInv ==
  ASSUME ListsInv, NEW t \in Threads, NEW o \in {"push", "pop", "detach"}, NEW l \in Lists,
         NEW n \in Nodes \cup {NULL}, o = "push" <=> n # NULL,
         o = "push" => n \in held[t],
         Calls(t, o, l, n)
  PROVE  ListsInv'
<1>1. ListsTypeOK'
  BY DEF ListsInv, Calls, ListsTypeOK, shared, listLocal
<1>2. Linked' /\ NodesApart'
  <2>1. ASSUME NEW u \in Threads, op'[u] = "push" PROVE node'[u] \in held[u]
    BY <2>1 DEF ListsInv, Calls, ListsTypeOK, NodesApart
  <2> QED BY <2>1, ListsStay DEF Calls
<1>3. ASSUME NEW u \in Threads PROVE Fresh(u)'
  <2>1. CASE u = t
    BY <2>1 DEF ListsInv, Calls, Fresh, ListsTypeOK, shared, listLocal, Words
  <2>2. CASE u # t
    BY <2>2, OthersFresh DEF ListsInv, Calls, Kept, ListsTypeOK, listLocal
  <2> QED BY <2>1, <2>2
<1> QED BY <1>1, <1>2, <1>3 DEF ListsInv

\* The node of the head is read: what is known of its sequence number stays.
LEMMA ReadFirstInv ==
  ASSUME ListsInv, NEW t \in Threads, ReadFirst(t)
  PROVE  ListsInv'
<1>0. list[t] \in Lists /\ heads[list[t]].next \in Nodes \cup {NULL}
  BY DEF ListsInv, ReadFirst, ListsTypeOK, Head0
<1>1. ListsTypeOK'
  <2>1. old' \in [Threads -> Head0]
    <3>1. [old[t] EXCEPT !.next = heads[list[t]].next] \in Head0
      <4>1. old[t] \in Head0
        BY DEF ListsInv, ListsTypeOK
      <4> QED BY <1>0, <4>1 DEF Head0
    <3>2. old' = [old EXCEPT ![t] = [old[t] EXCEPT !.next = heads[list[t]].next]]
      BY DEF ReadFirst, ListsInv, ListsTypeOK
    <3> QED BY <3>1, <3>2 DEF ListsInv, ListsTypeOK
  <2> QED BY <2>1 DEF ListsInv, ReadFirst, ListsTypeOK, shared, call
<1>2. Linked' /\ NodesApart'
  BY ListsStay DEF ListsInv, ReadFirst, NodesApart, call
<1>3. ASSUME NEW u \in Threads PROVE Fresh(u)'
  <2>1. CASE u = t
    <3>1. op'[t] = op[t] /\ step'[t] = "read" /\ list'[t] = list[t] /\ age'[t] = age[t]
      BY DEF ReadFirst, call
    <3>2. op[t] # "none" /\ ("stamp" \in toRead'[t] <=> "stamp" \in toRead[t])
      BY DEF ListsInv, ListsTypeOK, ReadFirst
    <3>3. old'[t].seq = old[t].seq /\ heads' = heads
      BY DEF ListsInv, ListsTypeOK, Head0, ReadFirst, shared
    <3> QED BY <2>1, <3>1, <3>2, <3>3 DEF ListsInv, Fresh, SeqIs
  <2>2. CASE u # t
    BY <2>2, OthersFresh DEF ListsInv, ReadFirst, Kept, ListsTypeOK, call
  <2> QED BY <2>1, <2>2
<1> QED BY <1>1, <1>2, <1>3 DEF ListsInv

\* The sequence number is read: from now on the pushes count.
LEMMA ReadStampInv ==
  ASSUME ListsInv, NEW t \in Threads, ReadStamp(t)
  PROVE  ListsInv'
<1>0. list[t] \in Lists /\ heads[list[t]] \in Head0
  BY DEF ListsInv, ReadStamp, ListsTypeOK
<1>1. ListsTypeOK'
  <2>1. old' \in [Threads -> Head0]
    <3> DEFINE h == [old[t] EXCEPT !.depth = heads[list[t]].depth,
                                   !.seq = heads[list[t]].seq]
    <3>1. h \in Head0
      BY <1>0 DEF ListsInv, ListsTypeOK, Head0
    <3>2. old' = [old EXCEPT ![t] = h]
      BY DEF ReadStamp, ListsInv, ListsTypeOK
    <3> HIDE DEF h
    <3> QED BY <3>1, <3>2 DEF ListsInv, ListsTypeOK
  <2> QED BY <2>1 DEF ListsInv, ReadStamp, ListsTypeOK, shared, call
<1>2. Linked' /\ NodesApart'
  BY ListsStay DEF ListsInv, ReadStamp, NodesApart, call
<1>3. ASSUME NEW u \in Threads PROVE Fresh(u)'
  <2>1. CASE u = t
    BY <1>0, <2>1 DEF ListsInv, ReadStamp, Fresh, SeqIs, ListsTypeOK, Head0, shared, call
  <2>2. CASE u # t
    BY <2>2, OthersFresh DEF ListsInv, ReadStamp, Kept, ListsTypeOK, call
  <2> QED BY <2>1, <2>2
<1> QED BY <1>1, <1>2, <1>3 DEF ListsInv

\* A pop that has read the head reads the link of the node in it.
LEMMA PopLinkInv ==
  ASSUME ListsInv, NEW t \in Threads, PopLink(t)
  PROVE  ListsInv'
<1>0. list[t] \in Lists /\ old[t].next \in Nodes /\ next[old[t].next] \in Nodes \cup {NULL}
  BY DEF ListsInv, PopLink, Ready, ListsTypeOK, Head0
<1>1. ListsTypeOK'
  BY <1>0 DEF ListsInv, PopLink, Ready, ListsTypeOK, shared, call
<1>2. Linked' /\ NodesApart'
  BY ListsStay DEF ListsInv, PopLink, NodesApart, call
<1>3. ASSUME NEW u \in Threads PROVE Fresh(u)'
  <2>1. CASE u = t
    BY <1>0, <2>1 DEF ListsInv, PopLink, Ready, Fresh, Prepared, SeqIs, ListsTypeOK,
      shared, call
  <2>2. CASE u # t
    BY <2>2, OthersFresh DEF ListsInv, PopLink, Kept, ListsTypeOK, call
  <2> QED BY <2>1, <2>2
<1> QED BY <1>1, <1>2, <1>3 DEF ListsInv

\* A detachment that has read the head prepares an empty one.
LEMMA DetachLinkInv ==
  ASSUME ListsInv, NEW t \in Threads, DetachLink(t)
  PROVE  ListsInv'
<1>0. list[t] \in Lists /\ old[t].next \in Nodes
  BY DEF ListsInv, DetachLink, Ready, ListsTypeOK, Head0
<1>1. ListsTypeOK'
  BY <1>0 DEF ListsInv, DetachLink, Ready, ListsTypeOK, shared, call
<1>2. Linked' /\ NodesApart'
  BY ListsStay DEF ListsInv, DetachLink, NodesApart, call
<1>3. ASSUME NEW u \in Threads PROVE Fresh(u)'
  <2>1. CASE u = t
    BY <1>0, <2>1 DEF ListsInv, DetachLink, Ready, Fresh, Prepared, SeqIs, ListsTypeOK,
      shared, call
  <2>2. CASE u # t
    BY <2>2, OthersFresh DEF ListsInv, DetachLink, Kept, ListsTypeOK, call
  <2> QED BY <2>1, <2>2
<1> QED BY <1>1, <1>2, <1>3 DEF ListsInv

\* A call that begins anew or returns knows nothing.
LEMMA NoHeadType == NoHead \in Head0 /\ Words \in SUBSET Words
  BY SeqAssumption DEF NoHead, Head0

\* A call finds the list empty and returns.
LEMMA EmptyInv ==
  ASSUME ListsInv, NEW t \in Threads, Empty(t)
  PROVE  ListsInv'
<1>1. ListsTypeOK'
  BY NoHeadType, SeqAssumption DEF ListsInv, Empty, ListReturns, Restarts, ListsTypeOK,
    shared
<1>2. Linked' /\ NodesApart'
  <2>1. ASSUME NEW u \in Threads, op'[u] = "push" PROVE node'[u] \in held[u]
    BY <2>1 DEF ListsInv, Empty, ListReturns, ListsTypeOK, NodesApart
  <2> QED BY <2>1, ListsStay DEF Empty
<1>3. ASSUME NEW u \in Threads PROVE Fresh(u)'
  <2>1. CASE u = t
    BY <2>1 DEF ListsInv, Empty, ListReturns, Restarts, Fresh, ListsTypeOK, Words
  <2>2. CASE u # t
    BY <2>2, OthersFresh DEF ListsInv, Empty, ListReturns, Restarts, Kept, ListsTypeOK
  <2> QED BY <2>1, <2>2
<1> QED BY <1>1, <1>2, <1>3 DEF ListsInv

\* A call finds the head changed and begins anew.
LEMMA RetryInv ==
  ASSUME ListsInv, NEW t \in Threads, Retry(t)
  PROVE  ListsInv'
<1>1. ListsTypeOK'
  BY NoHeadType, SeqAssumption DEF ListsInv, Retry, Restarts, ListsTypeOK, shared, call
<1>2. Linked' /\ NodesApart'
  BY ListsStay DEF ListsInv, Retry, NodesApart, call
<1>3. ASSUME NEW u \in Threads PROVE Fresh(u)'
  <2>1. CASE u = t
    BY <2>1 DEF ListsInv, Retry, Restarts, Fresh, ListsTypeOK, Words, call
  <2>2. CASE u # t
    BY <2>2, OthersFresh DEF ListsInv, Retry, Restarts, Kept, ListsTypeOK, call
  <2> QED BY <2>1, <2>2
<1> QED BY <1>1, <1>2, <1>3 DEF ListsInv

\* The node that a push writes to is in no list and no one else's.
LEMMA PushLinkInv ==
  ASSUME ListsInv, NEW t \in Threads, PushLink(t)
  PROVE  ListsInv'
<1>0. /\ node[t] \in Nodes /\ node[t] \in held[t]
      /\ \A l \in Lists : node[t] \notin ToSet(stack[l])
      /\ \A u \in Threads : u # t /\ op[u] = "push" => node[u] # node[t] /\ node[u] \in Nodes
  BY DEF ListsInv, PushLink, Ready, ListsTypeOK, NodesApart
<1>1. /\ next' \in [Nodes -> Nodes \cup {NULL}]
      /\ \A n \in Nodes : n # node[t] => next'[n] = next[n]
      /\ next'[node[t]] = old[t].next
  BY <1>0 DEF ListsInv, PushLink, ListsTypeOK, Head0
<1>2. ListsTypeOK'
  BY <1>0, <1>1 DEF ListsInv, PushLink, ListsTypeOK, call
<1>3. Linked'
  <2>1. ASSUME NEW l \in Lists, NEW i \in 1 .. Len(stack[l])
        PROVE  next'[stack[l][i]] = next[stack[l][i]]
    <3>1. stack[l] \in Seq(Nodes)
      BY DEF ListsInv, ListsTypeOK
    <3>2. stack[l][i] \in Nodes /\ stack[l][i] \in ToSet(stack[l])
      BY <3>1, SetOf
    <3> QED BY <1>0, <1>1, <3>2
  <2>2. heads' = heads /\ stack' = stack
    BY DEF PushLink
  <2> QED BY <2>1, <2>2 DEF ListsInv, Linked, First
<1>4. NodesApart'
  BY DEF ListsInv, PushLink, NodesApart, call
<1>5. ASSUME NEW u \in Threads PROVE Fresh(u)'
  <2>1. CASE u = t
    <3>1. /\ op[t] = "push" /\ toRead[t] = {} /\ op' = op /\ list' = list /\ node' = node
          /\ toRead' = toRead /\ old' = old /\ age' = age /\ heads' = heads
      BY DEF PushLink, Ready, call
    <3>2. new'[t] = node[t]
      BY DEF PushLink, ListsInv, ListsTypeOK
    <3>3. Prepared(t)'
      BY <1>1, <3>1, <3>2 DEF Prepared
    <3> QED BY <2>1, <3>1, <3>3 DEF ListsInv, Fresh, SeqIs
  <2>2. CASE u # t
    <3>1. Kept(u) /\ heads' = heads /\ stack' = stack
      BY <2>2 DEF ListsInv, PushLink, Kept, ListsTypeOK, call
    <3>2. Fresh(u) /\ (op[u] # "none" => list[u] \in Lists)
      BY DEF ListsInv, ListsTypeOK
    <3>3. ASSUME step[u] = "swap" PROVE Prepared(u)'
      <4>1. Prepared(u) /\ op[u] \in {"none", "push", "pop", "detach"}
        BY <3>2, <3>3 DEF Fresh, ListsInv, ListsTypeOK
      <4>2. op[u] = "push" => next'[node[u]] = next[node[u]]
        BY <1>0, <1>1, <2>2
      <4>3. op[u] = "pop" /\ old[u].next \in ToSet(stack[list[u]]) =>
              next'[old[u].next] = next[old[u].next]
        BY <1>0, <1>1, <3>2, <4>1 DEF Prepared
      <4> QED BY <3>1, <4>1, <4>2, <4>3 DEF Prepared, Kept
    <3> QED BY <3>1, <3>2, <3>3 DEF Fresh, Kept, SeqIs
  <2> QED BY <2>1, <2>2
<1> QED BY <1>2, <1>3, <1>4, <1>5 DEF ListsInv

-----------------------------------------------------------------------------

\* What a call of another thread sees of an exchange of the head of list l.
OldWay(u) ==
  /\ op'[u] = op[u] /\ list'[u] = list[u] /\ node'[u] = node[u] /\ step'[u] = step[u]
  /\ toRead'[u] = toRead[u] /\ old'[u] = old[u] /\ new'[u] = new[u]

\* The exchange concerns no other list.
Elsewhere(l) == \A k \in Lists : k # l => heads'[k] = heads[k] /\ stack'[k] = stack[k]

\* Nodes have been taken from l.
SeesTaken(u, l) ==
  /\ age'[u] = age[u] /\ heads'[l].seq = heads[l].seq
  /\ ToSet(stack'[l]) \subseteq ToSet(stack[l])

\* A node has been pushed on l.
SeesPushed(u, l) ==
  /\ heads'[l].seq = SeqAfter(heads[l].seq)
  /\ ~Aging(u, l) => age'[u] = age[u]
  /\ Aging(u, l) => age'[u] = age[u] + 1 /\ age[u] + 1 < SeqSize

\* One push more: one sequence number further, modulo SeqSize.
LEMMA SeqIsAfter ==
  ASSUME NEW s \in 0 .. SeqSize - 1, NEW o \in 0 .. SeqSize - 1, NEW a \in Nat,
         a + 1 < SeqSize, SeqIs(s, o, a)
  PROVE  SeqIs(SeqAfter(s), o, a + 1)
<1>1. SeqSize \in Nat
  BY SeqAssumption
<1>2. CASE s = SeqSize - 1
  BY <1>1, <1>2 DEF SeqIs, SeqAfter
<1>3. CASE s # SeqSize - 1
  BY <1>1, <1>3 DEF SeqIs, SeqAfter
<1> QED BY <1>2, <1>3

\* What a call knows of a list it still knows after another thread's exchange.
LEMMA OthersSwap ==
  ASSUME ListsInv, NEW l \in Lists, NEW u \in Threads, OldWay(u), Elsewhere(l), next' = next,
         SeesTaken(u, l) \/ SeesPushed(u, l)
  PROVE  Fresh(u)'
<1>1. CASE "stamp" \in toRead[u]
  <2>1. age'[u] = age[u] /\ step[u] = "read"
    BY <1>1 DEF ListsInv, Fresh, Prepared, ListsTypeOK, SeesTaken, SeesPushed, Aging
  <2> QED BY <1>1, <2>1 DEF ListsInv, Fresh, OldWay
<1>2. CASE "stamp" \notin toRead[u]
  <2>1. op[u] # "none" /\ list[u] \in Lists
    BY <1>2 DEF ListsInv, Fresh, ListsTypeOK, Words
  <2>2. SeqIs(heads[list[u]].seq, old[u].seq, age[u]) /\ age[u] \in Nat
    BY <1>2 DEF ListsInv, Fresh, ListsTypeOK
  <2>3. heads[list[u]].seq \in 0 .. SeqSize - 1 /\ old[u].seq \in 0 .. SeqSize - 1
    BY <2>1 DEF ListsInv, ListsTypeOK, Head0
  <2>4. step[u] = "swap" => Prepared(u)
    BY DEF ListsInv, Fresh
  <2>5. CASE list[u] # l \/ SeesTaken(u, l)
    <3>1. /\ age'[u] = age[u] /\ heads'[list[u]].seq = heads[list[u]].seq
          /\ ToSet(stack'[list[u]]) \subseteq ToSet(stack[list[u]])
      BY <2>1, <2>5 DEF Elsewhere, SeesTaken, SeesPushed, Aging
    <3>2. Prepared(u) => Prepared(u)'
      BY <3>1 DEF Prepared, OldWay
    <3> QED BY <1>2, <2>1, <2>2, <2>4, <3>1, <3>2 DEF Fresh, OldWay
  <2>6. CASE list[u] = l /\ SeesPushed(u, l)
    <3>1. /\ age'[u] = age[u] + 1 /\ heads'[l].seq = SeqAfter(heads[l].seq)
         /\ age[u] + 1 < SeqSize
      BY <1>2, <2>6 DEF SeesPushed, Aging
    <3>2. SeqIs(heads'[l].seq, old[u].seq, age'[u])
      BY <2>2, <2>3, <2>6, <3>1, SeqIsAfter
    <3>3. Prepared(u) => Prepared(u)'
      BY <2>2, <3>1 DEF Prepared, OldWay
    <3> QED BY <1>2, <2>1, <2>4, <2>6, <3>2, <3>3 DEF Fresh, OldWay
  <2> QED BY <2>5, <2>6
<1> QED BY <1>1, <1>2

\* When the head is what a call has read, the first node is too.
LEMMA SwapAt ==
  ASSUME ListsInv, NEW t \in Threads, NEW o \in {"push", "pop", "detach"}, Swapping(t, o)
  PROVE  /\ list[t] \in Lists /\ heads[list[t]] = old[t]
         /\ stack[list[t]] \in Seq(Nodes) /\ Len(stack[list[t]]) \in Nat
         /\ old[t].next = First(stack[list[t]]) /\ old[t].depth = Len(stack[list[t]])
         /\ old[t].seq \in 0 .. SeqSize - 1
         /\ Prepared(t)
  BY DEF ListsInv, ListsTypeOK, Linked, Fresh, Swapping, Unchanged, Head0

\* A pop that finds the head unchanged takes the first node, and the link it has
\* read leads to the second: nothing has been pushed since it read the head.
LEMMA PopAt ==
  ASSUME ListsInv, NEW t \in Threads, Swapping(t, "pop")
  PROVE  /\ stack[list[t]] # << >> /\ old[t].next = stack[list[t]][1]
         /\ new[t] = First(SubSeq(stack[list[t]], 2, Len(stack[list[t]])))
<1> DEFINE l == list[t]
           s == stack[l]
<1>1. /\ l \in Lists /\ heads[l] = old[t] /\ s \in Seq(Nodes) /\ Len(s) \in Nat
      /\ old[t].next = First(s) /\ Prepared(t) /\ old[t].seq \in 0 .. SeqSize - 1
  BY SwapAt
<1>2. op[t] = "pop" /\ old[t].next \in Nodes /\ toRead[t] = {}
  BY <1>1 DEF Swapping, Prepared
<1>3. s # << >> /\ old[t].next = s[1]
  BY <1>1, <1>2, NullAssumption DEF First
<1>4. age[t] = 0
  <2>1. SeqIs(old[t].seq, old[t].seq, age[t]) /\ age[t] \in 0 .. SeqSize - 1
    BY <1>1, <1>2 DEF ListsInv, ListsTypeOK, Fresh
  <2> QED BY <1>1, <2>1, SeqAssumption DEF SeqIs
<1>5. Len(s) > 0 /\ s[1] \in ToSet(s)
  BY <1>1, <1>3, SetOf
<1>6. new[t] = next[s[1]]
  BY <1>1, <1>2, <1>3, <1>4, <1>5 DEF Prepared
<1>7. next[s[1]] = IF Len(s) = 1 THEN NULL ELSE s[2]
  <2>1. 1 \in 1 .. Len(s) /\ 1 + 1 = 2
    BY <1>1, <1>5
  <2>2. \A i \in 1 .. Len(s) : next[s[i]] = IF i = Len(s) THEN NULL ELSE s[i + 1]
    BY <1>1 DEF ListsInv, Linked
  <2> QED BY <2>1, <2>2
<1>8. First(SubSeq(s, 2, Len(s))) = IF Len(s) = 1 THEN NULL ELSE s[2]
  <2> HIDE DEF s
  <2> QED BY <1>1, <1>3, FirstPopped
<1> QED BY <1>3, <1>6, <1>7, <1>8

\* Types after the return of a call.
LEMMA ReturnedType ==
  ASSUME ListsInv, NEW t \in Threads, ListReturns(t), next' = next,
         heads' \in [Lists -> Head0], stack' \in [Lists -> Seq(Nodes)],
         held' \in [Threads -> SUBSET Nodes], age' \in [Threads -> 0 .. SeqSize - 1]
  PROVE  ListsTypeOK'
<1>1. /\ op' \in [Threads -> {"none", "push", "pop", "detach"}]
      /\ list' \in [Threads -> Lists \cup {NULL}] /\ node' \in [Threads -> Nodes \cup {NULL}]
      /\ \A u \in Threads : op'[u] # "none" => list'[u] \in Lists
      /\ \A u \in Threads : op'[u] = "push" <=> node'[u] # NULL
  BY DEF ListsInv, ListsTypeOK, ListReturns
<1>2. /\ step' \in [Threads -> {"read", "swap"}] /\ toRead' \in [Threads -> SUBSET Words]
      /\ old' \in [Threads -> Head0] /\ new' \in [Threads -> Nodes \cup {NULL}]
  BY NoHeadType DEF ListsInv, ListsTypeOK, ListReturns, Restarts
<1>3. next' \in [Nodes -> Nodes \cup {NULL}]
  BY DEF ListsInv, ListsTypeOK
<1> QED BY <1>1, <1>2, <1>3 DEF ListsTypeOK

\* After a pop or a detachment others find what they knew, or less in the list.
LEMMA OthersTaken ==
  ASSUME ListsInv, NEW t \in Threads, NEW o \in {"pop", "detach"}, Swapping(t, o),
         NEW h \in Head0, h.seq = old[t].seq, NEW s,
         ToSet(s) \subseteq ToSet(stack[list[t]]),
         heads' = [heads EXCEPT ![list[t]] = h], stack' = [stack EXCEPT ![list[t]] = s],
         ListReturns(t), age' = [age EXCEPT ![t] = 0], next' = next
  PROVE  \A u \in Threads : Fresh(u)'
<1>1. list[t] \in Lists /\ heads[list[t]] = old[t]
  BY SwapAt
<1>2. ASSUME NEW u \in Threads, u # t PROVE Fresh(u)'
  <2>1. OldWay(u) /\ Elsewhere(list[t]) /\ SeesTaken(u, list[t])
    BY <1>1, <1>2 DEF ListsInv, ListsTypeOK, OldWay, Elsewhere, SeesTaken, ListReturns,
      Restarts
  <2> QED BY <1>1, <2>1, OthersSwap
<1>3. Fresh(t)'
  BY DEF ListsInv, ListReturns, Restarts, Fresh, ListsTypeOK, Words
<1> QED BY <1>2, <1>3

\* A push takes effect.
LEMMA PushSwapInv ==
  ASSUME ListsInv, NEW t \in Threads, PushSwap(t)
  PROVE  ListsInv'
<1> DEFINE l == list[t]
           s == stack[l]
           n == node[t]
<1>0. Swapping(t, "push") /\ ListReturns(t) /\ next' = next
  BY DEF PushSwap
<1>1. /\ l \in Lists /\ heads[l] = old[t] /\ s \in Seq(Nodes) /\ Len(s) \in Nat
      /\ old[t].next = First(s) /\ old[t].depth = Len(s) /\ old[t].seq \in 0 .. SeqSize - 1
      /\ Prepared(t)
  BY <1>0, SwapAt
<1>2. /\ n \in Nodes /\ n \in held[t] /\ new[t] = n /\ next[n] = First(s)
      /\ \A k \in Lists : n \notin ToSet(stack[k])
  BY <1>0, <1>1 DEF Swapping, Prepared, ListsInv, ListsTypeOK, NodesApart
<1> DEFINE r == <<n>> \o s
           h == [next |-> n, depth |-> Len(s) + 1, seq |-> SeqAfter(old[t].seq)]
<1>3. /\ r \in Seq(Nodes) /\ Len(r) = Len(s) + 1 /\ r[1] = n
      /\ \A i \in 1 .. Len(s) : r[i + 1] = s[i]
      /\ ToSet(r) = ToSet(s) \cup {n}
  BY <1>1, <1>2, PushedSeq, PushedSet
<1>4. h \in Head0
  BY <1>1, <1>2, SeqAssumption DEF Head0, SeqAfter
<1>5. /\ heads' = [heads EXCEPT ![l] = h] /\ stack' = [stack EXCEPT ![l] = r]
      /\ held' = [held EXCEPT ![t] = @ \ {n}]
  BY <1>1, <1>2 DEF PushSwap
<1>6. /\ heads'[l] = h /\ stack'[l] = r
      /\ \A k \in Lists : k # l => heads'[k] = heads[k] /\ stack'[k] = stack[k]
  BY <1>1, <1>5 DEF ListsInv, ListsTypeOK
<1>7. ListsTypeOK'
  <2>1. heads' \in [Lists -> Head0] /\ stack' \in [Lists -> Seq(Nodes)]
    BY <1>3, <1>4, <1>5 DEF ListsInv, ListsTypeOK
  <2>2. age' \in [Threads -> 0 .. SeqSize - 1]
    BY SeqAssumption, <1>0 DEF ListsInv, ListsTypeOK, PushSwap, NobodyOversleeps, Swapping
  <2>3. held' \in [Threads -> SUBSET Nodes]
    BY <1>5 DEF ListsInv, ListsTypeOK
  <2> HIDE DEF h, r
  <2> QED BY <1>0, <2>1, <2>2, <2>3, ReturnedType
<1>8. Linked'
  <2>1. r # << >>
    BY <1>1, <1>3, EmptySeq
  <2>2. h.next = First(r) /\ h.depth = Len(r)
    BY <1>3, <2>1 DEF First
  <2>3. ASSUME NEW i \in 1 .. Len(r)
        PROVE  next[r[i]] = IF i = Len(r) THEN NULL ELSE r[i + 1]
    <3> HIDE DEF r, s, n, l
    <3>1. CASE i = 1
      <4>1. CASE Len(s) = 0
        BY <1>1, <1>2, <1>3, <3>1, <4>1, EmptySeq DEF First
      <4>2. CASE Len(s) # 0
        <5>1. s # << >> /\ 1 \in 1 .. Len(s)
          BY <1>1, <4>2, EmptySeq
        <5>2. r[1 + 1] = s[1]
          BY <1>3, <5>1
        <5> QED BY <1>1, <1>2, <1>3, <3>1, <5>1, <5>2, <4>2 DEF First
      <4> QED BY <4>1, <4>2
    <3>2. CASE i # 1
      <4>1. i - 1 \in 1 .. Len(s) /\ (i - 1) + 1 = i /\ Len(s) \in Nat
        BY <1>1, <1>3, <3>2
      <4>2. r[i] = s[i - 1]
        BY <1>3, <4>1
      <4>3. next[s[i - 1]] = IF i - 1 = Len(s) THEN NULL ELSE s[i]
        BY <1>1, <4>1 DEF ListsInv, Linked, s
      <4>4. i # Len(r) => i \in 1 .. Len(s) /\ r[i + 1] = s[i]
        BY <1>1, <1>3
      <4>5. i - 1 = Len(s) <=> i = Len(r)
        BY <1>1, <1>3
      <4> QED BY <4>2, <4>3, <4>4, <4>5
    <3> QED BY <3>1, <3>2
  <2>4. ASSUME NEW k \in Lists PROVE
          /\ heads'[k].next = First(stack'[k]) /\ heads'[k].depth = Len(stack'[k])
          /\ \A i \in 1 .. Len(stack'[k]) :
               next[stack'[k][i]] = IF i = Len(stack'[k]) THEN NULL ELSE stack'[k][i + 1]
    <3>1. CASE k = l
      BY <1>6, <2>2, <2>3, <3>1
    <3>2. CASE k # l
      BY <1>6, <3>2 DEF ListsInv, Linked
    <3> QED BY <3>1, <3>2
  <2> QED BY <1>0, <2>4 DEF Linked, First
<1>9. NodesApart'
  <2>1. \A i, j \in 1 .. Len(r) : r[i] = r[j] => i = j
    <3>1. n \notin ToSet(s) /\ \A a, b \in 1 .. Len(s) : s[a] = s[b] => a = b
      BY <1>1, <1>2 DEF ListsInv, NodesApart
    <3>2. s \in Seq(Nodes) /\ n \in Nodes
      BY <1>1, <1>2
    <3> HIDE DEF s, n, l
    <3> QED BY ONLY <3>1, <3>2, PushedApart
  <2>2. \A k \in Lists : \A i, j \in 1 .. Len(stack'[k]) : stack'[k][i] = stack'[k][j] => i = j
    BY <1>6, <2>1 DEF ListsInv, NodesApart
  <2>3. \A k \in Lists : ToSet(stack'[k]) = IF k = l THEN ToSet(stack[k]) \cup {n}
                                             ELSE ToSet(stack[k])
    BY <1>3, <1>6
  <2>4. /\ held'[t] = held[t] \ {n}
        /\ \A u \in Threads : u # t => held'[u] = held[u]
    BY <1>5 DEF ListsInv, ListsTypeOK
  <2>5. \A j, k \in Lists : j # k => ToSet(stack'[j]) \cap ToSet(stack'[k]) = {}
    <3>1. \A j, k \in Lists : j # k => ToSet(stack[j]) \cap ToSet(stack[k]) = {}
      BY DEF ListsInv, NodesApart
    <3>2. \A k \in Lists : n \notin ToSet(stack[k])
      BY <1>2
    <3> HIDE DEF r, s, n, l
    <3>3. ASSUME NEW j \in Lists, NEW k \in Lists, j # k, NEW x
          PROVE  ~(x \in ToSet(stack'[j]) /\ x \in ToSet(stack'[k]))
      <4>1. ~(x \in ToSet(stack[j]) /\ x \in ToSet(stack[k]))
        BY <3>1, <3>3
      <4>2. x \in ToSet(stack'[j]) => x \in ToSet(stack[j]) \/ (j = l /\ x = n)
        BY <2>3
      <4>3. x \in ToSet(stack'[k]) => x \in ToSet(stack[k]) \/ (k = l /\ x = n)
        BY <2>3
      <4> QED BY <3>2, <3>3, <4>1, <4>2, <4>3
    <3> QED BY <3>3
  <2>6. \A u, w \in Threads : u # w => held'[u] \cap held'[w] = {}
    BY <2>4 DEF ListsInv, NodesApart
  <2>7. \A u \in Threads, k \in Lists : held'[u] \cap ToSet(stack'[k]) = {}
    <3>1. /\ \A u \in Threads, k \in Lists : held[u] \cap ToSet(stack[k]) = {}
          /\ \A u \in Threads : u # t => n \notin held[u]
      BY <1>2 DEF ListsInv, NodesApart
    <3> HIDE DEF r, s, n, l
    <3>2. ASSUME NEW u \in Threads, NEW k \in Lists, NEW x
          PROVE  ~(x \in held'[u] /\ x \in ToSet(stack'[k]))
      <4>1. x \in held'[u] => x \in held[u] /\ x # n
        BY <2>4, <3>1
      <4>2. x \in ToSet(stack'[k]) => x \in ToSet(stack[k]) \/ x = n
        BY <2>3
      <4> QED BY <3>1, <4>1, <4>2
    <3> QED BY <3>2
  <2>8. \A u \in Threads : op'[u] = "push" => node'[u] \in held'[u]
    BY <1>0, <2>4 DEF ListsInv, NodesApart, ListsTypeOK, ListReturns
  <2> QED BY <2>2, <2>5, <2>6, <2>7, <2>8 DEF NodesApart
<1>10. ASSUME NEW u \in Threads PROVE Fresh(u)'
  <2>1. CASE u = t
    <3>1. age'[t] = 0
      BY DEF PushSwap
    <3> QED BY <1>0, <2>1, <3>1 DEF ListsInv, ListReturns, Restarts, Fresh,
      ListsTypeOK, Words
  <2>2. CASE u # t
    <3>1. OldWay(u) /\ Elsewhere(l)
      BY <1>0, <1>6, <2>2 DEF ListsInv, ListsTypeOK, OldWay, Elsewhere, ListReturns,
        Restarts
    <3>2. age'[u] = IF Aging(u, l) THEN age[u] + 1 ELSE age[u]
      BY <2>2 DEF PushSwap
    <3>3. Aging(u, l) => age[u] + 1 < SeqSize
      BY DEF PushSwap, NobodyOversleeps
    <3>4. SeesPushed(u, l)
      BY <1>1, <1>6, <3>2, <3>3 DEF SeesPushed
    <3> QED BY <1>0, <1>1, <3>1, <3>4, OthersSwap
  <2> QED BY <2>1, <2>2
<1> QED BY <1>7, <1>8, <1>9, <1>10 DEF ListsInv

\* A pop takes effect.
LEMMA PopSwapInv ==
  ASSUME ListsInv, NEW t \in Threads, PopSwap(t)
  PROVE  ListsInv'
<1> DEFINE l == list[t]
           s == stack[l]
           n == old[t].next
           r == SubSeq(s, 2, Len(s))
           h == [next |-> new[t], depth |-> Len(s) - 1, seq |-> old[t].seq]
<1>0. Swapping(t, "pop") /\ ListReturns(t) /\ next' = next /\ age' = [age EXCEPT ![t] = 0]
  BY DEF PopSwap
<1>1. /\ l \in Lists /\ heads[l] = old[t] /\ s \in Seq(Nodes) /\ Len(s) \in Nat
      /\ old[t].depth = Len(s) /\ old[t].seq \in 0 .. SeqSize - 1
  BY <1>0, SwapAt
<1>2. s # << >> /\ n = s[1] /\ new[t] = First(r)
  BY <1>0, PopAt
<1>3. /\ Len(s) # 0 /\ r \in Seq(Nodes) /\ Len(r) = Len(s) - 1
      /\ \A i \in 1 .. Len(s) - 1 : r[i] = s[i + 1]
      /\ ToSet(r) \subseteq ToSet(s)
  <2>1. s \in Seq(Nodes) /\ s # << >>
    BY <1>1, <1>2
  <2> HIDE DEF s
  <2> QED BY ONLY <2>1, PoppedSeq, PoppedSet, EmptySeq
<1>4. n \in Nodes /\ n \in ToSet(s)
  <2>1. 1 \in 1 .. Len(s)
    BY <1>1, <1>3
  <2> HIDE DEF s
  <2> QED BY <1>1, <1>2, <2>1, SetOf
<1>5. h \in Head0
  <2>1. Len(s) - 1 \in Nat
    BY <1>1, <1>3
  <2> QED BY <1>1, <2>1 DEF Head0, ListsInv, ListsTypeOK
<1>6. /\ heads' = [heads EXCEPT ![l] = h] /\ stack' = [stack EXCEPT ![l] = r]
      /\ held' = [held EXCEPT ![t] = @ \cup {n}]
  BY <1>1 DEF PopSwap, ListsInv, ListsTypeOK
<1>7. /\ heads'[l] = h /\ stack'[l] = r
      /\ \A k \in Lists : k # l => heads'[k] = heads[k] /\ stack'[k] = stack[k]
  BY <1>1, <1>6 DEF ListsInv, ListsTypeOK
<1>8. ListsTypeOK'
  <2>1. heads' \in [Lists -> Head0] /\ stack' \in [Lists -> Seq(Nodes)]
    BY <1>3, <1>5, <1>6 DEF ListsInv, ListsTypeOK
  <2>2. held' \in [Threads -> SUBSET Nodes]
    BY <1>4, <1>6 DEF ListsInv, ListsTypeOK
  <2>3. age' \in [Threads -> 0 .. SeqSize - 1]
    BY <1>0, SeqAssumption DEF ListsInv, ListsTypeOK
  <2> HIDE DEF h
  <2> QED BY <1>0, <2>1, <2>2, <2>3, ReturnedType
<1>9. Linked'
  <2>1. ASSUME NEW i \in 1 .. Len(r)
        PROVE  next[r[i]] = IF i = Len(r) THEN NULL ELSE r[i + 1]
    <3>1. \A j \in 1 .. Len(s) : next[s[j]] = IF j = Len(s) THEN NULL ELSE s[j + 1]
      BY <1>1 DEF ListsInv, Linked
    <3> HIDE DEF r, s
    <3>2. /\ i + 1 \in 1 .. Len(s) /\ i \in 1 .. Len(s) - 1
          /\ i = Len(r) <=> i + 1 = Len(s)
          /\ i # Len(r) => i + 1 \in 1 .. Len(s) - 1
      BY <1>1, <1>3
    <3> QED BY <1>3, <3>1, <3>2
  <2>2. ASSUME NEW k \in Lists PROVE
          /\ heads'[k].next = First(stack'[k]) /\ heads'[k].depth = Len(stack'[k])
          /\ \A i \in 1 .. Len(stack'[k]) :
               next[stack'[k][i]] = IF i = Len(stack'[k]) THEN NULL ELSE stack'[k][i + 1]
    <3>1. CASE k = l
      <4>1. h.next = First(r) /\ h.depth = Len(r)
        BY <1>2, <1>3
      <4> HIDE DEF r, h, l
      <4> QED BY ONLY <1>7, <2>1, <3>1, <4>1
    <3>2. CASE k # l
      BY <1>7, <3>2 DEF ListsInv, Linked
    <3> QED BY <3>1, <3>2
  <2> QED BY <1>0, <2>2 DEF Linked, First
<1>10. NodesApart'
  <2>1. n \notin ToSet(r) /\ \A i, j \in 1 .. Len(r) : r[i] = r[j] => i = j
    <3>1. \A a, b \in 1 .. Len(s) : s[a] = s[b] => a = b
      BY <1>1 DEF ListsInv, NodesApart
    <3>2. s \in Seq(Nodes) /\ s # << >> /\ n = s[1]
      BY <1>1, <1>2
    <3> HIDE DEF s, n
    <3> QED BY ONLY <3>1, <3>2, PoppedApart
  <2>2. \A k \in Lists : \A i, j \in 1 .. Len(stack'[k]) : stack'[k][i] = stack'[k][j] => i = j
    BY <1>7, <2>1 DEF ListsInv, NodesApart
  <2>3. \A k \in Lists : ToSet(stack'[k]) \subseteq ToSet(stack[k]) /\ n \notin ToSet(stack'[k])
    <3>1. \A k \in Lists : k # l => n \notin ToSet(stack[k])
      BY <1>1, <1>4 DEF ListsInv, NodesApart
    <3> HIDE DEF r, s, n
    <3> QED BY <1>3, <1>7, <2>1, <3>1 DEF s
  <2>4. /\ held'[t] = held[t] \cup {n}
        /\ \A u \in Threads : u # t => held'[u] = held[u]
    BY <1>6 DEF ListsInv, ListsTypeOK
  <2>5. \A u \in Threads : n \notin held[u]
    BY <1>1, <1>4 DEF ListsInv, NodesApart
  <2>6. \A j, k \in Lists : j # k => ToSet(stack'[j]) \cap ToSet(stack'[k]) = {}
    <3>1. \A j, k \in Lists : j # k => ToSet(stack[j]) \cap ToSet(stack[k]) = {}
      BY DEF ListsInv, NodesApart
    <3> HIDE DEF r, s, n, l
    <3>2. ASSUME NEW j \in Lists, NEW k \in Lists, j # k, NEW x
          PROVE  ~(x \in ToSet(stack'[j]) /\ x \in ToSet(stack'[k]))
      BY ONLY <2>3, <3>1, <3>2
    <3> QED BY <3>2
  <2>7. \A u, w \in Threads : u # w => held'[u] \cap held'[w] = {}
    BY <2>4, <2>5 DEF ListsInv, NodesApart
  <2>8. \A u \in Threads, k \in Lists : held'[u] \cap ToSet(stack'[k]) = {}
    <3>1. \A u \in Threads, k \in Lists : held[u] \cap ToSet(stack[k]) = {}
      BY DEF ListsInv, NodesApart
    <3> HIDE DEF r, s, n, l
    <3>2. ASSUME NEW u \in Threads, NEW k \in Lists, NEW x
          PROVE  ~(x \in held'[u] /\ x \in ToSet(stack'[k]))
      BY ONLY <2>3, <2>4, <3>1, t \in Threads
    <3> QED BY <3>2
  <2>9. \A u \in Threads : op'[u] = "push" => node'[u] \in held'[u]
    BY <1>0, <2>4 DEF ListsInv, NodesApart, ListsTypeOK, ListReturns
  <2> QED BY <2>2, <2>6, <2>7, <2>8, <2>9 DEF NodesApart
<1>11. \A u \in Threads : Fresh(u)'
  <2>1. h.seq = old[t].seq
    OBVIOUS
  <2>2. ToSet(r) \subseteq ToSet(stack[list[t]])
    BY <1>3
  <2> HIDE DEF h, r
  <2> QED BY <1>0, <1>5, <1>6, <2>1, <2>2, OthersTaken
<1> QED BY <1>8, <1>9, <1>10, <1>11 DEF ListsInv

\* A detachment takes effect.
LEMMA DetachSwapInv ==
  ASSUME ListsInv, NEW t \in Threads, DetachSwap(t)
  PROVE  ListsInv'
<1> DEFINE l == list[t]
           s == stack[l]
           h == [next |-> NULL, depth |-> 0, seq |-> old[t].seq]
<1>0. Swapping(t, "detach") /\ ListReturns(t) /\ next' = next /\ age' = [age EXCEPT ![t] = 0]
  BY DEF DetachSwap
<1>1. /\ l \in Lists /\ heads[l] = old[t] /\ s \in Seq(Nodes)
      /\ old[t].seq \in 0 .. SeqSize - 1 /\ Prepared(t)
  BY <1>0, SwapAt
<1>2. new[t] = NULL
  BY <1>0, <1>1 DEF Prepared, Swapping
<1>3. << >> \in Seq(Nodes) /\ Len(<< >>) = 0 /\ ToSet(<< >>) = {} /\ ToSet(s) \subseteq Nodes
  <2>1. << >> \in Seq(Nodes) /\ Len(<< >>) = 0
    BY EmptySeq
  <2>2. ToSet(<< >>) = {}
    BY DEF ToSet
  <2>3. ToSet(s) \subseteq Nodes
    BY <1>1, SetOf
  <2> QED BY <2>1, <2>2, <2>3
<1>4. h \in Head0
  BY <1>1 DEF Head0
<1>5. /\ heads' = [heads EXCEPT ![l] = h] /\ stack' = [stack EXCEPT ![l] = << >>]
      /\ held' = [held EXCEPT ![t] = @ \cup ToSet(s)]
  BY <1>1, <1>2 DEF DetachSwap, DepthCleared
<1>6. /\ heads'[l] = h /\ stack'[l] = << >>
      /\ \A k \in Lists : k # l => heads'[k] = heads[k] /\ stack'[k] = stack[k]
  BY <1>1, <1>5 DEF ListsInv, ListsTypeOK
<1>7. ListsTypeOK'
  <2>1. heads' \in [Lists -> Head0] /\ stack' \in [Lists -> Seq(Nodes)]
    BY <1>3, <1>4, <1>5 DEF ListsInv, ListsTypeOK
  <2>2. held' \in [Threads -> SUBSET Nodes]
    BY <1>3, <1>5 DEF ListsInv, ListsTypeOK
  <2>3. age' \in [Threads -> 0 .. SeqSize - 1]
    BY <1>0, SeqAssumption DEF ListsInv, ListsTypeOK
  <2> HIDE DEF h
  <2> QED BY <1>0, <2>1, <2>2, <2>3, ReturnedType
<1>8. Linked'
  <2>1. ASSUME NEW k \in Lists PROVE
          /\ heads'[k].next = First(stack'[k]) /\ heads'[k].depth = Len(stack'[k])
          /\ \A i \in 1 .. Len(stack'[k]) :
               next[stack'[k][i]] = IF i = Len(stack'[k]) THEN NULL ELSE stack'[k][i + 1]
    <3>1. CASE k = l
      BY <1>3, <1>6, <3>1 DEF First
    <3>2. CASE k # l
      BY <1>6, <3>2 DEF ListsInv, Linked
    <3> QED BY <3>1, <3>2
  <2> QED BY <1>0, <2>1 DEF Linked, First
<1>9. NodesApart'
  <2>1. /\ \A k \in Lists : ToSet(stack'[k]) \subseteq ToSet(stack[k])
        /\ ToSet(stack'[l]) = {}
    BY <1>3, <1>6
  <2>2. \A k \in Lists : \A i, j \in 1 .. Len(stack'[k]) : stack'[k][i] = stack'[k][j] => i = j
    BY <1>3, <1>6 DEF ListsInv, NodesApart
  <2>3. /\ held'[t] = held[t] \cup ToSet(s)
        /\ \A u \in Threads : u # t => held'[u] = held[u]
    BY <1>5 DEF ListsInv, ListsTypeOK
  <2>4. /\ \A j, k \in Lists : j # k => ToSet(stack[j]) \cap ToSet(stack[k]) = {}
        /\ \A u \in Threads, k \in Lists : held[u] \cap ToSet(stack[k]) = {}
        /\ \A u, w \in Threads : u # w => held[u] \cap held[w] = {}
    BY DEF ListsInv, NodesApart
  <2>5. \A j, k \in Lists : j # k => ToSet(stack'[j]) \cap ToSet(stack'[k]) = {}
    BY <2>1, <2>4
  <2>6. \A u, w \in Threads : u # w => held'[u] \cap held'[w] = {}
    BY <1>1, <2>3, <2>4
  <2>7. \A u \in Threads, k \in Lists : held'[u] \cap ToSet(stack'[k]) = {}
    BY <1>1, <2>1, <2>3, <2>4
  <2>8. \A u \in Threads : op'[u] = "push" => node'[u] \in held'[u]
    BY <1>0, <2>3 DEF ListsInv, NodesApart, ListsTypeOK, ListReturns
  <2> QED BY <2>2, <2>5, <2>6, <2>7, <2>8 DEF NodesApart
<1>10. \A u \in Threads : Fresh(u)'
  <2>1. h.seq = old[t].seq /\ ToSet(<< >>) \subseteq ToSet(stack[list[t]])
    BY <1>3
  <2> HIDE DEF h
  <2> QED BY <1>0, <1>4, <1>5, <2>1, OthersTaken
<1> QED BY <1>7, <1>8, <1>9, <1>10 DEF ListsInv

-----------------------------------------------------------------------------

\* The empty lists satisfy the invariant.
LEMMA InitListsInv == ListsInit => ListsInv
<1> SUFFICES ASSUME ListsInit PROVE ListsInv
  OBVIOUS
<1>1. << >> \in Seq(Nodes) /\ Len(<< >>) = 0 /\ ToSet(<< >>) = {}
  BY EmptySeq DEF ToSet
<1>2. ListsTypeOK
  BY <1>1, NoHeadType, SeqAssumption DEF ListsInit, ListsTypeOK
<1>3. Linked
  BY <1>1 DEF ListsInit, Linked, First, NoHead
<1>4. NodesApart
  BY <1>1 DEF ListsInit, NodesApart
<1>5. \A t \in Threads : Fresh(t)
  BY DEF ListsInit, Fresh, Words
<1> QED BY <1>2, <1>3, <1>4, <1>5 DEF ListsInv

\* Every step keeps the invariant.
LEMMA NextListsInv == ListsInv /\ [ListsNext]_listVars => ListsInv'
<1> SUFFICES ASSUME ListsInv, [ListsNext]_listVars PROVE ListsInv'
  OBVIOUS
<1>1. CASE UNCHANGED listVars
  BY <1>1 DEF listVars, shared, call, listLocal, ListsInv, ListsTypeOK, Linked, First,
    NodesApart, Fresh,
              Prepared, SeqIs
<1>2. CASE ListsNext
  <2>1. PICK t \in Threads :
          \/ \E l \in Lists : (\E n \in Nodes : Push(t, l, n)) \/ Pop(t, l) \/ Detach(t, l)
          \/ ListStep(t)
    BY <1>2 DEF ListsNext
  <2>2. ASSUME NEW l \in Lists, NEW n \in Nodes, Push(t, l, n) PROVE ListsInv'
    BY <2>2, CallsInv, NullAssumption DEF Push
  <2>3. ASSUME NEW l \in Lists, Pop(t, l) \/ Detach(t, l) PROVE ListsInv'
    BY <2>3, CallsInv DEF Pop, Detach
  <2>4. CASE ListStep(t)
    BY <2>4, ReadFirstInv, ReadStampInv, PushLinkInv, PopLinkInv, DetachLinkInv, EmptyInv,
       PushSwapInv, PopSwapInv, DetachSwapInv, RetryInv DEF ListStep
  <2> QED BY <2>1, <2>2, <2>3, <2>4
<1> QED BY <1>1, <1>2

\* The invariant always holds.
LEMMA SpecListsInv == ListsSpec => []ListsInv
  BY InitListsInv, NextListsInv, PTL DEF ListsSpec

\* The variables of the lists keep their types in every call of CTSListBase.
THEOREM SpecListsTypeOK == ListsSpec => []ListsTypeOK
  BY SpecListsInv, PTL DEF ListsInv

\* Whatever the threads do, the links of each list of CTSListBase lead through the
\* nodes that have been pushed and not been taken, and Count() is their number.
THEOREM SpecLinked == ListsSpec => []Linked
  BY SpecListsInv, PTL DEF ListsInv

\* Whatever the threads do, CTSListBase hands no node out twice and leaves none in
\* two lists.
THEOREM SpecNodesApart == ListsSpec => []NodesApart
  BY SpecListsInv, PTL DEF ListsInv

-----------------------------------------------------------------------------

\* An exchange of the head is the Push, Pop or Detach of LockFreeLists, every other
\* step changes no list.
LEMMA StepRefines == ListsInv /\ [ListsNext]_listVars => [Abstract!Next]_(Abstract!shared)
<1> SUFFICES ASSUME ListsInv, ListsNext PROVE Abstract!Next \/ UNCHANGED <<stack, held>>
  BY DEF listVars, shared, Abstract!shared
<1>1. PICK t \in Threads :
        \/ \E l \in Lists : (\E n \in Nodes : Push(t, l, n)) \/ Pop(t, l) \/ Detach(t, l)
        \/ ListStep(t)
  BY DEF ListsNext
<1>2. CASE \E l \in Lists : (\E n \in Nodes : Push(t, l, n)) \/ Pop(t, l) \/ Detach(t, l)
  BY <1>2 DEF Push, Pop, Detach, Calls, shared
<1>3. CASE ReadFirst(t) \/ ReadStamp(t) \/ PushLink(t) \/ PopLink(t) \/ DetachLink(t)
           \/ Empty(t) \/ Retry(t)
  BY <1>3 DEF ReadFirst, ReadStamp, PushLink, PopLink, DetachLink, Empty, Retry, shared
<1>4. CASE PushSwap(t)
  <2>1. Swapping(t, "push")
    BY <1>4 DEF PushSwap
  <2>2. list[t] \in Lists /\ node[t] \in Nodes /\ node[t] \in held[t]
    BY <2>1, SwapAt DEF Swapping, ListsInv, ListsTypeOK, NodesApart
  <2>3. Abstract!Push(t, list[t], node[t])
    BY <1>4, <2>2 DEF PushSwap, Abstract!Push
  <2> QED BY <2>2, <2>3 DEF Abstract!Next
<1>5. CASE PopSwap(t)
  <2> DEFINE s == stack[list[t]]
  <2>1. Swapping(t, "pop")
    BY <1>5 DEF PopSwap
  <2>2. list[t] \in Lists /\ s \in Seq(Nodes) /\ s # << >> /\ old[t].next = s[1]
    BY <2>1, SwapAt, PopAt
  <2>3. SubSeq(s, 2, Len(s)) = Tail(s) /\ s[1] = Head(s)
    BY <2>2, PoppedSeq
  <2>4. /\ stack' = [stack EXCEPT ![list[t]] = Tail(@)]
        /\ held' = [held EXCEPT ![t] = @ \cup {Head(s)}]
    BY <1>5, <2>2, <2>3 DEF PopSwap, ListsInv, ListsTypeOK
  <2>5. Abstract!Pop(t, list[t])
    BY <2>2, <2>4 DEF Abstract!Pop
  <2> QED BY <2>2, <2>5 DEF Abstract!Next
<1>6. CASE DetachSwap(t)
  <2>1. list[t] \in Lists
    BY <1>6, SwapAt DEF DetachSwap
  <2>2. Abstract!Detach(t, list[t])
    BY <1>6 DEF DetachSwap, Abstract!Detach, ToSet, Abstract!ToSet
  <2> QED BY <2>1, <2>2 DEF Abstract!Next
<1> QED BY <1>1, <1>2, <1>3, <1>4, <1>5, <1>6 DEF ListStep

\* Each Push, Pop and Detach of CTSListBase takes effect at one moment, on the nodes
\* the list then has: the lists implement LockFreeLists.
THEOREM SpecImplementsLists == ListsSpec => ImplementsLists
<1>1. ListsInit => Abstract!Init
  BY DEF ListsInit, Abstract!Init
<1> QED BY <1>1, SpecListsInv, StepRefines, PTL DEF ListsSpec, ImplementsLists,
  Abstract!Spec


-----------------------------------------------------------------------------
(* The queue: sequences of nodes.                                          *)

\* x is in s.
In(s, x) == \E k \in 1 .. Len(s) : s[k] = x

\* The links f lead along s to End(), and meet no node twice.
Along(f, s) ==
  /\ s \in Seq(Nodes) /\ Len(s) # 0
  /\ \A j, k \in 1 .. Len(s) : s[j] = s[k] => j = k
  /\ \A k \in 1 .. Len(s) : f[s[k]] = IF k = Len(s) THEN END ELSE s[k + 1]

\* A set of natural numbers that has a member has a least one.
LEMMA LeastNumber ==
  ASSUME NEW T \in SUBSET Nat, T # {}
  PROVE  \E n \in T : \A m \in T : n <= m
<1>1. IsWellFoundedOn(OpToRel(<, Nat), Nat)
  BY NatLessThanWellFounded
<1> DEFINE R == OpToRel(<, Nat)
<1> HIDE DEF R
<1>2. IsWellFoundedOn(R, Nat)
  BY <1>1 DEF R
<1>3. \E x \in T : \A y \in T : ~ (<<y, x>> \in R)
  BY <1>2, WFMin
<1>4. \A x, y \in Nat : <<y, x>> \in R <=> y < x
  BY DEF R, OpToRel
<1>5. PICK n \in T : \A m \in T : ~ (<<m, n>> \in R)
  BY <1>3
<1>6. \A m \in T : n <= m
  <2> SUFFICES ASSUME NEW m \in T PROVE n <= m
    OBVIOUS
  <2>1. n \in Nat /\ m \in Nat
    OBVIOUS
  <2>2. ~ (m < n)
    BY <1>4, <1>5, <2>1
  <2> QED BY <2>1, <2>2
<1> QED BY <1>6

\* at is what the recursive definition in Walk describes.
Follows(at, f, first) ==
  at = [k \in 1 .. Cardinality(Nodes) |->
          IF k = 1 THEN first ELSE IF at[k - 1] \in Nodes THEN f[at[k - 1]] ELSE END]

\* The function with which Walk follows the links is the one that Follows
\* describes.
LEMMA WalkFollows ==
  ASSUME NEW f, NEW first, NEW w, Follows(w, f, first)
  PROVE  \E at : /\ Follows(at, f, first)
                 /\ Walk(f, first) =
                      [k \in 1 .. Cardinality({i \in 1 .. Cardinality(Nodes) : at[i] \in Nodes})
                         |-> at[k]]
<1> DEFINE at == CHOOSE g : g = [k \in 1 .. Cardinality(Nodes) |->
                   IF k = 1 THEN first ELSE IF g[k - 1] \in Nodes THEN f[g[k - 1]] ELSE END]
<1>1. Follows(at, f, first)
  BY DEF Follows
<1>2. Walk(f, first) = [k \in 1 .. Cardinality({i \in 1 .. Cardinality(Nodes) : at[i] \in Nodes})
                          |-> at[k]]
  BY DEF Walk
<1> QED BY <1>1, <1>2

\* A walk along s meets s.
LEMMA WalkAlong ==
  ASSUME NEW f, NEW s, Along(f, s)
  PROVE  Walk(f, s[1]) = s
<1> DEFINE N == Cardinality(Nodes)
           m == Len(s)
           w == [k \in 1 .. N |-> IF k <= m THEN s[k] ELSE END]
<1>1. /\ N \in Nat /\ m \in Nat /\ m # 0 /\ s \in [1 .. m -> Nodes]
      /\ \A k \in 1 .. m : f[s[k]] = IF k = m THEN END ELSE s[k + 1]
      /\ \A j, k \in 1 .. m : s[j] = s[k] => j = k
  <2>1. N \in Nat
    BY FiniteAssumption, FS_CardinalityType
  <2>2. s \in Seq(Nodes)
    BY DEF Along
  <2> QED BY <2>1, <2>2 DEF Along
<1>2. m <= N /\ 1 <= N
  <2>1. s \in Injection(1 .. m, Nodes)
    <3>1. s \in [1 .. m -> Nodes] /\ \A j, k \in 1 .. m : s[j] = s[k] => j = k
      BY <1>1
    <3> HIDE DEF m
    <3> QED BY <3>1 DEF Injection, IsInjective
  <2>2. IsFiniteSet(1 .. m) /\ Cardinality(1 .. m) = m
    <3>1. m \in Nat
      BY <1>1
    <3> HIDE DEF m
    <3> QED BY <3>1, FS_Interval
  <2>3. m <= N
    <3>1. IsFiniteSet(Nodes)
      BY FiniteAssumption
    <3> HIDE DEF m
    <3>2. IsFiniteSet(1 .. m) /\ Cardinality(1 .. m) <= Cardinality(Nodes)
      BY <2>1, <3>1, FS_Injection
    <3> QED BY <2>2, <3>2
  <2>4. N \in Nat /\ m \in Nat /\ m # 0
    BY <1>1
  <2> HIDE DEF m, N
  <2> QED BY <2>3, <2>4
<1> HIDE DEF m, N
<1>3. ASSUME NEW k \in 2 .. N
      PROVE  w[k] = IF w[k - 1] \in Nodes THEN f[w[k - 1]] ELSE END
  <2>1. k - 1 \in 1 .. N /\ k \in 1 .. N
    BY <1>1
  <2>2. CASE k - 1 <= m
    <3>1. w[k - 1] = s[k - 1] /\ k - 1 \in 1 .. m
      BY <1>1, <2>1, <2>2
    <3>2. f[s[k - 1]] = IF k - 1 = m THEN END ELSE s[k - 1 + 1]
      BY <1>1, <3>1
    <3>3. k - 1 = m <=> ~(k <= m)
      BY <1>1, <2>2
    <3>4. k - 1 + 1 = k /\ w[k] = IF k <= m THEN s[k] ELSE END
      BY <1>1, <2>1
    <3>5. s[k - 1] \in Nodes
      BY <1>1, <3>1
    <3> HIDE DEF w
    <3> QED BY <3>1, <3>2, <3>3, <3>4, <3>5
  <2>3. CASE ~(k - 1 <= m)
    <3>1. w[k - 1] = END /\ w[k] = END
      BY <1>1, <2>1, <2>3
    <3> QED BY <3>1, NullAssumption, EndAssumption
  <2> QED BY <2>2, <2>3
<1>4. w[1] = s[1] /\ DOMAIN w = 1 .. N
  BY <1>1, <1>2
<1>5. Follows(w, f, s[1])
  <2> DEFINE v == [k \in 1 .. N |-> IF k = 1 THEN s[1]
                                    ELSE IF w[k - 1] \in Nodes THEN f[w[k - 1]] ELSE END]
  <2>1. ASSUME NEW k \in 1 .. N PROVE w[k] = v[k]
    <3>1. CASE k = 1
      BY <1>4, <3>1
    <3>2. CASE k # 1
      <4>1. k \in 2 .. N
        BY <1>1, <3>2
      <4> HIDE DEF w
      <4> QED BY <1>3, <3>2, <4>1
    <3> QED BY <3>1, <3>2
  <2>2. w = v
    BY <2>1
  <2> HIDE DEF w
  <2> QED BY <2>2 DEF Follows, N
<1> HIDE DEF w
<1>6. PICK at : /\ Follows(at, f, s[1])
                /\ Walk(f, s[1]) =
                     [k \in 1 .. Cardinality({i \in 1 .. N : at[i] \in Nodes}) |-> at[k]]
  BY <1>5, WalkFollows DEF N
<1>7. ASSUME NEW k \in 1 .. N PROVE at[k] = w[k]
  <2> SUFFICES ASSUME at[k] # w[k] PROVE FALSE
    OBVIOUS
  <2> DEFINE T == {i \in 1 .. N : at[i] # w[i]}
  <2>1. T \in SUBSET Nat /\ T # {}
    BY <1>1
  <2>2. PICK n \in T : \A i \in T : n <= i
    BY <2>1, LeastNumber
  <2>3. /\ at[1] = s[1]
        /\ \A i \in 2 .. N : at[i] = IF at[i - 1] \in Nodes THEN f[at[i - 1]] ELSE END
    <3>1. at = [i \in 1 .. N |-> IF i = 1 THEN s[1]
                                 ELSE IF at[i - 1] \in Nodes THEN f[at[i - 1]] ELSE END]
      BY <1>6 DEF Follows, N
    <3>2. 1 \in 1 .. N /\ \A i \in 2 .. N : i \in 1 .. N /\ i # 1
      BY <1>1, <1>2
    <3> QED BY <3>1, <3>2
  <2>4. n # 1
    BY <1>4, <2>3
  <2>5. n \in 2 .. N /\ n - 1 \in 1 .. N /\ ~(n <= n - 1)
    BY <1>1, <2>4
  <2>6. at[n - 1] = w[n - 1]
    BY <2>2, <2>5
  <2> QED BY <1>3, <2>3, <2>5, <2>6
<1>8. {i \in 1 .. N : at[i] \in Nodes} = 1 .. m
  <2>1. \A i \in 1 .. N : w[i] \in Nodes <=> i <= m
    <3>1. \A i \in 1 .. N : i <= m => w[i] = s[i] /\ i \in 1 .. m
      BY <1>1 DEF w
    <3>2. \A i \in 1 .. N : ~(i <= m) => w[i] = END
      BY <1>1 DEF w
    <3> QED BY <1>1, <3>1, <3>2, NullAssumption, EndAssumption
  <2>2. \A i \in 1 .. N : at[i] \in Nodes <=> i <= m
    BY <1>7, <2>1
  <2>3. \A i \in 1 .. m : i \in 1 .. N /\ i <= m
    BY <1>1, <1>2
  <2>4. \A i \in 1 .. N : i <= m => i \in 1 .. m
    BY <1>1
  <2> QED BY <2>2, <2>3, <2>4
<1>9. Cardinality(1 .. m) = m
  <2>1. m \in Nat
    BY <1>1
  <2> QED BY <2>1, FS_Interval
<1>10. \A k \in 1 .. m : at[k] = s[k]
  <2>1. \A k \in 1 .. m : k \in 1 .. N /\ w[k] = s[k]
    BY <1>1, <1>2 DEF w
  <2> QED BY <1>7, <2>1
<1>11. Walk(f, s[1]) = [k \in 1 .. m |-> at[k]]
  BY <1>6, <1>8, <1>9
<1>12. s = [k \in 1 .. m |-> s[k]]
  BY <1>1
<1> QED BY <1>10, <1>11, <1>12

\* Two sequences in a row.
LEMMA Joined ==
  ASSUME NEW S, NEW s \in Seq(S), NEW r \in Seq(S)
  PROVE  /\ s \o r \in Seq(S) /\ Len(s \o r) = Len(s) + Len(r)
         /\ \A k \in 1 .. Len(s) : (s \o r)[k] = s[k]
         /\ \A k \in 1 .. Len(r) : (s \o r)[Len(s) + k] = r[k]
         /\ \A x : In(s \o r, x) <=> In(s, x) \/ In(r, x)
<1> DEFINE b == s \o r
           m == Len(s)
           n == Len(r)
<1>1. /\ b \in Seq(S) /\ Len(b) = m + n /\ m \in Nat /\ n \in Nat
      /\ \A k \in 1 .. m + n : b[k] = IF k <= m THEN s[k] ELSE r[k - m]
  <2>1. b \in Seq(S) /\ Len(b) = m + n
    OBVIOUS
  <2>2. m \in Nat /\ n \in Nat
    OBVIOUS
  <2>3. \A k \in 1 .. m + n : b[k] = IF k <= m THEN s[k] ELSE r[k - m]
    OBVIOUS
  <2> QED BY <2>1, <2>2, <2>3
<1> HIDE DEF b, m, n
<1>2. \A k \in 1 .. m : k \in 1 .. m + n /\ b[k] = s[k]
  BY <1>1
<1>3. \A k \in 1 .. n : m + k \in 1 .. m + n /\ b[m + k] = r[k]
  <2> SUFFICES ASSUME NEW k \in 1 .. n PROVE m + k \in 1 .. m + n /\ b[m + k] = r[k]
    OBVIOUS
  <2>1. m + k \in 1 .. m + n /\ ~(m + k <= m) /\ (m + k) - m = k
    BY <1>1
  <2> QED BY <1>1, <2>1
<1>4. \A k \in 1 .. m + n : k \in 1 .. m \/ (k - m \in 1 .. n /\ m + (k - m) = k)
  BY <1>1
<1>5. ASSUME NEW x
      PROVE  (\E k \in 1 .. m + n : b[k] = x) <=>
               (\E k \in 1 .. m : s[k] = x) \/ (\E k \in 1 .. n : r[k] = x)
  <2>1. ASSUME NEW k \in 1 .. m + n, b[k] = x
        PROVE  (\E j \in 1 .. m : s[j] = x) \/ (\E j \in 1 .. n : r[j] = x)
    <3>1. CASE k \in 1 .. m
      BY <1>2, <2>1, <3>1
    <3>2. CASE k - m \in 1 .. n /\ m + (k - m) = k
      BY <1>3, <2>1, <3>2
    <3> QED BY <1>4, <3>1, <3>2
  <2> QED BY <1>2, <1>3, <2>1
<1>6. \A x : In(b, x) <=> In(s, x) \/ In(r, x)
  BY <1>1, <1>5 DEF In, m, n
<1> QED BY <1>1, <1>2, <1>3, <1>6 DEF b, m, n

\* What In and Along say of the last and the next node.
LEMMA AlongFacts ==
  ASSUME NEW f, NEW s, Along(f, s)
  PROVE  /\ s \in Seq(Nodes) /\ Len(s) \in Nat /\ 1 \in 1 .. Len(s) /\ Len(s) \in 1 .. Len(s)
         /\ \A k \in 1 .. Len(s) : s[k] \in Nodes
         /\ In(s, s[1]) /\ In(s, s[Len(s)])
         /\ f[s[Len(s)]] = END
         /\ \A n \in Nodes : In(s, n) /\ f[n] = END => n = s[Len(s)]
         /\ \A n \in Nodes : In(s, n) /\ f[n] # END =>
              f[n] \in Nodes /\ In(s, f[n]) /\ f[n] # s[1]
<1>1. s \in Seq(Nodes) /\ Len(s) # 0
  BY DEF Along
<1> DEFINE m == Len(s)
<1>2. m \in Nat /\ m # 0 /\ \A k \in 1 .. m : s[k] \in Nodes
  BY <1>1
<1>3. /\ \A j, k \in 1 .. m : s[j] = s[k] => j = k
      /\ \A k \in 1 .. m : f[s[k]] = IF k = m THEN END ELSE s[k + 1]
  BY DEF Along
<1> HIDE DEF m
<1>4. 1 \in 1 .. m /\ m \in 1 .. m /\ \A k \in 1 .. m : k # m => k + 1 \in 1 .. m /\ k + 1 # 1
  BY <1>2
<1>5. f[s[m]] = END
  BY <1>3, <1>4
<1>6. ASSUME NEW n \in Nodes, In(s, n) PROVE (f[n] = END => n = s[m])
                                  /\ (f[n] # END => f[n] \in Nodes /\ In(s, f[n]) /\ f[n] # s[1])
  <2>1. PICK k \in 1 .. m : s[k] = n
    BY <1>6 DEF In, m
  <2>2. CASE k = m
    BY <1>5, <2>1, <2>2
  <2>3. CASE k # m
    <3>1. k + 1 \in 1 .. m /\ f[n] = s[k + 1] /\ k + 1 # 1
      BY <1>3, <1>4, <2>1, <2>3
    <3>2. f[n] \in Nodes /\ In(s, f[n]) /\ f[n] # s[1]
      BY <1>2, <1>3, <1>4, <3>1 DEF In, m
    <3> QED BY <3>2, NullAssumption, EndAssumption
  <2> QED BY <2>2, <2>3
<1>7. In(s, s[1]) /\ In(s, s[m])
  BY <1>4 DEF In, m
<1> QED BY <1>1, <1>2, <1>4, <1>5, <1>6, <1>7 DEF m

\* The links f and g are the same on s.
Agree(f, g, s) == \A n \in Nodes : In(s, n) => g[n] = f[n]

\* Links that agree on the nodes of s lead along it, too.
LEMMA AlongKept ==
  ASSUME NEW f, NEW g, NEW s, Along(f, s), Agree(f, g, s)
  PROVE  Along(g, s)
<1>1. \A k \in 1 .. Len(s) : s[k] \in Nodes /\ In(s, s[k])
  BY AlongFacts DEF In
<1>2. \A k \in 1 .. Len(s) : g[s[k]] = f[s[k]]
  BY <1>1 DEF Agree
<1> QED BY <1>2 DEF Along

\* A node alone.
LEMMA AlongOne ==
  ASSUME NEW f, NEW n \in Nodes, f[n] = END
  PROVE  Along(f, <<n>>) /\ \A x : In(<<n>>, x) <=> x = n
<1> DEFINE s == <<n>>
<1>1. s \in Seq(Nodes) /\ Len(s) = 1 /\ s[1] = n /\ \A k \in 1 .. 1 : k = 1
  OBVIOUS
<1> HIDE DEF s
<1> QED BY <1>1 DEF Along, In, s

\* The end of s linked to the beginning of r.
LEMMA AlongJoined ==
  ASSUME NEW f \in [Nodes -> Nodes \cup {NULL, END}], NEW s, NEW r, Along(f, s), Along(f, r),
         \A n \in Nodes : ~(In(s, n) /\ In(r, n))
  PROVE  Along([f EXCEPT ![s[Len(s)]] = r[1]], s \o r)
<1> DEFINE m == Len(s)
           n == Len(r)
           b == s \o r
           g == [f EXCEPT ![s[Len(s)]] = r[1]]
<1>1. /\ m \in Nat /\ n \in Nat /\ m # 0 /\ n # 0 /\ s \in Seq(Nodes) /\ r \in Seq(Nodes)
      /\ \A j, k \in 1 .. m : s[j] = s[k] => j = k
      /\ \A j, k \in 1 .. n : r[j] = r[k] => j = k
      /\ \A k \in 1 .. m : f[s[k]] = IF k = m THEN END ELSE s[k + 1]
      /\ \A k \in 1 .. n : f[r[k]] = IF k = n THEN END ELSE r[k + 1]
  <2>1. s \in Seq(Nodes) /\ r \in Seq(Nodes)
    BY DEF Along
  <2>2. m \in Nat /\ n \in Nat
    BY <2>1
  <2> QED BY <2>1, <2>2 DEF Along
<1>2. /\ b \in Seq(Nodes) /\ Len(b) = m + n
      /\ \A k \in 1 .. m : b[k] = s[k]
      /\ \A k \in 1 .. n : b[m + k] = r[k]
  BY <1>1, Joined
<1>3. \A j \in 1 .. m, k \in 1 .. n : s[j] # r[k] /\ s[j] \in Nodes /\ r[k] \in Nodes
  <2>1. \A j \in 1 .. m : s[j] \in Nodes
    BY <1>1
  <2>2. \A k \in 1 .. n : r[k] \in Nodes
    BY <1>1
  <2> QED BY <2>1, <2>2 DEF In
<1>4. \A x \in Nodes : g[x] = IF x = s[m] THEN r[1] ELSE f[x]
  OBVIOUS
<1> HIDE DEF m, n, b, g
<1>5. \A k \in 1 .. m + n : k \in 1 .. m \/ (k - m \in 1 .. n /\ b[k] = r[k - m])
  <2> SUFFICES ASSUME NEW k \in 1 .. m + n, ~(k \in 1 .. m)
               PROVE  k - m \in 1 .. n /\ b[k] = r[k - m]
    OBVIOUS
  <2>1. k - m \in 1 .. n /\ m + (k - m) = k
    BY <1>1
  <2> QED BY <1>2, <2>1
<1>6. ASSUME NEW j \in 1 .. m + n, NEW k \in 1 .. m + n, b[j] = b[k] PROVE j = k
  <2>1. CASE j \in 1 .. m /\ k \in 1 .. m
    BY <1>1, <1>2, <1>6, <2>1
  <2>2. CASE j \in 1 .. m /\ ~(k \in 1 .. m)
    BY <1>2, <1>3, <1>5, <1>6, <2>2
  <2>3. CASE ~(j \in 1 .. m) /\ k \in 1 .. m
    BY <1>2, <1>3, <1>5, <1>6, <2>3
  <2>4. CASE ~(j \in 1 .. m) /\ ~(k \in 1 .. m)
    <3>1. j - m \in 1 .. n /\ k - m \in 1 .. n /\ r[j - m] = r[k - m]
      BY <1>5, <1>6, <2>4
    <3>2. j - m = k - m
      BY <1>1, <3>1
    <3> QED BY <1>1, <3>2
  <2> QED BY <2>1, <2>2, <2>3, <2>4
<1>7. ASSUME NEW k \in 1 .. m + n PROVE g[b[k]] = IF k = m + n THEN END ELSE b[k + 1]
  <2>1. CASE k \in 1 .. m /\ k = m
    <3>1. k # m + n /\ 1 \in 1 .. n /\ m \in 1 .. m
      BY <1>1, <2>1
    <3>2. b[k] = s[m] /\ s[m] \in Nodes /\ b[k + 1] = r[1]
      BY <1>2, <1>3, <2>1, <3>1
    <3> QED BY <1>4, <3>1, <3>2
  <2>2. CASE k \in 1 .. m /\ k # m
    <3>1. k # m + n /\ k + 1 \in 1 .. m /\ m \in 1 .. m /\ 1 \in 1 .. n
      BY <1>1, <2>2
    <3>2. b[k] = s[k] /\ s[k] \in Nodes /\ b[k + 1] = s[k + 1] /\ s[k] # s[m]
      BY <1>1, <1>2, <1>3, <2>2, <3>1
    <3>3. g[b[k]] = f[s[k]]
      BY <1>4, <3>2
    <3> QED BY <1>1, <2>2, <3>1, <3>2, <3>3
  <2>3. CASE ~(k \in 1 .. m)
    <3> DEFINE j == k - m
    <3>1. j \in 1 .. n /\ b[k] = r[j] /\ m \in 1 .. m
      BY <1>1, <1>5, <2>3
    <3>2. k = m + j /\ k + 1 = m + (j + 1) /\ (k = m + n <=> j = n)
      BY <1>1
    <3> HIDE DEF j
    <3>3. r[j] \in Nodes /\ r[j] # s[m]
      BY <1>3, <3>1
    <3>4. g[b[k]] = f[r[j]]
      BY <1>4, <3>1, <3>3
    <3>5. j # n => j + 1 \in 1 .. n
      BY <1>1, <3>1
    <3>6. j # n => b[k + 1] = r[j + 1]
      BY <1>2, <3>2, <3>5
    <3> QED BY <1>1, <3>1, <3>2, <3>4, <3>6
  <2> QED BY <2>1, <2>2, <2>3
<1>8. m + n # 0
  BY <1>1
<1>9. Along(g, b)
  BY <1>2, <1>6, <1>7, <1>8 DEF Along
<1> QED BY <1>9 DEF g, b, m

\* All but the first of at least two.
LEMMA AlongTail ==
  ASSUME NEW f, NEW s, Along(f, s), Len(s) # 1
  PROVE  /\ Along(f, Tail(s)) /\ Tail(s)[1] = f[s[1]] /\ f[s[1]] = s[2] /\ f[s[1]] \in Nodes
         /\ Len(Tail(s)) = Len(s) - 1 /\ \A k \in 1 .. Len(s) - 1 : Tail(s)[k] = s[k + 1]
         /\ \A x : In(Tail(s), x) <=> In(s, x) /\ x # s[1]
<1> DEFINE m == Len(s)
           b == Tail(s)
<1>1. /\ m \in Nat /\ m # 0 /\ m # 1 /\ s \in Seq(Nodes)
      /\ \A j, k \in 1 .. m : s[j] = s[k] => j = k
      /\ \A k \in 1 .. m : f[s[k]] = IF k = m THEN END ELSE s[k + 1]
      /\ \A k \in 1 .. m : s[k] \in Nodes
  <2>1. s \in Seq(Nodes) /\ m # 0
    BY DEF Along
  <2>2. m \in Nat /\ \A k \in 1 .. m : s[k] \in Nodes
    BY <2>1
  <2> QED BY <2>1, <2>2 DEF Along
<1>2. b \in Seq(Nodes) /\ Len(b) = m - 1 /\ \A k \in 1 .. m - 1 : b[k] = s[k + 1]
  <2>1. s \in Seq(Nodes) /\ s # << >>
    BY <1>1
  <2> QED BY <2>1, HeadTailProperties
<1> HIDE DEF m, b
<1>3. \A k \in 1 .. m - 1 : k + 1 \in 1 .. m /\ k + 1 # 1
  BY <1>1
<1>4. 1 \in 1 .. m - 1 /\ 1 \in 1 .. m /\ b[1] = s[2] /\ f[s[1]] = s[2] /\ s[2] \in Nodes
  <2>1. 1 \in 1 .. m - 1 /\ 1 \in 1 .. m /\ 1 + 1 = 2 /\ 2 \in 1 .. m
    BY <1>1
  <2> QED BY <1>1, <1>2, <2>1
<1>5. ASSUME NEW j \in 1 .. m - 1, NEW k \in 1 .. m - 1, b[j] = b[k] PROVE j = k
  <2>1. j + 1 = k + 1
    BY <1>1, <1>2, <1>3, <1>5
  <2> QED BY <1>1, <2>1
<1>6. ASSUME NEW k \in 1 .. m - 1 PROVE f[b[k]] = IF k = m - 1 THEN END ELSE b[k + 1]
  <2>1. f[b[k]] = IF k + 1 = m THEN END ELSE s[(k + 1) + 1]
    BY <1>1, <1>2, <1>3
  <2>2. m \in Nat /\ k \in Nat /\ k >= 1 /\ k <= m - 1
    BY <1>1
  <2>3. (k + 1 = m <=> k = m - 1) /\ (k # m - 1 => k + 1 \in 1 .. m - 1)
    BY <2>2
  <2> QED BY <1>2, <2>1, <2>3
<1>7. ASSUME NEW x
      PROVE  (\E k \in 1 .. m - 1 : b[k] = x) <=> (\E k \in 1 .. m : s[k] = x) /\ x # s[1]
  <2>1. ASSUME NEW k \in 1 .. m - 1, b[k] = x PROVE (\E j \in 1 .. m : s[j] = x) /\ x # s[1]
    BY <1>1, <1>2, <1>3, <1>4, <2>1
  <2>2. ASSUME NEW k \in 1 .. m, s[k] = x, x # s[1] PROVE \E j \in 1 .. m - 1 : b[j] = x
    <3>1. k # 1
      BY <2>2
    <3>2. k - 1 \in 1 .. m - 1 /\ (k - 1) + 1 = k
      BY <1>1, <3>1
    <3> QED BY <1>2, <2>2, <3>2
  <2> QED BY <2>1, <2>2
<1>8. \A x : In(b, x) <=> In(s, x) /\ x # s[1]
  BY <1>2, <1>7 DEF In, m
<1>9. m - 1 # 0
  BY <1>1
<1>10. Along(f, b)
  BY <1>2, <1>5, <1>6, <1>9 DEF Along
<1> QED BY <1>2, <1>4, <1>8, <1>10 DEF b, m

-----------------------------------------------------------------------------
(* Where the nodes are.                                                    *)

\* A push whose node is not linked yet; a pop that has taken the old dummy.
Pusher(t) == pc[t] \in PushPoints
Popped(t) == pc[t] = "countDown"

\* The places where a node may be.
InChain == <<"queue", NULL>>
Free == <<"free", NULL>>
New == <<"new", NULL>>
Of(t) == <<"thread", t>>

\* The queue is c. rows[t] is what the call of t holds: a push its node with what
\* others have linked to it, a pop that has succeeded the old dummy.
Layout(c, rows, place) ==
  /\ Along(pNext, c) /\ c[1] = head.node /\ In(c, tail.node)
  /\ \A n \in Nodes : place[n] \in {InChain, Free, New} \cup {Of(t) : t \in Threads}
  /\ \A n \in Nodes : In(c, n) <=> place[n] = InChain
  /\ \A n \in Nodes : n \in free <=> place[n] = Free
  /\ \A n \in Nodes : n \in unused <=> place[n] = New
  /\ \A n \in free \cup unused : pNext[n] # END
  /\ \A t \in Threads : \A n \in Nodes : In(rows[t], n) <=> place[n] = Of(t)
  /\ \A t \in Threads : Pusher(t) => Along(pNext, rows[t]) /\ rows[t][1] = own[t]
  /\ \A t \in Threads : Popped(t) => /\ rows[t] = <<own[t]>> /\ own[t] \in Nodes
                                     /\ pNext[own[t]] # END
  /\ \A t \in Threads : ~Pusher(t) /\ ~Popped(t) => rows[t] = << >>

\* A node is in one place.
LEMMA PlacesDiffer ==
  /\ InChain # Free /\ InChain # New /\ Free # New
  /\ \A t : Of(t) # InChain /\ Of(t) # Free /\ Of(t) # New
  /\ \A t, u : Of(t) = Of(u) => t = u
BY DEF InChain, Free, New, Of

\* Nothing is in an empty sequence.
LEMMA NothingIn == \A x : ~In(<< >>, x)
BY DEF In

\* What is in a sequence of one node.
LEMMA AlongOneIn == \A n, x : In(<<n>>, x) <=> x = n
<1> SUFFICES ASSUME NEW n, NEW x PROVE In(<<n>>, x) <=> x = n
  OBVIOUS
<1>1. Len(<<n>>) = 1 /\ <<n>>[1] = n /\ \A k \in 1 .. 1 : k = 1
  OBVIOUS
<1> QED BY <1>1 DEF In

\* Steps that move no node keep the places.
LEMMA LayoutKept ==
  ASSUME NEW c, NEW rows, NEW place, Layout(c, rows, place),
         UNCHANGED <<head, pNext, free, unused>>, In(c, tail'.node),
         \A u \in Threads : (Pusher(u)' <=> Pusher(u)) /\ (Popped(u)' <=> Popped(u)),
         \A u \in Threads : Pusher(u) \/ Popped(u) => own'[u] = own[u]
  PROVE  Layout(c, rows, place)'
<1>1. /\ Along(pNext', c) /\ c[1] = head'.node
      /\ \A n \in Nodes : place[n] \in {InChain, Free, New} \cup {Of(t) : t \in Threads}
      /\ \A n \in Nodes : In(c, n) <=> place[n] = InChain
      /\ \A n \in Nodes : n \in free' <=> place[n] = Free
      /\ \A n \in Nodes : n \in unused' <=> place[n] = New
      /\ \A n \in free' \cup unused' : pNext'[n] # END
      /\ \A t \in Threads : \A n \in Nodes : In(rows[t], n) <=> place[n] = Of(t)
  BY DEF Layout
<1>2. \A t \in Threads : Pusher(t)' => Along(pNext', rows[t]) /\ rows[t][1] = own'[t]
  BY DEF Layout
<1>3. \A t \in Threads : Popped(t)' => /\ rows[t] = <<own'[t]>> /\ own'[t] \in Nodes
                                       /\ pNext'[own'[t]] # END
  BY DEF Layout
<1>4. \A t \in Threads : ~Pusher(t)' /\ ~Popped(t)' => rows[t] = << >>
  BY DEF Layout
<1> QED BY <1>1, <1>2, <1>3, <1>4 DEF Layout

\* A push takes a node that is in no use.
LEMMA LayoutPushed ==
  ASSUME NEW c, NEW rows, NEW place, Layout(c, rows, place), TypeOK,
         NEW t \in Threads, pc[t] = "idle", NEW n \in free \cup unused,
         pc' = [pc EXCEPT ![t] = "readTail"], own' = [own EXCEPT ![t] = n],
         pNext' = [pNext EXCEPT ![n] = END],
         free' = free \ {n}, unused' = unused \ {n}, UNCHANGED <<head, tail>>,
         NEW r2, \A u \in Threads : r2[u] = IF u = t THEN <<n>> ELSE rows[u],
         NEW p2, \A m \in Nodes : p2[m] = IF m = n THEN Of(t) ELSE place[m]
  PROVE  Layout(c, r2, p2)'
<1> USE PlacesDiffer
<1>1. n \in Nodes /\ (place[n] = Free \/ place[n] = New)
  BY DEF TypeOK, Layout
<1>2. \A m \in Nodes : pNext'[m] = IF m = n THEN END ELSE pNext[m]
  BY DEF TypeOK
<1>3. ~Pusher(t) /\ ~Popped(t) /\ Pusher(t)' /\ ~Popped(t)'
  BY DEF Pusher, Popped, PushPoints, TypeOK
<1>4. \A u \in Threads : u # t => /\ Pusher(u)' <=> Pusher(u)
                                  /\ Popped(u)' <=> Popped(u)
                                  /\ own'[u] = own[u]
  BY DEF Pusher, Popped, TypeOK
<1>5. own'[t] = n
  BY DEF TypeOK
<1>6. rows[t] = << >> /\ \A m \in Nodes : place[m] # Of(t)
  BY <1>3, NothingIn DEF Layout
<1>7. ~In(c, n) /\ \A u \in Threads : ~In(rows[u], n)
  BY <1>1 DEF Layout
<1>8. /\ Along(pNext', c) /\ c[1] = head'.node /\ In(c, tail'.node)
  <2>1. Along(pNext, c)
    BY DEF Layout
  <2>2. Agree(pNext, pNext', c)
    BY <1>2, <1>7 DEF Agree
  <2>3. Along(pNext', c)
    BY <2>1, <2>2, AlongKept
  <2> QED BY <2>3 DEF Layout
<1>9. /\ \A m \in Nodes : p2[m] \in {InChain, Free, New} \cup {Of(u) : u \in Threads}
      /\ \A m \in Nodes : In(c, m) <=> p2[m] = InChain
      /\ \A m \in Nodes : m \in free' <=> p2[m] = Free
      /\ \A m \in Nodes : m \in unused' <=> p2[m] = New
  BY <1>1, <1>7 DEF Layout
<1>10. \A m \in free' \cup unused' : pNext'[m] # END
  BY <1>2 DEF Layout, TypeOK
<1>11. Along(pNext', <<n>>) /\ \A x : In(<<n>>, x) <=> x = n
  BY <1>1, <1>2, AlongOne
<1>12. \A u \in Threads : \A m \in Nodes : In(r2[u], m) <=> p2[m] = Of(u)
  <2> SUFFICES ASSUME NEW u \in Threads, NEW m \in Nodes PROVE In(r2[u], m) <=> p2[m] = Of(u)
    OBVIOUS
  <2>1. CASE u = t
    BY <1>6, <1>11, <2>1
  <2>2. CASE u # t
    BY <1>1, <1>7, <2>2 DEF Layout
  <2> QED BY <2>1, <2>2
<1>13. ASSUME NEW u \in Threads, Pusher(u)'
       PROVE  Along(pNext', r2[u]) /\ r2[u][1] = own'[u]
  <2>1. CASE u = t
    BY <1>5, <1>11, <2>1
  <2>2. CASE u # t
    <3>1. Along(pNext, rows[u]) /\ rows[u][1] = own[u]
      BY <1>4, <1>13, <2>2 DEF Layout
    <3>2. Agree(pNext, pNext', rows[u])
      BY <1>2, <1>7 DEF Agree
    <3>3. Along(pNext', rows[u])
      BY <3>1, <3>2, AlongKept
    <3> QED BY <1>4, <2>2, <3>1, <3>3
  <2> QED BY <2>1, <2>2
<1>14. \A u \in Threads : Popped(u)' => /\ r2[u] = <<own'[u]>> /\ own'[u] \in Nodes
                                        /\ pNext'[own'[u]] # END
  <2> SUFFICES ASSUME NEW u \in Threads, Popped(u)'
               PROVE  r2[u] = <<own'[u]>> /\ own'[u] \in Nodes /\ pNext'[own'[u]] # END
    OBVIOUS
  <2>1. u # t /\ Popped(u) /\ own'[u] = own[u]
    BY <1>3, <1>4
  <2>2. rows[u] = <<own[u]>> /\ own[u] \in Nodes /\ pNext[own[u]] # END
    BY <2>1 DEF Layout
  <2>3. own[u] # n
    <3>1. In(rows[u], own[u]) /\ ~In(rows[u], n)
      BY <1>7, <2>2, AlongOneIn
    <3> QED BY <3>1
  <2> QED BY <1>2, <2>1, <2>2, <2>3
<1>15. \A u \in Threads : ~Pusher(u)' /\ ~Popped(u)' => r2[u] = << >>
  BY <1>3, <1>4 DEF Layout
<1> QED BY <1>8, <1>9, <1>10, <1>12, <1>13, <1>14, <1>15 DEF Layout

\* A node whose link is End() is the last one of the queue, or the last one of
\* what a push holds.
LEMMA EndIsLast ==
  ASSUME NEW c, NEW rows, NEW place, Layout(c, rows, place), NEW n \in Nodes, pNext[n] = END
  PROVE  \/ In(c, n) /\ n = c[Len(c)]
         \/ \E u \in Threads : Pusher(u) /\ In(rows[u], n) /\ n = rows[u][Len(rows[u])]
<1>1. CASE place[n] = InChain
  <2>1. Along(pNext, c) /\ In(c, n)
    BY <1>1 DEF Layout
  <2> QED BY <2>1, AlongFacts
<1>2. CASE place[n] = Free \/ place[n] = New
  BY <1>2 DEF Layout
<1>3. ASSUME NEW u \in Threads, place[n] = Of(u)
      PROVE  \E v \in Threads : Pusher(v) /\ In(rows[v], n) /\ n = rows[v][Len(rows[v])]
  <2>1. In(rows[u], n)
    BY <1>3 DEF Layout
  <2>2. CASE Pusher(u)
    <3>1. Along(pNext, rows[u])
      BY <2>2 DEF Layout
    <3>2. n = rows[u][Len(rows[u])]
      BY <2>1, <3>1, AlongFacts
    <3> QED BY <2>1, <2>2, <3>2
  <2>3. CASE Popped(u)
    <3>1. rows[u] = <<own[u]>> /\ pNext[own[u]] # END
      BY <2>3 DEF Layout
    <3>2. n = own[u]
      BY <2>1, <3>1, AlongOneIn
    <3> QED BY <3>1, <3>2
  <2>4. CASE ~Pusher(u) /\ ~Popped(u)
    <3>1. rows[u] = << >>
      BY <2>4 DEF Layout
    <3> QED BY <2>1, <3>1, NothingIn
  <2> QED BY <2>2, <2>3, <2>4
<1>4. place[n] \in {InChain, Free, New} \cup {Of(t) : t \in Threads}
  BY DEF Layout
<1> QED BY <1>1, <1>2, <1>3, <1>4

\* No node is in two places.
LEMMA Apart ==
  ASSUME NEW c, NEW rows, NEW place, Layout(c, rows, place)
  PROVE  /\ \A t \in Threads, n \in Nodes : ~(In(c, n) /\ In(rows[t], n))
         /\ \A t, u \in Threads, n \in Nodes : In(rows[t], n) /\ In(rows[u], n) => t = u
         /\ \A n \in Nodes : In(c, n) => n \notin free /\ n \notin unused
BY PlacesDiffer DEF Layout

\* A push links its node, with what others have linked to it, to the last node.
LEMMA LayoutLinkQueue ==
  ASSUME NEW c, NEW rows, NEW place, Layout(c, rows, place), TypeOK,
         NEW t \in Threads, Pusher(t), pc' = [pc EXCEPT ![t] = "finish"],
         NEW x \in Nodes, In(c, x), pNext[x] = END, pNext' = [pNext EXCEPT ![x] = own[t]],
         UNCHANGED <<head, tail, free, unused, own>>,
         NEW r2, \A u \in Threads : r2[u] = IF u = t THEN << >> ELSE rows[u],
         NEW p2, \A m \in Nodes : p2[m] = IF In(rows[t], m) THEN InChain ELSE place[m]
  PROVE  Layout(c \o rows[t], r2, p2)'
<1> DEFINE c2 == c \o rows[t]
<1> USE PlacesDiffer
<1>1. /\ Along(pNext, c) /\ Along(pNext, rows[t]) /\ rows[t][1] = own[t] /\ x = c[Len(c)]
      /\ \A n \in Nodes : ~(In(c, n) /\ In(rows[t], n))
  <2>1. Along(pNext, c) /\ Along(pNext, rows[t]) /\ rows[t][1] = own[t]
    BY DEF Layout
  <2>2. x = c[Len(c)]
    BY <2>1, AlongFacts
  <2>3. \A n \in Nodes : ~(In(c, n) /\ In(rows[t], n))
    BY Apart
  <2> QED BY <2>1, <2>2, <2>3
<1>2. \A m \in Nodes : pNext'[m] = IF m = x THEN own[t] ELSE pNext[m]
  BY DEF TypeOK
<1>3. ~Pusher(t)' /\ ~Popped(t)'
  BY DEF Pusher, Popped, PushPoints, TypeOK
<1>4. \A u \in Threads : u # t => /\ Pusher(u)' <=> Pusher(u)
                                  /\ Popped(u)' <=> Popped(u)
  BY DEF Pusher, Popped, PushPoints, TypeOK
<1>5. c \in Seq(Nodes) /\ rows[t] \in Seq(Nodes) /\ Len(c) \in Nat /\ Len(c) # 0
  BY <1>1 DEF Along
<1>6. /\ \A m : In(c2, m) <=> In(c, m) \/ In(rows[t], m)
      /\ c2[1] = c[1]
  <2>1. /\ \A k \in 1 .. Len(c) : c2[k] = c[k]
        /\ \A m : In(c2, m) <=> In(c, m) \/ In(rows[t], m)
    BY <1>5, Joined
  <2>2. 1 \in 1 .. Len(c)
    BY <1>5
  <2> HIDE DEF c2
  <2> QED BY <2>1, <2>2
<1>7. Along(pNext', c2)
  <2>1. pNext \in [Nodes -> Nodes \cup {NULL, END}]
    BY DEF TypeOK
  <2>2. Along([pNext EXCEPT ![c[Len(c)]] = rows[t][1]], c \o rows[t])
    BY <1>1, <2>1, AlongJoined
  <2> QED BY <1>1, <2>2
<1> HIDE DEF c2
<1>8. c2[1] = head'.node /\ In(c2, tail'.node)
  BY <1>6 DEF Layout
<1>9. /\ \A m \in Nodes : p2[m] \in {InChain, Free, New} \cup {Of(u) : u \in Threads}
      /\ \A m \in Nodes : In(c2, m) <=> p2[m] = InChain
      /\ \A m \in Nodes : m \in free' <=> p2[m] = Free
      /\ \A m \in Nodes : m \in unused' <=> p2[m] = New
  BY <1>6 DEF Layout
<1>10. \A m \in free' \cup unused' : pNext'[m] # END
  <2>1. x \notin free /\ x \notin unused
    BY Apart
  <2> QED BY <1>2, <2>1 DEF Layout, TypeOK
<1>11. \A u \in Threads : \A m \in Nodes : In(r2[u], m) <=> p2[m] = Of(u)
  <2> SUFFICES ASSUME NEW u \in Threads, NEW m \in Nodes PROVE In(r2[u], m) <=> p2[m] = Of(u)
    OBVIOUS
  <2>1. CASE u = t
    BY <2>1, NothingIn DEF Layout
  <2>2. CASE u # t
    BY <2>2 DEF Layout
  <2> QED BY <2>1, <2>2
<1>12. \A u \in Threads : u # t => ~In(rows[u], x)
  BY Apart
<1>13. ASSUME NEW u \in Threads, Pusher(u)'
       PROVE  Along(pNext', r2[u]) /\ r2[u][1] = own'[u]
  <2>1. u # t /\ Pusher(u)
    BY <1>3, <1>4, <1>13
  <2>2. Along(pNext, rows[u]) /\ rows[u][1] = own[u]
    BY <2>1 DEF Layout
  <2>3. Agree(pNext, pNext', rows[u])
    BY <1>2, <1>12, <2>1 DEF Agree
  <2>4. Along(pNext', rows[u])
    BY <2>2, <2>3, AlongKept
  <2> QED BY <2>1, <2>2, <2>4
<1>14. \A u \in Threads : Popped(u)' => /\ r2[u] = <<own'[u]>> /\ own'[u] \in Nodes
                                        /\ pNext'[own'[u]] # END
  <2> SUFFICES ASSUME NEW u \in Threads, Popped(u)'
               PROVE  r2[u] = <<own'[u]>> /\ own'[u] \in Nodes /\ pNext'[own'[u]] # END
    OBVIOUS
  <2>1. u # t /\ Popped(u) /\ own'[u] = own[u]
    BY <1>3, <1>4
  <2>2. rows[u] = <<own[u]>> /\ own[u] \in Nodes /\ pNext[own[u]] # END
    BY <2>1 DEF Layout
  <2>3. own[u] # x
    BY <2>2
  <2> QED BY <1>2, <2>1, <2>2, <2>3
<1>15. \A u \in Threads : ~Pusher(u)' /\ ~Popped(u)' => r2[u] = << >>
  BY <1>3, <1>4 DEF Layout
<1> QED BY <1>7, <1>8, <1>9, <1>10, <1>11, <1>13, <1>14, <1>15 DEF Layout, c2

\* The row of t is now the end of that of o.
RowsJoined(r2, rows, t, o, s) ==
  \A u \in Threads : r2[u] = IF u = t THEN << >> ELSE IF u = o THEN s ELSE rows[u]

\* The nodes of the row of t have another place.
PlacesMoved(p2, rows, place, t, to) ==
  \A m \in Nodes : p2[m] = IF In(rows[t], m) THEN to ELSE place[m]

\* A push links its node to one that another push has used again, and that is
\* not yet in the queue.
LEMMA LayoutLinkRow ==
  ASSUME NEW c, NEW rows, NEW place, Layout(c, rows, place), TypeOK,
         NEW t \in Threads, Pusher(t), pc' = [pc EXCEPT ![t] = "finish"],
         NEW o \in Threads, o # t, Pusher(o),
         NEW x \in Nodes, In(rows[o], x), pNext[x] = END,
         pNext' = [pNext EXCEPT ![x] = own[t]],
         UNCHANGED <<head, tail, free, unused, own>>,
         NEW s, s = rows[o] \o rows[t],
         NEW r2, RowsJoined(r2, rows, t, o, s),
         NEW p2, PlacesMoved(p2, rows, place, t, Of(o))
  PROVE  Layout(c, r2, p2)'
<1> USE PlacesDiffer DEF RowsJoined, PlacesMoved
<1>1. /\ Along(pNext, rows[o]) /\ rows[o][1] = own[o]
      /\ Along(pNext, rows[t]) /\ rows[t][1] = own[t] /\ x = rows[o][Len(rows[o])]
      /\ \A n \in Nodes : ~(In(rows[o], n) /\ In(rows[t], n))
  <2>1. /\ Along(pNext, rows[o]) /\ rows[o][1] = own[o]
        /\ Along(pNext, rows[t]) /\ rows[t][1] = own[t]
    BY DEF Layout
  <2>2. x = rows[o][Len(rows[o])]
    BY <2>1, AlongFacts
  <2>3. \A n \in Nodes : ~(In(rows[o], n) /\ In(rows[t], n))
    BY Apart
  <2> QED BY <2>1, <2>2, <2>3
<1>2. \A m \in Nodes : pNext'[m] = IF m = x THEN own[t] ELSE pNext[m]
  BY DEF TypeOK
<1>3. ~Pusher(t)' /\ ~Popped(t)'
  BY DEF Pusher, Popped, PushPoints, TypeOK
<1>4. \A u \in Threads : u # t => /\ Pusher(u)' <=> Pusher(u)
                                  /\ Popped(u)' <=> Popped(u)
  BY DEF Pusher, Popped, PushPoints, TypeOK
<1>5. rows[o] \in Seq(Nodes) /\ rows[t] \in Seq(Nodes) /\ Len(rows[o]) \in Nat /\ Len(rows[o]) # 0
  BY <1>1 DEF Along
<1>6. /\ \A m : In(s, m) <=> In(rows[o], m) \/ In(rows[t], m)
      /\ s[1] = own[o]
  <2>1. /\ \A k \in 1 .. Len(rows[o]) : s[k] = rows[o][k]
        /\ \A m : In(s, m) <=> In(rows[o], m) \/ In(rows[t], m)
    <3> DEFINE a == rows[o]
               b == rows[t]
    <3>1. a \in Seq(Nodes) /\ b \in Seq(Nodes) /\ s = a \o b
      BY <1>5
    <3> HIDE DEF a, b
    <3>2. /\ \A k \in 1 .. Len(a) : (a \o b)[k] = a[k]
          /\ \A m : In(a \o b, m) <=> In(a, m) \/ In(b, m)
      BY <3>1, Joined
    <3> QED BY <3>1, <3>2 DEF a, b
  <2>2. 1 \in 1 .. Len(rows[o])
    BY <1>5
  <2> QED BY <1>1, <2>1, <2>2
<1>7. Along(pNext', s)
  <2>1. pNext \in [Nodes -> Nodes \cup {NULL, END}]
    BY DEF TypeOK
  <2>2. Along([pNext EXCEPT ![rows[o][Len(rows[o])]] = rows[t][1]], rows[o] \o rows[t])
    BY <1>1, <2>1, AlongJoined
  <2> QED BY <1>1, <2>2
<1>8. r2[o] = s
  OBVIOUS
<1>9. ~In(c, x) /\ \A u \in Threads : u # o => ~In(rows[u], x)
  BY Apart
<1>10. Along(pNext', c) /\ c[1] = head'.node /\ In(c, tail'.node)
  <2>1. Along(pNext, c)
    BY DEF Layout
  <2>2. Agree(pNext, pNext', c)
    BY <1>2, <1>9 DEF Agree
  <2>3. Along(pNext', c)
    BY <2>1, <2>2, AlongKept
  <2> QED BY <2>3 DEF Layout
<1>11. /\ \A m \in Nodes : p2[m] \in {InChain, Free, New} \cup {Of(u) : u \in Threads}
       /\ \A m \in Nodes : In(c, m) <=> p2[m] = InChain
       /\ \A m \in Nodes : m \in free' <=> p2[m] = Free
       /\ \A m \in Nodes : m \in unused' <=> p2[m] = New
  BY DEF Layout
<1>12. \A m \in free' \cup unused' : pNext'[m] # END
  <2>1. x \notin free /\ x \notin unused
    BY DEF Layout
  <2> QED BY <1>2, <2>1 DEF Layout, TypeOK
<1>13. \A u \in Threads : \A m \in Nodes : In(r2[u], m) <=> p2[m] = Of(u)
  <2> SUFFICES ASSUME NEW u \in Threads, NEW m \in Nodes PROVE In(r2[u], m) <=> p2[m] = Of(u)
    OBVIOUS
  <2>1. CASE u = t
    BY <2>1, NothingIn DEF Layout
  <2>2. CASE u = o
    BY <1>6, <1>8, <2>2 DEF Layout
  <2>3. CASE u # t /\ u # o
    BY <2>3 DEF Layout
  <2> QED BY <2>1, <2>2, <2>3
<1>14. ASSUME NEW u \in Threads, Pusher(u)'
       PROVE  Along(pNext', r2[u]) /\ r2[u][1] = own'[u]
  <2>1. u # t /\ Pusher(u)
    BY <1>3, <1>4, <1>14
  <2>2. CASE u = o
    BY <1>6, <1>7, <1>8, <2>2
  <2>3. CASE u # o
    <3>1. Along(pNext, rows[u]) /\ rows[u][1] = own[u]
      BY <2>1 DEF Layout
    <3>2. Agree(pNext, pNext', rows[u])
      BY <1>2, <1>9, <2>3 DEF Agree
    <3>3. Along(pNext', rows[u])
      BY <3>1, <3>2, AlongKept
    <3> QED BY <2>1, <2>3, <3>1, <3>3
  <2> QED BY <2>2, <2>3
<1>15. \A u \in Threads : Popped(u)' => /\ r2[u] = <<own'[u]>> /\ own'[u] \in Nodes
                                        /\ pNext'[own'[u]] # END
  <2> SUFFICES ASSUME NEW u \in Threads, Popped(u)'
               PROVE  r2[u] = <<own'[u]>> /\ own'[u] \in Nodes /\ pNext'[own'[u]] # END
    OBVIOUS
  <2>1. u # t /\ Popped(u) /\ own'[u] = own[u] /\ u # o
    BY <1>3, <1>4 DEF Popped, Pusher, PushPoints
  <2>2. rows[u] = <<own[u]>> /\ own[u] \in Nodes /\ pNext[own[u]] # END
    BY <2>1 DEF Layout
  <2>3. own[u] # x
    BY <2>2
  <2> QED BY <1>2, <2>1, <2>2, <2>3
<1>16. \A u \in Threads : ~Pusher(u)' /\ ~Popped(u)' => r2[u] = << >>
  BY <1>3, <1>4 DEF Layout
<1> QED BY <1>10, <1>11, <1>12, <1>13, <1>14, <1>15, <1>16 DEF Layout

\* The row of t is s now, and the node n has gone to a new place.
RowSet(r2, rows, t, s) == \A u \in Threads : r2[u] = IF u = t THEN s ELSE rows[u]

\* p2 is place with node n moved.
PlaceSet(p2, place, n, to) == \A m \in Nodes : p2[m] = IF m = n THEN to ELSE place[m]

\* A pop takes the dummy; the next node is the dummy now.
LEMMA LayoutSwap ==
  ASSUME NEW c, NEW rows, NEW place, Layout(c, rows, place), TypeOK,
         NEW h, h = head.node,
         NEW t \in Threads, pc[t] = "swapHead", pc' = [pc EXCEPT ![t] = "countDown"],
         pNext[head.node] \in Nodes, head.node # tail.node,
         head'.node = pNext[head.node], own' = [own EXCEPT ![t] = head.node],
         UNCHANGED <<tail, pNext, free, unused>>,
         NEW r2, RowSet(r2, rows, t, <<h>>), NEW p2, PlaceSet(p2, place, h, Of(t))
  PROVE  Layout(Tail(c), r2, p2)'
<1> DEFINE c2 == Tail(c)
<1> USE PlacesDiffer DEF RowSet, PlaceSet
<1>1. Along(pNext, c) /\ c[1] = h /\ h \in Nodes /\ In(c, h) /\ pNext[h] # END
  <2>1. Along(pNext, c) /\ c[1] = h
    BY DEF Layout
  <2>2. h \in Nodes /\ In(c, h)
    BY <2>1, AlongFacts
  <2> QED BY <2>1, <2>2, NullAssumption, EndAssumption
<1>2. Len(c) # 1
  <2>1. pNext[c[Len(c)]] = END
    BY <1>1, AlongFacts
  <2> QED BY <1>1, <2>1
<1>3. /\ Along(pNext, c2) /\ c2[1] = pNext[h] /\ \A x : In(c2, x) <=> In(c, x) /\ x # h
  <2>1. Along(pNext, c) /\ Len(c) # 1 /\ c[1] = h
    BY <1>1, <1>2
  <2>2. /\ Along(pNext, Tail(c)) /\ Tail(c)[1] = pNext[c[1]]
        /\ \A x : In(Tail(c), x) <=> In(c, x) /\ x # c[1]
    BY <2>1, AlongTail
  <2> QED BY <2>1, <2>2
<1> HIDE DEF c2
<1>4. ~Pusher(t) /\ ~Popped(t) /\ ~Pusher(t)' /\ Popped(t)'
  BY DEF Pusher, Popped, PushPoints, TypeOK
<1>5. \A u \in Threads : u # t => /\ Pusher(u)' <=> Pusher(u)
                                  /\ Popped(u)' <=> Popped(u)
                                  /\ own'[u] = own[u]
  BY DEF Pusher, Popped, TypeOK
<1>6. own'[t] = h
  BY DEF TypeOK
<1>7. rows[t] = << >> /\ (\A m \in Nodes : place[m] # Of(t)) /\ place[h] = InChain
  BY <1>1, <1>4, NothingIn DEF Layout
<1>8. Along(pNext', c2) /\ c2[1] = head'.node /\ In(c2, tail'.node)
  BY <1>3 DEF Layout
<1>9. /\ \A m \in Nodes : p2[m] \in {InChain, Free, New} \cup {Of(u) : u \in Threads}
      /\ \A m \in Nodes : In(c2, m) <=> p2[m] = InChain
      /\ \A m \in Nodes : m \in free' <=> p2[m] = Free
      /\ \A m \in Nodes : m \in unused' <=> p2[m] = New
      /\ \A m \in free' \cup unused' : pNext'[m] # END
  BY <1>3, <1>7 DEF Layout
<1>10. \A u \in Threads : \A m \in Nodes : In(r2[u], m) <=> p2[m] = Of(u)
  <2> SUFFICES ASSUME NEW u \in Threads, NEW m \in Nodes PROVE In(r2[u], m) <=> p2[m] = Of(u)
    OBVIOUS
  <2>1. CASE u = t
    <3>1. In(<<h>>, m) <=> m = h
      BY AlongOneIn
    <3> QED BY <1>7, <2>1, <3>1
  <2>2. CASE u # t
    BY <1>7, <2>2 DEF Layout
  <2> QED BY <2>1, <2>2
<1>11. \A u \in Threads : Pusher(u)' => Along(pNext', r2[u]) /\ r2[u][1] = own'[u]
  BY <1>4, <1>5 DEF Layout
<1>12. \A u \in Threads : Popped(u)' => /\ r2[u] = <<own'[u]>> /\ own'[u] \in Nodes
                                        /\ pNext'[own'[u]] # END
  BY <1>1, <1>5, <1>6 DEF Layout
<1>13. \A u \in Threads : ~Pusher(u)' /\ ~Popped(u)' => r2[u] = << >>
  BY <1>4, <1>5 DEF Layout
<1>14. Layout(c2, r2, p2)'
  BY <1>8, <1>9, <1>10, <1>11, <1>12, <1>13 DEF Layout
<1> QED BY <1>14 DEF c2

\* The old dummy is freed.
LEMMA LayoutFreed ==
  ASSUME NEW c, NEW rows, NEW place, Layout(c, rows, place), TypeOK,
         NEW t \in Threads, Popped(t), NEW n, n = own[t], pc' = [pc EXCEPT ![t] = "idle"],
         NEW y, y # END, pNext' = [pNext EXCEPT ![own[t]] = y],
         own' = [own EXCEPT ![t] = NULL],
         free' = free \cup {own[t]}, UNCHANGED <<head, tail, unused>>,
         NEW r2, RowSet(r2, rows, t, << >>), NEW p2, PlaceSet(p2, place, n, Free)
  PROVE  Layout(c, r2, p2)'
<1> USE PlacesDiffer DEF RowSet, PlaceSet
<1>1. n \in Nodes /\ rows[t] = <<n>> /\ pNext[n] # END
  BY DEF Layout
<1>2. \A m \in Nodes : In(rows[t], m) <=> m = n
  BY <1>1, AlongOneIn
<1>3. place[n] = Of(t) /\ \A m \in Nodes : m # n => place[m] # Of(t)
  BY <1>1, <1>2 DEF Layout
<1>4. \A m \in Nodes : pNext'[m] = IF m = n THEN y ELSE pNext[m]
  BY DEF TypeOK
<1>5. ~Pusher(t)' /\ ~Popped(t)'
  BY DEF Pusher, Popped, PushPoints, TypeOK
<1>6. \A u \in Threads : u # t => /\ Pusher(u)' <=> Pusher(u)
                                  /\ Popped(u)' <=> Popped(u)
                                  /\ own'[u] = own[u]
  BY DEF Pusher, Popped, PushPoints, TypeOK
<1>7. ~In(c, n) /\ \A u \in Threads : u # t => ~In(rows[u], n)
  BY <1>1, <1>3 DEF Layout
<1>8. free' = free \cup {n}
  OBVIOUS
<1>9. Along(pNext', c) /\ c[1] = head'.node /\ In(c, tail'.node)
  <2>1. Along(pNext, c)
    BY DEF Layout
  <2>2. Agree(pNext, pNext', c)
    BY <1>4, <1>7 DEF Agree
  <2>3. Along(pNext', c)
    BY <2>1, <2>2, AlongKept
  <2> QED BY <2>3 DEF Layout
<1>10. /\ \A m \in Nodes : p2[m] \in {InChain, Free, New} \cup {Of(u) : u \in Threads}
       /\ \A m \in Nodes : In(c, m) <=> p2[m] = InChain
       /\ \A m \in Nodes : m \in free' <=> p2[m] = Free
       /\ \A m \in Nodes : m \in unused' <=> p2[m] = New
  BY <1>3, <1>7, <1>8 DEF Layout
<1>11. \A m \in free' \cup unused' : pNext'[m] # END
  <2>1. free' \cup unused' \subseteq Nodes
    BY <1>1, <1>8 DEF TypeOK
  <2> QED BY <1>4, <1>8, <2>1 DEF Layout
<1>12. \A u \in Threads : \A m \in Nodes : In(r2[u], m) <=> p2[m] = Of(u)
  <2> SUFFICES ASSUME NEW u \in Threads, NEW m \in Nodes PROVE In(r2[u], m) <=> p2[m] = Of(u)
    OBVIOUS
  <2>1. CASE u = t
    BY <1>3, <2>1, NothingIn
  <2>2. CASE u # t
    BY <1>3, <1>7, <2>2 DEF Layout
  <2> QED BY <2>1, <2>2
<1>13. ASSUME NEW u \in Threads, Pusher(u)'
       PROVE  Along(pNext', r2[u]) /\ r2[u][1] = own'[u]
  <2>1. u # t /\ Pusher(u)
    BY <1>5, <1>6, <1>13
  <2>2. Along(pNext, rows[u]) /\ rows[u][1] = own[u]
    BY <2>1 DEF Layout
  <2>3. Agree(pNext, pNext', rows[u])
    BY <1>4, <1>7, <2>1 DEF Agree
  <2>4. Along(pNext', rows[u])
    BY <2>2, <2>3, AlongKept
  <2> QED BY <1>5, <1>6, <2>1, <2>2, <2>4
<1>14. \A u \in Threads : Popped(u)' => /\ r2[u] = <<own'[u]>> /\ own'[u] \in Nodes
                                        /\ pNext'[own'[u]] # END
  <2> SUFFICES ASSUME NEW u \in Threads, Popped(u)'
               PROVE  r2[u] = <<own'[u]>> /\ own'[u] \in Nodes /\ pNext'[own'[u]] # END
    OBVIOUS
  <2>1. u # t /\ Popped(u) /\ own'[u] = own[u]
    BY <1>5, <1>6
  <2>2. rows[u] = <<own[u]>> /\ own[u] \in Nodes /\ pNext[own[u]] # END
    BY <2>1 DEF Layout
  <2>3. own[u] # n
    <3>1. In(rows[u], own[u]) /\ ~In(rows[u], n)
      BY <1>7, <2>1, <2>2, AlongOneIn
    <3> QED BY <3>1
  <2> QED BY <1>4, <2>1, <2>2, <2>3
<1>15. \A u \in Threads : ~Pusher(u)' /\ ~Popped(u)' => r2[u] = << >>
  BY <1>5, <1>6 DEF Layout
<1>16. Layout(c, r2, p2)'
  BY <1>9, <1>10, <1>11, <1>12, <1>13, <1>14, <1>15 DEF Layout
<1> QED BY <1>16

-----------------------------------------------------------------------------
(* What the nodes carry.                                                   *)

\* The nodes of S carry items: those of the queue after the dummy, and those
\* that pushes hold.
Carriers(S, place) ==
  /\ S \in SUBSET Nodes
  /\ \A n \in Nodes : n \in S <=> \/ place[n] = InChain /\ n # head.node
                                  \/ \E t \in Threads : Pusher(t) /\ place[n] = Of(t)

\* Each item that was pushed is in one of them, or has been popped once.
Contents(S) ==
  /\ pushed \in 0 .. MaxItems /\ taken \in Seq(1 .. pushed)
  /\ \A n \in S : elem[n] \in 1 .. pushed
  /\ \A n, m \in S : elem[n] = elem[m] => n = m
  /\ \A j, k \in 1 .. Len(taken) : taken[j] = taken[k] => j = k
  /\ \A n \in S : ~In(taken, elem[n])
  /\ \A i \in 1 .. pushed : In(taken, i) \/ \E n \in S : elem[n] = i

\* The nodes of s carry older and older items.
Decreasing(s) == \A j, k \in 1 .. Len(s) : j < k => elem[s[j]] > elem[s[k]]

\* What a push holds is linked to older items only.
Ordered(rows) ==
  \A t \in Threads : Pusher(t) => item[t] = elem[own[t]] /\ Decreasing(rows[t])

\* Steps that push and pop no item and fill none of the nodes.
LEMMA ContentsKept ==
  ASSUME NEW S, Contents(S), UNCHANGED <<pushed, taken>>, \A n \in S : elem'[n] = elem[n]
  PROVE  Contents(S)'
BY DEF Contents

\* PushItem fills a node with a new item.
LEMMA ContentsPushed ==
  ASSUME NEW S, Contents(S), NEW n, n \notin S, pushed < MaxItems,
         pushed' = pushed + 1, UNCHANGED taken, elem'[n] = pushed + 1,
         \A m \in S : elem'[m] = elem[m]
  PROVE  Contents(S \cup {n})'
<1>1. /\ pushed \in 0 .. MaxItems /\ pushed' \in 0 .. MaxItems /\ pushed' = pushed + 1
      /\ \A i \in 1 .. pushed : i \in 1 .. pushed' /\ i # pushed'
      /\ \A i \in 1 .. pushed' : i \in 1 .. pushed \/ i = pushed'
      /\ pushed' \in 1 .. pushed'
  BY DummyAssumption DEF Contents
<1>2. taken \in Seq(1 .. pushed) /\ taken' \in Seq(1 .. pushed')
  <2>1. taken \in Seq(1 .. pushed) /\ 1 .. pushed \subseteq 1 .. pushed'
    BY <1>1 DEF Contents
  <2> DEFINE T == 1 .. pushed
             U == 1 .. pushed'
  <2> HIDE DEF T, U
  <2>2. taken \in Seq(U)
    BY <2>1, SeqMonotonic DEF T, U
  <2> QED BY <2>1, <2>2 DEF U
<1>3. \A k \in 1 .. Len(taken) : taken[k] \in 1 .. pushed
  BY <1>2, ElementOfSeq
<1>4. ~In(taken', pushed')
  BY <1>1, <1>3 DEF In
<1>5. \A m \in S \cup {n} : elem'[m] \in 1 .. pushed'
  BY <1>1 DEF Contents
<1>6. \A l, m \in S \cup {n} : elem'[l] = elem'[m] => l = m
  BY <1>1 DEF Contents
<1>7. \A m \in S \cup {n} : ~In(taken', elem'[m])
  BY <1>4 DEF Contents
<1>8. \A i \in 1 .. pushed' : In(taken', i) \/ \E m \in S \cup {n} : elem'[m] = i
  BY <1>1 DEF Contents
<1>9. \A j, k \in 1 .. Len(taken') : taken'[j] = taken'[k] => j = k
  BY DEF Contents
<1> QED BY <1>1, <1>2, <1>5, <1>6, <1>7, <1>8, <1>9 DEF Contents

\* A pop takes the item of a node.
LEMMA ContentsTaken ==
  ASSUME NEW S, Contents(S), NEW n \in S, UNCHANGED <<pushed, elem>>,
         taken' = Append(taken, elem[n])
  PROVE  Contents(S \ {n})'
<1> DEFINE m == Len(taken)
           i == elem[n]
<1>1. taken \in Seq(1 .. pushed) /\ i \in 1 .. pushed /\ m \in Nat
  BY DEF Contents
<1>2. /\ taken' \in Seq(1 .. pushed) /\ Len(taken') = m + 1
      /\ \A k \in 1 .. m : taken'[k] = taken[k]
      /\ taken'[m + 1] = i
  BY <1>1
<1>3. ~In(taken, i) /\ \A k \in 1 .. m : taken[k] # i
  BY DEF Contents, In
<1> HIDE DEF m, i
<1>4. \A k \in 1 .. m + 1 : k \in 1 .. m \/ k = m + 1
  BY <1>1
<1>5. \A k \in 1 .. m : k \in 1 .. m + 1
  BY <1>1
<1>6. m + 1 \in 1 .. m + 1
  BY <1>1
<1>7. \A j, k \in 1 .. m : taken[j] = taken[k] => j = k
  BY DEF Contents, m
<1>8. \A j, k \in 1 .. Len(taken') : taken'[j] = taken'[k] => j = k
  BY <1>2, <1>3, <1>4, <1>7
<1>9. \A x : In(taken', x) <=> In(taken, x) \/ x = i
  <2> SUFFICES ASSUME NEW x PROVE In(taken', x) <=> In(taken, x) \/ x = i
    OBVIOUS
  <2>1. (\E k \in 1 .. m + 1 : taken'[k] = x) <=> (\E k \in 1 .. m : taken[k] = x) \/ x = i
    BY <1>2, <1>4, <1>5, <1>6
  <2>2. In(taken', x) <=> \E k \in 1 .. m + 1 : taken'[k] = x
    BY <1>2 DEF In
  <2>3. In(taken, x) <=> \E k \in 1 .. m : taken[k] = x
    BY DEF In, m
  <2> QED BY <2>1, <2>2, <2>3
<1>10. \A l \in S \ {n} : ~In(taken', elem'[l])
  BY <1>9 DEF Contents, i
<1>11. \A k \in 1 .. pushed' : In(taken', k) \/ \E l \in S \ {n} : elem'[l] = k
  BY <1>9 DEF Contents, i
<1>12. /\ pushed' \in 0 .. MaxItems /\ taken' \in Seq(1 .. pushed')
       /\ \A l \in S \ {n} : elem'[l] \in 1 .. pushed'
       /\ \A k, l \in S \ {n} : elem'[k] = elem'[l] => k = l
  BY <1>2 DEF Contents
<1> QED BY <1>8, <1>10, <1>11, <1>12 DEF Contents

\* The items of a row that is linked to one whose last item is newer.
LEMMA DecreasingJoined ==
  ASSUME TypeOK, NEW s \in Seq(Nodes), NEW r \in Seq(Nodes), Len(s) # 0, Len(r) # 0,
         Decreasing(s), Decreasing(r), elem[s[Len(s)]] > elem[r[1]]
  PROVE  Decreasing(s \o r)
<1> DEFINE m == Len(s)
           n == Len(r)
           b == s \o r
<1>1. /\ m \in Nat /\ n \in Nat /\ m # 0 /\ n # 0 /\ Len(b) = m + n
      /\ \A k \in 1 .. m : b[k] = s[k] /\ s[k] \in Nodes
      /\ \A k \in 1 .. n : b[m + k] = r[k] /\ r[k] \in Nodes
  <2>1. m \in Nat /\ n \in Nat /\ m # 0 /\ n # 0
    OBVIOUS
  <2>2. (\A k \in 1 .. m : s[k] \in Nodes) /\ (\A k \in 1 .. n : r[k] \in Nodes)
    OBVIOUS
  <2>3. /\ Len(b) = m + n /\ \A k \in 1 .. m : b[k] = s[k]
        /\ \A k \in 1 .. n : b[m + k] = r[k]
    BY Joined
  <2> QED BY <2>1, <2>2, <2>3
<1>2. /\ \A j, k \in 1 .. m : j < k => elem[s[j]] > elem[s[k]]
      /\ \A j, k \in 1 .. n : j < k => elem[r[j]] > elem[r[k]]
      /\ elem[s[m]] > elem[r[1]]
  BY DEF Decreasing
<1>3. \A x \in Nodes : elem[x] \in Int
  <2>1. MaxItems \in Nat /\ elem \in [Nodes -> 0 .. MaxItems]
    BY DummyAssumption DEF TypeOK
  <2> QED BY <2>1
<1> HIDE DEF m, n, b
<1>4. /\ \A k \in 1 .. m : elem[b[k]] \in Int /\ elem[b[k]] >= elem[s[m]]
      /\ \A k \in 1 .. n : elem[b[m + k]] \in Int /\ elem[b[m + k]] <= elem[r[1]]
      /\ elem[s[m]] \in Int /\ elem[r[1]] \in Int
  <2>1. m \in 1 .. m /\ 1 \in 1 .. n
    BY <1>1
  <2>2. ASSUME NEW k \in 1 .. m PROVE elem[b[k]] \in Int /\ elem[b[k]] >= elem[s[m]]
    <3>1. b[k] = s[k] /\ elem[s[k]] \in Int /\ elem[s[m]] \in Int
      BY <1>1, <1>3, <2>1
    <3>2. k = m \/ k < m
      BY <1>1
    <3> QED BY <1>2, <2>1, <3>1, <3>2
  <2>3. ASSUME NEW k \in 1 .. n PROVE elem[b[m + k]] \in Int /\ elem[b[m + k]] <= elem[r[1]]
    <3>1. b[m + k] = r[k] /\ elem[r[k]] \in Int /\ elem[r[1]] \in Int
      BY <1>1, <1>3, <2>1
    <3>2. k = 1 \/ 1 < k
      BY <1>1
    <3> QED BY <1>2, <2>1, <3>1, <3>2
  <2> QED BY <1>1, <1>3, <2>1, <2>2, <2>3
<1>5. ASSUME NEW j \in 1 .. m + n, NEW k \in 1 .. m + n, j < k PROVE elem[b[j]] > elem[b[k]]
  <2>1. CASE k \in 1 .. m
    <3>1. j \in 1 .. m
      BY <1>1, <1>5, <2>1
    <3> QED BY <1>1, <1>2, <1>5, <2>1, <3>1
  <2>2. CASE j \in 1 .. m /\ ~(k \in 1 .. m)
    <3>1. k - m \in 1 .. n /\ m + (k - m) = k
      BY <1>1, <2>2
    <3>2. /\ elem[b[j]] \in Int /\ elem[b[j]] >= elem[s[m]]
          /\ elem[b[k]] \in Int /\ elem[b[k]] <= elem[r[1]]
      BY <1>4, <2>2, <3>1
    <3> QED BY <1>2, <1>4, <3>2
  <2>3. CASE ~(j \in 1 .. m)
    <3>1. /\ k - m \in 1 .. n /\ m + (k - m) = k /\ j - m \in 1 .. n /\ m + (j - m) = j
          /\ j - m < k - m
      BY <1>1, <1>5, <2>3
    <3>2. b[j] = r[j - m] /\ b[k] = r[k - m]
      BY <1>1, <3>1
    <3> QED BY <1>2, <3>1, <3>2
  <2> QED BY <2>1, <2>2, <2>3
<1> QED BY <1>1, <1>5 DEF Decreasing, b

\* The first node of a row carries the newest item.
LEMMA FirstIsNewest ==
  ASSUME TypeOK, NEW s, Along(pNext, s), Decreasing(s), NEW x \in Nodes, In(s, x)
  PROVE  elem[x] <= elem[s[1]]
<1>1. s \in Seq(Nodes) /\ 1 \in 1 .. Len(s) /\ s[1] \in Nodes /\ Len(s) \in Nat
  BY AlongFacts
<1>2. PICK k \in 1 .. Len(s) : s[k] = x
  BY DEF In
<1>3. elem[x] \in Int /\ elem[s[1]] \in Int
  <2>1. MaxItems \in Nat /\ elem \in [Nodes -> 0 .. MaxItems]
    BY DummyAssumption DEF TypeOK
  <2> QED BY <1>1, <2>1
<1>4. k = 1 \/ 1 < k
  BY <1>1
<1> QED BY <1>1, <1>2, <1>3, <1>4 DEF Decreasing

-----------------------------------------------------------------------------
(* What the calls have read.                                               *)

\* The node to which a push will link its own is not one that its own leads to:
\* as far as a push holds it, it carries a newer item.
KnownTo(t, place) ==
  Pusher(t) /\ link[t].node # NULL =>
    \A u \in Threads : Pusher(u) /\ place[link[t].node] = Of(u) => elem[link[t].node] > item[t]

\* What a push has read: m_Tail may have moved on, but if it is what the push has
\* read, then so is the link of the last node.
PushReads(t) ==
  /\ pc[t] = "idle" => link[t].node = NULL
  /\ Pusher(t) \/ pc[t] = "finish" => own[t] \in Nodes
  /\ pc[t] \in {"link", "readLink", "helpPush", "finish", "readTailSeq"} => link[t].node \in Nodes
  /\ pc[t] \in {"readTailNode", "link", "readLink", "helpPush", "finish"} => link[t].seq <= tail.seq
  /\ pc[t] = "readLink" /\ link[t] = tail => pNext[tail.node] # END
  /\ pc[t] = "helpPush" /\ link[t] = tail => nxt[t] = pNext[tail.node] /\ nxt[t] \in Nodes
  /\ pc[t] = "finish" /\ link[t] = tail => own[t] = pNext[tail.node]

\* A pop that has read m_Head.
PopPoints == {"readSeqOfTail", "readNext", "check", "compare", "helpPop", "readItem", "swapHead"}

\* What a pop has read: if m_Head is what it has read, then so are the link of the
\* dummy and the item of the next node, and there is a next node unless it has seen
\* that there is none.
PopReads(t) ==
  /\ pc[t] \in PopPoints => link[t].node \in Nodes
  /\ pc[t] \in PopPoints \cup {"readHeadNode"} => link[t].seq <= head.seq
  /\ pc[t] \in {"readSeqOfTail", "readNext", "check"} /\ link[t].seq = head.seq => link[t] = head
  /\ pc[t] \in {"readNext", "check", "compare", "helpPop"} => tailSeq[t] <= tail.seq
  /\ pc[t] = "check" /\ link[t] = head /\ nxt[t] = END => none[t]
  /\ pc[t] \in {"check", "compare", "readItem", "swapHead"} /\ link[t] = head /\ nxt[t] # END =>
       nxt[t] = pNext[head.node]
  /\ /\ pc[t] \in {"check", "compare", "helpPop"}
     /\ link[t].node = tail.node /\ tailSeq[t] = tail.seq /\ nxt[t] # END
     => nxt[t] = pNext[tail.node]
  /\ pc[t] = "compare" => nxt[t] # NULL /\ (nxt[t] = END => none[t])
  /\ pc[t] \in {"helpPop", "readItem", "swapHead"} => nxt[t] \in Nodes
  /\ pc[t] \in {"readItem", "swapHead"} /\ link[t] = head => head.node # tail.node
  /\ pc[t] = "swapHead" /\ link[t] = head => item[t] = elem[nxt[t]]
  /\ pc[t] = "countDown" => own[t] \in Nodes

\* What a call has read.
Reads(t) == PushReads(t) /\ PopReads(t)

\* What a step of a thread does to the others.
OthersKept(t) ==
  \A u \in Threads : u # t =>
    /\ pc'[u] = pc[u] /\ own'[u] = own[u] /\ link'[u] = link[u] /\ tailSeq'[u] = tailSeq[u]
    /\ nxt'[u] = nxt[u] /\ item'[u] = item[u] /\ none'[u] = none[u]

\* What a step may do to the ends of the queue.
EndsMoved ==
  /\ head' = head \/ head'.seq = head.seq + 1
  /\ tail' = tail \/ tail'.seq = tail.seq + 1
  /\ pNext[tail.node] # END => pNext'[tail.node] = pNext[tail.node]
  /\ pNext[head.node] # END => pNext'[head.node] = pNext[head.node]
  /\ head' = head /\ pNext[head.node] \in Nodes =>
       elem'[pNext[head.node]] = elem[pNext[head.node]]
  /\ head' = head /\ head.node # tail.node => head.node # tail'.node

\* What a call has read stays good while others run.
LEMMA ReadsKept ==
  ASSUME TypeOK, TypeOK', EndsMoved, NEW t, OthersKept(t), NEW u \in Threads, u # t, Reads(u)
  PROVE  Reads(u)'
<1>1. /\ pc'[u] = pc[u] /\ own'[u] = own[u] /\ link'[u] = link[u] /\ tailSeq'[u] = tailSeq[u]
      /\ nxt'[u] = nxt[u] /\ item'[u] = item[u] /\ none'[u] = none[u]
  BY DEF OthersKept
<1>2. /\ head.seq \in Nat /\ tail.seq \in Nat /\ link[u].seq \in Nat /\ tailSeq[u] \in Nat
      /\ head'.seq \in Nat /\ tail'.seq \in Nat
      /\ nxt[u] \in Nodes \cup {NULL, END}
  BY DEF TypeOK, Links
<1>3. head' = head \/ (head'.seq = head.seq + 1 /\ (link[u].seq <= head.seq => link[u] # head'))
  BY <1>2 DEF EndsMoved
<1>4. tail' = tail \/ (tail'.seq = tail.seq + 1 /\ (link[u].seq <= tail.seq => link[u] # tail'))
  BY <1>2 DEF EndsMoved
<1>5. PushReads(u)'
  <2>1. Pusher(u)' <=> Pusher(u)
    BY <1>1 DEF Pusher
  <2>2. /\ pc'[u] = "idle" => link'[u].node = NULL
        /\ Pusher(u)' \/ pc'[u] = "finish" => own'[u] \in Nodes
        /\ pc'[u] \in {"link", "readLink", "helpPush", "finish", "readTailSeq"} =>
             link'[u].node \in Nodes
        /\ pc'[u] \in {"readTailNode", "link", "readLink", "helpPush", "finish"} =>
             link'[u].seq <= tail'.seq
    BY <1>1, <1>2, <1>4, <2>1 DEF Reads, PushReads
  <2>3. /\ pc'[u] = "readLink" /\ link'[u] = tail' => pNext'[tail'.node] # END
        /\ pc'[u] = "helpPush" /\ link'[u] = tail' =>
             nxt'[u] = pNext'[tail'.node] /\ nxt'[u] \in Nodes
        /\ pc'[u] = "finish" /\ link'[u] = tail' => own'[u] = pNext'[tail'.node]
    BY <1>1, <1>4, NullAssumption, EndAssumption DEF Reads, PushReads, EndsMoved
  <2> QED BY <2>2, <2>3 DEF PushReads
<1>6. PopReads(u)'
  <2>1. /\ pc'[u] \in PopPoints => link'[u].node \in Nodes
        /\ pc'[u] \in PopPoints \cup {"readHeadNode"} => link'[u].seq <= head'.seq
        /\ pc'[u] \in {"readNext", "check", "compare", "helpPop"} => tailSeq'[u] <= tail'.seq
    BY <1>1, <1>2, <1>3, <1>4 DEF Reads, PopReads
  <2>2. /\ pc'[u] \in {"readSeqOfTail", "readNext", "check"} /\ link'[u].seq = head'.seq =>
             link'[u] = head'
        /\ pc'[u] = "check" /\ link'[u] = head' /\ nxt'[u] = END => none'[u]
    BY <1>1, <1>2, <1>3 DEF Reads, PopReads, PopPoints
  <2>3. pc'[u] \in {"check", "compare", "readItem", "swapHead"} /\ link'[u] = head' /\ nxt'[u] # END =>
          nxt'[u] = pNext'[head'.node]
    BY <1>1, <1>3 DEF Reads, PopReads, PopPoints, EndsMoved
  <2>4. /\ pc'[u] \in {"check", "compare", "helpPop"}
        /\ link'[u].node = tail'.node /\ tailSeq'[u] = tail'.seq /\ nxt'[u] # END
        => nxt'[u] = pNext'[tail'.node]
    BY <1>1, <1>2, <1>4 DEF Reads, PopReads, EndsMoved
  <2>5. /\ pc'[u] = "compare" => nxt'[u] # NULL /\ (nxt'[u] = END => none'[u])
        /\ pc'[u] \in {"helpPop", "readItem", "swapHead"} => nxt'[u] \in Nodes
        /\ pc'[u] = "countDown" => own'[u] \in Nodes
    BY <1>1 DEF Reads, PopReads
  <2>6. pc'[u] \in {"readItem", "swapHead"} /\ link'[u] = head' => head'.node # tail'.node
    BY <1>1, <1>3 DEF Reads, PopReads, PopPoints, EndsMoved
  <2>7. pc'[u] = "swapHead" /\ link'[u] = head' => item'[u] = elem'[nxt'[u]]
    <3> SUFFICES ASSUME pc'[u] = "swapHead", link'[u] = head' PROVE item'[u] = elem'[nxt'[u]]
      OBVIOUS
    <3>1. head' = head /\ link[u] = head /\ pc[u] = "swapHead"
      BY <1>1, <1>3 DEF Reads, PopReads, PopPoints
    <3>2. nxt[u] \in Nodes /\ nxt[u] = pNext[head.node] /\ item[u] = elem[nxt[u]]
      BY <3>1, NullAssumption, EndAssumption DEF Reads, PopReads
    <3> QED BY <1>1, <3>1, <3>2 DEF EndsMoved
  <2> QED BY <2>1, <2>2, <2>3, <2>4, <2>5, <2>6, <2>7 DEF PopReads
<1> QED BY <1>5, <1>6 DEF Reads

-----------------------------------------------------------------------------
(* m_Count.                                                                *)

\* Where a push is until it has counted its item; those pushes, and the pops that
\* have not counted theirs.
Counts == PushPoints \cup {"finish", "countUp"}
Pushing == {t \in Threads : pc[t] \in Counts}
Popping == {t \in Threads : pc[t] = "countDown"}

\* m_Count is behind by the calls under way.
Counting ==
  count = pushed - Len(taken) - Cardinality(Pushing) + Cardinality(Popping)

\* The queue is c, the calls hold rows, each node is in its place and those of S
\* carry the items.
Shape(c, rows, place, S) ==
  /\ Layout(c, rows, place) /\ Carriers(S, place) /\ Contents(S) /\ Ordered(rows)
  /\ \A t \in Threads : KnownTo(t, place)
  /\ \A t \in Threads : Reads(t)
  /\ Counting

\* The inductive invariant.
IInv == TypeOK /\ \E c, rows, place, S : Shape(c, rows, place, S)

\* The numbers of calls are those of finite sets.
LEMMA CountsAreFinite ==
  IsFiniteSet(Pushing) /\ Cardinality(Pushing) \in Nat
  /\ IsFiniteSet(Popping) /\ Cardinality(Popping) \in Nat
<1>1. Pushing \subseteq Threads /\ Popping \subseteq Threads
  BY DEF Pushing, Popping
<1>2. IsFiniteSet(Pushing) /\ IsFiniteSet(Popping)
  BY <1>1, FiniteAssumption, FS_Subset
<1> QED BY <1>2, FS_CardinalityType

\* A step of a thread that counts no more and no less.
LEMMA CountingKept ==
  ASSUME Counting, TypeOK, NEW t, OthersKept(t), UNCHANGED <<count, pushed, taken>>,
         t \in Threads => /\ pc'[t] \in Counts <=> pc[t] \in Counts
                          /\ pc'[t] = "countDown" <=> pc[t] = "countDown"
  PROVE  Counting'
<1>1. \A u \in Threads : /\ pc'[u] \in Counts <=> pc[u] \in Counts
                         /\ pc'[u] = "countDown" <=> pc[u] = "countDown"
  BY DEF OthersKept
<1>2. Pushing' = Pushing /\ Popping' = Popping
  BY <1>1 DEF Pushing, Popping
<1> QED BY <1>2 DEF Counting

-----------------------------------------------------------------------------
(* Steps that leave every node and item where it is.                       *)

\* A step of t that moves no node and no item; m_Tail may go to the next node.
Quiet(t) ==
  /\ UNCHANGED <<head, pNext, elem, free, unused, pushed, taken>>
  /\ OthersKept(t)
  /\ pc[t] \in PushPoints <=> pc'[t] \in PushPoints
  /\ pc[t] # "countDown" /\ pc'[t] # "countDown"
  /\ pc[t] \in PushPoints =>
       /\ own'[t] = own[t] /\ item'[t] = item[t]
       /\ link'[t].node \in {NULL, link[t].node, tail.node}
  /\ \/ tail' = tail
     \/ tail'.seq = tail.seq + 1 /\ tail'.node = pNext[tail.node] /\ pNext[tail.node] # END

\* Such a step leaves the shape of the queue as it is.
LEMMA QuietKeeps ==
  ASSUME NEW c, NEW rows, NEW place, NEW S, Shape(c, rows, place, S), TypeOK, TypeOK',
         NEW t \in Threads, Quiet(t), Reads(t)', Counting'
  PROVE  Shape(c, rows, place, S)'
<1> USE PlacesDiffer
<1>1. /\ Layout(c, rows, place) /\ Carriers(S, place) /\ Contents(S) /\ Ordered(rows)
      /\ \A u \in Threads : KnownTo(u, place)
      /\ \A u \in Threads : Reads(u)
  BY DEF Shape
<1>2. OthersKept(t) /\ UNCHANGED <<head, pNext, elem, free, unused, pushed, taken>>
  BY DEF Quiet
<1>3. ASSUME NEW u \in Threads
      PROVE  /\ Pusher(u)' <=> Pusher(u)
             /\ Popped(u)' <=> Popped(u)
  <2>1. CASE u = t
    BY <2>1 DEF Quiet, Pusher, Popped
  <2>2. CASE u # t
    BY <1>2, <2>2 DEF OthersKept, Pusher, Popped
  <2> QED BY <2>1, <2>2
<1>4. ASSUME NEW u \in Threads
      PROVE  /\ Pusher(u) \/ Popped(u) => own'[u] = own[u]
             /\ Pusher(u) => item'[u] = item[u]
  <2>1. CASE u = t
    BY <2>1 DEF Quiet, Pusher, Popped
  <2>2. CASE u # t
    BY <1>2, <2>2 DEF OthersKept, Pusher, Popped
  <2> QED BY <2>1, <2>2
<1>5. Along(pNext, c) /\ c[1] = head.node /\ In(c, tail.node) /\ tail.node \in Nodes
      /\ tail'.node \in Nodes
  BY <1>1 DEF Layout, TypeOK, Links
<1>6. In(c, tail'.node)
  <2>1. CASE tail' = tail
    BY <1>5, <2>1
  <2>2. CASE tail'.node = pNext[tail.node] /\ pNext[tail.node] # END
    BY <1>5, <2>2, AlongFacts
  <2> QED BY <2>1, <2>2 DEF Quiet
<1>7. Layout(c, rows, place)'
  BY <1>1, <1>2, <1>3, <1>4, <1>6, LayoutKept
<1>8. Carriers(S, place)'
  BY <1>1, <1>2, <1>3 DEF Carriers
<1>9. Contents(S)'
  BY <1>1, <1>2 DEF Contents
<1>10. Ordered(rows)'
  BY <1>1, <1>2, <1>3, <1>4 DEF Ordered, Decreasing
<1>12. place[tail.node] = InChain
  BY <1>1, <1>5 DEF Layout
<1>13. ASSUME NEW u \in Threads PROVE KnownTo(u, place)'
  <2> SUFFICES ASSUME Pusher(u)', link'[u].node # NULL
               PROVE  \A v \in Threads : Pusher(v)' /\ place[link'[u].node] = Of(v) =>
                        elem'[link'[u].node] > item'[u]
    BY DEF KnownTo
  <2>1. Pusher(u) /\ item'[u] = item[u] /\ KnownTo(u, place) /\ link[u].node \in Nodes \cup {NULL}
    BY <1>1, <1>3, <1>4 DEF TypeOK, Links
  <2>2. link'[u].node = tail.node \/ link'[u].node = link[u].node
    <3>1. CASE u = t
      BY <2>1, <3>1 DEF Quiet, Pusher
    <3>2. CASE u # t
      BY <1>2, <3>2 DEF Quiet, OthersKept
    <3> QED BY <3>1, <3>2
  <2>3. CASE link'[u].node = tail.node
    BY <1>12, <2>3
  <2>4. CASE link'[u].node = link[u].node
    <3>1. \A v \in Threads : Pusher(v) /\ place[link[u].node] = Of(v) => elem[link[u].node] > item[u]
      BY <2>1, <2>4 DEF KnownTo
    <3> QED BY <1>2, <1>3, <2>1, <2>4, <3>1
  <2> QED BY <2>2, <2>3, <2>4
<1>14. EndsMoved
  <2>1. Along(pNext, c) /\ c[1] = head.node
    BY <1>5
  <2>2. tail'.node = pNext[tail.node] /\ pNext[tail.node] # END => tail'.node # c[1]
    BY <1>5, AlongFacts
  <2> QED BY <1>2, <2>1, <2>2 DEF Quiet, EndsMoved
<1>15. \A u \in Threads : Reads(u)'
  BY <1>1, <1>2, <1>14, ReadsKept
<1> QED BY <1>7, <1>8, <1>9, <1>10, <1>13, <1>15 DEF Shape

-----------------------------------------------------------------------------
(* Types.                                                                  *)

\* The types of the queue ...
QueueType ==
  /\ head \in Links /\ tail \in Links /\ NULL \notin {head.node, tail.node}
  /\ pNext \in [Nodes -> Nodes \cup {NULL, END}]
  /\ elem \in [Nodes -> 0 .. MaxItems] /\ count \in Int
  /\ free \subseteq Nodes /\ unused \subseteq Nodes /\ free \cap unused = {}
  /\ taken \in Seq(1 .. MaxItems)

\* ... and of the calls.
CallType ==
  /\ pc \in [Threads -> Points] /\ own \in [Threads -> Nodes \cup {NULL}]
  /\ link \in [Threads -> Links] /\ tailSeq \in [Threads -> Nat]
  /\ nxt \in [Threads -> Nodes \cup {NULL, END}]
  /\ item \in [Threads -> 0 .. MaxItems] /\ none \in [Threads -> BOOLEAN]

\* Together they are TypeOK, before a step ...
LEMMA TypeParts == TypeOK <=> QueueType /\ CallType
BY DEF TypeOK, QueueType, CallType

\* ... and after it.
LEMMA TypePartsNext == TypeOK' <=> QueueType' /\ CallType'
BY DEF TypeOK, QueueType, CallType

\* A call that returns.
LEMMA ReturnsType ==
  ASSUME CallType, NEW t \in Threads, NEW from, Returns(t, from)
  PROVE  CallType'
BY DummyAssumption DEF CallType, Returns, Goes, Points, Links, NoLink

\* A pop that begins anew.
LEMMA AgainType ==
  ASSUME CallType, NEW t \in Threads, NEW from, Again(t, from)
  PROVE  CallType'
BY DummyAssumption DEF CallType, Again, Goes, Points, Links, NoLink

\* A call that goes on.
LEMMA GoesType ==
  ASSUME CallType, NEW t \in Threads, NEW from, NEW to \in Points, Goes(t, from, to)
  PROVE  pc' \in [Threads -> Points]
BY DEF CallType, Goes

\* Steps that leave the queue alone.
LEMMA QueueTypeKept ==
  ASSUME QueueType, UNCHANGED <<head, tail, pNext, elem, free, unused, taken>>, count' \in Int
  PROVE  QueueType'
BY DEF QueueType

\* m_Tail is moved to a node.
LEMMA TailMovedType ==
  ASSUME QueueType, NEW was \in Links, NEW n, tail = was => n \in Nodes,
         tail' = TailMoved(was, n), UNCHANGED <<head, pNext, elem, count, free, unused,
         taken>>
  PROVE  QueueType'
BY NullAssumption, EndAssumption DEF QueueType, TailMoved, Links

\* The types are kept by every step, one by one: reading m_Tail and links,
LEMMA ReadTailSeqType ==
  ASSUME TypeOK, NEW t \in Threads, Reads(t), ReadTailSeq(t)
  PROVE  TypeOK'
BY NullAssumption, EndAssumption DEF ReadTailSeq, TypeOK, Goes, Points, PushPoints,
  Links, Reads, PushReads, PopReads, queue, memory, history

\* the node of m_Tail,
LEMMA ReadTailNodeType ==
  ASSUME TypeOK, NEW t \in Threads, Reads(t), ReadTailNode(t)
  PROVE  TypeOK'
BY NullAssumption, EndAssumption DEF ReadTailNode, TypeOK, Goes, Points, PushPoints,
  Links, Reads, PushReads, PopReads, queue, memory, history

\* the link of the last node,
LEMMA ReadLinkType ==
  ASSUME TypeOK, NEW t \in Threads, Reads(t), ReadLink(t)
  PROVE  TypeOK'
BY NullAssumption, EndAssumption DEF ReadLink, TypeOK, Goes, Points, PushPoints, Links,
  Reads, PushReads, PopReads, queue, memory, history

\* the call of a pop,
LEMMA PopItemType ==
  ASSUME TypeOK, NEW t \in Threads, Reads(t), PopItem(t)
  PROVE  TypeOK'
BY NullAssumption, EndAssumption DEF PopItem, TypeOK, Goes, Points, PushPoints, Links,
  Reads, PushReads, PopReads, queue, memory, local, history

\* reading the sequence number of m_Head,
LEMMA ReadHeadSeqType ==
  ASSUME TypeOK, NEW t \in Threads, Reads(t), ReadHeadSeq(t)
  PROVE  TypeOK'
BY NullAssumption, EndAssumption DEF ReadHeadSeq, TypeOK, Goes, Points, PushPoints,
  Links, Reads, PushReads, PopReads, queue, memory, history

\* its node,
LEMMA ReadHeadNodeType ==
  ASSUME TypeOK, NEW t \in Threads, Reads(t), ReadHeadNode(t)
  PROVE  TypeOK'
BY NullAssumption, EndAssumption DEF ReadHeadNode, TypeOK, Goes, Points, PushPoints,
  Links, Reads, PushReads, PopReads, queue, memory, history

\* the sequence number of m_Tail,
LEMMA ReadSeqOfTailType ==
  ASSUME TypeOK, NEW t \in Threads, Reads(t), ReadSeqOfTail(t)
  PROVE  TypeOK'
BY NullAssumption, EndAssumption DEF ReadSeqOfTail, TypeOK, Goes, Points, PushPoints,
  Links, Reads, PushReads, PopReads, queue, memory, history

\* the item of the next node,
LEMMA ReadItemType ==
  ASSUME TypeOK, NEW t \in Threads, Reads(t), ReadItem(t)
  PROVE  TypeOK'
BY NullAssumption, EndAssumption DEF ReadItem, TypeOK, Goes, Points, PushPoints, Links,
  Reads, PushReads, PopReads, queue, memory, history

\* the link of the dummy,
LEMMA ReadNextType ==
  ASSUME TypeOK, NEW t \in Threads, Reads(t), ReadNext(t)
  PROVE  TypeOK'
<1>1. QueueType /\ CallType
  BY TypeParts
<1>2. Goes(t, "readNext", "check") /\ "check" \in Points /\ pc[t] = "readNext"
  BY DEF ReadNext, Points, Goes
<1>3. pc' \in [Threads -> Points]
  BY <1>1, <1>2, GoesType
<1>4. pNext[link[t].node] \in Nodes \cup {NULL, END}
  BY <1>1, <1>2 DEF Reads, PopReads, PopPoints, QueueType
<1>5. CallType'
  BY <1>1, <1>3, <1>4 DEF ReadNext, CallType
<1>6. QueueType'
  BY <1>1 DEF ReadNext, QueueType, queue, memory
<1> QED BY <1>5, <1>6, TypePartsNext

\* looking whether m_Head has moved on,
LEMMA CheckType ==
  ASSUME TypeOK, NEW t \in Threads, Check(t)
  PROVE  TypeOK'
<1>1. QueueType /\ CallType
  BY TypeParts
<1>2. QueueType'
  BY <1>1 DEF Check, QueueType, queue, memory
<1>3. CASE Goes(t, "check", "compare") /\ UNCHANGED <<local, none>>
  <2>1. pc' \in [Threads -> Points]
    BY <1>1, <1>3, GoesType DEF Points
  <2>2. CallType'
    BY <1>1, <1>3, <2>1 DEF CallType, local
  <2> QED BY <1>2, <2>2, TypePartsNext
<1>4. CASE Again(t, "check")
  BY <1>1, <1>2, <1>4, AgainType, TypePartsNext
<1> QED BY <1>3, <1>4 DEF Check

\* comparing the dummy with m_Tail,
LEMMA CompareType ==
  ASSUME TypeOK, NEW t \in Threads, Compare(t)
  PROVE  TypeOK'
<1>1. QueueType /\ CallType
  BY TypeParts
<1>2. QueueType'
  BY <1>1 DEF Compare, QueueType, queue, memory
<1>3. ASSUME NEW to \in {"helpPop", "readItem"}, Goes(t, "compare", to), UNCHANGED <<local, none>>
      PROVE  TypeOK'
  <2>1. pc' \in [Threads -> Points]
    BY <1>1, <1>3, GoesType DEF Points
  <2>2. CallType'
    BY <1>1, <1>3, <2>1 DEF CallType, local
  <2> QED BY <1>2, <2>2, TypePartsNext
<1>4. CASE Again(t, "compare")
  BY <1>1, <1>2, <1>4, AgainType, TypePartsNext
<1> QED BY <1>3, <1>4 DEF Compare

\* the return of a pop that finds nothing,
LEMMA PopEmptyType ==
  ASSUME TypeOK, NEW t \in Threads, PopEmpty(t)
  PROVE  TypeOK'
<1>1. QueueType /\ CallType
  BY TypeParts
<1>2. QueueType'
  BY <1>1 DEF PopEmpty, QueueType, queue
<1>3. Returns(t, "compare")
  BY DEF PopEmpty
<1> QED BY <1>1, <1>2, <1>3, ReturnsType, TypePartsNext

\* counting a push,
LEMMA CountUpType ==
  ASSUME TypeOK, NEW t \in Threads, CountUp(t)
  PROVE  TypeOK'
<1>1. QueueType /\ CallType
  BY TypeParts
<1>2. QueueType'
  BY <1>1 DEF CountUp, QueueType
<1>3. Returns(t, "countUp")
  BY DEF CountUp
<1> QED BY <1>1, <1>2, <1>3, ReturnsType, TypePartsNext

\* moving m_Tail along in a pop,
LEMMA HelpPopType ==
  ASSUME TypeOK, NEW t \in Threads, Reads(t), HelpPop(t)
  PROVE  TypeOK'
<1>1. QueueType /\ CallType
  BY TypeParts
<1>2. Again(t, "helpPop") /\ nxt[t] \in Nodes
  BY DEF HelpPop, Again, Goes, Reads, PopReads
<1>3. CallType'
  BY <1>1, <1>2, AgainType
<1>4. [node |-> link[t].node, seq |-> tailSeq[t]] \in Links
  BY <1>1 DEF CallType, Links
<1>5. QueueType'
  BY <1>1, <1>2, <1>4, TailMovedType DEF HelpPop, Helped, memory
<1> QED BY <1>3, <1>5, TypePartsNext

\* and in a push,
LEMMA HelpPushType ==
  ASSUME TypeOK, NEW t \in Threads, Reads(t), HelpPush(t)
  PROVE  TypeOK'
<1>1. QueueType /\ CallType
  BY TypeParts
<1>2. pc[t] = "helpPush" /\ pc' = [pc EXCEPT ![t] = "readTail"]
  BY DEF HelpPush, Goes
<1>3. CallType'
  BY <1>1, <1>2 DEF CallType, HelpPush, Points, PushPoints, Links, NoLink, history
<1>4. link[t] \in Links /\ (tail = link[t] => nxt[t] \in Nodes)
  BY <1>1, <1>2 DEF CallType, Reads, PushReads
<1>5. QueueType'
  BY <1>1, <1>4, TailMovedType DEF HelpPush, Helped, memory, history
<1> QED BY <1>3, <1>5, TypePartsNext

\* moving m_Tail to the node that was pushed,
LEMMA FinishPushType ==
  ASSUME TypeOK, NEW t \in Threads, Reads(t), FinishPush(t)
  PROVE  TypeOK'
<1>1. QueueType /\ CallType
  BY TypeParts
<1>2. pc[t] = "finish" /\ pc' = [pc EXCEPT ![t] = "countUp"]
  BY DEF FinishPush, Goes
<1>3. CallType'
  BY <1>1, <1>2 DEF CallType, FinishPush, Points, PushPoints, local, history
<1>4. link[t] \in Links /\ own[t] \in Nodes
  BY <1>1, <1>2 DEF CallType, Reads, PushReads
<1>5. QueueType'
  BY <1>1, <1>4, TailMovedType DEF FinishPush, memory, history
<1> QED BY <1>3, <1>5, TypePartsNext

\* linking it,
LEMMA LinkType ==
  ASSUME TypeOK, NEW t \in Threads, Reads(t), Link(t)
  PROVE  TypeOK'
<1>1. QueueType /\ CallType
  BY TypeParts
<1>2. PICK to \in {"finish", "readLink"} : Goes(t, "link", to)
  BY DEF Link
<1>3. pc' \in [Threads -> Points]
  BY <1>1, <1>2, GoesType DEF Points, PushPoints
<1>4. CallType'
  BY <1>1, <1>3 DEF CallType, Link, local, history
<1>5. own[t] \in Nodes
  BY DEF Reads, PushReads, Pusher, PushPoints, Link
<1>6. pNext' = pNext \/ pNext' = [pNext EXCEPT ![link[t].node] = own[t]]
  BY DEF Link
<1>7. QueueType'
  BY <1>1, <1>5, <1>6 DEF QueueType, Link, memory, history
<1> QED BY <1>4, <1>7, TypePartsNext

\* taking and filling a node,
LEMMA PushItemType ==
  ASSUME TypeOK, NEW t \in Threads, pushed \in Nat, PushItem(t)
  PROVE  TypeOK'
<1>1. QueueType /\ CallType
  BY TypeParts
<1>2. PICK n \in free \cup unused :
         /\ own' = [own EXCEPT ![t] = n]
         /\ elem' = [elem EXCEPT ![n] = pushed + 1]
         /\ item' = [item EXCEPT ![t] = pushed + 1]
         /\ pNext' = [pNext EXCEPT ![n] = END]
         /\ free' = free \ {n} /\ unused' = unused \ {n}
  BY DEF PushItem, AvailableNodes
<1>3. n \in Nodes /\ pushed + 1 \in 0 .. MaxItems
  BY <1>1, DummyAssumption DEF QueueType, PushItem
<1>4. pc' \in [Threads -> Points]
  BY <1>1, GoesType DEF PushItem, Points, PushPoints
<1>5. CallType'
  BY <1>1, <1>2, <1>3, <1>4 DEF CallType, PushItem
<1>6. QueueType'
  BY <1>1, <1>2, <1>3 DEF QueueType, PushItem
<1> QED BY <1>5, <1>6, TypePartsNext

\* exchanging m_Head
LEMMA SwapHeadType ==
  ASSUME TypeOK, NEW t \in Threads, Reads(t), SwapHead(t),
         SameHead(t) => item[t] \in 1 .. MaxItems
  PROVE  TypeOK'
<1>1. QueueType /\ CallType
  BY TypeParts
<1>2. CASE ~SameHead(t)
  <2>1. Again(t, "swapHead")
    BY <1>2 DEF SwapHead
  <2>2. QueueType'
    BY <1>1, <1>2 DEF QueueType, SwapHead, memory
  <2> QED BY <1>1, <2>1, <2>2, AgainType, TypePartsNext
<1>3. CASE SameHead(t)
  <2>1. pc[t] = "swapHead" /\ nxt[t] \in Nodes /\ link[t].node \in Nodes /\ link[t].seq \in Nat
    BY <1>1 DEF SwapHead, Reads, PopReads, PopPoints, CallType, Links
  <2>2. pc' \in [Threads -> Points]
    BY <1>1, <1>3, GoesType DEF SwapHead, Points
  <2>3. CallType'
    BY <1>1, <1>3, <2>1, <2>2 DEF CallType, SwapHead
  <2>4. head' \in Links /\ head'.node # NULL
    BY <1>3, <2>1, NullAssumption, EndAssumption DEF SwapHead, Links
  <2>5. taken' \in Seq(1 .. MaxItems)
    <3> DEFINE T == 1 .. MaxItems
    <3>1. taken \in Seq(T) /\ item[t] \in T /\ taken' = Append(taken, item[t])
      BY <1>1, <1>3 DEF QueueType, SwapHead
    <3> HIDE DEF T
    <3>2. taken' \in Seq(T)
      BY <3>1
    <3> QED BY <3>2 DEF T
  <2>6. QueueType'
    BY <1>1, <2>4, <2>5 DEF QueueType, SwapHead, memory
  <2> QED BY <2>3, <2>6, TypePartsNext
<1> QED BY <1>2, <1>3

\* and giving the old dummy back.
LEMMA CountDownType ==
  ASSUME TypeOK, NEW t \in Threads, CountDown(t), own[t] \in Nodes, own[t] \notin unused
  PROVE  TypeOK'
<1>1. QueueType /\ CallType
  BY TypeParts
<1>2. Returns(t, "countDown")
  BY DEF CountDown
<1>3. CallType'
  BY <1>1, <1>2, ReturnsType
<1>4. PICK y \in free \cup {NULL} : pNext' = [pNext EXCEPT ![own[t]] = y]
  BY DEF CountDown
<1>5. /\ item[t] \in 0 .. MaxItems /\ UNCHANGED <<head, tail, unused, taken>>
      /\ count' = count - 1 /\ elem' = [elem EXCEPT ![own[t]] = item[t]]
      /\ free' = free \cup {own[t]}
  BY <1>1 DEF CountDown, CallType
<1>6. free' \subseteq Nodes /\ free' \cap unused' = {}
  BY <1>1, <1>5 DEF QueueType
<1>7. QueueType'
  BY <1>1, <1>4, <1>5, <1>6 DEF QueueType
<1> QED BY <1>3, <1>7, TypePartsNext

-----------------------------------------------------------------------------
(* The quiet steps, one by one.                                            *)

\* The links lead from the dummy through the queue.
LEMMA ChainIs ==
  ASSUME NEW c, NEW rows, NEW place, Layout(c, rows, place)
  PROVE  Chain = c
<1>1. Along(pNext, c) /\ c[1] = head.node
  BY DEF Layout
<1>2. Walk(pNext, c[1]) = c
  BY <1>1, WalkAlong
<1> QED BY <1>1, <1>2 DEF Chain

\* The first and the last node.
LEMMA Ends ==
  ASSUME NEW c, NEW rows, NEW place, Layout(c, rows, place), TypeOK
  PROVE  /\ head.node \in Nodes /\ tail.node \in Nodes
         /\ pNext[head.node] # END => pNext[head.node] \in Nodes
         /\ pNext[tail.node] # END => pNext[tail.node] \in Nodes
<1>1. Along(pNext, c) /\ c[1] = head.node /\ In(c, tail.node)
  BY DEF Layout
<1>2. head.node \in Nodes /\ tail.node \in Nodes
  BY DEF TypeOK, Links
<1>3. In(c, head.node)
  BY <1>1, AlongFacts
<1> QED BY <1>1, <1>2, <1>3, AlongFacts

\* When the link of the dummy is End() there is no item.
LEMMA OnlyDummy ==
  ASSUME NEW c, NEW rows, NEW place, Layout(c, rows, place), TypeOK, pNext[head.node] = END
  PROVE  InQueue = << >>
<1>1. Along(pNext, c) /\ c[1] = head.node /\ Chain = c
  BY ChainIs DEF Layout
<1>2. Len(c) = 1
  <2>1. 1 \in 1 .. Len(c)
    BY <1>1, AlongFacts
  <2>2. pNext[c[1]] = IF 1 = Len(c) THEN END ELSE c[1 + 1]
    BY <1>1, <2>1 DEF Along
  <2>3. Len(c) # 1 => c[1 + 1] \in Nodes
    <3>1. Len(c) \in Nat /\ (Len(c) # 1 => 1 + 1 \in 1 .. Len(c))
      <4>1. Len(c) \in Nat
        BY <1>1, AlongFacts
      <4> QED BY <2>1, <4>1
    <3> QED BY <1>1, <3>1, AlongFacts
  <2> QED BY <1>1, <2>2, <2>3, NullAssumption, EndAssumption
<1>3. InQueue = [k \in 1 .. 0 |-> elem[Chain[k + 1]]]
  BY <1>1, <1>2 DEF InQueue
<1>4. 1 .. 0 = {}
  OBVIOUS
<1> QED BY <1>3, <1>4

\* A push reads the sequence number of m_Tail.
LEMMA ReadTailSeqQuiet ==
  ASSUME NEW c, NEW rows, NEW place, Layout(c, rows, place), TypeOK, TypeOK',
         NEW t \in Threads, Reads(t), ReadTailSeq(t)
  PROVE  Quiet(t) /\ Reads(t)'
<1>1. Quiet(t)
  BY Ends, NullAssumption, EndAssumption DEF Quiet, OthersKept, ReadTailSeq, TypeOK,
    Goes, Points, PushPoints, Links, Reads, PushReads, PopReads, PopPoints, queue,
    memory, history
<1>2. PushReads(t)'
  BY Ends, NullAssumption, EndAssumption DEF ReadTailSeq, TypeOK, Goes, Points,
    PushPoints, Links, Reads, PushReads, Pusher, queue, memory, history
<1>3. PopReads(t)'
  BY Ends, NullAssumption, EndAssumption DEF ReadTailSeq, TypeOK, Goes, Points,
    PushPoints, Links, Reads, PopReads, PopPoints, queue, memory, history
<1> QED BY <1>1, <1>2, <1>3 DEF Reads

\* A push reads the node of m_Tail.
LEMMA ReadTailNodeQuiet ==
  ASSUME NEW c, NEW rows, NEW place, Layout(c, rows, place), TypeOK, TypeOK',
         NEW t \in Threads, Reads(t), ReadTailNode(t)
  PROVE  Quiet(t) /\ Reads(t)'
<1>1. Quiet(t)
  BY Ends, NullAssumption, EndAssumption DEF Quiet, OthersKept, ReadTailNode, TypeOK,
    Goes, Points, PushPoints, Links, Reads, PushReads, PopReads, PopPoints, queue,
    memory, history
<1>2. PushReads(t)'
  BY Ends, NullAssumption, EndAssumption DEF ReadTailNode, TypeOK, Goes, Points,
    PushPoints, Links, Reads, PushReads, Pusher, queue, memory, history
<1>3. PopReads(t)'
  BY Ends, NullAssumption, EndAssumption DEF ReadTailNode, TypeOK, Goes, Points,
    PushPoints, Links, Reads, PopReads, PopPoints, queue, memory, history
<1> QED BY <1>1, <1>2, <1>3 DEF Reads

\* A push that finds a node linked to the last one reads the link.
LEMMA ReadLinkQuiet ==
  ASSUME NEW c, NEW rows, NEW place, Layout(c, rows, place), TypeOK, TypeOK',
         NEW t \in Threads, Reads(t), ReadLink(t)
  PROVE  Quiet(t) /\ Reads(t)'
<1>1. Quiet(t)
  BY Ends, NullAssumption, EndAssumption DEF Quiet, OthersKept, ReadLink, TypeOK, Goes,
    Points, PushPoints, Links, Reads, PushReads, PopReads, PopPoints, queue, memory,
    history
<1>2. PushReads(t)'
  BY Ends, NullAssumption, EndAssumption DEF ReadLink, TypeOK, Goes, Points,
    PushPoints, Links, Reads, PushReads, Pusher, queue, memory, history
<1>3. PopReads(t)'
  BY Ends, NullAssumption, EndAssumption DEF ReadLink, TypeOK, Goes, Points,
    PushPoints, Links, Reads, PopReads, PopPoints, queue, memory, history
<1> QED BY <1>1, <1>2, <1>3 DEF Reads

\* It moves m_Tail there, if m_Tail is what it has read.
LEMMA HelpPushQuiet ==
  ASSUME NEW c, NEW rows, NEW place, Layout(c, rows, place), TypeOK, TypeOK',
         NEW t \in Threads, Reads(t), HelpPush(t)
  PROVE  Quiet(t) /\ Reads(t)'
<1>1. Quiet(t)
  BY Ends, NullAssumption, EndAssumption DEF Quiet, OthersKept, HelpPush, TypeOK, Goes,
    Points, PushPoints, Links, NoLink, TailMoved, Helped, Reads, PushReads, PopReads,
    PopPoints, memory, history
<1>2. PushReads(t)'
  BY Ends, NullAssumption, EndAssumption DEF HelpPush, TypeOK, Goes, Points,
    PushPoints, Links, NoLink, TailMoved, Helped, Reads, PushReads, Pusher, memory,
    history
<1>3. PopReads(t)'
  BY Ends, NullAssumption, EndAssumption DEF HelpPush, TypeOK, Goes, Points,
    PushPoints, Links, NoLink, TailMoved, Helped, Reads, PopReads, PopPoints, memory,
    history
<1> QED BY <1>1, <1>2, <1>3 DEF Reads

\* A push that has linked its node moves m_Tail there.
LEMMA FinishPushQuiet ==
  ASSUME NEW c, NEW rows, NEW place, Layout(c, rows, place), TypeOK, TypeOK',
         NEW t \in Threads, Reads(t), FinishPush(t)
  PROVE  Quiet(t) /\ Reads(t)'
<1>1. Quiet(t)
  BY Ends, NullAssumption, EndAssumption DEF Quiet, OthersKept, FinishPush, TypeOK,
    Goes, Points, PushPoints, Links, TailMoved, Reads, PushReads, PopReads, PopPoints,
    memory, local, history
<1>2. PushReads(t)'
  BY Ends, NullAssumption, EndAssumption DEF FinishPush, TypeOK, Goes, Points,
    PushPoints, Links, TailMoved, Reads, PushReads, Pusher, memory, local, history
<1>3. PopReads(t)'
  BY Ends, NullAssumption, EndAssumption DEF FinishPush, TypeOK, Goes, Points,
    PushPoints, Links, TailMoved, Reads, PopReads, PopPoints, memory, local, history
<1> QED BY <1>1, <1>2, <1>3 DEF Reads

\* A push counts its item and returns.
LEMMA CountUpQuiet ==
  ASSUME NEW c, NEW rows, NEW place, Layout(c, rows, place), TypeOK, TypeOK',
         NEW t \in Threads, Reads(t), CountUp(t)
  PROVE  Quiet(t) /\ Reads(t)'
<1>1. Quiet(t)
  BY Ends, NullAssumption, EndAssumption DEF Quiet, OthersKept, CountUp, TypeOK, Goes,
    Points, PushPoints, Links, NoLink, Returns, Reads, PushReads, PopReads,
    PopPoints
<1>2. PushReads(t)'
  BY Ends, NullAssumption, EndAssumption DEF CountUp, TypeOK, Goes, Points, PushPoints,
    Links, NoLink, Returns, Reads, PushReads, Pusher
<1>3. PopReads(t)'
  BY Ends, NullAssumption, EndAssumption DEF CountUp, TypeOK, Goes, Points, PushPoints,
    Links, NoLink, Returns, Reads, PopReads, PopPoints
<1> QED BY <1>1, <1>2, <1>3 DEF Reads

\* A pop is called.
LEMMA PopItemQuiet ==
  ASSUME NEW c, NEW rows, NEW place, Layout(c, rows, place), TypeOK, TypeOK',
         NEW t \in Threads, Reads(t), PopItem(t)
  PROVE  Quiet(t) /\ Reads(t)'
<1>1. Quiet(t)
  BY Ends, NullAssumption, EndAssumption DEF Quiet, OthersKept, PopItem, TypeOK, Goes,
    Points, PushPoints, Links, Reads, PushReads, PopReads, PopPoints, queue, memory,
    local, history
<1>2. PushReads(t)'
  BY Ends, NullAssumption, EndAssumption DEF PopItem, TypeOK, Goes, Points, PushPoints,
    Links, Reads, PushReads, Pusher, queue, memory, local, history
<1>3. PopReads(t)'
  BY Ends, NullAssumption, EndAssumption DEF PopItem, TypeOK, Goes, Points, PushPoints,
    Links, Reads, PopReads, PopPoints, queue, memory, local, history
<1> QED BY <1>1, <1>2, <1>3 DEF Reads

\* A pop reads the sequence number of m_Head.
LEMMA ReadHeadSeqQuiet ==
  ASSUME NEW c, NEW rows, NEW place, Layout(c, rows, place), TypeOK, TypeOK',
         NEW t \in Threads, Reads(t), ReadHeadSeq(t)
  PROVE  Quiet(t) /\ Reads(t)'
<1>1. Quiet(t)
  BY Ends, NullAssumption, EndAssumption DEF Quiet, OthersKept, ReadHeadSeq, TypeOK,
    Goes, Points, PushPoints, Links, Reads, PushReads, PopReads, PopPoints, queue,
    memory, history
<1>2. PushReads(t)'
  BY Ends, NullAssumption, EndAssumption DEF ReadHeadSeq, TypeOK, Goes, Points,
    PushPoints, Links, Reads, PushReads, Pusher, queue, memory, history
<1>3. PopReads(t)'
  BY Ends, NullAssumption, EndAssumption DEF ReadHeadSeq, TypeOK, Goes, Points,
    PushPoints, Links, Reads, PopReads, PopPoints, queue, memory, history
<1> QED BY <1>1, <1>2, <1>3 DEF Reads

\* A pop reads the node of m_Head.
LEMMA ReadHeadNodeQuiet ==
  ASSUME NEW c, NEW rows, NEW place, Layout(c, rows, place), TypeOK, TypeOK',
         NEW t \in Threads, Reads(t), ReadHeadNode(t)
  PROVE  Quiet(t) /\ Reads(t)'
<1>1. Quiet(t)
  BY Ends, NullAssumption, EndAssumption DEF Quiet, OthersKept, ReadHeadNode, TypeOK,
    Goes, Points, PushPoints, Links, Reads, PushReads, PopReads, PopPoints, queue,
    memory, history
<1>2. PushReads(t)'
  BY Ends, NullAssumption, EndAssumption DEF ReadHeadNode, TypeOK, Goes, Points,
    PushPoints, Links, Reads, PushReads, Pusher, queue, memory, history
<1>3. PopReads(t)'
  BY Ends, NullAssumption, EndAssumption DEF ReadHeadNode, TypeOK, Goes, Points,
    PushPoints, Links, Reads, PopReads, PopPoints, queue, memory, history
<1> QED BY <1>1, <1>2, <1>3 DEF Reads

\* A pop reads the sequence number of m_Tail.
LEMMA ReadSeqOfTailQuiet ==
  ASSUME NEW c, NEW rows, NEW place, Layout(c, rows, place), TypeOK, TypeOK',
         NEW t \in Threads, Reads(t), ReadSeqOfTail(t)
  PROVE  Quiet(t) /\ Reads(t)'
<1>1. Quiet(t)
  BY Ends, NullAssumption, EndAssumption DEF Quiet, OthersKept, ReadSeqOfTail, TypeOK,
    Goes, Points, PushPoints, Links, Reads, PushReads, PopReads, PopPoints, queue,
    memory, history
<1>2. PushReads(t)'
  BY Ends, NullAssumption, EndAssumption DEF ReadSeqOfTail, TypeOK, Goes, Points,
    PushPoints, Links, Reads, PushReads, Pusher, queue, memory, history
<1>3. PopReads(t)'
  BY Ends, NullAssumption, EndAssumption DEF ReadSeqOfTail, TypeOK, Goes, Points,
    PushPoints, Links, Reads, PopReads, PopPoints, queue, memory, history
<1> QED BY <1>1, <1>2, <1>3 DEF Reads

\* A pop returns NULL.
LEMMA PopEmptyQuiet ==
  ASSUME NEW c, NEW rows, NEW place, Layout(c, rows, place), TypeOK, TypeOK',
         NEW t \in Threads, Reads(t), PopEmpty(t)
  PROVE  Quiet(t) /\ Reads(t)'
<1>1. Quiet(t)
  BY Ends, NullAssumption, EndAssumption DEF Quiet, OthersKept, PopEmpty, TypeOK, Goes,
    Points, PushPoints, Links, NoLink, Returns, Reads, PushReads, PopReads,
    PopPoints, queue
<1>2. PushReads(t)'
  BY Ends, NullAssumption, EndAssumption DEF PopEmpty, TypeOK, Goes, Points,
    PushPoints, Links, NoLink, Returns, Reads, PushReads, Pusher, queue
<1>3. PopReads(t)'
  BY Ends, NullAssumption, EndAssumption DEF PopEmpty, TypeOK, Goes, Points,
    PushPoints, Links, NoLink, Returns, Reads, PopReads, PopPoints, queue
<1> QED BY <1>1, <1>2, <1>3 DEF Reads

\* A pop that finds m_Tail behind moves it along.
LEMMA HelpPopQuiet ==
  ASSUME NEW c, NEW rows, NEW place, Layout(c, rows, place), TypeOK, TypeOK',
         NEW t \in Threads, Reads(t), HelpPop(t)
  PROVE  Quiet(t) /\ Reads(t)'
<1>1. Quiet(t)
  BY Ends, NullAssumption, EndAssumption DEF Quiet, OthersKept, HelpPop, TypeOK, Goes,
    Points, PushPoints, Links, NoLink, Again, TailMoved, Helped, Reads, PushReads,
    PopReads, PopPoints, memory
<1>2. PushReads(t)'
  BY Ends, NullAssumption, EndAssumption DEF HelpPop, TypeOK, Goes, Points, PushPoints,
    Links, NoLink, Again, TailMoved, Helped, Reads, PushReads, Pusher, memory
<1>3. PopReads(t)'
  BY Ends, NullAssumption, EndAssumption DEF HelpPop, TypeOK, Goes, Points, PushPoints,
    Links, NoLink, Again, TailMoved, Helped, Reads, PopReads, PopPoints, memory
<1> QED BY <1>1, <1>2, <1>3 DEF Reads

\* A pop reads the item of the next node.
LEMMA ReadItemQuiet ==
  ASSUME NEW c, NEW rows, NEW place, Layout(c, rows, place), TypeOK, TypeOK',
         NEW t \in Threads, Reads(t), ReadItem(t)
  PROVE  Quiet(t) /\ Reads(t)'
<1>1. Quiet(t)
  BY Ends, NullAssumption, EndAssumption DEF Quiet, OthersKept, ReadItem, TypeOK, Goes,
    Points, PushPoints, Links, Reads, PushReads, PopReads, PopPoints, queue, memory,
    history
<1>2. PushReads(t)'
  BY Ends, NullAssumption, EndAssumption DEF ReadItem, TypeOK, Goes, Points,
    PushPoints, Links, Reads, PushReads, Pusher, queue, memory, history
<1>3. PopReads(t)'
  BY Ends, NullAssumption, EndAssumption DEF ReadItem, TypeOK, Goes, Points,
    PushPoints, Links, Reads, PopReads, PopPoints, queue, memory, history
<1> QED BY <1>1, <1>2, <1>3 DEF Reads

\* A push that finds a node linked to the last one does not link its own.
LEMMA LinkQuiet ==
  ASSUME NEW c, NEW rows, NEW place, Layout(c, rows, place), TypeOK, TypeOK',
         NEW t \in Threads, Reads(t), Link(t), ~IsEnd(link[t].node)
  PROVE  Quiet(t) /\ Reads(t)'
<1>1. Quiet(t)
  BY Ends, NullAssumption, EndAssumption DEF Quiet, OthersKept, Link, IsEnd, TypeOK,
    Goes, Points, PushPoints, Links, Reads, PushReads, PopReads, PopPoints, memory,
    local, history
<1>2. PushReads(t)'
  BY Ends, NullAssumption, EndAssumption DEF Link, IsEnd, TypeOK, Goes, Points,
    PushPoints, Links, Reads, PushReads, Pusher, memory, local, history
<1>3. PopReads(t)'
  BY Ends, NullAssumption, EndAssumption DEF Link, IsEnd, TypeOK, Goes, Points,
    PushPoints, Links, Reads, PopReads, PopPoints, memory, local, history
<1> QED BY <1>1, <1>2, <1>3 DEF Reads


\* A pop starts again.
LEMMA AgainFacts ==
  ASSUME TypeOK, NEW t \in Threads, NEW from, Again(t, from)
  PROVE  /\ OthersKept(t) /\ pc[t] = from /\ pc'[t] = "readHeadSeq"
         /\ PushReads(t)' /\ PopReads(t)'
<1>1. pc[t] = from /\ pc'[t] = "readHeadSeq" /\ \A u \in Threads : u # t => pc'[u] = pc[u]
  BY DEF Again, Goes, TypeOK
<1>2. OthersKept(t)
  BY <1>1 DEF OthersKept, Again, TypeOK
<1>3. PushReads(t)'
  BY <1>1 DEF PushReads, Pusher, PushPoints
<1>4. PopReads(t)'
  BY <1>1 DEF PopReads, PopPoints
<1> QED BY <1>1, <1>2, <1>3, <1>4

\* A call goes on and keeps what it has read.
LEMMA OnFacts ==
  ASSUME TypeOK, NEW t \in Threads, NEW from, NEW to, Goes(t, from, to), UNCHANGED <<local, none>>
  PROVE  /\ OthersKept(t) /\ pc[t] = from /\ pc'[t] = to
BY DEF OthersKept, Goes, TypeOK, local

\* A pop that leaves the queue alone is quiet.
LEMMA PopQuiet ==
  ASSUME NEW t \in Threads, OthersKept(t), UNCHANGED <<queue, memory, pushed, taken>>,
         pc[t] \in PopPoints, pc'[t] \in PopPoints \cup {"readHeadSeq"}
  PROVE  Quiet(t)
<1>1. pc[t] \notin PushPoints /\ pc'[t] \notin PushPoints /\ pc[t] # "countDown" /\ pc'[t] # "countDown"
  BY DEF PopPoints, PushPoints
<1> QED BY <1>1 DEF Quiet, queue, memory

\* A pop reads the link of the dummy.
LEMMA ReadNextQuiet ==
  ASSUME NEW c, NEW rows, NEW place, Layout(c, rows, place), TypeOK, TypeOK',
         NEW t \in Threads, Reads(t), ReadNext(t)
  PROVE  Quiet(t) /\ Reads(t)'
<1>1. /\ pc[t] = "readNext" /\ pc'[t] = "check" /\ OthersKept(t)
      /\ UNCHANGED <<queue, memory, pushed, taken>>
  BY DEF ReadNext, Goes, TypeOK, OthersKept
<1>2. Quiet(t)
  BY <1>1, PopQuiet DEF PopPoints
<1>3. PushReads(t)'
  BY <1>1 DEF PushReads, Pusher, PushPoints
<1>4. /\ link'[t] = link[t] /\ tailSeq'[t] = tailSeq[t] /\ nxt'[t] = pNext[link[t].node]
      /\ none'[t] = (InQueue = << >>) /\ UNCHANGED <<head, tail, pNext>>
  <2>1. link'[t] = link[t] /\ tailSeq'[t] = tailSeq[t] /\ UNCHANGED <<head, tail, pNext>>
    BY DEF ReadNext, queue
  <2>2. nxt'[t] = pNext[link[t].node]
    BY DEF ReadNext, TypeOK
  <2>3. none'[t] = (InQueue = << >>)
    BY DEF ReadNext, TypeOK
  <2> QED BY <2>1, <2>2, <2>3
<1>5. link'[t] = head' /\ nxt'[t] = END => none'[t]
  BY <1>4, OnlyDummy
<1>6. PopReads(t)'
  BY <1>1, <1>4, <1>5 DEF PopReads, PopPoints, Reads
<1> QED BY <1>2, <1>3, <1>6 DEF Reads

\* A pop looks whether m_Head has moved on.
LEMMA CheckQuiet ==
  ASSUME NEW c, NEW rows, NEW place, Layout(c, rows, place), TypeOK, TypeOK',
         NEW t \in Threads, Reads(t), Check(t)
  PROVE  Quiet(t) /\ Reads(t)'
<1>1. UNCHANGED <<queue, memory, pushed, taken>>
  BY DEF Check
<1>2. CASE Consistent(t) /\ Goes(t, "check", "compare") /\ UNCHANGED <<local, none>>
  <2>1. OthersKept(t) /\ pc[t] = "check" /\ pc'[t] = "compare"
    BY <1>2, OnFacts
  <2>2. Quiet(t)
    BY <1>1, <2>1, PopQuiet DEF PopPoints
  <2>3. PushReads(t)'
    BY <2>1 DEF PushReads, Pusher, PushPoints
  <2>4. PopReads(t)'
    BY <1>1, <1>2, <2>1 DEF PopReads, PopPoints, Reads, Consistent, local, queue
  <2> QED BY <2>2, <2>3, <2>4 DEF Reads
<1>3. CASE Again(t, "check")
  BY <1>1, <1>3, AgainFacts, PopQuiet DEF Reads, PopPoints
<1> QED BY <1>2, <1>3 DEF Check

\* A pop compares the dummy with m_Tail.
LEMMA CompareQuiet ==
  ASSUME NEW c, NEW rows, NEW place, Layout(c, rows, place), TypeOK, TypeOK',
         NEW t \in Threads, Reads(t), Compare(t)
  PROVE  Quiet(t) /\ Reads(t)'
<1>1. UNCHANGED <<queue, memory, pushed, taken>>
  BY DEF Compare
<1>2. ASSUME NEW to \in {"helpPop", "readItem"}, Goes(t, "compare", to), UNCHANGED <<local, none>>,
             nxt[t] # END, to = "readItem" => ~AtTail(t)
      PROVE  Quiet(t) /\ Reads(t)'
  <2>1. OthersKept(t) /\ pc[t] = "compare" /\ pc'[t] = to
    BY <1>2, OnFacts
  <2>2. Quiet(t)
    BY <1>1, <2>1, PopQuiet DEF PopPoints
  <2>3. PushReads(t)'
    BY <2>1 DEF PushReads, Pusher, PushPoints
  <2>4. nxt[t] \in Nodes
    BY <1>2, <2>1 DEF Reads, PopReads, TypeOK
  <2>5. PopReads(t)'
    BY <1>1, <1>2, <2>1, <2>4 DEF PopReads, PopPoints, Reads, AtTail, local, queue
  <2> QED BY <2>2, <2>3, <2>5 DEF Reads
<1>3. CASE Again(t, "compare")
  BY <1>1, <1>3, AgainFacts, PopQuiet DEF Reads, PopPoints
<1>4. \/ AtTail(t) /\ nxt[t] # END /\ Goes(t, "compare", "helpPop") /\ UNCHANGED <<local, none>>
      \/ ~AtTail(t) /\ nxt[t] # END /\ Goes(t, "compare", "readItem") /\ UNCHANGED <<local, none>>
      \/ Again(t, "compare")
  BY DEF Compare
<1> QED BY <1>2, <1>3, <1>4

\* A pop that finds m_Head moved begins anew.
LEMMA SwapHeadQuiet ==
  ASSUME NEW c, NEW rows, NEW place, Layout(c, rows, place), TypeOK, TypeOK',
         NEW t \in Threads, Reads(t), SwapHead(t), ~SameHead(t)
  PROVE  Quiet(t) /\ Reads(t)'
<1>1. Again(t, "swapHead") /\ UNCHANGED <<queue, memory, pushed, taken>>
  BY DEF SwapHead, queue
<1> QED BY <1>1, AgainFacts, PopQuiet DEF Reads, PopPoints

-----------------------------------------------------------------------------
(* The other steps.                                                        *)

\* Steps that keep the nodes of the queue, but for the link of the last one.
LEMMA EndsKept ==
  ASSUME NEW c, NEW rows, NEW place, Layout(c, rows, place), TypeOK, UNCHANGED <<head, tail>>,
         \A x \in Nodes : In(c, x) => /\ pNext[x] # END => pNext'[x] = pNext[x]
                                      /\ elem'[x] = elem[x]
  PROVE  EndsMoved
<1>1. Along(pNext, c) /\ c[1] = head.node /\ In(c, tail.node)
  BY DEF Layout
<1>2. head.node \in Nodes /\ tail.node \in Nodes /\ In(c, head.node)
  BY <1>1, Ends, AlongFacts
<1>3. pNext[head.node] \in Nodes => In(c, pNext[head.node])
  BY <1>1, <1>2, NullAssumption, EndAssumption, AlongFacts
<1> QED BY <1>1, <1>2, <1>3 DEF EndsMoved

\* A node that a push holds carries an item; its first one carries its own.
LEMMA OwnCarried ==
  ASSUME NEW c, NEW rows, NEW place, NEW S, Shape(c, rows, place, S), TypeOK,
         NEW t \in Threads, Pusher(t)
  PROVE  /\ own[t] \in Nodes /\ own[t] \in S /\ In(rows[t], own[t]) /\ rows[t][1] = own[t]
         /\ item[t] = elem[own[t]] /\ item[t] \in 1 .. pushed
<1>1. Along(pNext, rows[t]) /\ rows[t][1] = own[t] /\ item[t] = elem[own[t]]
  BY DEF Shape, Layout, Ordered
<1>2. own[t] \in Nodes /\ In(rows[t], own[t])
  BY <1>1, AlongFacts
<1>3. place[own[t]] = Of(t)
  BY <1>2 DEF Shape, Layout
<1>4. own[t] \in S
  BY <1>2, <1>3 DEF Shape, Carriers
<1>5. elem[own[t]] \in 1 .. pushed
  BY <1>4 DEF Shape, Contents
<1> QED BY <1>1, <1>2, <1>4, <1>5

\* PushItem: a free or new node becomes the row of the push.
LEMMA PushItemShape ==
  ASSUME NEW c, NEW rows, NEW place, NEW S, Shape(c, rows, place, S), TypeOK, TypeOK',
         NEW t \in Threads, PushItem(t)
  PROVE  \E r2, p2, S2 : Shape(c, r2, p2, S2)'
<1> USE PlacesDiffer
<1>1. /\ Layout(c, rows, place) /\ Carriers(S, place) /\ Contents(S) /\ Ordered(rows)
      /\ \A u \in Threads : KnownTo(u, place)
      /\ Counting
      /\ \A u \in Threads : Reads(u)
  BY DEF Shape
<1>2. PICK n \in AvailableNodes :
        /\ own' = [own EXCEPT ![t] = n]
        /\ elem' = [elem EXCEPT ![n] = pushed + 1]
        /\ item' = [item EXCEPT ![t] = pushed + 1]
        /\ pNext' = [pNext EXCEPT ![n] = END]
        /\ free' = free \ {n} /\ unused' = unused \ {n}
  BY DEF PushItem
<1>3. n \in free \cup unused /\ n \in Nodes
  BY <1>2 DEF AvailableNodes, TypeOK
<1>4. /\ pc[t] = "idle" /\ pc' = [pc EXCEPT ![t] = "readTail"] /\ pushed < MaxItems
      /\ pushed' = pushed + 1
      /\ UNCHANGED <<head, tail, count, link, tailSeq, nxt, taken, none>>
  BY DEF PushItem, Goes
<1>5. OthersKept(t) /\ pc'[t] = "readTail" /\ own'[t] = n /\ item'[t] = pushed + 1
  BY <1>2, <1>3, <1>4 DEF OthersKept, TypeOK
<1>6. \A m \in Nodes : /\ elem'[m] = IF m = n THEN pushed + 1 ELSE elem[m]
                       /\ pNext'[m] = IF m = n THEN END ELSE pNext[m]
  BY <1>2 DEF TypeOK
<1>7. Pusher(t)' /\ ~Popped(t)' /\ ~Pusher(t) /\ ~Popped(t)
  BY <1>4, <1>5 DEF Pusher, Popped, PushPoints
<1>8. \A u \in Threads : u # t => /\ Pusher(u)' <=> Pusher(u)
                                  /\ Popped(u)' <=> Popped(u)
                                  /\ own'[u] = own[u] /\ item'[u] = item[u] /\ link'[u] = link[u]
  BY <1>5 DEF Pusher, Popped, OthersKept
<1>9. /\ place[n] = Free \/ place[n] = New
      /\ \A u \in Threads : ~In(rows[u], n)
      /\ ~In(c, n)
  BY <1>1, <1>3 DEF Layout
<1>10. \A m \in Nodes : place[m] # Of(t)
  BY <1>1, <1>7, NothingIn DEF Layout
<1> DEFINE r2 == [u \in Threads |-> IF u = t THEN <<n>> ELSE rows[u]]
           p2 == [m \in Nodes |-> IF m = n THEN Of(t) ELSE place[m]]
           S2 == S \cup {n}
<1>11. Layout(c, r2, p2)'
  <2>1. /\ Layout(c, rows, place) /\ pc[t] = "idle" /\ n \in free \cup unused
        /\ pc' = [pc EXCEPT ![t] = "readTail"] /\ own' = [own EXCEPT ![t] = n]
        /\ pNext' = [pNext EXCEPT ![n] = END]
        /\ free' = free \ {n} /\ unused' = unused \ {n} /\ UNCHANGED <<head, tail>>
    BY <1>1, <1>2, <1>3, <1>4
  <2> QED BY <2>1, LayoutPushed
<1>12. n \notin S /\ \A m \in S : m \in Nodes /\ elem'[m] = elem[m]
  BY <1>1, <1>3, <1>6, <1>9 DEF Carriers
<1>13. Carriers(S2, p2)'
  <2>1. S2 \in SUBSET Nodes
    BY <1>1, <1>3 DEF Carriers
  <2>2. ASSUME NEW m \in Nodes
        PROVE  m \in S2 <=> \/ p2[m] = InChain /\ m # head'.node
                            \/ \E u \in Threads : Pusher(u)' /\ p2[m] = Of(u)
    <3>1. CASE m = n
      BY <1>7, <3>1
    <3>2. CASE m # n
      <4>1. p2[m] = place[m] /\ (m \in S2 <=> m \in S)
        BY <3>2
      <4>2. (\E u \in Threads : Pusher(u)' /\ place[m] = Of(u))
              <=> (\E u \in Threads : Pusher(u) /\ place[m] = Of(u))
        BY <1>7, <1>8, <1>10
      <4> HIDE DEF p2, S2
      <4> QED BY <1>1, <1>4, <4>1, <4>2 DEF Carriers
    <3> QED BY <3>1, <3>2
  <2> HIDE DEF p2, S2
  <2> QED BY <2>1, <2>2 DEF Carriers
<1>14. Contents(S2)'
  BY <1>1, <1>3, <1>4, <1>6, <1>12, ContentsPushed
<1>15. Ordered(r2)'
  <2> SUFFICES ASSUME NEW u \in Threads, Pusher(u)'
               PROVE  item'[u] = elem'[own'[u]] /\ Decreasing(r2[u])'
    BY DEF Ordered
  <2>1. CASE u = t
    <3>1. item'[u] = elem'[own'[u]]
      BY <1>3, <1>5, <1>6, <2>1
    <3>2. Len(r2[u]) = 1 /\ \A j, k \in 1 .. 1 : ~(j < k)
      BY <2>1
    <3> HIDE DEF r2
    <3> QED BY <3>1, <3>2 DEF Decreasing
  <2>2. CASE u # t
    <3>1. Pusher(u) /\ r2[u] = rows[u] /\ item'[u] = item[u] /\ own'[u] = own[u]
      BY <1>8, <2>2
    <3>2. Along(pNext, rows[u]) /\ item[u] = elem[own[u]] /\ Decreasing(rows[u])
      BY <1>1, <3>1 DEF Layout, Ordered
    <3>3. own[u] \in Nodes /\ In(rows[u], own[u])
      BY <3>1, OwnCarried
    <3>4. \A k \in 1 .. Len(rows[u]) : rows[u][k] \in Nodes /\ In(rows[u], rows[u][k])
      BY <3>2, AlongFacts DEF In
    <3>5. \A k \in 1 .. Len(rows[u]) : elem'[rows[u][k]] = elem[rows[u][k]]
      BY <1>6, <1>9, <3>4
    <3>6. Decreasing(rows[u])'
      BY <3>2, <3>5 DEF Decreasing
    <3>7. elem'[own[u]] = elem[own[u]]
      BY <1>6, <1>9, <3>3
    <3> QED BY <3>1, <3>2, <3>6, <3>7
  <2> QED BY <2>1, <2>2
<1>16. ASSUME NEW u \in Threads PROVE KnownTo(u, p2)'
  <2> DEFINE x == link[u].node
  <2>1. link'[u].node = x /\ x \in Nodes \cup {NULL}
    BY <1>4 DEF TypeOK, Links
  <2>2. CASE u = t
    <3>1. link[u].node = NULL
      BY <1>1, <1>4, <2>2 DEF Reads, PushReads
    <3> QED BY <2>1, <3>1 DEF KnownTo
  <2>3. CASE u # t
    <3> HIDE DEF x
    <3> SUFFICES ASSUME Pusher(u)', x # NULL
                 PROVE  \A v \in Threads : Pusher(v)' /\ p2[x] = Of(v) => elem'[x] > item'[u]
      BY <2>1 DEF KnownTo
    <3>1. Pusher(u) /\ item'[u] = item[u] /\ x \in Nodes
      BY <1>8, <2>1, <2>3
    <3>2. \A v \in Threads : Pusher(v) /\ place[x] = Of(v) => elem[x] > item[u]
      BY <1>1, <3>1 DEF KnownTo, x
    <3>3. ASSUME NEW v \in Threads, Pusher(v)', p2[x] = Of(v) PROVE elem'[x] > item'[u]
      <4>1. CASE x = n
        <5>1. item[u] \in 1 .. pushed /\ pushed \in Nat
          BY <3>1, OwnCarried, <1>1, DummyAssumption DEF Contents
        <5> QED BY <1>6, <3>1, <4>1, <5>1
      <4>2. CASE x # n
        BY <1>6, <1>8, <1>10, <3>1, <3>2, <3>3, <4>2
      <4> QED BY <4>1, <4>2
    <3> QED BY <3>3
  <2> QED BY <2>2, <2>3
<1>18. EndsMoved
  BY <1>1, <1>4, <1>6, <1>9, EndsKept
<1>19. Reads(t)'
  <2>1. link'[t].node = NULL
    BY <1>1, <1>4 DEF Reads, PushReads
  <2> QED BY <1>3, <1>5, <2>1 DEF Reads, PushReads, PopReads, PopPoints
<1>20. \A u \in Threads : Reads(u)'
  BY <1>1, <1>5, <1>18, <1>19, ReadsKept
<1>21. Counting'
  <2>1. t \notin Pushing /\ Pushing' = Pushing \cup {t} /\ Popping' = Popping
    BY <1>4, <1>5 DEF Pushing, Popping, Counts, PushPoints, OthersKept
  <2>2. Cardinality(Pushing') = Cardinality(Pushing) + 1
    BY <2>1, CountsAreFinite, FS_AddElement
  <2>3. /\ Cardinality(Pushing) \in Nat /\ Cardinality(Popping) \in Nat /\ pushed \in Int
        /\ Len(taken) \in Nat
    BY <1>1, CountsAreFinite, DummyAssumption DEF Contents
  <2>4. count = pushed - Len(taken) - Cardinality(Pushing) + Cardinality(Popping)
    BY <1>1 DEF Counting
  <2>5. count' = pushed' - Len(taken') - Cardinality(Pushing') + Cardinality(Popping')
    BY <1>4, <2>1, <2>2, <2>3, <2>4
  <2> QED BY <2>5 DEF Counting
<1> HIDE DEF r2, p2, S2
<1>22. Shape(c, r2, p2, S2)'
  BY <1>11, <1>13, <1>14, <1>15, <1>16, <1>20, <1>21 DEF Shape
<1> QED BY <1>22

\* What every step of Link that finds End() has in common.
LEMMA LinkFacts ==
  ASSUME NEW c, NEW rows, NEW place, NEW S, Shape(c, rows, place, S), TypeOK, TypeOK',
         NEW t \in Threads, Link(t), NEW x, x = link[t].node, pNext[x] = END
  PROVE  /\ x \in Nodes /\ Pusher(t) /\ pc[t] = "link" /\ pc' = [pc EXCEPT ![t] = "finish"]
         /\ pNext' = [pNext EXCEPT ![x] = own[t]]
         /\ UNCHANGED <<head, tail, elem, count, memory, local, history>>
         /\ OthersKept(t) /\ pc'[t] = "finish"
         /\ ~Pusher(t)' /\ ~Popped(t)' /\ ~Popped(t)
         /\ \A u \in Threads : u # t => (Pusher(u)' <=> Pusher(u)) /\ (Popped(u)' <=> Popped(u))
         /\ \A m \in Nodes : m # x => pNext'[m] = pNext[m]
         /\ own[t] \in Nodes /\ pNext'[x] = own[t]
         /\ ~In(rows[t], x)
         /\ Reads(t)' /\ Counting'
<1>1. /\ Layout(c, rows, place) /\ Carriers(S, place) /\ Contents(S) /\ Ordered(rows)
      /\ KnownTo(t, place) /\ Counting /\ Reads(t)
  BY DEF Shape
<1>2. pc[t] = "link" /\ Pusher(t) /\ x \in Nodes /\ own[t] \in Nodes
  BY <1>1 DEF Link, Pusher, PushPoints, Reads, PushReads
<1>3. /\ pc' = [pc EXCEPT ![t] = "finish"] /\ pNext' = [pNext EXCEPT ![x] = own[t]]
      /\ UNCHANGED <<head, tail, elem, count, memory, local, history>>
  BY DEF Link, IsEnd, Goes
<1>4. OthersKept(t) /\ pc'[t] = "finish"
  BY <1>3 DEF OthersKept, TypeOK, local, history
<1>5. ~Pusher(t)' /\ ~Popped(t)' /\ ~Popped(t)
  BY <1>2, <1>4 DEF Pusher, Popped, PushPoints
<1>6. \A u \in Threads : u # t => (Pusher(u)' <=> Pusher(u)) /\ (Popped(u)' <=> Popped(u))
  BY <1>4 DEF OthersKept, Pusher, Popped
<1>7. (\A m \in Nodes : m # x => pNext'[m] = pNext[m]) /\ pNext'[x] = own[t]
  BY <1>2, <1>3 DEF TypeOK
<1>8. ~In(rows[t], x)
  <2> SUFFICES ASSUME In(rows[t], x) PROVE FALSE
    OBVIOUS
  <2>1. place[x] = Of(t)
    BY <1>1, <1>2 DEF Layout
  <2>2. x # NULL /\ elem[x] > item[t]
    BY <1>1, <1>2, <2>1, NullAssumption, EndAssumption DEF KnownTo
  <2>3. Along(pNext, rows[t]) /\ Decreasing(rows[t]) /\ item[t] = elem[rows[t][1]]
    BY <1>1, <1>2 DEF Layout, Ordered
  <2>4. elem[x] <= elem[rows[t][1]]
    BY <1>2, <2>3, FirstIsNewest
  <2>5. elem[x] \in Int /\ elem[rows[t][1]] \in Int
    <3>1. rows[t][1] \in Nodes
      BY <1>1, <1>2 DEF Layout
    <3>2. elem \in [Nodes -> 0 .. MaxItems] /\ MaxItems \in Nat
      BY DummyAssumption DEF TypeOK
    <3> QED BY <1>2, <3>1, <3>2
  <2> QED BY <2>2, <2>3, <2>4, <2>5
<1>9. Reads(t)'
  <2>1. PushReads(t)'
    BY <1>1, <1>2, <1>3, <1>4, <1>7 DEF Reads, PushReads, Pusher, PushPoints, local
  <2>2. PopReads(t)'
    BY <1>4 DEF PopReads, PopPoints
  <2> QED BY <2>1, <2>2 DEF Reads
<1>10. Counting'
  BY <1>1, <1>2, <1>3, <1>4, CountingKept DEF Counts, PushPoints, history
<1> QED BY <1>2, <1>3, <1>4, <1>5, <1>6, <1>7, <1>8, <1>9, <1>10

\* Link: the row of the push is added at the end of the queue.
LEMMA LinkQueueShape ==
  ASSUME NEW c, NEW rows, NEW place, NEW S, Shape(c, rows, place, S), TypeOK, TypeOK',
         NEW t \in Threads, Link(t), NEW x, x = link[t].node, pNext[x] = END, In(c, x)
  PROVE  \E r2, p2 : Shape(c \o rows[t], r2, p2, S)'
<1> USE PlacesDiffer
<1> DEFINE c2 == c \o rows[t]
           r2 == [u \in Threads |-> IF u = t THEN << >> ELSE rows[u]]
           p2 == [m \in Nodes |-> IF In(rows[t], m) THEN InChain ELSE place[m]]
<1>1. /\ Layout(c, rows, place) /\ Carriers(S, place) /\ Contents(S) /\ Ordered(rows)
      /\ \A u \in Threads : KnownTo(u, place)
      /\ \A u \in Threads : Reads(u)
  BY DEF Shape
<1>2. /\ x \in Nodes /\ Pusher(t) /\ pc' = [pc EXCEPT ![t] = "finish"]
      /\ pNext' = [pNext EXCEPT ![x] = own[t]]
      /\ UNCHANGED <<head, tail, elem, free, unused, own, link, item, pushed, taken>>
      /\ OthersKept(t) /\ ~Pusher(t)' /\ ~Popped(t)'
      /\ ~Popped(t) /\ Reads(t)' /\ Counting'
  BY LinkFacts DEF memory, local, history
<1>3. \A u \in Threads : u # t => (Pusher(u)' <=> Pusher(u)) /\ (Popped(u)' <=> Popped(u))
  BY LinkFacts
<1>4. \A m \in Nodes : m # x => pNext'[m] = pNext[m]
  BY LinkFacts
<1>5. Layout(c2, r2, p2)'
  <2> HIDE DEF r2, p2
  <2>1. /\ \A u \in Threads : r2[u] = IF u = t THEN << >> ELSE rows[u]
        /\ \A m \in Nodes : p2[m] = IF In(rows[t], m) THEN InChain ELSE place[m]
    BY DEF r2, p2
  <2>2. Layout(c, rows, place) /\ UNCHANGED <<head, tail, free, unused, own>>
    BY <1>1, <1>2
  <2> QED BY <1>2, <2>1, <2>2, LayoutLinkQueue
<1> HIDE DEF c2
<1>6. /\ \A m \in Nodes : In(rows[t], m) => place[m] = Of(t) /\ p2[m] = InChain
      /\ \A m \in Nodes : ~In(rows[t], m) => place[m] # Of(t) /\ p2[m] = place[m]
      /\ \A u \in Threads : u # t => r2[u] = rows[u]
  BY <1>1 DEF Layout
<1> HIDE DEF r2, p2
<1>7. Carriers(S, p2)'
  <2>1. ASSUME NEW m \in Nodes
        PROVE  m \in S <=> \/ p2[m] = InChain /\ m # head'.node
                           \/ \E u \in Threads : Pusher(u)' /\ p2[m] = Of(u)
    <3>1. CASE In(rows[t], m)
      <4>1. m \in S
        BY <1>1, <1>2, <1>6, <3>1 DEF Carriers
      <4>2. place[head.node] = InChain
        <5>1. Along(pNext, c) /\ c[1] = head.node
          BY <1>1 DEF Layout
        <5>2. In(c, head.node) /\ head.node \in Nodes
          BY <1>1, <5>1, Ends, AlongFacts
        <5> QED BY <1>1, <5>2 DEF Layout
      <4>3. m # head'.node
        BY <1>2, <1>6, <3>1, <4>2
      <4> QED BY <1>6, <3>1, <4>1, <4>3
    <3>2. CASE ~In(rows[t], m)
      <4>1. (\E u \in Threads : Pusher(u)' /\ place[m] = Of(u))
              <=> (\E u \in Threads : Pusher(u) /\ place[m] = Of(u))
        BY <1>2, <1>3, <1>6, <3>2
      <4> QED BY <1>1, <1>2, <1>6, <3>2, <4>1 DEF Carriers
    <3> QED BY <3>1, <3>2
  <2> QED BY <1>1, <2>1 DEF Carriers
<1>8. Contents(S)'
  BY <1>1, <1>2 DEF Contents
<1>9. Ordered(r2)'
  BY <1>1, <1>2, <1>3, <1>6 DEF Ordered, Decreasing
<1>11. ASSUME NEW u \in Threads PROVE KnownTo(u, p2)'
  <2> DEFINE y == link[u].node
  <2>1. link'[u].node = y /\ y \in Nodes \cup {NULL}
    BY <1>2 DEF TypeOK, Links
  <2> HIDE DEF y
  <2> SUFFICES ASSUME Pusher(u)', y # NULL
               PROVE  \A v \in Threads : Pusher(v)' /\ p2[y] = Of(v) => elem'[y] > item'[u]
    BY <2>1 DEF KnownTo
  <2>2. u # t /\ Pusher(u) /\ y \in Nodes
    BY <1>2, <1>3, <2>1
  <2>3. \A v \in Threads : Pusher(v) /\ place[y] = Of(v) => elem[y] > item[u]
    BY <1>1, <2>2 DEF KnownTo, y
  <2>4. ASSUME NEW v \in Threads, Pusher(v)', p2[y] = Of(v) PROVE elem'[y] > item'[u]
    <3>1. v # t /\ Pusher(v) /\ place[y] = Of(v)
      BY <1>2, <1>3, <1>6, <2>2, <2>4
    <3> QED BY <1>2, <2>3, <3>1
  <2> QED BY <2>4
<1>12. EndsMoved
  <2>1. \A m \in Nodes : In(c, m) => /\ pNext[m] # END => pNext'[m] = pNext[m]
                                     /\ elem'[m] = elem[m]
    BY <1>2, <1>4
  <2> QED BY <1>1, <1>2, <2>1, EndsKept
<1>13. \A u \in Threads : Reads(u)'
  BY <1>1, <1>2, <1>12, ReadsKept
<1>14. Shape(c2, r2, p2, S)'
  BY <1>2, <1>5, <1>7, <1>8, <1>9, <1>11, <1>13 DEF Shape
<1> QED BY <1>14 DEF c2

\* Link to a node that is not in the queue any more: the row of the push is added
\* to that of another push, o.
LEMMA LinkRowShape ==
  ASSUME NEW c, NEW rows, NEW place, NEW S, Shape(c, rows, place, S), TypeOK, TypeOK',
         NEW t \in Threads, Link(t), NEW x, x = link[t].node, pNext[x] = END,
         NEW o \in Threads, Pusher(o), In(rows[o], x)
  PROVE  \E r2, p2 : Shape(c, r2, p2, S)'
<1> USE PlacesDiffer
<1> DEFINE s == rows[o] \o rows[t]
           r2 == [u \in Threads |-> IF u = t THEN << >> ELSE IF u = o THEN s ELSE rows[u]]
           p2 == [m \in Nodes |-> IF In(rows[t], m) THEN Of(o) ELSE place[m]]
<1>1. /\ Layout(c, rows, place) /\ Carriers(S, place) /\ Contents(S) /\ Ordered(rows)
      /\ \A u \in Threads : KnownTo(u, place)
      /\ \A u \in Threads : Reads(u)
  BY DEF Shape
<1>2. /\ x \in Nodes /\ Pusher(t) /\ pc' = [pc EXCEPT ![t] = "finish"]
      /\ pNext' = [pNext EXCEPT ![x] = own[t]]
      /\ UNCHANGED <<head, tail, elem, free, unused, own, link, item, pushed, taken>>
      /\ OthersKept(t) /\ ~Pusher(t)' /\ ~Popped(t)'
      /\ ~Popped(t) /\ Reads(t)' /\ Counting' /\ o # t
  BY LinkFacts DEF memory, local, history
<1>3. \A u \in Threads : u # t => (Pusher(u)' <=> Pusher(u)) /\ (Popped(u)' <=> Popped(u))
  BY LinkFacts
<1>4. \A m \in Nodes : m # x => pNext'[m] = pNext[m]
  BY LinkFacts
<1>5. Layout(c, r2, p2)'
  <2> HIDE DEF r2, p2, s
  <2>1. /\ RowsJoined(r2, rows, t, o, s)
        /\ PlacesMoved(p2, rows, place, t, Of(o))
        /\ s = rows[o] \o rows[t]
    BY DEF r2, p2, s, RowsJoined, PlacesMoved
  <2>2. /\ Layout(c, rows, place) /\ TypeOK /\ Pusher(t) /\ o # t /\ Pusher(o) /\ x \in Nodes
        /\ pc' = [pc EXCEPT ![t] = "finish"] /\ In(rows[o], x) /\ pNext[x] = END
        /\ pNext' = [pNext EXCEPT ![x] = own[t]] /\ UNCHANGED <<head, tail, free, unused, own>>
    BY <1>1, <1>2
  <2> QED BY <2>1, <2>2, LayoutLinkRow
<1>6. /\ \A m \in Nodes : In(rows[t], m) => place[m] = Of(t) /\ p2[m] = Of(o)
      /\ \A m \in Nodes : ~In(rows[t], m) => place[m] # Of(t) /\ p2[m] = place[m]
      /\ \A u \in Threads : u # t /\ u # o => r2[u] = rows[u]
      /\ r2[o] = s
  BY <1>1, <1>2 DEF Layout
<1> HIDE DEF r2, p2, s
\* The node was known to the push before it was used again.
<1>7. elem[x] > item[t]
  <2>1. KnownTo(t, place) /\ x # NULL /\ place[x] = Of(o)
    BY <1>1, <1>2, NullAssumption, EndAssumption DEF Layout
  <2> QED BY <1>2, <2>1 DEF KnownTo
<1>8. Carriers(S, p2)'
  <2>1. ASSUME NEW m \in Nodes
        PROVE  m \in S <=> \/ p2[m] = InChain /\ m # head'.node
                           \/ \E u \in Threads : Pusher(u)' /\ p2[m] = Of(u)
    <3>1. CASE In(rows[t], m)
      <4>1. m \in S
        BY <1>1, <1>2, <1>6, <3>1 DEF Carriers
      <4> QED BY <1>2, <1>3, <1>6, <3>1, <4>1
    <3>2. CASE ~In(rows[t], m)
      <4>1. (\E u \in Threads : Pusher(u)' /\ place[m] = Of(u))
              <=> (\E u \in Threads : Pusher(u) /\ place[m] = Of(u))
        BY <1>2, <1>3, <1>6, <3>2
      <4> QED BY <1>1, <1>2, <1>6, <3>2, <4>1 DEF Carriers
    <3> QED BY <3>1, <3>2
  <2> QED BY <1>1, <2>1 DEF Carriers
<1>9. Contents(S)'
  BY <1>1, <1>2 DEF Contents
<1>10. Ordered(r2)'
  <2>1. /\ Along(pNext, rows[o]) /\ Along(pNext, rows[t]) /\ x = rows[o][Len(rows[o])]
        /\ Decreasing(rows[o]) /\ Decreasing(rows[t]) /\ item[t] = elem[rows[t][1]]
    <3>1. Along(pNext, rows[o]) /\ Along(pNext, rows[t]) /\ rows[t][1] = own[t]
      BY <1>1, <1>2 DEF Layout
    <3>2. x = rows[o][Len(rows[o])]
      BY <1>2, <3>1, AlongFacts
    <3> QED BY <1>1, <1>2, <3>1, <3>2 DEF Ordered
  <2>2. Decreasing(s)
    <3>1. /\ rows[o] \in Seq(Nodes) /\ Len(rows[o]) # 0
          /\ rows[t] \in Seq(Nodes) /\ Len(rows[t]) # 0
      BY <2>1 DEF Along
    <3>2. elem[rows[o][Len(rows[o])]] > elem[rows[t][1]]
      BY <1>7, <2>1
    <3> DEFINE a == rows[o]
               b == rows[t]
    <3> HIDE DEF a, b
    <3>3. /\ a \in Seq(Nodes) /\ b \in Seq(Nodes) /\ Len(a) # 0 /\ Len(b) # 0
          /\ Decreasing(a) /\ Decreasing(b) /\ elem[a[Len(a)]] > elem[b[1]]
      BY <2>1, <3>1, <3>2 DEF a, b
    <3>4. Decreasing(a \o b)
      BY <3>3, DecreasingJoined
    <3> QED BY <3>4 DEF a, b, s
  <2>3. Decreasing(s)'
    BY <1>2, <2>2 DEF Decreasing
  <2>4. ASSUME NEW u \in Threads, Pusher(u)' PROVE item'[u] = elem'[own'[u]] /\ Decreasing(r2[u])'
    <3>1. u # t /\ Pusher(u)
      BY <1>2, <1>3, <2>4
    <3>2. item'[u] = elem'[own'[u]]
      BY <1>1, <1>2, <3>1 DEF Ordered
    <3>3. CASE u = o
      BY <1>6, <2>3, <3>2, <3>3
    <3>4. CASE u # o
      <4>1. Decreasing(rows[u])'
        BY <1>1, <1>2, <3>1 DEF Ordered, Decreasing
      <4> QED BY <1>6, <3>1, <3>2, <3>4, <4>1
    <3> QED BY <3>3, <3>4
  <2> QED BY <2>4 DEF Ordered
<1>12. ASSUME NEW u \in Threads PROVE KnownTo(u, p2)'
  <2> DEFINE y == link[u].node
  <2>1. link'[u].node = y /\ y \in Nodes \cup {NULL}
    BY <1>2 DEF TypeOK, Links
  <2> HIDE DEF y
  <2> SUFFICES ASSUME Pusher(u)', y # NULL
               PROVE  \A v \in Threads : Pusher(v)' /\ p2[y] = Of(v) => elem'[y] > item'[u]
    BY <1>2, <2>1 DEF KnownTo
  <2>2. u # t /\ Pusher(u) /\ y \in Nodes
    BY <1>2, <1>3, <2>1
  <2>3. \A v \in Threads : Pusher(v) /\ place[y] = Of(v) => elem[y] > item[u]
    BY <1>1, <2>2 DEF KnownTo, y
  <2>4. ASSUME NEW v \in Threads, Pusher(v)', p2[y] = Of(v) PROVE elem[y] > item[u]
    <3>1. CASE In(rows[t], y)
      BY <1>2, <1>6, <2>2, <2>3, <3>1
    <3>2. CASE ~In(rows[t], y)
      BY <1>2, <1>3, <1>6, <2>2, <2>3, <2>4, <3>2
    <3> QED BY <3>1, <3>2
  <2> QED BY <1>2, <2>4
<1>13. EndsMoved
  <2>1. \A m \in Nodes : In(c, m) => /\ pNext[m] # END => pNext'[m] = pNext[m]
                                     /\ elem'[m] = elem[m]
    BY <1>2, <1>4
  <2> QED BY <1>1, <1>2, <2>1, EndsKept
<1>14. \A u \in Threads : Reads(u)'
  BY <1>1, <1>2, <1>13, ReadsKept
<1>15. Shape(c, r2, p2, S)'
  BY <1>2, <1>5, <1>8, <1>9, <1>10, <1>12, <1>14 DEF Shape
<1> QED BY <1>15

\* SwapHead: the queue begins at the next node, and the old dummy is the row of the
\* pop.
LEMMA SwapHeadShape ==
  ASSUME NEW c, NEW rows, NEW place, NEW S, Shape(c, rows, place, S), TypeOK, TypeOK',
         NEW t \in Threads, SwapHead(t), SameHead(t)
  PROVE  \E r2, p2, S2 : Shape(Tail(c), r2, p2, S2)'
<1> USE PlacesDiffer
<1>1. /\ Layout(c, rows, place) /\ Carriers(S, place) /\ Contents(S) /\ Ordered(rows)
      /\ \A u \in Threads : KnownTo(u, place)
      /\ Counting
      /\ \A u \in Threads : Reads(u)
  BY DEF Shape
<1>2. /\ pc[t] = "swapHead" /\ pc' = [pc EXCEPT ![t] = "countDown"]
      /\ head' = [node |-> nxt[t], seq |-> link[t].seq + 1]
      /\ own' = [own EXCEPT ![t] = link[t].node]
      /\ taken' = Append(taken, item[t]) /\ link[t] = head
      /\ UNCHANGED <<tail, pNext, elem, count, free, unused, pushed>>
      /\ UNCHANGED <<link, tailSeq, nxt, item, none>>
  BY DEF SwapHead, SameHead, Goes, memory
<1>3. PICK h \in Nodes, n \in Nodes : h = head.node /\ n = nxt[t]
  BY <1>1, <1>2 DEF Reads, PopReads, PopPoints
<1>4. n \in Nodes /\ n = pNext[h] /\ h # tail.node /\ item[t] = elem[n] /\ h \in Nodes
  BY <1>1, <1>2, <1>3, NullAssumption, EndAssumption DEF Reads, PopReads, PopPoints
<1>5. OthersKept(t) /\ pc'[t] = "countDown" /\ own'[t] = h
  BY <1>2, <1>3 DEF OthersKept, TypeOK
<1>6. ~Pusher(t) /\ ~Pusher(t)' /\ ~Popped(t) /\ Popped(t)'
  BY <1>2, <1>5 DEF Pusher, Popped, PushPoints
<1>7. \A u \in Threads : u # t => /\ Pusher(u)' <=> Pusher(u)
                                  /\ Popped(u)' <=> Popped(u)
                                  /\ own'[u] = own[u]
  BY <1>5 DEF Pusher, Popped, OthersKept
<1>8. head'.node = n /\ head'.seq = head.seq + 1
  BY <1>2, <1>3
<1>9. /\ In(c, h) /\ place[h] = InChain
      /\ In(c, n) /\ place[n] = InChain /\ n # h
  <2>1. Along(pNext, c) /\ c[1] = h
    BY <1>1, <1>3 DEF Layout
  <2>2. In(c, h)
    BY <2>1, AlongFacts
  <2>3. In(c, n) /\ n # h
    BY <1>4, <2>1, <2>2, NullAssumption, EndAssumption, AlongFacts
  <2> QED BY <1>1, <1>4, <2>2, <2>3 DEF Layout
<1>10. \A m \in Nodes : place[m] # Of(t)
  BY <1>1, <1>6, NothingIn DEF Layout
<1> DEFINE r2 == [u \in Threads |-> IF u = t THEN <<h>> ELSE rows[u]]
           p2 == [m \in Nodes |-> IF m = h THEN Of(t) ELSE place[m]]
           S2 == S \ {n}
<1>11. /\ \A u \in Threads : r2[u] = IF u = t THEN <<h>> ELSE rows[u]
       /\ \A m \in Nodes : p2[m] = IF m = h THEN Of(t) ELSE place[m]
       /\ \A m : m \in S2 <=> m \in S /\ m # n
  OBVIOUS
<1> HIDE DEF r2, p2
<1>12. Layout(Tail(c), r2, p2)'
  <2>1. /\ pNext[head.node] \in Nodes /\ head.node # tail.node
        /\ head'.node = pNext[head.node] /\ own' = [own EXCEPT ![t] = head.node]
        /\ UNCHANGED <<tail, pNext, free, unused>>
    BY <1>2, <1>3, <1>4, <1>8
  <2>2. Layout(c, rows, place) /\ TypeOK /\ h = head.node /\ t \in Threads
    BY <1>1, <1>3
  <2>3. pc[t] = "swapHead" /\ pc' = [pc EXCEPT ![t] = "countDown"]
    BY <1>2
  <2>4. RowSet(r2, rows, t, <<h>>) /\ PlaceSet(p2, place, h, Of(t))
    BY <1>11 DEF RowSet, PlaceSet
  <2> QED BY <2>1, <2>2, <2>3, <2>4, LayoutSwap
<1>13. n \in S
  BY <1>1, <1>3, <1>4, <1>9 DEF Carriers
<1>14. Contents(S2)'
  BY <1>1, <1>2, <1>4, <1>13, ContentsTaken
<1> HIDE DEF S2
<1>15. Carriers(S2, p2)'
  <2>1. S2 \in SUBSET Nodes
    BY <1>1, <1>11 DEF Carriers
  <2>2. ASSUME NEW m \in Nodes
        PROVE  m \in S2 <=> \/ p2[m] = InChain /\ m # head'.node
                            \/ \E u \in Threads : Pusher(u)' /\ p2[m] = Of(u)
    <3>1. CASE m = h
      <4>1. m \notin S
        BY <1>1, <1>3, <1>9, <3>1 DEF Carriers
      <4> QED BY <1>6, <1>11, <3>1, <4>1
    <3>2. CASE m # h
      <4>1. (\E u \in Threads : Pusher(u)' /\ place[m] = Of(u))
              <=> (\E u \in Threads : Pusher(u) /\ place[m] = Of(u))
        BY <1>6, <1>7
      <4>2. m \in S <=> \/ place[m] = InChain
                        \/ \E u \in Threads : Pusher(u) /\ place[m] = Of(u)
        BY <1>1, <1>3, <3>2 DEF Carriers
      <4> QED BY <1>8, <1>9, <1>11, <3>2, <4>1, <4>2
    <3> QED BY <3>1, <3>2
  <2> QED BY <2>1, <2>2 DEF Carriers
<1>16. Ordered(r2)'
  BY <1>1, <1>2, <1>6, <1>7, <1>11 DEF Ordered, Decreasing
<1>18. ASSUME NEW u \in Threads PROVE KnownTo(u, p2)'
  <2> DEFINE y == link[u].node
  <2>1. link'[u].node = y /\ y \in Nodes \cup {NULL}
    BY <1>2 DEF TypeOK, Links
  <2> HIDE DEF y
  <2> SUFFICES ASSUME Pusher(u)', y # NULL
               PROVE  \A v \in Threads : Pusher(v)' /\ p2[y] = Of(v) => elem'[y] > item'[u]
    BY <2>1 DEF KnownTo
  <2>2. u # t /\ Pusher(u) /\ y \in Nodes
    BY <1>6, <1>7, <2>1
  <2>3. \A v \in Threads : Pusher(v) /\ place[y] = Of(v) => elem[y] > item[u]
    BY <1>1, <2>2 DEF KnownTo, y
  <2>4. ASSUME NEW v \in Threads, Pusher(v)', p2[y] = Of(v) PROVE elem'[y] > item'[u]
    <3>1. v # t /\ Pusher(v) /\ place[y] = Of(v)
      BY <1>6, <1>7, <1>11, <2>2, <2>4
    <3> QED BY <1>2, <2>3, <3>1
  <2> QED BY <2>4
<1>19. EndsMoved
  <2>1. head' # head /\ head'.seq = head.seq + 1
    <3>1. head.seq \in Nat
      BY DEF TypeOK, Links
    <3> QED BY <1>8, <3>1
  <2> QED BY <1>2, <2>1 DEF EndsMoved
<1>20. Reads(t)'
  BY <1>4, <1>5 DEF Reads, PushReads, PopReads, PopPoints, Pusher, PushPoints
<1>21. \A u \in Threads : Reads(u)'
  BY <1>1, <1>5, <1>19, <1>20, ReadsKept
<1>22. Counting'
  <2>1. t \notin Popping /\ Popping' = Popping \cup {t} /\ Pushing' = Pushing
    BY <1>2, <1>5 DEF Pushing, Popping, Counts, PushPoints, OthersKept
  <2>2. Cardinality(Popping') = Cardinality(Popping) + 1
    BY <2>1, CountsAreFinite, FS_AddElement
  <2>3. /\ Cardinality(Pushing) \in Nat /\ Cardinality(Popping) \in Nat /\ pushed \in Int
        /\ Len(taken) \in Nat /\ Len(taken') = Len(taken) + 1
    BY <1>1, <1>2, CountsAreFinite, DummyAssumption DEF Contents
  <2>4. count = pushed - Len(taken) - Cardinality(Pushing) + Cardinality(Popping)
    BY <1>1 DEF Counting
  <2>5. count' = pushed' - Len(taken') - Cardinality(Pushing') + Cardinality(Popping')
    BY <1>2, <2>1, <2>2, <2>3, <2>4
  <2> QED BY <2>5 DEF Counting
<1>23. Shape(Tail(c), r2, p2, S2)'
  BY <1>12, <1>14, <1>15, <1>16, <1>18, <1>21, <1>22 DEF Shape
<1> QED BY <1>23

\* CountDown: the old dummy is free.
LEMMA CountDownShape ==
  ASSUME NEW c, NEW rows, NEW place, NEW S, Shape(c, rows, place, S), TypeOK, TypeOK',
         NEW t \in Threads, CountDown(t)
  PROVE  \E r2, p2 : Shape(c, r2, p2, S)'
<1> USE PlacesDiffer
<1>1. /\ Layout(c, rows, place) /\ Carriers(S, place) /\ Contents(S) /\ Ordered(rows)
      /\ \A u \in Threads : KnownTo(u, place)
      /\ Counting
      /\ \A u \in Threads : Reads(u)
  BY DEF Shape
<1>2. PICK n \in Nodes : n = own[t]
  BY <1>1 DEF Layout, Popped, CountDown, Returns, Goes
<1>3. PICK y \in free \cup {NULL} : pNext' = [pNext EXCEPT ![own[t]] = y]
  BY DEF CountDown
<1>4. /\ pc[t] = "countDown" /\ pc' = [pc EXCEPT ![t] = "idle"] /\ Returns(t, "countDown")
      /\ own' = [own EXCEPT ![t] = NULL] /\ count' = count - 1
      /\ elem' = [elem EXCEPT ![n] = item[t]] /\ free' = free \cup {n}
      /\ UNCHANGED <<head, tail, unused, pushed, taken>>
  BY <1>2 DEF CountDown, Returns, Goes
<1>5. OthersKept(t) /\ pc'[t] = "idle" /\ link'[t] = NoLink
  BY <1>4 DEF OthersKept, Returns, Goes, TypeOK
<1>6. Popped(t) /\ ~Popped(t)' /\ ~Pusher(t) /\ ~Pusher(t)'
  BY <1>4, <1>5 DEF Pusher, Popped, PushPoints
<1>7. \A u \in Threads : u # t => /\ Pusher(u)' <=> Pusher(u)
                                  /\ Popped(u)' <=> Popped(u)
                                  /\ own'[u] = own[u] /\ item'[u] = item[u] /\ link'[u] = link[u]
  BY <1>5 DEF Pusher, Popped, OthersKept
<1>8. n \in Nodes /\ rows[t] = <<n>> /\ pNext[n] # END /\ y # END /\ place[n] = Of(t)
  <2>1. n \in Nodes /\ rows[t] = <<n>> /\ pNext[n] # END
    BY <1>1, <1>2, <1>6 DEF Layout
  <2>2. In(rows[t], n)
    BY <2>1, AlongOneIn
  <2>3. y # END
    BY NullAssumption, EndAssumption DEF TypeOK
  <2> QED BY <1>1, <2>1, <2>2, <2>3 DEF Layout
<1>9. \A m \in Nodes : m # n => /\ elem'[m] = elem[m] /\ pNext'[m] = pNext[m]
                                /\ place[m] # Of(t)
  <2>1. \A m \in Nodes : m # n => ~In(rows[t], m)
    BY <1>8, AlongOneIn
  <2>2. \A m \in Nodes : m # n => place[m] # Of(t)
    BY <1>1, <2>1 DEF Layout
  <2>3. \A m \in Nodes : m # n => elem'[m] = elem[m] /\ pNext'[m] = pNext[m]
    BY <1>2, <1>3, <1>4 DEF TypeOK
  <2> QED BY <2>2, <2>3
<1>11. ~In(c, n) /\ n \notin S /\ \A u \in Threads : u # t => ~In(rows[u], n)
  BY <1>1, <1>6, <1>8 DEF Layout, Carriers
<1> DEFINE r2 == [u \in Threads |-> IF u = t THEN << >> ELSE rows[u]]
           p2 == [m \in Nodes |-> IF m = n THEN Free ELSE place[m]]
<1>12. /\ \A u \in Threads : r2[u] = IF u = t THEN << >> ELSE rows[u]
       /\ \A m \in Nodes : p2[m] = IF m = n THEN Free ELSE place[m]
  OBVIOUS
<1> HIDE DEF r2, p2
<1>13. Layout(c, r2, p2)'
  <2>1. free' = free \cup {own[t]} /\ UNCHANGED <<head, tail, unused>>
    BY <1>2, <1>4
  <2>2. Layout(c, rows, place) /\ TypeOK /\ t \in Threads /\ Popped(t) /\ n = own[t] /\ y # END
    BY <1>1, <1>2, <1>6, <1>8
  <2>3. pc' = [pc EXCEPT ![t] = "idle"] /\ own' = [own EXCEPT ![t] = NULL]
    BY <1>4
  <2>4. RowSet(r2, rows, t, << >>) /\ PlaceSet(p2, place, n, Free)
    BY <1>12 DEF RowSet, PlaceSet
  <2> QED BY <1>3, <2>1, <2>2, <2>3, <2>4, LayoutFreed
<1>14. Carriers(S, p2)'
  <2>1. ASSUME NEW m \in Nodes
        PROVE  m \in S <=> \/ p2[m] = InChain /\ m # head'.node
                           \/ \E u \in Threads : Pusher(u)' /\ p2[m] = Of(u)
    <3>1. CASE m = n
      BY <1>11, <1>12, <3>1
    <3>2. CASE m # n
      <4>1. (\E u \in Threads : Pusher(u)' /\ place[m] = Of(u))
              <=> (\E u \in Threads : Pusher(u) /\ place[m] = Of(u))
        BY <1>6, <1>7
      <4> QED BY <1>1, <1>4, <1>12, <3>2, <4>1 DEF Carriers
    <3> QED BY <3>1, <3>2
  <2> QED BY <1>1, <2>1 DEF Carriers
<1>15. Contents(S)'
  <2>1. \A m \in S : elem'[m] = elem[m]
    BY <1>1, <1>9, <1>11 DEF Carriers
  <2> QED BY <1>1, <1>4, <2>1, ContentsKept
<1>16. Ordered(r2)'
  <2> SUFFICES ASSUME NEW u \in Threads, Pusher(u)'
               PROVE  item'[u] = elem'[own'[u]] /\ Decreasing(r2[u])'
    BY DEF Ordered
  <2>1. u # t /\ Pusher(u) /\ r2[u] = rows[u] /\ item'[u] = item[u] /\ own'[u] = own[u]
    BY <1>6, <1>7, <1>12
  <2>2. Along(pNext, rows[u]) /\ item[u] = elem[own[u]] /\ Decreasing(rows[u])
    BY <1>1, <2>1 DEF Layout, Ordered
  <2>3. own[u] \in Nodes /\ In(rows[u], own[u])
    BY <2>1, OwnCarried
  <2>4. \A k \in 1 .. Len(rows[u]) : rows[u][k] \in Nodes /\ In(rows[u], rows[u][k])
    BY <2>2, AlongFacts DEF In
  <2>5. \A k \in 1 .. Len(rows[u]) : elem'[rows[u][k]] = elem[rows[u][k]]
    BY <1>9, <1>11, <2>1, <2>4
  <2>6. Decreasing(rows[u])'
    BY <2>2, <2>5 DEF Decreasing
  <2>7. elem'[own[u]] = elem[own[u]]
    BY <1>9, <1>11, <2>1, <2>3
  <2> QED BY <2>1, <2>2, <2>6, <2>7
<1>18. ASSUME NEW u \in Threads PROVE KnownTo(u, p2)'
  <2> DEFINE z == link[u].node
  <2>1. z \in Nodes \cup {NULL}
    BY DEF TypeOK, Links
  <2> HIDE DEF z
  <2>2. CASE u = t
    BY <1>6, <2>2 DEF KnownTo
  <2>3. CASE u # t
    <3>1. link'[u].node = z /\ item'[u] = item[u]
      BY <1>7, <2>3 DEF z
    <3> SUFFICES ASSUME Pusher(u)', z # NULL
                 PROVE  \A v \in Threads : Pusher(v)' /\ p2[z] = Of(v) => elem'[z] > item'[u]
      BY <3>1 DEF KnownTo
    <3>2. Pusher(u) /\ z \in Nodes
      BY <1>7, <2>1, <2>3
    <3>3. \A v \in Threads : Pusher(v) /\ place[z] = Of(v) => elem[z] > item[u]
      BY <1>1, <3>2 DEF KnownTo, z
    <3>4. ASSUME NEW v \in Threads, Pusher(v)', p2[z] = Of(v) PROVE elem'[z] > item'[u]
      <4>1. z # n /\ v # t /\ Pusher(v) /\ place[z] = Of(v)
        BY <1>6, <1>7, <1>12, <3>2, <3>4
      <4> QED BY <1>9, <3>1, <3>2, <3>3, <4>1
    <3> QED BY <3>4
  <2> QED BY <2>2, <2>3
<1>19. EndsMoved
  <2>1. \A m \in Nodes : In(c, m) => /\ pNext[m] # END => pNext'[m] = pNext[m]
                                     /\ elem'[m] = elem[m]
    BY <1>9, <1>11
  <2> QED BY <1>1, <1>4, <2>1, EndsKept
<1>20. Reads(t)'
  BY <1>5 DEF Reads, PushReads, PopReads, PopPoints, Pusher, PushPoints, NoLink
<1>21. \A u \in Threads : Reads(u)'
  BY <1>1, <1>5, <1>19, <1>20, ReadsKept
<1>22. Counting'
  <2>1. t \in Popping /\ Popping' = Popping \ {t} /\ Pushing' = Pushing
    BY <1>4, <1>5 DEF Pushing, Popping, Counts, PushPoints, OthersKept
  <2>2. Cardinality(Popping') = Cardinality(Popping) - 1
    BY <2>1, CountsAreFinite, FS_RemoveElement
  <2>3. /\ Cardinality(Pushing) \in Nat /\ Cardinality(Popping) \in Nat /\ pushed \in Int
        /\ Len(taken) \in Nat
    BY <1>1, CountsAreFinite, DummyAssumption DEF Contents
  <2>4. count = pushed - Len(taken) - Cardinality(Pushing) + Cardinality(Popping)
    BY <1>1 DEF Counting
  <2>5. count' = pushed' - Len(taken') - Cardinality(Pushing') + Cardinality(Popping')
    BY <1>4, <2>1, <2>2, <2>3, <2>4
  <2> QED BY <2>5 DEF Counting
<1>23. Shape(c, r2, p2, S)'
  BY <1>13, <1>14, <1>15, <1>16, <1>18, <1>21, <1>22 DEF Shape
<1> QED BY <1>23

-----------------------------------------------------------------------------
(* Every step.                                                             *)

\* The steps between the changes of the queue.
Between(t) ==
  \/ ReadTailSeq(t) \/ ReadTailNode(t) \/ ReadLink(t) \/ HelpPush(t) \/ FinishPush(t)
  \/ PopItem(t) \/ ReadHeadSeq(t) \/ ReadHeadNode(t) \/ ReadSeqOfTail(t) \/ ReadNext(t)
  \/ Check(t) \/ PopEmpty(t) \/ Compare(t) \/ HelpPop(t) \/ ReadItem(t)

\* The queue is still c, with the same items.
Stays(c) ==
  /\ \E rows, place, S : Shape(c, rows, place, S)'
  /\ UNCHANGED taken /\ \A n \in Nodes : In(c, n) => elem'[n] = elem[n]

\* They change neither m_Count nor who is about to.
LEMMA CountsKept ==
  ASSUME TypeOK, NEW t \in Threads, Between(t)
  PROVE  /\ UNCHANGED count
         /\ pc'[t] \in Counts <=> pc[t] \in Counts
         /\ pc'[t] = "countDown" <=> pc[t] = "countDown"
<1>1. CASE ReadTailSeq(t)
  BY <1>1 DEF ReadTailSeq, Goes, Counts, PushPoints, TypeOK, queue, memory, history
<1>2. CASE ReadTailNode(t)
  BY <1>2 DEF ReadTailNode, Goes, Counts, PushPoints, TypeOK, queue, memory, history
<1>3. CASE ReadLink(t)
  BY <1>3 DEF ReadLink, Goes, Counts, PushPoints, TypeOK, queue, memory, history
<1>4. CASE HelpPush(t)
  BY <1>4 DEF HelpPush, Goes, Counts, PushPoints, TypeOK, memory, history
<1>5. CASE FinishPush(t)
  BY <1>5 DEF FinishPush, Goes, Counts, PushPoints, TypeOK, memory, local, history
<1>6. CASE PopItem(t)
  BY <1>6 DEF PopItem, Goes, Counts, PushPoints, TypeOK, queue, memory, local, history
<1>7. CASE ReadHeadSeq(t)
  BY <1>7 DEF ReadHeadSeq, Goes, Counts, PushPoints, TypeOK, queue, memory, history
<1>8. CASE ReadHeadNode(t)
  BY <1>8 DEF ReadHeadNode, Goes, Counts, PushPoints, TypeOK, queue, memory, history
<1>9. CASE ReadSeqOfTail(t)
  BY <1>9 DEF ReadSeqOfTail, Goes, Counts, PushPoints, TypeOK, queue, memory, history
<1>10. CASE ReadNext(t)
  BY <1>10 DEF ReadNext, Goes, Counts, PushPoints, TypeOK, queue, memory
<1>11. CASE Check(t)
  BY <1>11 DEF Check, Goes, Again, Counts, PushPoints, TypeOK, queue, memory, local
<1>12. CASE PopEmpty(t)
  BY <1>12 DEF PopEmpty, Goes, Returns, Counts, PushPoints, TypeOK, queue
<1>13. CASE Compare(t)
  BY <1>13 DEF Compare, Goes, Again, Counts, PushPoints, TypeOK, queue, memory, local
<1>14. CASE HelpPop(t)
  BY <1>14 DEF HelpPop, Goes, Again, Counts, PushPoints, TypeOK, memory
<1>15. CASE ReadItem(t)
  BY <1>15 DEF ReadItem, Goes, Counts, PushPoints, TypeOK, queue, memory, history
<1> QED BY <1>1, <1>2, <1>3, <1>4, <1>5, <1>6, <1>7, <1>8, <1>9, <1>10, <1>11, <1>12,
  <1>13, <1>14, <1>15 DEF Between

\* They are quiet.
LEMMA BetweenQuiet ==
  ASSUME NEW c, NEW rows, NEW place, NEW S, Shape(c, rows, place, S), TypeOK,
         NEW t \in Threads, Between(t)
  PROVE  TypeOK' /\ Quiet(t) /\ Reads(t)'
<1>1. Layout(c, rows, place) /\ Reads(t)
  BY DEF Shape
<1>2. CASE ReadTailSeq(t)
  <2>1. TypeOK'
    BY <1>1, <1>2, ReadTailSeqType
  <2> QED BY <1>1, <1>2, <2>1, ReadTailSeqQuiet
<1>3. CASE ReadTailNode(t)
  <2>1. TypeOK'
    BY <1>1, <1>3, ReadTailNodeType
  <2> QED BY <1>1, <1>3, <2>1, ReadTailNodeQuiet
<1>4. CASE ReadLink(t)
  <2>1. TypeOK'
    BY <1>1, <1>4, ReadLinkType
  <2> QED BY <1>1, <1>4, <2>1, ReadLinkQuiet
<1>5. CASE HelpPush(t)
  <2>1. TypeOK'
    BY <1>1, <1>5, HelpPushType
  <2> QED BY <1>1, <1>5, <2>1, HelpPushQuiet
<1>6. CASE FinishPush(t)
  <2>1. TypeOK'
    BY <1>1, <1>6, FinishPushType
  <2> QED BY <1>1, <1>6, <2>1, FinishPushQuiet
<1>7. CASE PopItem(t)
  <2>1. TypeOK'
    BY <1>1, <1>7, PopItemType
  <2> QED BY <1>1, <1>7, <2>1, PopItemQuiet
<1>8. CASE ReadHeadSeq(t)
  <2>1. TypeOK'
    BY <1>1, <1>8, ReadHeadSeqType
  <2> QED BY <1>1, <1>8, <2>1, ReadHeadSeqQuiet
<1>9. CASE ReadHeadNode(t)
  <2>1. TypeOK'
    BY <1>1, <1>9, ReadHeadNodeType
  <2> QED BY <1>1, <1>9, <2>1, ReadHeadNodeQuiet
<1>10. CASE ReadSeqOfTail(t)
  <2>1. TypeOK'
    BY <1>1, <1>10, ReadSeqOfTailType
  <2> QED BY <1>1, <1>10, <2>1, ReadSeqOfTailQuiet
<1>11. CASE ReadNext(t)
  <2>1. TypeOK'
    BY <1>1, <1>11, ReadNextType
  <2> QED BY <1>1, <1>11, <2>1, ReadNextQuiet
<1>12. CASE Check(t)
  <2>1. TypeOK'
    BY <1>1, <1>12, CheckType
  <2> QED BY <1>1, <1>12, <2>1, CheckQuiet
<1>13. CASE PopEmpty(t)
  <2>1. TypeOK'
    BY <1>1, <1>13, PopEmptyType
  <2> QED BY <1>1, <1>13, <2>1, PopEmptyQuiet
<1>14. CASE Compare(t)
  <2>1. TypeOK'
    BY <1>1, <1>14, CompareType
  <2> QED BY <1>1, <1>14, <2>1, CompareQuiet
<1>15. CASE HelpPop(t)
  <2>1. TypeOK'
    BY <1>1, <1>15, HelpPopType
  <2> QED BY <1>1, <1>15, <2>1, HelpPopQuiet
<1>16. CASE ReadItem(t)
  <2>1. TypeOK'
    BY <1>1, <1>16, ReadItemType
  <2> QED BY <1>1, <1>16, <2>1, ReadItemQuiet
<1> QED BY <1>2, <1>3, <1>4, <1>5, <1>6, <1>7, <1>8, <1>9, <1>10, <1>11, <1>12, <1>13,
  <1>14, <1>15, <1>16 DEF Between

\* So a step of this kind leaves the queue and its items alone ...
LEMMA QuietStays ==
  ASSUME NEW c, NEW rows, NEW place, NEW S, Shape(c, rows, place, S), TypeOK,
         NEW t \in Threads, TypeOK', Quiet(t), Reads(t)', Counting'
  PROVE  Stays(c)
<1>1. Shape(c, rows, place, S)'
  BY QuietKeeps
<1> QED BY <1>1 DEF Stays, Quiet

\* ... and so does each of these.
LEMMA BetweenStays ==
  ASSUME NEW c, NEW rows, NEW place, NEW S, Shape(c, rows, place, S), TypeOK,
         NEW t \in Threads, Between(t)
  PROVE  TypeOK' /\ Stays(c)
<1>1. TypeOK' /\ Quiet(t) /\ Reads(t)'
  BY BetweenQuiet
<1>2. Counting'
  <2>1. OthersKept(t) /\ UNCHANGED <<pushed, taken>> /\ Counting
    BY <1>1 DEF Quiet, Shape
  <2> QED BY <2>1, CountsKept, CountingKept
<1> QED BY <1>1, <1>2, QuietStays

\* The push is over, and m_Count goes up.
LEMMA CountUpStays ==
  ASSUME NEW c, NEW rows, NEW place, NEW S, Shape(c, rows, place, S), TypeOK,
         NEW t \in Threads, CountUp(t)
  PROVE  TypeOK' /\ Stays(c)
<1>1. Layout(c, rows, place) /\ Reads(t) /\ Counting /\ Contents(S)
  BY DEF Shape
<1>2. TypeOK'
  BY CountUpType
<1>3. Quiet(t) /\ Reads(t)'
  BY <1>1, <1>2, CountUpQuiet
<1>4. /\ pc[t] = "countUp" /\ pc' = [pc EXCEPT ![t] = "idle"] /\ count' = count + 1
      /\ UNCHANGED <<pushed, taken>>
  BY DEF CountUp, Returns, Goes
<1>5. t \in Pushing /\ Pushing' = Pushing \ {t} /\ Popping' = Popping
  BY <1>4 DEF Pushing, Popping, Counts, PushPoints, TypeOK
<1>6. Cardinality(Pushing') = Cardinality(Pushing) - 1
  BY <1>5, CountsAreFinite, FS_RemoveElement
<1>7. /\ Cardinality(Pushing) \in Nat /\ Cardinality(Popping) \in Nat /\ pushed \in Int
      /\ Len(taken) \in Nat
  BY <1>1, CountsAreFinite, DummyAssumption DEF Contents
<1>8. count = pushed - Len(taken) - Cardinality(Pushing) + Cardinality(Popping)
  BY <1>1 DEF Counting
<1>9. count' = pushed' - Len(taken') - Cardinality(Pushing') + Cardinality(Popping')
  BY <1>4, <1>5, <1>6, <1>7, <1>8
<1>10. Counting'
  BY <1>9 DEF Counting
<1> QED BY <1>2, <1>3, <1>10, QuietStays

\* The nodes of s have been linked to the queue.
Adds(c, s) ==
  /\ \E rows, place, S : Shape(c \o s, rows, place, S)'
  /\ UNCHANGED <<elem, taken>>

\* The node after the dummy is the dummy, and its item has been popped.
Takes(c) ==
  /\ \E rows, place, S : Shape(Tail(c), rows, place, S)'
  /\ UNCHANGED elem /\ Len(c) # 1 /\ taken' = Append(taken, elem[c[2]])

\* Link adds nodes to the queue, or does nothing to it.
LEMMA LinkSteps ==
  ASSUME NEW c, NEW rows, NEW place, NEW S, Shape(c, rows, place, S), TypeOK,
         NEW t \in Threads, Link(t)
  PROVE  TypeOK' /\ (Stays(c) \/ \E s \in Seq(Nodes) : s # << >> /\ Adds(c, s))
<1>1. /\ Layout(c, rows, place) /\ Reads(t) /\ Counting
      /\ pc[t] = "link" /\ link[t].node \in Nodes
  BY DEF Shape, Reads, PushReads, Link
<1>2. TypeOK'
  BY <1>1, LinkType
<1>3. CASE ~IsEnd(link[t].node)
  <2>1. Quiet(t) /\ Reads(t)'
    BY <1>1, <1>2, <1>3, LinkQuiet
  <2>2. UNCHANGED <<count, pushed, taken>> /\ OthersKept(t) /\ pc'[t] = "readLink"
    BY <1>3, <2>1 DEF Link, Goes, history, TypeOK, Quiet
  <2>3. Counting'
    BY <1>1, <2>2, CountingKept DEF Counts, PushPoints
  <2> QED BY <1>2, <2>1, <2>3, QuietStays
<1>4. CASE IsEnd(link[t].node)
  <2>1. PICK x \in Nodes : x = link[t].node
    BY <1>1
  <2>2. pNext[x] = END
    BY <1>4, <2>1 DEF IsEnd
  <2>3. Pusher(t) /\ UNCHANGED <<elem, taken>>
    BY <1>1 DEF Pusher, PushPoints, Link, history
  <2>4. CASE In(c, x)
    <3>1. Along(pNext, rows[t])
      BY <1>1, <2>3 DEF Layout
    <3>2. rows[t] \in Seq(Nodes) /\ rows[t] # << >>
      BY <3>1, AlongFacts
    <3>3. \E r2, p2 : Shape(c \o rows[t], r2, p2, S)'
      BY <1>2, <2>1, <2>2, <2>4, LinkQueueShape
    <3>4. Adds(c, rows[t])
      BY <2>3, <3>3 DEF Adds
    <3> QED BY <1>2, <3>2, <3>4
  <2>5. CASE \E u \in Threads : Pusher(u) /\ In(rows[u], x)
    <3>1. PICK u \in Threads : Pusher(u) /\ In(rows[u], x)
      BY <2>5
    <3>2. \E r2, p2 : Shape(c, r2, p2, S)'
      BY <1>2, <2>1, <2>2, <3>1, LinkRowShape
    <3>3. Stays(c)
      BY <2>3, <3>2 DEF Stays
    <3> QED BY <1>2, <3>3
  <2> QED BY <1>1, <2>2, <2>4, <2>5, EndIsLast
<1> QED BY <1>3, <1>4

\* SwapHead takes the first item, or does nothing to the queue.
LEMMA SwapHeadSteps ==
  ASSUME NEW c, NEW rows, NEW place, NEW S, Shape(c, rows, place, S), TypeOK,
         NEW t \in Threads, SwapHead(t)
  PROVE  TypeOK' /\ (Stays(c) \/ Takes(c))
<1>1. /\ Layout(c, rows, place) /\ Reads(t) /\ Counting /\ Contents(S) /\ Carriers(S, place)
      /\ pc[t] = "swapHead" /\ nxt[t] \in Nodes
  BY DEF Shape, Reads, PopReads, SwapHead, Again, Goes
<1>2. CASE ~SameHead(t)
  <2>1. TypeOK'
    BY <1>1, <1>2, SwapHeadType
  <2>2. Quiet(t) /\ Reads(t)'
    BY <1>1, <1>2, <2>1, SwapHeadQuiet
  <2>3. UNCHANGED <<count, pushed, taken>> /\ OthersKept(t) /\ pc'[t] = "readHeadSeq"
    BY <1>2, <2>2 DEF SwapHead, Again, Goes, TypeOK, Quiet
  <2>4. Counting'
    BY <1>1, <2>3, CountingKept DEF Counts, PushPoints
  <2> QED BY <2>1, <2>2, <2>4, QuietStays
<1>3. CASE SameHead(t)
  <2>1. PICK n \in Nodes : n = nxt[t]
    BY <1>1
  <2>2. link[t] = head /\ n = pNext[head.node] /\ item[t] = elem[n]
    BY <1>1, <1>3, <2>1, NullAssumption, EndAssumption DEF Reads, PopReads, SameHead
  <2>3. Along(pNext, c) /\ c[1] = head.node
    BY <1>1 DEF Layout
  <2>4. Len(c) # 1 /\ c[2] = n /\ In(c, n) /\ n # head.node
    <3>1. 1 \in 1 .. Len(c) /\ c[1] \in Nodes /\ In(c, c[1])
      BY <2>3, AlongFacts
    <3>2. pNext[c[1]] = IF 1 = Len(c) THEN END ELSE c[1 + 1]
      BY <2>3, <3>1 DEF Along
    <3>3. n # END
      BY NullAssumption, EndAssumption
    <3>4. Len(c) # 1 /\ c[2] = n
      BY <2>2, <2>3, <3>2, <3>3
    <3> QED BY <2>2, <2>3, <3>1, <3>3, <3>4, AlongFacts
  <2>5. n \in S
    BY <1>1, <2>4 DEF Layout, Carriers
  <2>6. item[t] \in 1 .. MaxItems
    <3>1. elem[n] \in 1 .. pushed /\ pushed \in 0 .. MaxItems
      BY <1>1, <2>5 DEF Contents
    <3> QED BY <2>2, <3>1, DummyAssumption
  <2>7. TypeOK'
    BY <1>1, <2>6, SwapHeadType
  <2>8. \E r2, p2, S2 : Shape(Tail(c), r2, p2, S2)'
    BY <1>3, <2>7, SwapHeadShape
  <2>9. taken' = Append(taken, elem[c[2]]) /\ UNCHANGED elem
    BY <1>3, <2>2, <2>4 DEF SwapHead
  <2> QED BY <2>4, <2>7, <2>8, <2>9 DEF Takes
<1> QED BY <1>2, <1>3

\* PushItem does nothing to the queue: the node is not in it.
LEMMA PushItemStays ==
  ASSUME NEW c, NEW rows, NEW place, NEW S, Shape(c, rows, place, S), TypeOK,
         NEW t \in Threads, PushItem(t)
  PROVE  TypeOK' /\ Stays(c)
<1>1. Layout(c, rows, place) /\ Contents(S)
  BY DEF Shape
<1>2. TypeOK'
  <2>1. pushed \in Nat
    BY <1>1, DummyAssumption DEF Contents
  <2> QED BY <2>1, PushItemType
<1>3. \E r2, p2, S2 : Shape(c, r2, p2, S2)'
  BY <1>2, PushItemShape
<1>4. PICK n \in free \cup unused : elem' = [elem EXCEPT ![n] = pushed + 1] /\ UNCHANGED taken
  BY DEF PushItem, AvailableNodes
<1>5. \A m \in Nodes : In(c, m) => elem'[m] = elem[m]
  <2>1. ~In(c, n)
    BY <1>1, PlacesDiffer DEF Layout, TypeOK
  <2> QED BY <1>4, <2>1 DEF TypeOK
<1> QED BY <1>2, <1>3, <1>4, <1>5 DEF Stays

\* Nor does CountDown: the old dummy has left it.
LEMMA CountDownStays ==
  ASSUME NEW c, NEW rows, NEW place, NEW S, Shape(c, rows, place, S), TypeOK,
         NEW t \in Threads, CountDown(t)
  PROVE  TypeOK' /\ Stays(c)
<1>1. Layout(c, rows, place) /\ Popped(t)
  BY DEF Shape, Popped, CountDown, Returns, Goes
<1>2. PICK n \in Nodes : n = own[t] /\ place[n] = Of(t)
  <2>1. own[t] \in Nodes /\ rows[t] = <<own[t]>>
    BY <1>1 DEF Layout
  <2>2. In(rows[t], own[t])
    BY <2>1, AlongOneIn
  <2> QED BY <1>1, <2>1, <2>2 DEF Layout
<1>3. ~In(c, n) /\ n \notin unused
  BY <1>1, <1>2, PlacesDiffer DEF Layout
<1>4. TypeOK'
  BY <1>2, <1>3, CountDownType
<1>5. \E r2, p2 : Shape(c, r2, p2, S)'
  BY <1>4, CountDownShape
<1>6. UNCHANGED taken /\ \A m \in Nodes : In(c, m) => elem'[m] = elem[m]
  BY <1>2, <1>3 DEF CountDown, TypeOK
<1> QED BY <1>4, <1>5, <1>6 DEF Stays

\* Steps of others.
LEMMA StutterStays ==
  ASSUME NEW c, NEW rows, NEW place, NEW S, Shape(c, rows, place, S), TypeOK, UNCHANGED vars
  PROVE  TypeOK' /\ Stays(c)
<1> USE DEF vars, queue, memory, local, history
<1>1. TypeOK'
  BY DEF TypeOK
<1>2. Layout(c, rows, place)' /\ Carriers(S, place)'
  BY DEF Shape, Layout, Carriers, Along, Pusher, Popped
<1>3. Contents(S)' /\ Ordered(rows)'
  BY DEF Shape, Contents, Ordered, Decreasing, Pusher
<1>4. \A t \in Threads : KnownTo(t, place)'
  BY DEF Shape, KnownTo, Pusher, Popped
<1>5. \A t \in Threads : Reads(t)'
  BY DEF Shape, Reads, PushReads, PopReads, Pusher
<1>6. Counting'
  BY DEF Shape, Counting, Pushing, Popping
<1>7. Shape(c, rows, place, S)'
  BY <1>2, <1>3, <1>4, <1>5, <1>6 DEF Shape
<1> QED BY <1>1, <1>7 DEF Stays

\* Whatever a step is, it leaves the queue alone, takes its first item or adds
\* nodes at its end.
LEMMA Steps ==
  ASSUME NEW c, NEW rows, NEW place, NEW S, Shape(c, rows, place, S), TypeOK, [Next]_vars
  PROVE  /\ TypeOK'
         /\ Stays(c) \/ Takes(c) \/ \E s \in Seq(Nodes) : s # << >> /\ Adds(c, s)
<1>1. CASE UNCHANGED vars
  BY <1>1, StutterStays
<1>2. ASSUME NEW t \in Threads, PushItem(t) \/ PopItem(t) \/ Step(t)
      PROVE  /\ TypeOK'
             /\ Stays(c) \/ Takes(c) \/ \E s \in Seq(Nodes) : s # << >> /\ Adds(c, s)
  <2>1. CASE Between(t)
    BY <2>1, BetweenStays
  <2>2. CASE Link(t)
    BY <2>2, LinkSteps
  <2>3. CASE SwapHead(t)
    BY <2>3, SwapHeadSteps
  <2>4. CASE PushItem(t)
    BY <2>4, PushItemStays
  <2>5. CASE CountUp(t)
    BY <2>5, CountUpStays
  <2>6. CASE CountDown(t)
    BY <2>6, CountDownStays
  <2> QED BY <1>2, <2>1, <2>2, <2>3, <2>4, <2>5, <2>6 DEF Step, Between
<1> QED BY <1>1, <1>2 DEF Next

\* The invariant is inductive ...
LEMMA IInvKept == IInv /\ [Next]_vars => IInv'
<1> SUFFICES ASSUME IInv, [Next]_vars PROVE IInv'
  OBVIOUS
<1>1. PICK c, rows, place, S : Shape(c, rows, place, S)
  BY DEF IInv
<1>2. TypeOK' /\ (Stays(c) \/ Takes(c) \/ \E s \in Seq(Nodes) : s # << >> /\ Adds(c, s))
  BY <1>1, Steps DEF IInv
<1>3. \E q : \E r, p, X : Shape(q, r, p, X)'
  BY <1>2 DEF Stays, Takes, Adds
<1> QED BY <1>2, <1>3 DEF IInv

\* ... and holds at first, with the dummy alone in the queue.
LEMMA InitIInv == Init => IInv
<1> SUFFICES ASSUME Init PROVE IInv
  OBVIOUS
<1> USE PlacesDiffer
<1>1. PICK dummy \in Nodes :
        /\ head = [node |-> dummy, seq |-> 0] /\ tail = head
        /\ pNext = [n \in Nodes |-> IF n = dummy THEN END ELSE NULL]
        /\ elem = [n \in Nodes |-> 0] /\ count = 0
        /\ free = {} /\ unused = Nodes \ {dummy}
        /\ pc = [t \in Threads |-> "idle"] /\ own = [t \in Threads |-> NULL]
        /\ link = [t \in Threads |-> NoLink] /\ tailSeq = [t \in Threads |-> 0]
        /\ nxt = [t \in Threads |-> NULL] /\ item = [t \in Threads |-> 0]
        /\ pushed = 0 /\ taken = << >> /\ none = [t \in Threads |-> FALSE]
  BY DummyAssumption DEF Init
<1>2. TypeOK
  <2>1. << >> \in Seq(1 .. MaxItems)
    OBVIOUS
  <2> QED BY <1>1, <2>1, DummyAssumption, NullAssumption, EndAssumption DEF TypeOK,
    Links, NoLink, Points
<1> DEFINE c == <<dummy>>
           rows == [t \in Threads |-> << >>]
           place == [n \in Nodes |-> IF n = dummy THEN InChain ELSE New]
<1>3. \A t \in Threads : ~Pusher(t) /\ ~Popped(t)
  BY <1>1 DEF Pusher, Popped, PushPoints
<1>4. Layout(c, rows, place)
  <2>1. Along(pNext, c) /\ c[1] = head.node /\ \A x : In(c, x) <=> x = dummy
    BY <1>1, AlongOne
  <2> HIDE DEF c
  <2>2. \A t \in Threads : rows[t] = << >> /\ \A n : ~In(rows[t], n)
    BY NothingIn
  <2>3. \A n \in Nodes : place[n] = IF n = dummy THEN InChain ELSE New
    OBVIOUS
  <2> HIDE DEF rows, place
  <2> QED BY <1>1, <1>3, <2>1, <2>2, <2>3, NullAssumption, EndAssumption DEF Layout
<1>5. \A n \in Nodes : place[n] = InChain <=> n = head.node
  BY <1>1
<1> HIDE DEF c, rows, place
<1>6. Carriers({}, place)
  BY <1>3, <1>5 DEF Carriers
<1>7. Contents({})
  <2>1. taken \in Seq(1 .. pushed) /\ Len(taken) = 0 /\ \A j \in 1 .. Len(taken) : FALSE
    BY <1>1
  <2>2. pushed \in 0 .. MaxItems /\ ~\E i \in 1 .. pushed : TRUE
    BY <1>1, DummyAssumption
  <2> QED BY <2>1, <2>2 DEF Contents
<1>8. Ordered(rows) /\ \A t \in Threads : KnownTo(t, place)
  BY <1>3 DEF Ordered, KnownTo
<1>9. \A t \in Threads : Reads(t)
  BY <1>1 DEF Reads, PushReads, PopReads, PopPoints, Pusher, PushPoints, NoLink
<1>10. Counting
  <2>1. Pushing = {} /\ Popping = {}
    BY <1>1 DEF Pushing, Popping, Counts, PushPoints
  <2>2. count = 0 /\ pushed = 0 /\ Len(taken) = 0 /\ 0 = 0 - 0 - 0 + 0
    BY <1>1
  <2> QED BY <2>1, <2>2, FS_EmptySet DEF Counting
<1>11. Shape(c, rows, place, {})
  BY <1>4, <1>6, <1>7, <1>8, <1>9, <1>10 DEF Shape
<1> QED BY <1>2, <1>11 DEF IInv

\* The nodes of CTSQueue are always in this order, whatever the threads do.
THEOREM SpecIInv == Spec => []IInv
BY InitIInv, IInvKept, PTL DEF Spec

\* The variables of CTSQueue keep their types in every call, and m_Head and m_Tail are
\* nodes.
THEOREM SpecTypeOK == Spec => []TypeOK
<1>1. IInv => TypeOK
  BY DEF IInv
<1> QED BY <1>1, SpecIInv, PTL

\* A Pop of CTSQueue returns NULL only if there was no item at the moment it read the
\* link of the dummy.
THEOREM SpecEmptyIfNone == Spec => []EmptyIfNone
<1>1. IInv => EmptyIfNone
  BY DEF IInv, Shape, Reads, PopReads, EmptyIfNone
<1> QED BY <1>1, SpecIInv, PTL

-----------------------------------------------------------------------------
(* The items in the queue.                                                 *)

\* The items of the queue are those of the nodes after the dummy, one each.
LEMMA ItemsOfQueue ==
  ASSUME NEW c, NEW rows, NEW place, NEW S, Shape(c, rows, place, S), TypeOK
  PROVE  /\ c \in Seq(Nodes) /\ Len(c) \in Nat /\ Len(c) # 0 /\ Chain = c
         /\ InQueue = [k \in 1 .. Len(c) - 1 |-> elem[c[k + 1]]]
         /\ InQueue \in Seq(1 .. MaxItems) /\ Len(InQueue) = Len(c) - 1
         /\ \A k \in 1 .. Len(c) - 1 : c[k + 1] \in S /\ InQueue[k] = elem[c[k + 1]]
         /\ \A j, k \in 1 .. Len(c) - 1 : InQueue[j] = InQueue[k] => j = k
         /\ \A n \in Nodes : place[n] = InChain /\ n # head.node =>
              \E k \in 1 .. Len(InQueue) : InQueue[k] = elem[n]
<1>1. Layout(c, rows, place) /\ Carriers(S, place) /\ Contents(S)
  BY DEF Shape
<1>2. /\ Along(pNext, c) /\ c[1] = head.node /\ Chain = c
      /\ \A n \in Nodes : In(c, n) <=> place[n] = InChain
  BY <1>1, ChainIs DEF Layout
<1>3. /\ c \in Seq(Nodes) /\ Len(c) \in Nat /\ Len(c) # 0
      /\ \A k \in 1 .. Len(c) : c[k] \in Nodes
      /\ \A j, k \in 1 .. Len(c) : c[j] = c[k] => j = k
  BY <1>2, AlongFacts DEF Along
<1> DEFINE m == Len(c)
           q == [k \in 1 .. m - 1 |-> elem[c[k + 1]]]
<1>4. m \in Nat /\ m # 0 /\ m - 1 \in Nat
  BY <1>3
<1>5. InQueue = q
  BY <1>2 DEF InQueue
<1> HIDE DEF m
<1>6. \A k \in 1 .. m - 1 : k + 1 \in 1 .. m /\ k + 1 # 1
  BY <1>4
<1>7. 1 \in 1 .. m
  BY <1>4
<1>8. \A k \in 1 .. m - 1 : c[k + 1] \in Nodes /\ c[k + 1] # head.node /\ In(c, c[k + 1])
  BY <1>2, <1>3, <1>6, <1>7 DEF In, m
<1>9. \A k \in 1 .. m - 1 : c[k + 1] \in S
  BY <1>1, <1>2, <1>8 DEF Carriers
<1>10. \A k \in 1 .. m - 1 : elem[c[k + 1]] \in 1 .. MaxItems
  <2>1. 1 .. pushed \subseteq 1 .. MaxItems
    BY <1>1, DummyAssumption DEF Contents
  <2> QED BY <1>1, <1>9, <2>1 DEF Contents
<1>11. q \in Seq(1 .. MaxItems) /\ Len(q) = m - 1
  BY <1>4, <1>10
<1>12. \A k \in 1 .. m - 1 : q[k] = elem[c[k + 1]]
  OBVIOUS
<1> HIDE DEF q
<1>13. ASSUME NEW j \in 1 .. m - 1, NEW k \in 1 .. m - 1, q[j] = q[k] PROVE j = k
  <2>1. c[j + 1] = c[k + 1]
    BY <1>1, <1>9, <1>12, <1>13 DEF Contents
  <2>2. j + 1 = k + 1
    BY <1>3, <1>6, <2>1 DEF m
  <2> QED BY <2>2
<1>14. ASSUME NEW n \in Nodes, place[n] = InChain, n # head.node
       PROVE  \E k \in 1 .. m - 1 : q[k] = elem[n]
  <2>1. PICK k \in 1 .. m : c[k] = n
    BY <1>2, <1>14 DEF In, m
  <2>2. k # 1
    BY <1>2, <1>14, <2>1
  <2>3. k - 1 \in 1 .. m - 1 /\ (k - 1) + 1 = k
    BY <1>4, <2>2
  <2> QED BY <1>12, <2>1, <2>3
<1>15. InQueue = [k \in 1 .. m - 1 |-> elem[c[k + 1]]]
  BY <1>5 DEF q
<1> QED BY <1>2, <1>3, <1>5, <1>9, <1>11, <1>12, <1>13, <1>14, <1>15 DEF m

\* The nodes that hang behind that of a push are its row.
LEMMA HeldByRow ==
  ASSUME NEW c, NEW rows, NEW place, NEW S, Shape(c, rows, place, S), TypeOK,
         NEW t \in Threads, Pusher(t)
  PROVE  /\ HeldBy(t) = {elem[n] : n \in ToSet(rows[t])}
         /\ Along(pNext, rows[t])
<1>1. Along(pNext, rows[t]) /\ rows[t][1] = own[t]
  BY DEF Shape, Layout
<1>2. Walk(pNext, own[t]) = rows[t]
  BY <1>1, WalkAlong
<1> QED BY <1>1, <1>2 DEF HeldBy, Pusher

\* An item that was pushed on CTSQueue is in the queue or has been popped, or it
\* hangs behind the node of a push that has yet to link it, where there are only
\* older items: none is lost although nodes are used again too soon.
THEOREM SpecPushedIsReachable == Spec => []PushedIsReachable
<1>1. ASSUME IInv PROVE PushedIsReachable
  <2>1. PICK c, rows, place, S : Shape(c, rows, place, S) /\ TypeOK
    BY <1>1 DEF IInv
  <2>2. ASSUME NEW i \in 1 .. pushed
        PROVE  i \in ToSet(InQueue) \cup ToSet(taken) \cup UNION {HeldBy(t) : t \in Threads}
    <3>1. In(taken, i) \/ \E n \in S : elem[n] = i
      BY <2>1, <2>2 DEF Shape, Contents
    <3>2. CASE In(taken, i)
      BY <3>2 DEF In, ToSet
    <3>3. CASE \E n \in S : elem[n] = i
      <4>1. PICK n \in S : elem[n] = i
        BY <3>3
      <4>2. n \in Nodes /\ \/ place[n] = InChain /\ n # head.node
                           \/ \E t \in Threads : Pusher(t) /\ place[n] = Of(t)
        BY <2>1, <4>1 DEF Shape, Carriers
      <4>3. CASE place[n] = InChain /\ n # head.node
        <5>1. \E k \in 1 .. Len(InQueue) : InQueue[k] = i
          BY <2>1, <4>1, <4>2, <4>3, ItemsOfQueue
        <5> QED BY <5>1 DEF ToSet
      <4>4. CASE \E t \in Threads : Pusher(t) /\ place[n] = Of(t)
        <5>1. PICK t \in Threads : Pusher(t) /\ place[n] = Of(t)
          BY <4>4
        <5>2. In(rows[t], n)
          BY <2>1, <4>2, <5>1 DEF Shape, Layout
        <5>3. i \in HeldBy(t)
          BY <2>1, <4>1, <5>1, <5>2, HeldByRow DEF In, ToSet
        <5> QED BY <5>3
      <4> QED BY <4>2, <4>3, <4>4
    <3> QED BY <3>1, <3>2, <3>3
  <2>3. ASSUME NEW t \in Threads, NEW i \in HeldBy(t) PROVE i <= item[t]
    <3>1. Pusher(t)
      BY <2>3 DEF HeldBy, Pusher
    <3>2. Along(pNext, rows[t]) /\ HeldBy(t) = {elem[n] : n \in ToSet(rows[t])}
      BY <2>1, <3>1, HeldByRow
    <3>3. PICK n \in ToSet(rows[t]) : i = elem[n]
      BY <2>3, <3>2
    <3>4. In(rows[t], n) /\ n \in Nodes
      BY <3>2, <3>3, AlongFacts DEF In, ToSet
    <3>5. Decreasing(rows[t]) /\ item[t] = elem[rows[t][1]]
      BY <2>1, <3>1 DEF Shape, Layout, Ordered
    <3> QED BY <2>1, <3>2, <3>3, <3>4, <3>5, FirstIsNewest
  <2> QED BY <2>2, <2>3 DEF PushedIsReachable
<1> QED BY <1>1, SpecIInv, PTL

-----------------------------------------------------------------------------
(* m_Count.                                                                *)

\* A sequence without repetition has as many elements as it is long.
LEMMA DistinctItems ==
  ASSUME NEW s, NEW m \in Nat, DOMAIN s = 1 .. m,
         \A j, k \in 1 .. m : s[j] = s[k] => j = k
  PROVE  IsFiniteSet(ToSet(s)) /\ Cardinality(ToSet(s)) = m
<1>1. ToSet(s) = {s[k] : k \in 1 .. m}
  BY DEF ToSet
<1> DEFINE f == [k \in 1 .. m |-> s[k]]
<1>2. /\ f \in [1 .. m -> ToSet(s)] /\ DOMAIN f = 1 .. m
      /\ \A j, k \in 1 .. m : f[j] = f[k] => j = k
      /\ \A x \in ToSet(s) : \E k \in 1 .. m : f[k] = x
  BY <1>1
<1> HIDE DEF f
<1>3. f \in Bijection(1 .. m, ToSet(s))
  BY <1>2 DEF Bijection, Injection, Surjection, IsInjective
<1>4. ExistsBijection(1 .. m, ToSet(s))
  BY <1>3 DEF ExistsBijection
<1> QED BY <1>4, FS_CountingElements, FS_NatBijection

\* When no call of CTSQueue is under way, m_Count is the number of items in the queue,
\* and every item pushed is there or has been popped.
THEOREM SpecCountsItems == Spec => []CountsItems
<1>1. ASSUME IInv PROVE CountsItems
  <2>1. PICK c, rows, place, S : Shape(c, rows, place, S) /\ TypeOK
    BY <1>1 DEF IInv
  <2>2. SUFFICES ASSUME \A t \in Threads : pc[t] = "idle"
                 PROVE  count = Len(InQueue) /\ ToSet(InQueue) \cup ToSet(taken) = 1 .. pushed
    BY DEF CountsItems
  <2>3. Carriers(S, place) /\ Contents(S) /\ Counting
    BY <2>1 DEF Shape
  <2> DEFINE q == InQueue
             m == Len(c) - 1
             n == Len(taken)
  <2>4. m \in Nat /\ n \in Nat /\ Len(q) = m /\ q \in Seq(1 .. MaxItems)
    <3>1. /\ Len(c) \in Nat /\ Len(c) # 0 /\ Len(q) = Len(c) - 1
          /\ q \in Seq(1 .. MaxItems) /\ n \in Nat
      BY <2>1, <2>3, ItemsOfQueue DEF Contents
    <3> QED BY <3>1
  <2>5. /\ DOMAIN q = 1 .. m /\ \A j, k \in 1 .. m : q[j] = q[k] => j = k
        /\ \A k \in 1 .. m : \E x \in S : q[k] = elem[x]
        /\ \A x \in Nodes : place[x] = InChain /\ x # head.node => \E k \in 1 .. m : q[k] = elem[x]
    <3>1. DOMAIN q = 1 .. m
      BY <2>4
    <3>2. \A k \in 1 .. m : c[k + 1] \in S /\ q[k] = elem[c[k + 1]]
      BY <2>1, ItemsOfQueue
    <3>3. \A j, k \in 1 .. m : q[j] = q[k] => j = k
      BY <2>1, ItemsOfQueue
    <3>4. \A x \in Nodes : place[x] = InChain /\ x # head.node =>
            \E k \in 1 .. m : q[k] = elem[x]
      BY <2>1, ItemsOfQueue
    <3> QED BY <3>1, <3>2, <3>3, <3>4
  <2>6. \A i : In(taken, i) <=> \E k \in 1 .. n : taken[k] = i
    BY DEF In
  <2> HIDE DEF q, m
  <2>7. \A x \in S : \E k \in 1 .. m : q[k] = elem[x]
    BY <2>2, <2>3, <2>5 DEF Carriers, Pusher, PushPoints
  <2>8. /\ DOMAIN taken = 1 .. n /\ \A j, k \in 1 .. n : taken[j] = taken[k] => j = k
        /\ \A k \in 1 .. n : taken[k] \in 1 .. pushed
        /\ pushed \in Nat
    BY <2>3, DummyAssumption DEF Contents
  <2> HIDE DEF n
  <2>9. /\ ToSet(q) = {q[k] : k \in 1 .. m} /\ ToSet(taken) = {taken[k] : k \in 1 .. n}
    BY <2>5, <2>8 DEF ToSet
  <2>10. ToSet(q) \cap ToSet(taken) = {}
    BY <2>3, <2>5, <2>6, <2>9 DEF Contents
  <2>11. ToSet(q) \cup ToSet(taken) = 1 .. pushed
    <3>1. \A k \in 1 .. m : q[k] \in 1 .. pushed
      BY <2>3, <2>5 DEF Contents
    <3>2. \A i \in 1 .. pushed : (\E k \in 1 .. n : taken[k] = i) \/ (\E k \in 1 .. m : q[k] = i)
      BY <2>3, <2>6, <2>7 DEF Contents
    <3>3. \A x : x \in ToSet(q) \cup ToSet(taken) <=> x \in 1 .. pushed
      BY <2>8, <2>9, <3>1, <3>2
    <3> QED BY <3>3
  <2>12. m + n = pushed
    <3>1. /\ IsFiniteSet(ToSet(q)) /\ Cardinality(ToSet(q)) = m
          /\ IsFiniteSet(ToSet(taken)) /\ Cardinality(ToSet(taken)) = n
      BY <2>4, <2>5, <2>8, DistinctItems
    <3>2. Cardinality(1 .. pushed) = m + n
      <4>1. Cardinality(1 .. pushed) = m + n - Cardinality({})
        <5>1. Cardinality(ToSet(q) \cup ToSet(taken)) = Cardinality(ToSet(q))
                + Cardinality(ToSet(taken)) - Cardinality(ToSet(q) \cap ToSet(taken))
          BY <3>1, FS_Union
        <5> QED BY <2>10, <2>11, <3>1, <5>1
      <4> QED BY <2>4, <4>1, FS_EmptySet
    <3>3. Cardinality(1 .. pushed) = pushed
      <4>1. Cardinality(1 .. pushed) = IF 1 > pushed THEN 0 ELSE pushed - 1 + 1
        BY <2>8, FS_Interval
      <4> QED BY <2>8, <4>1
    <3> QED BY <3>2, <3>3
  <2>13. count = pushed - n - 0 + 0
    <3>1. Pushing = {} /\ Popping = {}
      BY <2>2 DEF Pushing, Popping, Counts, PushPoints
    <3> QED BY <2>3, <3>1, FS_EmptySet DEF Counting, n
  <2>14. count = m
    BY <2>4, <2>8, <2>12, <2>13
  <2> QED BY <2>4, <2>11, <2>14 DEF q
<1> QED BY <1>1, SpecIInv, PTL

-----------------------------------------------------------------------------
(* First in, first out.                                                    *)

\* What a queue of the nodes c contains when the nodes carry e.
ItemsOf(c, e) == [k \in 1 .. Len(c) - 1 |-> e[c[k + 1]]]

\* The items of all nodes of s.
Carried(s, e) == [k \in 1 .. Len(s) |-> e[s[k]]]

\* No item is in the queue twice, or in it and popped.
OnceQueued ==
  /\ InQueue \in Seq(1 .. MaxItems) /\ taken \in Seq(1 .. MaxItems)
  /\ \A j, k \in 1 .. Len(InQueue) : InQueue[j] = InQueue[k] => j = k
  /\ \A j \in 1 .. Len(InQueue), k \in 1 .. Len(taken) : InQueue[j] # taken[k]

\* The invariant implies it.
LEMMA IInvOnceQueued == IInv => OnceQueued
<1> SUFFICES ASSUME IInv PROVE OnceQueued
  OBVIOUS
<1>1. PICK c, rows, place, S : Shape(c, rows, place, S) /\ TypeOK
  BY DEF IInv
<1>2. Contents(S) /\ taken \in Seq(1 .. MaxItems)
  BY <1>1 DEF Shape, TypeOK
<1>3. /\ InQueue \in Seq(1 .. MaxItems) /\ Len(InQueue) = Len(c) - 1
      /\ \A k \in 1 .. Len(c) - 1 : c[k + 1] \in S /\ InQueue[k] = elem[c[k + 1]]
      /\ \A j, k \in 1 .. Len(c) - 1 : InQueue[j] = InQueue[k] => j = k
  BY <1>1, ItemsOfQueue
<1>4. ASSUME NEW j \in 1 .. Len(InQueue), NEW k \in 1 .. Len(taken) PROVE InQueue[j] # taken[k]
  <2>1. PICK n \in S : InQueue[j] = elem[n]
    BY <1>3
  <2>2. ~In(taken, elem[n])
    BY <1>2 DEF Contents
  <2> QED BY <2>1, <2>2 DEF In
<1> QED BY <1>2, <1>3, <1>4 DEF OnceQueued

\* The queue of the abstract specification, before a step ...
LEMMA QueueIs ==
  ASSUME NEW c, NEW rows, NEW place, Layout(c, rows, place)
  PROVE  InQueue = ItemsOf(c, elem) /\ Along(pNext, c)
BY ChainIs DEF InQueue, ItemsOf, Layout

\* ... and after it.
LEMMA QueueIsNext ==
  ASSUME NEW c, NEW rows, NEW place, Layout(c, rows, place)'
  PROVE  InQueue' = ItemsOf(c, elem') /\ Along(pNext', c)
<1>1. Along(pNext', c) /\ c[1] = head'.node
  BY DEF Layout
<1>2. Walk(pNext', c[1]) = c
  BY <1>1, WalkAlong
<1>3. Chain' = c
  BY <1>1, <1>2 DEF Chain
<1> QED BY <1>1, <1>3 DEF InQueue, ItemsOf

\* Linking the nodes of s adds their items at the end of the queue.
LEMMA ItemsAdded ==
  ASSUME NEW c \in Seq(Nodes), Len(c) # 0, NEW s \in Seq(Nodes),
         NEW e \in [Nodes -> 0 .. MaxItems]
  PROVE  /\ ItemsOf(c \o s, e) = ItemsOf(c, e) \o Carried(s, e)
         /\ ItemsOf(c, e) \in Seq(0 .. MaxItems) /\ Carried(s, e) \in Seq(0 .. MaxItems)
         /\ Len(Carried(s, e)) = Len(s)
<1> DEFINE m == Len(c)
           n == Len(s)
           b == c \o s
           x == ItemsOf(c, e)
           y == Carried(s, e)
           T == 0 .. MaxItems
<1>1. /\ m \in Nat /\ m # 0 /\ n \in Nat /\ Len(b) = m + n /\ m - 1 \in Nat /\ m - 1 + n \in Nat
      /\ m + n - 1 = m - 1 + n
      /\ \A k \in 1 .. m : c[k] \in Nodes
      /\ \A k \in 1 .. n : s[k] \in Nodes
      /\ \A k \in 1 .. m : b[k] = c[k]
      /\ \A k \in 1 .. n : b[m + k] = s[k]
  <2>1. m \in Nat /\ m # 0 /\ n \in Nat
    OBVIOUS
  <2>2. \A k \in 1 .. m : c[k] \in Nodes
    OBVIOUS
  <2>3. \A k \in 1 .. n : s[k] \in Nodes
    OBVIOUS
  <2>4. /\ Len(b) = m + n /\ \A k \in 1 .. m : b[k] = c[k]
        /\ \A k \in 1 .. n : b[m + k] = s[k]
    BY Joined
  <2> QED BY <2>1, <2>2, <2>3, <2>4
<1> HIDE DEF T
<1>2. x = [k \in 1 .. m - 1 |-> e[c[k + 1]]] /\ y = [k \in 1 .. n |-> e[s[k]]]
  BY DEF ItemsOf, Carried
<1>3. ItemsOf(b, e) = [k \in 1 .. m - 1 + n |-> e[b[k + 1]]]
  BY <1>1 DEF ItemsOf
<1>4. \A z \in Nodes : e[z] \in T
  BY DEF T
<1> HIDE DEF m, n, b
<1>5. \A k \in 1 .. m - 1 : k + 1 \in 1 .. m
  BY <1>1
<1>6. x \in Seq(T) /\ Len(x) = m - 1 /\ \A k \in 1 .. m - 1 : x[k] = e[c[k + 1]]
  BY <1>1, <1>2, <1>4, <1>5
<1>7. y \in Seq(T) /\ Len(y) = n /\ \A k \in 1 .. n : y[k] = e[s[k]]
  <2>1. n \in Nat /\ \A k \in 1 .. n : e[s[k]] \in T
    BY <1>1, <1>4
  <2> QED BY <1>2, <2>1
<1> HIDE DEF x, y
<1>8. /\ x \o y \in Seq(T) /\ Len(x \o y) = m - 1 + n
      /\ \A k \in 1 .. m - 1 : (x \o y)[k] = x[k]
      /\ \A k \in 1 .. n : (x \o y)[m - 1 + k] = y[k]
  <2>1. /\ x \o y \in Seq(T) /\ Len(x \o y) = Len(x) + Len(y)
        /\ \A k \in 1 .. Len(x) : (x \o y)[k] = x[k]
        /\ \A k \in 1 .. Len(y) : (x \o y)[Len(x) + k] = y[k]
    <3>1. x \in Seq(T) /\ y \in Seq(T)
      BY <1>6, <1>7
    <3> QED BY <3>1, Joined
  <2> QED BY <1>6, <1>7, <2>1
<1>9. ASSUME NEW k \in 1 .. m - 1 + n PROVE e[b[k + 1]] = (x \o y)[k]
  <2>1. CASE k \in 1 .. m - 1
    BY <1>1, <1>5, <1>6, <1>8, <2>1
  <2>2. CASE ~(k \in 1 .. m - 1)
    <3>1. PICK i \in 1 .. n : m - 1 + i = k /\ m + i = k + 1
      <4>0. m \in Nat /\ n \in Nat /\ k \in Nat /\ k >= m /\ k <= m - 1 + n
        BY <1>1, <2>2
      <4>1. k - (m - 1) \in 1 .. n /\ m - 1 + (k - (m - 1)) = k /\ m + (k - (m - 1)) = k + 1
        BY <4>0
      <4> QED BY <4>1
    <3>2. b[k + 1] = s[i] /\ (x \o y)[k] = y[i] /\ y[i] = e[s[i]]
      BY <1>1, <1>7, <1>8, <3>1
    <3> QED BY <3>2
  <2> QED BY <2>1, <2>2
<1> DEFINE z == ItemsOf(b, e)
<1>10. z \in Seq(T) /\ Len(z) = m - 1 + n /\ \A k \in 1 .. m - 1 + n : z[k] = (x \o y)[k]
  <2>1. \A k \in 1 .. m - 1 + n : (x \o y)[k] \in T
    BY <1>8, ElementOfSeq
  <2>2. \A k \in 1 .. m - 1 + n : e[b[k + 1]] \in T
    BY <1>9, <2>1
  <2>3. Len(z) = m - 1 + n /\ z \in Seq(T)
    BY <1>1, <1>3, <2>2
  <2> QED BY <1>3, <1>9, <2>3
<1> HIDE DEF z
<1>11. z = x \o y
  BY <1>8, <1>10, SeqEqual
<1> QED BY <1>6, <1>7, <1>11 DEF x, y, z, b, n, T

\* Without the dummy, the next node is the dummy.
LEMMA ItemsTaken ==
  ASSUME NEW f, NEW c, Along(f, c), Len(c) # 1, NEW e \in [Nodes -> 0 .. MaxItems]
  PROVE  /\ ItemsOf(c, e) # << >> /\ Head(ItemsOf(c, e)) = e[c[2]]
         /\ ItemsOf(Tail(c), e) = Tail(ItemsOf(c, e))
<1> DEFINE m == Len(c)
           x == ItemsOf(c, e)
           d == Tail(c)
           T == 0 .. MaxItems
<1>1. /\ m \in Nat /\ m # 0 /\ m # 1 /\ Len(d) = m - 1
      /\ \A k \in 1 .. m - 1 : d[k] = c[k + 1]
      /\ \A k \in 1 .. m : c[k] \in Nodes
  <2>1. m \in Nat /\ 1 \in 1 .. m /\ \A k \in 1 .. m : c[k] \in Nodes
    BY AlongFacts
  <2>2. Len(d) = m - 1 /\ \A k \in 1 .. m - 1 : d[k] = c[k + 1]
    <3>1. /\ Along(f, Tail(c)) /\ Tail(c)[1] = f[c[1]] /\ f[c[1]] = c[2] /\ f[c[1]] \in Nodes
          /\ Len(Tail(c)) = Len(c) - 1 /\ \A k \in 1 .. Len(c) - 1 : Tail(c)[k] = c[k + 1]
          /\ \A x1 : In(Tail(c), x1) <=> In(c, x1) /\ x1 # c[1]
      BY AlongTail
    <3> QED BY <3>1
  <2> QED BY <2>1, <2>2
<1> HIDE DEF d, T
<1>2. x = [k \in 1 .. m - 1 |-> e[c[k + 1]]]
  BY DEF ItemsOf
<1>3. ItemsOf(d, e) = [k \in 1 .. m - 2 |-> e[d[k + 1]]]
  <2>1. Len(d) - 1 = m - 2
    BY <1>1
  <2> QED BY <2>1 DEF ItemsOf
<1>4. \A z \in Nodes : e[z] \in T
  BY DEF T
<1> HIDE DEF m, x
<1>5. \A k \in 1 .. m - 1 : k + 1 \in 1 .. m
  BY <1>1
<1>6. \A k \in 1 .. m - 2 : k + 1 \in 1 .. m - 1
  BY <1>1
<1>7. m - 1 \in Nat /\ m - 2 \in Nat /\ 1 \in 1 .. m - 1 /\ m - 1 # 0
  BY <1>1
<1>8. x \in Seq(T) /\ Len(x) = m - 1 /\ \A k \in 1 .. m - 1 : x[k] = e[c[k + 1]]
  BY <1>1, <1>2, <1>4, <1>5, <1>7
<1>9. x # << >> /\ Head(x) = x[1] /\ x[1] = e[c[2]]
  BY <1>7, <1>8
<1>10. /\ Tail(x) \in Seq(T) /\ Len(Tail(x)) = m - 2
       /\ \A k \in 1 .. m - 2 : Tail(x)[k] = x[k + 1]
  <2>1. /\ Tail(x) \in Seq(T) /\ Len(Tail(x)) = Len(x) - 1
        /\ \A k \in 1 .. Len(Tail(x)) : Tail(x)[k] = x[k + 1]
    BY <1>8, <1>9, HeadTailProperties
  <2>2. Len(x) - 1 = m - 2
    BY <1>1, <1>8
  <2> QED BY <2>1, <2>2
<1>11. \A k \in 1 .. m - 2 : e[d[k + 1]] = Tail(x)[k]
  BY <1>1, <1>6, <1>8, <1>10
<1> DEFINE z == ItemsOf(d, e)
<1>12. z \in Seq(T) /\ Len(z) = m - 2 /\ \A k \in 1 .. m - 2 : z[k] = Tail(x)[k]
  <2>1. \A k \in 1 .. m - 2 : Tail(x)[k] \in T
    BY <1>10, ElementOfSeq
  <2>2. \A k \in 1 .. m - 2 : e[d[k + 1]] \in T
    BY <1>11, <2>1
  <2>3. z \in Seq(T) /\ Len(z) = m - 2
    BY <1>3, <1>7, <2>2
  <2>4. \A k \in 1 .. m - 2 : z[k] = e[d[k + 1]]
    BY <1>3
  <2> QED BY <1>11, <2>3, <2>4
<1> HIDE DEF z
<1>13. z = Tail(x)
  BY <1>10, <1>12, SeqEqual
<1> QED BY <1>9, <1>13 DEF x, z, d

\* r has nothing twice; r and s have nothing in common.
NoRepeat(r) == \A j, k \in 1 .. Len(r) : r[j] = r[k] => j = k

NoneOf(r, s) == \A j \in 1 .. Len(r), k \in 1 .. Len(s) : r[j] # s[k]

\* Those that have come in are told from the rest of the queue.
LEMMA Batch ==
  ASSUME NEW T, NEW q \in Seq(T), NEW b \in Seq(T), NEW tk \in Seq(T), b # << >>,
         NEW r, r = q \o b, NoRepeat(r), NoneOf(r, tk)
  PROVE  /\ SubSeq(r, Len(q) + 1, Len(r)) = b /\ IsInjective(b)
         /\ ToSet(b) \cap ToSet(tk \o q) = {}
<1> USE DEF NoRepeat, NoneOf
<1> DEFINE m == Len(q)
           n == Len(b)
<1>1. /\ m \in Nat /\ n \in Nat /\ n # 0 /\ DOMAIN b = 1 .. n
      /\ Len(r) = m + n /\ \A k \in 1 .. m : r[k] = q[k]
      /\ \A k \in 1 .. n : r[m + k] = b[k]
  <2>1. m \in Nat /\ n \in Nat /\ DOMAIN b = 1 .. n
    OBVIOUS
  <2>2. n # 0
    OBVIOUS
  <2>3. /\ Len(q \o b) = m + n /\ \A k \in 1 .. m : (q \o b)[k] = q[k]
        /\ \A k \in 1 .. n : (q \o b)[m + k] = b[k]
    BY Joined
  <2> QED BY <2>1, <2>2, <2>3
<1>2. SubSeq(r, m + 1, m + n) = b
  <2>1. m + 1 \in m + 1 .. m + n /\ m + n \in m + 1 .. m + n /\ m + 1 - m = 1 /\ m + n - m = n
    BY <1>1
  <2>2. SubSeq(q \o b, m + 1, m + n) = SubSeq(b, m + 1 - m, m + n - m)
    BY <2>1, SubSeqOfConcat2
  <2>3. SubSeq(b, 1, n) = b
    BY SubSeqFull
  <2> QED BY <2>1, <2>2, <2>3
<1>3. \A k \in 1 .. n : m + k \in 1 .. m + n
  BY <1>1
<1>4. \A k \in 1 .. m : k \in 1 .. m + n
  BY <1>1
<1>5. ASSUME NEW j \in 1 .. n, NEW k \in 1 .. n, b[j] = b[k] PROVE j = k
  <2>1. r[m + j] = r[m + k] /\ m + j \in 1 .. Len(r) /\ m + k \in 1 .. Len(r)
    BY <1>1, <1>3, <1>5
  <2>2. m + j = m + k
    BY <2>1
  <2> QED BY <1>1, <2>2
<1>6. IsInjective(b)
  BY <1>1, <1>5 DEF IsInjective
<1>7. ASSUME NEW x \in ToSet(b), x \in ToSet(tk \o q) PROVE FALSE
  <2>1. PICK k \in 1 .. n : b[k] = x
    BY <1>1 DEF ToSet
  <2>2. r[m + k] = x /\ m + k \in 1 .. Len(r)
    BY <1>1, <1>3, <2>1
  <2>3. tk \o q \in Seq(T) /\ In(tk \o q, x)
    <3>1. tk \o q \in Seq(T)
      OBVIOUS
    <3>2. DOMAIN (tk \o q) = 1 .. Len(tk \o q)
      BY <3>1
    <3> QED BY <1>7, <3>1, <3>2 DEF ToSet, In
  <2>4. In(tk, x) \/ In(q, x)
    BY <2>3, Joined
  <2>5. CASE In(tk, x)
    BY <2>2, <2>5 DEF In
  <2>6. CASE In(q, x)
    <3>1. PICK j \in 1 .. m : q[j] = x
      BY <2>6 DEF In
    <3>2. r[j] = x /\ j \in 1 .. Len(r)
      BY <1>1, <1>4, <3>1
    <3>3. j = m + k
      BY <2>2, <3>2
    <3> QED BY <1>1, <3>3
  <2> QED BY <2>4, <2>5, <2>6
<1>8. SubSeq(r, Len(q) + 1, Len(r)) = b
  BY <1>1, <1>2
<1> QED BY <1>6, <1>7, <1>8

\* A step that leaves the queue alone is a stutter of FifoQueue,
LEMMA StaysSame ==
  ASSUME NEW c, Along(pNext, c), InQueue = ItemsOf(c, elem), Stays(c)
  PROVE  UNCHANGED <<InQueue, taken>>
<1>1. InQueue' = ItemsOf(c, elem')
  BY QueueIsNext DEF Stays, Shape
<1>2. \A k \in 1 .. Len(c) - 1 : elem'[c[k + 1]] = elem[c[k + 1]]
  <2>1. Len(c) \in Nat /\ \A k \in 1 .. Len(c) : c[k] \in Nodes
    BY AlongFacts
  <2>2. \A k \in 1 .. Len(c) - 1 : k + 1 \in 1 .. Len(c)
    BY <2>1
  <2> QED BY <2>1, <2>2 DEF Stays, In
<1>3. ItemsOf(c, elem') = ItemsOf(c, elem)
  BY <1>2 DEF ItemsOf
<1> QED BY <1>1, <1>3 DEF Stays

\* one that takes the first item is Dequeue,
LEMMA TakesDequeues ==
  ASSUME NEW c, Along(pNext, c), InQueue = ItemsOf(c, elem), TypeOK, Takes(c)
  PROVE  Fifo!Dequeue
<1>1. InQueue' = ItemsOf(Tail(c), elem')
  BY QueueIsNext DEF Takes, Shape
<1>2. elem \in [Nodes -> 0 .. MaxItems] /\ elem' = elem /\ Len(c) # 1
      /\ taken' = Append(taken, elem[c[2]])
  BY DEF TypeOK, Takes
<1>3. /\ InQueue # << >> /\ Head(InQueue) = elem[c[2]]
      /\ ItemsOf(Tail(c), elem) = Tail(InQueue)
  BY <1>2, ItemsTaken
<1> QED BY <1>1, <1>2, <1>3 DEF Fifo!Dequeue

\* and one that adds nodes is Enqueue.
LEMMA AddsEnqueues ==
  ASSUME NEW c, Along(pNext, c), InQueue = ItemsOf(c, elem), TypeOK, OnceQueued, OnceQueued',
         NEW s \in Seq(Nodes), s # << >>, Adds(c, s)
  PROVE  Fifo!Enqueue
<1>1. InQueue' = ItemsOf(c \o s, elem')
  BY QueueIsNext DEF Adds, Shape
<1>2. elem \in [Nodes -> 0 .. MaxItems] /\ elem' = elem /\ taken' = taken
  BY DEF TypeOK, Adds
<1>3. c \in Seq(Nodes) /\ Len(c) # 0
  BY DEF Along
<1>4. PICK q, b, r : q = InQueue /\ b = Carried(s, elem) /\ r = InQueue'
  OBVIOUS
<1>5. r = q \o b /\ b \in Seq(0 .. MaxItems) /\ q \in Seq(0 .. MaxItems) /\ Len(b) = Len(s)
  BY <1>1, <1>2, <1>3, <1>4, ItemsAdded
<1>6. q \in Seq(1 .. MaxItems) /\ r \in Seq(1 .. MaxItems) /\ taken \in Seq(1 .. MaxItems)
  BY <1>4 DEF OnceQueued
<1>7. b # << >>
  BY <1>5
<1>8. b \in Seq(1 .. MaxItems)
  <2> DEFINE T == 1 .. MaxItems
             U == 0 .. MaxItems
             m == Len(q)
             n == Len(b)
  <2>1. m \in Nat /\ n \in Nat /\ Len(r) = m + n /\ \A k \in 1 .. n : r[m + k] = b[k]
    <3>1. Len(q \o b) = Len(q) + Len(b) /\ \A k \in 1 .. Len(b) : (q \o b)[Len(q) + k] = b[k]
      <4>1. q \in Seq(U) /\ b \in Seq(U)
        BY <1>5
      <4> HIDE DEF U
      <4> QED BY <4>1, Joined
    <3>2. m \in Nat /\ n \in Nat
      BY <1>5
    <3> QED BY <1>5, <3>1, <3>2
  <2>2. \A k \in 1 .. m + n : r[k] \in T
    BY <1>6, <2>1, ElementOfSeq
  <2>3. \A k \in 1 .. n : m + k \in 1 .. m + n
    BY <2>1
  <2>4. \A k \in 1 .. n : b[k] \in T
    BY <2>1, <2>2, <2>3
  <2>5. b = [k \in 1 .. n |-> b[k]]
    BY <1>5
  <2> HIDE DEF T, n
  <2>6. n \in Nat
    BY <2>1
  <2>7. [k \in 1 .. n |-> b[k]] \in Seq(T)
    BY <2>4, <2>6
  <2>8. b \in Seq(T)
    BY <2>5, <2>7
  <2> QED BY <2>8 DEF T
<1>9. /\ \A j, k \in 1 .. Len(r) : r[j] = r[k] => j = k
      /\ \A j \in 1 .. Len(r), k \in 1 .. Len(taken) : r[j] # taken[k]
  BY <1>2, <1>4 DEF OnceQueued
<1>10. PICK tk : tk = taken
  OBVIOUS
<1>11. /\ SubSeq(r, Len(q) + 1, Len(r)) = b /\ IsInjective(b)
       /\ ToSet(b) \cap ToSet(tk \o q) = {}
  <2> DEFINE T == 1 .. MaxItems
  <2>1. q \in Seq(T) /\ b \in Seq(T) /\ tk \in Seq(T) /\ b # << >> /\ r = q \o b
    BY <1>5, <1>6, <1>7, <1>8, <1>10
  <2>2. NoRepeat(r) /\ NoneOf(r, tk)
    BY <1>9, <1>10 DEF NoRepeat, NoneOf
  <2> HIDE DEF T
  <2>3. SubSeq(r, Len(q) + 1, Len(r)) = b
    BY <2>1, <2>2, Batch
  <2>4. IsInjective(b)
    BY <2>1, <2>2, Batch
  <2>5. ToSet(b) \cap ToSet(tk \o q) = {}
    BY <2>1, <2>2, Batch
  <2> QED BY <2>3, <2>4, <2>5
<1>12. SubSeq(InQueue', Len(InQueue) + 1, Len(InQueue')) = b
  BY <1>4, <1>11
<1>13. InQueue' = InQueue \o b /\ taken' = taken
  BY <1>2, <1>4, <1>5
<1>14. ToSet(b) \cap ToSet(taken \o InQueue) = {}
  BY <1>4, <1>10, <1>11
<1>15. /\ b \in Seq(1 .. MaxItems) /\ b # << >> /\ InQueue' = InQueue \o b
       /\ ToSet(b) \cap ToSet(taken \o InQueue) = {} /\ IsInjective(b) /\ UNCHANGED taken
  BY <1>7, <1>8, <1>11, <1>13, <1>14
<1>16. Fifo!ToSet(b) \cap Fifo!ToSet(taken \o InQueue) = {} /\ Fifo!IsInjective(b)
  BY <1>15 DEF Fifo!ToSet, ToSet, Fifo!IsInjective, IsInjective
<1> QED BY <1>12, <1>15, <1>16 DEF Fifo!Enqueue

\* So is every step.
LEMMA StepIsFifo == IInv /\ OnceQueued /\ OnceQueued' /\ [Next]_vars => [Fifo!Next]_(Fifo!content)
<1> SUFFICES ASSUME IInv, OnceQueued, OnceQueued', [Next]_vars
             PROVE  Fifo!Enqueue \/ Fifo!Dequeue \/ UNCHANGED <<InQueue, taken>>
  BY DEF Fifo!Next, Fifo!content
<1>1. PICK c, rows, place, S : Shape(c, rows, place, S)
  BY DEF IInv
<1>2. TypeOK /\ Layout(c, rows, place)
  BY <1>1 DEF IInv, Shape
<1>3. Along(pNext, c) /\ InQueue = ItemsOf(c, elem)
  BY <1>2, QueueIs
<1>4. Stays(c) \/ Takes(c) \/ \E s \in Seq(Nodes) : s # << >> /\ Adds(c, s)
  BY <1>1, <1>2, Steps
<1> QED BY <1>2, <1>3, <1>4, StaysSame, TakesDequeues, AddsEnqueues

\* At first FifoQueue is empty.
LEMMA InitIsFifo == Init => Fifo!Init
<1> SUFFICES ASSUME Init PROVE InQueue = << >> /\ taken = << >>
  BY DEF Fifo!Init
<1>1. IInv
  BY InitIInv
<1>2. PICK c, rows, place, S : Shape(c, rows, place, S) /\ TypeOK
  BY <1>1 DEF IInv
<1>3. head.node \in Nodes /\ pNext[head.node] = END
  <2>1. PICK dummy \in Nodes : /\ head = [node |-> dummy, seq |-> 0]
                               /\ pNext = [n \in Nodes |-> IF n = dummy THEN END ELSE NULL]
    BY DummyAssumption DEF Init
  <2> QED BY <2>1
<1> QED BY <1>2, <1>3, OnlyDummy DEF Shape, Init

\* CTSQueue is first in, first out: items leave in the order in which their nodes were
\* linked, none twice and none lost, so it implements FifoQueue.
THEOREM SpecImplementsFifo == Spec => ImplementsFifo
<1>1. Spec => []OnceQueued
  BY SpecIInv, IInvOnceQueued, PTL
<1> QED BY <1>1, SpecIInv, InitIsFifo, StepIsFifo, PTL DEF Spec, ImplementsFifo, Fifo!Spec
=============================================================================
