-------------------------- MODULE EntityListProofs --------------------------
(***************************************************************************)
(* Proofs about EntityList for every number of slots, entities and serial  *)
(* numbers: the two linked lists stay well formed, slots and entities name *)
(* each other, a stale EHANDLE resolves to NULL until the serial numbers   *)
(* of its slot wrap around, the counters of CGlobalEntityList agree with   *)
(* the slots, and a loop FirstHandle .. NextHandle misses no entity that   *)
(* stays in the list while it runs.                                        *)
(***************************************************************************)
EXTENDS EntityListRefinement, FiniteSetTheorems, WellFoundedInduction, TLAPS

USE NullAssumption

ListNames == Lists \cup {"none"}

\* The local conditions of Threads admit a ring beside the list, from which
\* Unlink would make a slot its own neighbour. A rank that grows along m_pNext
\* excludes rings.
Ordered(L, in, rank) ==
  \A s \in Slots : in[s] \in Lists /\ L.next[s] # NULL =>
                     rank[s] < rank[L.next[s]]

-----------------------------------------------------------------------------
(* The linked lists, apart from the rest of the state.                     *)

\* Unlink takes a slot out of the list it is in and leaves the rest threaded.
LEMMA UnlinkThreads ==
  ASSUME NEW L \in Links, NEW in \in [Slots -> ListNames], Threads(L, in),
         NEW rank \in [Slots -> Int], Ordered(L, in, rank),
         NEW s \in Slots, NEW l \in Lists, in[s] = l
  PROVE  /\ Unlinked(L, l, s) \in Links
         /\ Threads(Unlinked(L, l, s), [in EXCEPT ![s] = "none"])
         /\ Ordered(Unlinked(L, l, s), [in EXCEPT ![s] = "none"], rank)
<1> DEFINE p == L.prev[s]
           n == L.next[s]
           U == Unlinked(L, l, s)
           out == [in EXCEPT ![s] = "none"]
<1>1. /\ L.prev \in [Slots -> Slots \cup {NULL}]
      /\ L.next \in [Slots -> Slots \cup {NULL}]
      /\ L.head \in [Lists -> Slots \cup {NULL}]
      /\ L.tail \in [Lists -> Slots \cup {NULL}]
  BY DEF Links
<1>2. /\ p # s /\ n # s
      /\ p # NULL => p \in Slots /\ in[p] = l /\ L.next[p] = s
      /\ n # NULL => n \in Slots /\ in[n] = l /\ L.prev[n] = s
      /\ p = NULL => L.head[l] = s
      /\ n = NULL => L.tail[l] = s
  BY <1>1 DEF Threads
<1>2a. p # NULL => p # n
  BY <1>1, <1>2 DEF Ordered
<1>3. IsInList(L, s)
  BY <1>2 DEF IsInList
<1>4. /\ U.prev = [(IF n # NULL THEN [L.prev EXCEPT ![n] = p] ELSE L.prev)
                     EXCEPT ![s] = s]
      /\ U.next = [(IF p # NULL THEN [L.next EXCEPT ![p] = n] ELSE L.next)
                     EXCEPT ![s] = s]
      /\ U.head = IF p # NULL THEN L.head ELSE [L.head EXCEPT ![l] = n]
      /\ U.tail = IF n # NULL THEN L.tail ELSE [L.tail EXCEPT ![l] = p]
      /\ U = [prev |-> U.prev, next |-> U.next, head |-> U.head, tail |-> U.tail]
  BY <1>3 DEF Unlinked
<1> HIDE DEF U
<1>5. /\ U.prev \in [Slots -> Slots \cup {NULL}]
      /\ U.next \in [Slots -> Slots \cup {NULL}]
      /\ U.head \in [Lists -> Slots \cup {NULL}]
      /\ U.tail \in [Lists -> Slots \cup {NULL}]
  BY <1>1, <1>2, <1>4
<1>6. U \in Links
  BY <1>4, <1>5 DEF Links
<1>7. /\ \A t \in Slots : U.prev[t] = IF t = s THEN s ELSE IF t = n THEN p ELSE L.prev[t]
      /\ \A t \in Slots : U.next[t] = IF t = s THEN s ELSE IF t = p THEN n ELSE L.next[t]
      /\ \A t \in Slots : out[t] = IF t = s THEN "none" ELSE in[t]
      /\ \A k \in Lists : U.head[k] = IF k = l /\ p = NULL THEN n ELSE L.head[k]
      /\ \A k \in Lists : U.tail[k] = IF k = l /\ n = NULL THEN p ELSE L.tail[k]
  BY <1>1, <1>2, <1>4
<1> HIDE DEF p, n, out
<1>8. /\ \A t \in Slots : in[t] = "none" => L.prev[t] = t
      /\ \A t \in Slots : in[t] \in Lists =>
           /\ IF L.prev[t] = NULL THEN L.head[in[t]] = t
              ELSE L.prev[t] # t /\ in[L.prev[t]] = in[t] /\ L.next[L.prev[t]] = t
           /\ IF L.next[t] = NULL THEN L.tail[in[t]] = t
              ELSE L.next[t] # t /\ in[L.next[t]] = in[t] /\ L.prev[L.next[t]] = t
      /\ \A k \in Lists :
           /\ L.head[k] = NULL <=> L.tail[k] = NULL
           /\ L.head[k] # NULL => in[L.head[k]] = k /\ L.prev[L.head[k]] = NULL
           /\ L.tail[k] # NULL => in[L.tail[k]] = k /\ L.next[L.tail[k]] = NULL
  BY DEF Threads
<1>9. ASSUME NEW t \in Slots, out[t] = "none"
      PROVE  U.prev[t] = t
  BY <1>2, <1>7, <1>8, <1>9 DEF Lists
<1>10. ASSUME NEW t \in Slots, out[t] \in Lists
       PROVE  IF U.prev[t] = NULL THEN U.head[out[t]] = t
              ELSE U.prev[t] # t /\ out[U.prev[t]] = out[t] /\ U.next[U.prev[t]] = t
  <2>1. t # s /\ out[t] = in[t]
    BY <1>7, <1>10 DEF Lists
  <2>2. CASE t = n
    BY <1>1, <1>2, <1>2a, <1>7, <2>1, <2>2
  <2>3. CASE t # n
    <3>1. U.prev[t] = L.prev[t] /\ L.prev[t] # s
      BY <1>2, <1>7, <1>8, <1>10, <2>1, <2>3 DEF n
    <3>2. CASE L.prev[t] = NULL
      BY <1>2, <1>7, <1>8, <1>10, <2>1, <3>1, <3>2
    <3>3. CASE L.prev[t] # NULL
      <4>1. L.prev[t] \in Slots /\ in[L.prev[t]] = in[t] /\ L.next[L.prev[t]] = t
        BY <1>1, <1>8, <1>10, <2>1, <3>3
      <4>2. L.prev[t] # p
        BY <1>2, <4>1, <2>1
      <4> QED
        BY <1>7, <1>8, <1>10, <2>1, <3>1, <4>1, <4>2
    <3> QED BY <3>2, <3>3
  <2> QED BY <2>2, <2>3
<1>11. ASSUME NEW t \in Slots, out[t] \in Lists
       PROVE  IF U.next[t] = NULL THEN U.tail[out[t]] = t
              ELSE U.next[t] # t /\ out[U.next[t]] = out[t] /\ U.prev[U.next[t]] = t
  <2>1. t # s /\ out[t] = in[t]
    BY <1>7, <1>11 DEF Lists
  <2>2. CASE t = p
    BY <1>1, <1>2, <1>2a, <1>7, <2>1, <2>2
  <2>3. CASE t # p
    <3>1. U.next[t] = L.next[t] /\ L.next[t] # s
      BY <1>2, <1>7, <1>8, <1>11, <2>1, <2>3 DEF p
    <3>2. CASE L.next[t] = NULL
      BY <1>2, <1>7, <1>8, <1>11, <2>1, <3>1, <3>2
    <3>3. CASE L.next[t] # NULL
      <4>1. L.next[t] \in Slots /\ in[L.next[t]] = in[t] /\ L.prev[L.next[t]] = t
        BY <1>1, <1>8, <1>11, <2>1, <3>3
      <4>2. L.next[t] # n
        BY <1>2, <4>1, <2>1
      <4> QED
        BY <1>7, <1>8, <1>11, <2>1, <3>1, <4>1, <4>2
    <3> QED BY <3>2, <3>3
  <2> QED BY <2>2, <2>3
<1>12. ASSUME NEW k \in Lists
       PROVE  /\ U.head[k] = NULL <=> U.tail[k] = NULL
              /\ U.head[k] # NULL => out[U.head[k]] = k /\ U.prev[U.head[k]] = NULL
              /\ U.tail[k] # NULL => out[U.tail[k]] = k /\ U.next[U.tail[k]] = NULL
  BY <1>1, <1>2, <1>7, <1>8 DEF p, n, Lists
<1>13. Threads(U, out)
  BY <1>9, <1>10, <1>11, <1>12 DEF Threads
<1>14. ASSUME NEW t \in Slots, out[t] \in Lists, U.next[t] # NULL
       PROVE  rank[t] < rank[U.next[t]]
  <2>1. t # s /\ in[t] \in Lists
    BY <1>7, <1>14 DEF Lists
  <2>2. CASE t = p
    <3>1. n \in Slots /\ rank[p] < rank[s] /\ rank[s] < rank[n]
      BY <1>2, <1>7, <1>14, <2>1, <2>2 DEF Ordered, n
    <3> QED BY <1>7, <2>1, <2>2, <3>1
  <2>3. CASE t # p
    BY <1>7, <1>14, <2>1, <2>3 DEF Ordered
  <2> QED BY <2>2, <2>3
<1>15. Ordered(U, out, rank)
  BY <1>14 DEF Ordered
<1> QED
  BY <1>6, <1>13, <1>15 DEF U, out

\* AddToTail appends a slot that is in no list.
LEMMA AddThreads ==
  ASSUME NEW L \in Links, NEW in \in [Slots -> ListNames], Threads(L, in),
         NEW rank \in [Slots -> Int], Ordered(L, in, rank),
         NEW s \in Slots, NEW l \in Lists, in[s] = "none"
  PROVE  /\ AddedToTail(L, l, s) \in Links
         /\ Threads(AddedToTail(L, l, s), [in EXCEPT ![s] = l])
         /\ \E r \in [Slots -> Int] :
              Ordered(AddedToTail(L, l, s), [in EXCEPT ![s] = l], r)
<1> DEFINE t == L.tail[l]
           A == AddedToTail(L, l, s)
           now == [in EXCEPT ![s] = l]
           r == [rank EXCEPT ![s] = IF t = NULL THEN 0 ELSE rank[t] + 1]
<1>1. /\ L.prev \in [Slots -> Slots \cup {NULL}]
      /\ L.next \in [Slots -> Slots \cup {NULL}]
      /\ L.head \in [Lists -> Slots \cup {NULL}]
      /\ L.tail \in [Lists -> Slots \cup {NULL}]
  BY DEF Links
<1>2. Unlinked(L, l, s) = L
  BY DEF Threads, Unlinked, IsInList
<1>3. /\ A.prev = [L.prev EXCEPT ![s] = t]
      /\ A.next = IF t = NULL THEN [L.next EXCEPT ![s] = NULL]
                  ELSE [[L.next EXCEPT ![s] = NULL] EXCEPT ![t] = s]
      /\ A.head = IF t = NULL THEN [L.head EXCEPT ![l] = s] ELSE L.head
      /\ A.tail = [L.tail EXCEPT ![l] = s]
      /\ A = [prev |-> A.prev, next |-> A.next, head |-> A.head, tail |-> A.tail]
  BY <1>2 DEF AddedToTail
<1> HIDE DEF A
<1>4. /\ A.prev \in [Slots -> Slots \cup {NULL}]
      /\ A.next \in [Slots -> Slots \cup {NULL}]
      /\ A.head \in [Lists -> Slots \cup {NULL}]
      /\ A.tail \in [Lists -> Slots \cup {NULL}]
  BY <1>1, <1>3
<1>5. A \in Links
  BY <1>3, <1>4 DEF Links
<1>6. /\ t # NULL => t \in Slots /\ in[t] = l /\ L.next[t] = NULL /\ t # s
      /\ t = NULL <=> L.head[l] = NULL
  BY <1>1 DEF Threads, Lists
<1>7. /\ \A u \in Slots : A.prev[u] = IF u = s THEN t ELSE L.prev[u]
      /\ \A u \in Slots : A.next[u] = IF u = s THEN NULL ELSE IF u = t THEN s ELSE L.next[u]
      /\ \A u \in Slots : now[u] = IF u = s THEN l ELSE in[u]
      /\ \A k \in Lists : A.head[k] = IF k = l /\ t = NULL THEN s ELSE L.head[k]
      /\ \A k \in Lists : A.tail[k] = IF k = l THEN s ELSE L.tail[k]
  BY <1>1, <1>3, <1>6
<1> HIDE DEF now
<1>8. /\ \A u \in Slots : in[u] = "none" => L.prev[u] = u
      /\ \A u \in Slots : in[u] \in Lists =>
           /\ IF L.prev[u] = NULL THEN L.head[in[u]] = u
              ELSE L.prev[u] # u /\ in[L.prev[u]] = in[u] /\ L.next[L.prev[u]] = u
           /\ IF L.next[u] = NULL THEN L.tail[in[u]] = u
              ELSE L.next[u] # u /\ in[L.next[u]] = in[u] /\ L.prev[L.next[u]] = u
      /\ \A k \in Lists :
           /\ L.head[k] = NULL <=> L.tail[k] = NULL
           /\ L.head[k] # NULL => in[L.head[k]] = k /\ L.prev[L.head[k]] = NULL
           /\ L.tail[k] # NULL => in[L.tail[k]] = k /\ L.next[L.tail[k]] = NULL
  BY DEF Threads
<1>9. ASSUME NEW u \in Slots, now[u] = "none"
      PROVE  A.prev[u] = u
  BY <1>7, <1>8, <1>9 DEF Lists
<1>10. ASSUME NEW u \in Slots, now[u] \in Lists
       PROVE  IF A.prev[u] = NULL THEN A.head[now[u]] = u
              ELSE A.prev[u] # u /\ now[A.prev[u]] = now[u] /\ A.next[A.prev[u]] = u
  <2>1. CASE u = s
    BY <1>6, <1>7, <2>1
  <2>2. CASE u # s
    BY <1>1, <1>6, <1>7, <1>8, <1>10, <2>2 DEF Lists
  <2> QED BY <2>1, <2>2
<1>11. ASSUME NEW u \in Slots, now[u] \in Lists
       PROVE  IF A.next[u] = NULL THEN A.tail[now[u]] = u
              ELSE A.next[u] # u /\ now[A.next[u]] = now[u] /\ A.prev[A.next[u]] = u
  <2>1. CASE u = s
    BY <1>7, <2>1
  <2>2. CASE u = t /\ u # s
    BY <1>6, <1>7, <2>2
  <2>3. CASE u # s /\ u # t
    BY <1>1, <1>6, <1>7, <1>8, <1>11, <2>3 DEF Lists
  <2> QED BY <2>1, <2>2, <2>3
<1>12. ASSUME NEW k \in Lists
       PROVE  /\ A.head[k] = NULL <=> A.tail[k] = NULL
              /\ A.head[k] # NULL => now[A.head[k]] = k /\ A.prev[A.head[k]] = NULL
              /\ A.tail[k] # NULL => now[A.tail[k]] = k /\ A.next[A.tail[k]] = NULL
  <2>1. CASE k = l
    BY <1>1, <1>6, <1>7, <1>8, <2>1 DEF Lists
  <2>2. CASE k # l
    BY <1>1, <1>6, <1>7, <1>8, <2>2 DEF Lists
  <2> QED BY <2>1, <2>2
<1>13. Threads(A, now)
  BY <1>9, <1>10, <1>11, <1>12 DEF Threads
<1>14. r \in [Slots -> Int] /\ \A u \in Slots : u # s => r[u] = rank[u]
  BY <1>6
<1>15. t # NULL => r[s] = rank[t] + 1
  BY <1>6
<1>16. ASSUME NEW u \in Slots, now[u] \in Lists, A.next[u] # NULL
       PROVE  r[u] < r[A.next[u]]
  <2> HIDE DEF r
  <2>1. u # s
    BY <1>7, <1>16
  <2>2. CASE u = t
    BY <1>6, <1>7, <1>14, <1>15, <2>1, <2>2
  <2>3. CASE u # t
    <3>1. L.next[u] \in Slots /\ L.next[u] # s /\ A.next[u] = L.next[u] /\ in[u] \in Lists
      BY <1>1, <1>7, <1>8, <1>16, <2>1, <2>3 DEF Lists
    <3> QED BY <1>14, <1>16, <2>1, <3>1 DEF Ordered
  <2> QED BY <2>2, <2>3
<1>17. Ordered(A, now, r)
  BY <1>16 DEF Ordered
<1> HIDE DEF r
<1> QED
  BY <1>5, <1>13, <1>14, <1>17 DEF A, now
-----------------------------------------------------------------------------
(* The inductive invariant.                                                *)

\* Slot MaxEdicts, which the destructor would put on the free list although
\* the constructor does not, is never occupied.
ListsSound ==
  /\ links \in Links
  /\ Threads(links, Membership)
  /\ \E rank \in [Slots -> Int] : Ordered(links, Membership, rank)
  /\ pEntity[MaxEdicts] = NULL

\* The serial number of a slot runs ahead of a handle taken from it by one per
\* reuse, until it wraps around.
HeldSerial ==
  ForcedSerials = {} /\ held # NULL =>
    LET s == held.handle.entry
        reuses == life[s] - held.life
    IN /\ reuses >= 0
       /\ reuses <= SerialMask =>
            \/ serial[s] = held.handle.serial + reuses
            \/ serial[s] = held.handle.serial + reuses - (SerialMask + 1)

IInv == TypeOK /\ ListsSound /\ RefHandlesAgree /\ HeldSerial

\* Every slot belongs in one list or in none.
LEMMA MembershipType ==
  Membership \in [Slots -> ListNames]
BY DEF Membership, ListNames, Lists

\* The constructor threads the slots above MaxEdicts in order.
LEMMA InitLists == Init => ListsSound
<1> SUFFICES ASSUME Init PROVE ListsSound
  OBVIOUS
<1> USE SlotsAssumption
<1>1. \A s \in Slots : Membership[s] = IF s > MaxEdicts THEN "free" ELSE "none"
  BY DEF Init, Membership
<1>2. links \in Links
  BY DEF Init, InitialLinks, Links, Slots, Lists
<1>3. Threads(links, Membership)
  <2>1. \A s \in Slots : /\ links.prev[s] = IF s <= MaxEdicts THEN s
                                             ELSE IF s = MaxEdicts + 1 THEN NULL ELSE s - 1
                         /\ links.next[s] = IF s <= MaxEdicts THEN s
                                             ELSE IF s = NumEntEntries - 1 THEN NULL ELSE s + 1
    BY DEF Init, InitialLinks, Slots
  <2>2. /\ links.head["active"] = NULL /\ links.tail["active"] = NULL
        /\ links.head["free"] = MaxEdicts + 1 /\ links.tail["free"] = NumEntEntries - 1
    BY DEF Init, InitialLinks, Slots, Lists
  <2>3. \A s \in Slots : Membership[s] = "none" => links.prev[s] = s
    BY <1>1, <2>1 DEF Slots
  <2>4. ASSUME NEW s \in Slots, Membership[s] \in Lists
        PROVE  /\ IF links.prev[s] = NULL THEN links.head[Membership[s]] = s
                  ELSE /\ links.prev[s] # s
                       /\ Membership[links.prev[s]] = Membership[s]
                       /\ links.next[links.prev[s]] = s
               /\ IF links.next[s] = NULL THEN links.tail[Membership[s]] = s
                  ELSE /\ links.next[s] # s
                       /\ Membership[links.next[s]] = Membership[s]
                       /\ links.prev[links.next[s]] = s
    <3>1. s > MaxEdicts /\ Membership[s] = "free" /\ s \in Int
      BY <1>1, <2>4 DEF Lists, Slots
    <3>2. s # MaxEdicts + 1 => s - 1 \in Slots /\ s - 1 > MaxEdicts
      BY <3>1 DEF Slots
    <3>3. s # NumEntEntries - 1 => s + 1 \in Slots /\ s + 1 > MaxEdicts
      BY <3>1 DEF Slots
    <3>4. CASE s = MaxEdicts + 1
      BY <1>1, <2>1, <2>2, <3>1, <3>3, <3>4 DEF Slots
    <3>5. CASE s # MaxEdicts + 1
      BY <1>1, <2>1, <2>2, <3>1, <3>2, <3>3, <3>5 DEF Slots
    <3> QED BY <3>4, <3>5
  <2>5. ASSUME NEW l \in Lists
        PROVE  /\ links.head[l] = NULL <=> links.tail[l] = NULL
               /\ links.head[l] # NULL => Membership[links.head[l]] = l /\ links.prev[links.head[l]] = NULL
               /\ links.tail[l] # NULL => Membership[links.tail[l]] = l /\ links.next[links.tail[l]] = NULL
    BY <1>1, <2>1, <2>2 DEF Lists, Slots
  <2> QED BY <2>3, <2>4, <2>5 DEF Threads
<1>4. \E rank \in [Slots -> Int] : Ordered(links, Membership, rank)
  <2> DEFINE rank == [s \in Slots |-> s]
  <2>1. rank \in [Slots -> Int]
    BY DEF Slots
  <2>2. ASSUME NEW s \in Slots, Membership[s] \in Lists, links.next[s] # NULL
        PROVE  rank[s] < rank[links.next[s]]
    <3>1. s > MaxEdicts
      BY <1>1, <2>2 DEF Lists
    <3>2. links.next[s] = IF s < MaxEdicts + 1 THEN s
                          ELSE IF s = NumEntEntries - 1 THEN NULL ELSE s + 1
      BY DEF Init, InitialLinks
    <3>3. links.next[s] = s + 1 /\ s + 1 \in Slots
      <4>1. s \in Int /\ s < NumEntEntries /\ s >= MaxEdicts + 1
        BY <3>1 DEF Slots
      <4>2. s # NumEntEntries - 1
        BY <2>2, <3>2, <4>1
      <4> QED BY <3>2, <4>1, <4>2 DEF Slots
    <3> QED BY <3>3 DEF Slots
  <2> HIDE DEF rank
  <2> QED BY <2>1, <2>2 DEF Ordered
<1>5. pEntity[MaxEdicts] = NULL
  BY DEF Init, Slots
<1> QED BY <1>2, <1>3, <1>4, <1>5 DEF ListsSound

\* Putting an entity on a slot of no list, on links whose other slots are in
\* the lists they belong to.
LEMMA AddLists ==
  ASSUME NEW L \in Links, NEW in \in [Slots -> ListNames], Threads(L, in),
         NEW rank \in [Slots -> Int], Ordered(L, in, rank),
         NEW s \in Slots, in[s] = "none", s # MaxEdicts,
         Membership' = [in EXCEPT ![s] = "active"],
         NEW e \in Ents, TypeOK, ListsSound,
         pEntity' = [pEntity EXCEPT ![s] = e],
         links' = AddedToTail(L, "active", s)
  PROVE  ListsSound'
<1>1. /\ links' \in Links
      /\ Threads(links', Membership')
      /\ \E r \in [Slots -> Int] : Ordered(links', Membership', r)
  BY AddThreads DEF Lists
<1>2. pEntity'[MaxEdicts] = NULL
  BY DEF ListsSound, TypeOK
<1> QED BY <1>1, <1>2 DEF ListsSound

\* Every step keeps both lists threaded.
LEMMA NextLists == TypeOK /\ ListsSound /\ [Next]_vars => ListsSound'
<1> SUFFICES ASSUME TypeOK, ListsSound, [Next]_vars PROVE ListsSound'
  OBVIOUS
<1> USE MembershipType
<1>0. PICK rank \in [Slots -> Int] : Ordered(links, Membership, rank)
  BY DEF ListsSound
<1>1. ASSUME NEW e \in Ents, NEW s \in Slots, NEW n \in Serials,
             AddNetworkableEntity(e, s, n)
      PROVE  ListsSound'
  <2>1. /\ pEntity' = [pEntity EXCEPT ![s] = e]
        /\ links' = AddedToTail(links, "active", s)
        /\ s < MaxEdicts /\ pEntity[s] = NULL /\ e # NULL
    BY <1>1 DEF AddNetworkableEntity, AddEntityAtSlot
  <2>2. Membership[s] = "none" /\ s # MaxEdicts
    BY <2>1, SlotsAssumption DEF Membership, Slots
  <2>3. Membership' = [Membership EXCEPT ![s] = "active"]
    BY <2>1 DEF Membership, TypeOK
  <2> QED BY <1>0, <2>1, <2>2, <2>3, AddLists DEF ListsSound
<1>2. ASSUME NEW e \in Ents, AddNonNetworkableEntity(e)
      PROVE  ListsSound'
  <2> DEFINE s == links.head["free"]
             U == Unlinked(links, "free", s)
             in == [Membership EXCEPT ![s] = "none"]
  <2>1. /\ pEntity' = [pEntity EXCEPT ![s] = e]
        /\ links' = AddedToTail(U, "active", s)
        /\ s # NULL /\ e # NULL
    BY <1>2 DEF AddNonNetworkableEntity, AddEntityAtSlot
  <2>2. s \in Slots /\ Membership[s] = "free"
    BY <2>1 DEF ListsSound, Threads, Links, Lists
  <2>3. s # MaxEdicts
    BY <2>2, SlotsAssumption DEF Membership, Slots
  <2>4. U \in Links /\ Threads(U, in) /\ Ordered(U, in, rank)
    BY <1>0, <2>2, UnlinkThreads DEF ListsSound, Lists
  <2>5. in \in [Slots -> ListNames] /\ in[s] = "none"
    BY <2>2 DEF ListNames
  <2>6. Membership' = [in EXCEPT ![s] = "active"]
    BY <2>1, <2>2 DEF Membership, TypeOK
  <2> HIDE DEF s, U, in
  <2> QED BY <2>1, <2>2, <2>3, <2>4, <2>5, <2>6, AddLists
<1>3. ASSUME NEW e \in Ents, Destroy(e)
      PROVE  ListsSound'
  <2> DEFINE s == refEHandle[e].entry
             U == Unlinked(links, "active", s)
             in == [Membership EXCEPT ![s] = "none"]
  <2>1. s \in Slots
    BY SlotsAssumption DEF TypeOK, Handles, INVALID, Handle, Slots
  <2>2. CASE pEntity[s] = NULL
    <3>1. UNCHANGED <<pEntity, links>>
      BY <1>3, <2>2 DEF Destroy, RemoveEntityAtSlot, Occupied
    <3> QED BY <3>1 DEF ListsSound, Membership
  <2>3. CASE pEntity[s] # NULL
    <3>1. /\ pEntity' = [pEntity EXCEPT ![s] = NULL]
          /\ links' = IF s >= MaxEdicts THEN AddedToTail(U, "free", s) ELSE U
      BY <1>3, <2>3 DEF Destroy, RemoveEntityAtSlot, Occupied
    <3>2. Membership[s] = "active" /\ s # MaxEdicts
      BY <2>1, <2>3 DEF Membership, ListsSound
    <3>3. U \in Links /\ Threads(U, in) /\ Ordered(U, in, rank)
      BY <1>0, <2>1, <3>2, UnlinkThreads DEF ListsSound, Lists
    <3>4. in \in [Slots -> ListNames] /\ in[s] = "none"
      BY <2>1 DEF ListNames
    <3>5. pEntity'[MaxEdicts] = NULL
      BY <3>1, <3>2 DEF ListsSound, TypeOK
    <3>6. CASE s < MaxEdicts
      <4>1. links' = U
        BY <2>1, <3>1, <3>6, SlotsAssumption DEF Slots
      <4>2. Membership' = in
        <5>1. \A u \in Slots : Membership'[u] = in[u]
          BY <2>1, <3>1, <3>2, <3>6, SlotsAssumption DEF Membership, TypeOK, Slots
        <5>2. Membership' \in [Slots -> ListNames]
          BY DEF Membership, ListNames, Lists
        <5> QED BY <3>4, <5>1, <5>2
      <4> HIDE DEF s, U, in
      <4> QED BY <3>3, <3>5, <4>1, <4>2 DEF ListsSound
    <3>7. CASE s > MaxEdicts
      <4>1. links' = AddedToTail(U, "free", s)
        BY <2>1, <3>1, <3>7, SlotsAssumption DEF Slots
      <4>2. Membership' = [in EXCEPT ![s] = "free"]
        BY <2>1, <3>1, <3>7, SlotsAssumption DEF Membership, TypeOK, Slots
      <4> HIDE DEF s, U, in
      <4>3. /\ links' \in Links
            /\ Threads(links', Membership')
            /\ \E r \in [Slots -> Int] : Ordered(links', Membership', r)
        BY <2>1, <3>3, <3>4, <4>1, <4>2, AddThreads DEF Lists
      <4> QED BY <3>5, <4>3 DEF ListsSound
    <3> QED BY <2>1, <3>2, <3>6, <3>7, SlotsAssumption DEF Slots
  <2> QED BY <2>2, <2>3
<1>4. ASSUME UNCHANGED <<pEntity, links>>
      PROVE  ListsSound'
  BY <1>4 DEF ListsSound, Membership
<1>5. CASE Clear \/ \E e \in Ents : Construct(e) \/ TakeHandle(e)
  BY <1>4, <1>5 DEF Clear, Construct, TakeHandle
<1>6. CASE Iterate
  BY <1>4, <1>6 DEF Iterate, LoopStart, LoopNext, LoopEnd
<1>7. CASE UNCHANGED vars
  BY <1>4, <1>7 DEF vars
<1> QED BY <1>1, <1>2, <1>3, <1>5, <1>6, <1>7 DEF Next, Mutate

-----------------------------------------------------------------------------
\* Handles of slots and INVALID are what they should be, and differ.
LEMMA HandleTypes ==
  /\ \A s \in Slots, n \in Serials : /\ Handle(s, n) \in Handles
                                     /\ Handle(s, n) # INVALID
                                     /\ Handle(s, n).entry = s
                                     /\ Handle(s, n).serial = n
  /\ \A h \in Handles : /\ h.entry \in Slots /\ h.serial \in Serials
                        /\ h # INVALID /\ h = Handle(h.entry, h.serial)
  /\ INVALID.entry \in Slots
BY SlotsAssumption, SerialAssumption DEF Handle, Handles, INVALID, Slots, Serials

\* The increment of RemoveEntityAtSlot stays below SERIAL_MASK.
LEMMA NextSerialType == \A n \in Serials : NextSerial(n) \in Serials
BY SerialAssumption DEF NextSerial, Serials

\* A handle found by following the list is a handle of a slot, or INVALID.
LEMMA LoopHandles ==
  ASSUME TypeOK
  PROVE  /\ FirstHandle \in Handles \cup {INVALID}
         /\ \A h \in Handles : NextHandle(h) \in Handles \cup {INVALID}
         /\ \A h \in Handles \cup {INVALID} : Occupant(h) \subseteq Slots \X Nat
<1> USE HandleTypes
<1>1. FirstHandle \in Handles \cup {INVALID}
  BY DEF TypeOK, FirstHandle, Links, Lists
<1>2. \A h \in Handles : NextHandle(h) \in Handles \cup {INVALID}
  BY DEF TypeOK, NextHandle, Links
<1>3. \A h \in Handles \cup {INVALID} : Occupant(h) \subseteq Slots \X Nat
  BY DEF TypeOK, Occupant
<1> QED BY <1>1, <1>2, <1>3

\* The constructor of CBaseEntityList sets up well-typed state.
LEMMA InitType == Init => TypeOK
<1> SUFFICES ASSUME Init PROVE TypeOK
  OBVIOUS
<1>1. links \in Links
  BY InitLists DEF ListsSound
<1> QED
  BY <1>1, SlotsAssumption DEF Init, TypeOK, Slots

\* The type of what AddEntityAtSlot changes.
LEMMA AddType ==
  ASSUME TypeOK, ListsSound', NEW L, NEW e \in Ents, NEW s \in Slots,
         NEW n \in Serials, AddEntityAtSlot(L, e, s, n)
  PROVE  TypeOK'
<1>1. links' \in Links
  BY DEF ListsSound
<1>2. refEHandle' \in [Ents -> Handles \cup {INVALID}]
  BY HandleTypes DEF TypeOK, AddEntityAtSlot, SetRefEHandle
<1>3. pEntity' \in [Slots -> Ents \cup {NULL}] /\ serial' \in [Slots -> Serials]
  BY DEF TypeOK, AddEntityAtSlot
<1>4. numEnts' \in Int /\ numEdicts' \in Int /\ highestEnt' \in Slots
  BY DEF TypeOK, AddEntityAtSlot, CountAdd
<1> QED
  BY <1>1, <1>2, <1>3, <1>4 DEF TypeOK, AddEntityAtSlot

\* Types are kept by every step.
LEMMA NextType == TypeOK /\ ListsSound /\ [Next]_vars => TypeOK'
<1> SUFFICES ASSUME TypeOK, ListsSound, [Next]_vars PROVE TypeOK'
  OBVIOUS
<1>0. ListsSound'
  BY NextLists
<1>1. ASSUME NEW e \in Ents, Construct(e) PROVE TypeOK'
  BY <1>1 DEF TypeOK, Construct
<1>2. ASSUME NEW e \in Ents, NEW s \in Slots, NEW n \in Serials,
             AddNetworkableEntity(e, s, n)
      PROVE  TypeOK'
  BY <1>0, <1>2, AddType DEF AddNetworkableEntity
<1>3. ASSUME NEW e \in Ents, AddNonNetworkableEntity(e) PROVE TypeOK'
  <2> DEFINE s == links.head["free"]
  <2>1. s \in Slots
    BY <1>3 DEF AddNonNetworkableEntity, TypeOK, Links, Lists
  <2>2. serial[s] \in Serials
    BY <2>1 DEF TypeOK
  <2> QED BY <1>0, <1>3, <2>1, <2>2, AddType DEF AddNonNetworkableEntity
<1>4. ASSUME NEW e \in Ents, Destroy(e) PROVE TypeOK'
  <2> DEFINE s == refEHandle[e].entry
  <2>1. s \in Slots
    BY HandleTypes DEF TypeOK
  <2>2. links' \in Links
    BY <1>0 DEF ListsSound
  <2>3. CASE pEntity[s] = NULL
    BY <1>4, <2>3 DEF Destroy, RemoveEntityAtSlot, Occupied, TypeOK
  <2>4. CASE pEntity[s] # NULL
    <3>1. /\ refEHandle' = [refEHandle EXCEPT ![pEntity[s]] = INVALID]
          /\ numEnts' = numEnts - 1
          /\ numEdicts' = IF s < MaxEdicts THEN numEdicts - 1 ELSE numEdicts
          /\ pEntity' = [pEntity EXCEPT ![s] = NULL]
          /\ serial' = [serial EXCEPT ![s] = NextSerial(serial[s])]
          /\ life' = [life EXCEPT ![s] = @ + 1]
          /\ since' = since \ {<<s, life[s]>>}
          /\ allocated' = allocated \ {e}
          /\ UNCHANGED <<highestEnt, cursor, held, visited>>
      BY <1>4, <2>4 DEF Destroy, RemoveEntityAtSlot, CountRemove, Occupied, SetRefEHandle
    <3>2. serial' \in [Slots -> Serials]
      BY <2>1, <3>1, NextSerialType DEF TypeOK
    <3> HIDE DEF s
    <3>3. pEntity' \in [Slots -> Ents \cup {NULL}]
      BY <3>1 DEF TypeOK
    <3>3a. refEHandle' \in [Ents -> Handles \cup {INVALID}]
      BY <3>1 DEF TypeOK
    <3>3b. life' \in [Slots -> Nat]
      BY <2>1, <3>1 DEF TypeOK
    <3>3c. since' \subseteq Slots \X Nat
      BY <3>1 DEF TypeOK
    <3>4. numEnts' \in Int /\ numEdicts' \in Int /\ allocated' \subseteq Ents
      BY <3>1 DEF TypeOK
    <3> QED BY <2>2, <3>1, <3>2, <3>3, <3>3a, <3>3b, <3>3c, <3>4 DEF TypeOK
  <2> QED BY <2>3, <2>4
<1>5. ASSUME NEW e \in Ents, TakeHandle(e) PROVE TypeOK'
  <2>1. refEHandle[e] \in Handles
    BY <1>5 DEF TakeHandle, TypeOK
  <2>2. held' \in [handle : Handles, life : Nat]
    BY <1>5, <2>1, HandleTypes DEF TakeHandle, TypeOK
  <2> QED BY <1>5, <2>2 DEF TakeHandle, TypeOK
<1>6. CASE Iterate
  <2>1. CASE LoopStart
    BY <2>1, LoopHandles DEF LoopStart, TypeOK, Listed
  <2>2. CASE LoopNext
    <3>1. cursor \in Handles
      BY <2>2 DEF LoopNext, TypeOK
    <3> QED BY <2>2, <3>1, LoopHandles DEF LoopNext, TypeOK
  <2>3. CASE LoopEnd
    BY <2>3 DEF LoopEnd, TypeOK
  <2> QED BY <1>6, <2>1, <2>2, <2>3 DEF Iterate
<1>7. CASE UNCHANGED vars
  BY <1>7 DEF vars, TypeOK
<1>8. CASE Clear
  <2>1. 0 \in Slots
    BY SlotsAssumption DEF Slots
  <2> QED BY <1>8, <2>1 DEF Clear, TypeOK
<1> QED BY <1>1, <1>2, <1>3, <1>4, <1>5, <1>6, <1>7, <1>8 DEF Next, Mutate

-----------------------------------------------------------------------------
(* Slots and entities name each other.                                     *)

\* AddEntityAtSlot makes slot and entity name each other.
LEMMA AddRefHandles ==
  ASSUME TypeOK, RefHandlesAgree, NEW L, NEW e \in Ents, NEW s \in Slots,
         NEW n \in Serials, Unlisted(e), pEntity[s] = NULL,
         AddEntityAtSlot(L, e, s, n)
  PROVE  RefHandlesAgree'
<1>1. /\ pEntity' = [pEntity EXCEPT ![s] = e]
      /\ serial' = [serial EXCEPT ![s] = n]
      /\ refEHandle' = [refEHandle EXCEPT ![e] = Handle(s, n)]
      /\ allocated' = allocated
      /\ e \in allocated /\ refEHandle[e] = INVALID
  BY DEF AddEntityAtSlot, SetRefEHandle, Unlisted
<1>2. \A t \in Slots : pEntity[t] # e
  BY <1>1, HandleTypes DEF RefHandlesAgree, TypeOK
<1>3. ASSUME NEW t \in Slots, pEntity'[t] # NULL
      PROVE  pEntity'[t] \in allocated' /\ refEHandle'[pEntity'[t]] = Handle(t, serial'[t])
  <2>1. CASE t = s
    BY <1>1, <2>1 DEF TypeOK
  <2>2. CASE t # s
    BY <1>1, <1>2, <1>3, <2>2 DEF TypeOK, RefHandlesAgree
  <2> QED BY <2>1, <2>2
<1>4. ASSUME NEW x \in allocated', refEHandle'[x] # INVALID
      PROVE  LookupEntity(refEHandle[x])' = x
  <2>1. CASE x = e
    BY <1>1, <2>1, HandleTypes DEF TypeOK, LookupEntity
  <2>2. CASE x # e
    <3>1. /\ refEHandle'[x] = refEHandle[x] /\ x \in Ents
          /\ LookupEntity(refEHandle[x]) = x
      BY <1>1, <1>4, <2>2 DEF TypeOK, RefHandlesAgree
    <3>2. x # NULL
      BY <3>1
    <3>3. refEHandle[x].entry # s /\ refEHandle[x].entry \in Slots
      BY <1>4, <3>1, <3>2, HandleTypes DEF LookupEntity, TypeOK
    <3> QED BY <1>1, <3>1, <3>2, <3>3 DEF LookupEntity, TypeOK
  <2> QED BY <2>1, <2>2
<1> QED BY <1>3, <1>4 DEF RefHandlesAgree

\* Every step keeps slots and m_RefEHandle in agreement.
LEMMA NextRefHandles ==
  TypeOK /\ ListsSound /\ RefHandlesAgree /\ [Next]_vars => RefHandlesAgree'
<1> SUFFICES ASSUME TypeOK, ListsSound, RefHandlesAgree, [Next]_vars
             PROVE  RefHandlesAgree'
  OBVIOUS
<1>1. ASSUME NEW e \in Ents, Construct(e) PROVE RefHandlesAgree'
  <2>1. /\ e \notin allocated /\ allocated' = allocated \cup {e}
        /\ refEHandle' = [refEHandle EXCEPT ![e] = INVALID]
        /\ UNCHANGED <<pEntity, serial>>
    BY <1>1 DEF Construct
  <2> QED BY <2>1 DEF TypeOK, RefHandlesAgree, LookupEntity
<1>2. ASSUME NEW e \in Ents, NEW s \in Slots, NEW n \in Serials,
             AddNetworkableEntity(e, s, n)
      PROVE  RefHandlesAgree'
  BY <1>2, AddRefHandles DEF AddNetworkableEntity
<1>3. ASSUME NEW e \in Ents, AddNonNetworkableEntity(e) PROVE RefHandlesAgree'
  <2> DEFINE s == links.head["free"]
  <2>1. s \in Slots /\ Membership[s] = "free"
    BY <1>3 DEF AddNonNetworkableEntity, ListsSound, Threads, Links, Lists
  <2>2. pEntity[s] = NULL /\ serial[s] \in Serials
    BY <2>1 DEF Membership, TypeOK
  <2> QED BY <1>3, <2>1, <2>2, AddRefHandles DEF AddNonNetworkableEntity
<1>4. ASSUME NEW e \in Ents, Destroy(e) PROVE RefHandlesAgree'
  <2> DEFINE s == refEHandle[e].entry
             x == pEntity[s]
  <2>1. s \in Slots /\ e \in allocated /\ allocated' = allocated \ {e}
    BY <1>4, HandleTypes DEF TypeOK, Destroy
  <2>2. \A t \in Slots : pEntity[t] = e => t = s
    BY HandleTypes DEF RefHandlesAgree, TypeOK
  <2>3. CASE x = NULL
    <3>1. UNCHANGED <<pEntity, serial, refEHandle>>
      BY <1>4, <2>3 DEF Destroy, RemoveEntityAtSlot, Occupied
    <3> QED BY <2>1, <2>2, <2>3, <3>1 DEF RefHandlesAgree, LookupEntity
  <2>4. CASE x # NULL
    <3>1. /\ refEHandle' = [refEHandle EXCEPT ![x] = INVALID]
          /\ pEntity' = [pEntity EXCEPT ![s] = NULL]
          /\ serial' = [serial EXCEPT ![s] = NextSerial(serial[s])]
      BY <1>4, <2>4 DEF Destroy, RemoveEntityAtSlot, Occupied, SetRefEHandle
    <3>2. \A t \in Slots : pEntity[t] = x => t = s
      BY <2>1, <2>4, HandleTypes DEF RefHandlesAgree, TypeOK
    <3> HIDE DEF s, x
    <3>3. ASSUME NEW t \in Slots, pEntity'[t] # NULL
          PROVE  /\ pEntity'[t] \in allocated'
                 /\ refEHandle'[pEntity'[t]] = Handle(t, serial'[t])
      <4>1. t # s /\ pEntity'[t] = pEntity[t] /\ serial'[t] = serial[t]
        BY <2>1, <3>1, <3>3 DEF TypeOK
      <4>2. pEntity[t] # x /\ pEntity[t] # e
        BY <2>2, <3>2, <4>1
      <4> QED BY <2>1, <3>1, <3>3, <4>1, <4>2 DEF RefHandlesAgree, TypeOK
    <3>4. ASSUME NEW y \in allocated', refEHandle'[y] # INVALID
          PROVE  LookupEntity(refEHandle[y])' = y
      <4>1. y \in allocated /\ y \in Ents /\ y # x /\ refEHandle'[y] = refEHandle[y]
        BY <2>1, <3>1, <3>4 DEF TypeOK
      <4>2. LookupEntity(refEHandle[y]) = y /\ refEHandle[y] \in Handles /\ y # NULL
        BY <3>4, <4>1 DEF RefHandlesAgree, TypeOK
      <4>3. refEHandle[y].entry # s /\ refEHandle[y].entry \in Slots
        BY <4>1, <4>2, HandleTypes DEF LookupEntity, x
      <4> QED BY <3>1, <4>1, <4>2, <4>3 DEF LookupEntity, TypeOK
    <3> QED BY <3>3, <3>4 DEF RefHandlesAgree
  <2> QED BY <2>3, <2>4
<1>5. ASSUME UNCHANGED <<pEntity, serial, refEHandle, allocated>>
      PROVE  RefHandlesAgree'
  BY <1>5 DEF RefHandlesAgree, LookupEntity
<1>6. CASE Clear \/ \E e \in Ents : TakeHandle(e)
  BY <1>5, <1>6 DEF Clear, TakeHandle
<1>7. CASE Iterate
  BY <1>5, <1>7 DEF Iterate, LoopStart, LoopNext, LoopEnd
<1>8. CASE UNCHANGED vars
  BY <1>5, <1>8 DEF vars
<1> QED BY <1>1, <1>2, <1>3, <1>4, <1>6, <1>7, <1>8 DEF Next, Mutate

-----------------------------------------------------------------------------
(* Stale handles.                                                          *)

\* Every step keeps the distance of a held serial number to that of its slot.
LEMMA NextHeldSerial ==
  TypeOK /\ ListsSound /\ RefHandlesAgree /\ HeldSerial /\ [Next]_vars => HeldSerial'
<1> SUFFICES ASSUME TypeOK, ListsSound, RefHandlesAgree, HeldSerial, [Next]_vars,
                    ForcedSerials = {}
             PROVE  HeldSerial'
  BY DEF HeldSerial
<1>1. ASSUME UNCHANGED <<serial, life, held>> PROVE HeldSerial'
  BY <1>1 DEF HeldSerial
<1>2. ASSUME NEW e \in Ents, NEW s \in Slots, NEW n \in Serials,
             AddNetworkableEntity(e, s, n)
      PROVE  HeldSerial'
  <2>1. serial' = serial
    BY <1>2 DEF AddNetworkableEntity, AddEntityAtSlot, TypeOK
  <2> QED BY <1>1, <1>2, <2>1 DEF AddNetworkableEntity, AddEntityAtSlot
<1>3. ASSUME NEW e \in Ents, AddNonNetworkableEntity(e) PROVE HeldSerial'
  <2> DEFINE s == links.head["free"]
  <2>1. s \in Slots
    BY <1>3 DEF AddNonNetworkableEntity, TypeOK, Links, Lists
  <2>2. serial' = serial
    BY <1>3, <2>1 DEF AddNonNetworkableEntity, AddEntityAtSlot, TypeOK
  <2> QED BY <1>1, <1>3, <2>2 DEF AddNonNetworkableEntity, AddEntityAtSlot
<1>4. ASSUME NEW e \in Ents, Destroy(e) PROVE HeldSerial'
  <2> DEFINE s == refEHandle[e].entry
  <2>1. s \in Slots /\ held' = held
    BY <1>4, HandleTypes DEF TypeOK, Destroy
  <2>2. CASE pEntity[s] = NULL
    BY <1>1, <1>4, <2>2 DEF Destroy, RemoveEntityAtSlot, Occupied
  <2>3. CASE pEntity[s] # NULL
    <3>1. /\ serial' = [serial EXCEPT ![s] = NextSerial(serial[s])]
          /\ life' = [life EXCEPT ![s] = @ + 1]
      BY <1>4, <2>3 DEF Destroy, RemoveEntityAtSlot, Occupied
    <3> HIDE DEF s
    <3>2. CASE held = NULL
      BY <2>1, <3>2 DEF HeldSerial
    <3>3. CASE held # NULL
      <4> DEFINE t == held.handle.entry
                 m == held.handle.serial
                 d == life[t] - held.life
      <4>1. /\ t \in Slots /\ m \in 0 .. SerialMask /\ held.life \in Nat
            /\ life[t] \in Nat /\ serial[t] \in 0 .. SerialMask
        BY <3>3, HandleTypes DEF TypeOK, Serials
      <4>2. /\ d >= 0
            /\ d <= SerialMask => \/ serial[t] = m + d
                                  \/ serial[t] = m + d - (SerialMask + 1)
        BY <3>3 DEF HeldSerial
      <4>3. CASE t # s
        <5>1. serial'[t] = serial[t] /\ life'[t] = life[t]
          BY <3>1, <4>1, <4>3 DEF TypeOK
        <5> QED BY <2>1, <4>2, <5>1 DEF HeldSerial
      <4>4. CASE t = s
        <5>1. /\ life'[t] = life[t] + 1
              /\ serial'[t] = IF serial[t] = SerialMask THEN 0 ELSE serial[t] + 1
          BY <2>1, <3>1, <4>4 DEF TypeOK, NextSerial
        <5>2. /\ life'[t] - held.life >= 0
              /\ life'[t] - held.life <= SerialMask =>
                   \/ serial'[t] = m + (life'[t] - held.life)
                   \/ serial'[t] = m + (life'[t] - held.life) - (SerialMask + 1)
          <6> HIDE DEF t, m
          <6> QED BY <4>1, <4>2, <5>1, SerialAssumption
        <5> QED BY <2>1, <5>2 DEF HeldSerial
      <4> QED BY <4>3, <4>4
    <3> QED BY <3>2, <3>3
  <2> QED BY <2>2, <2>3
<1>5. ASSUME NEW e \in Ents, TakeHandle(e) PROVE HeldSerial'
  <2> DEFINE h == refEHandle[e]
  <2>1. /\ e \in allocated /\ h # INVALID /\ h \in Handles
        /\ held' = [handle |-> h, life |-> life[h.entry]]
        /\ UNCHANGED <<serial, life>>
    BY <1>5 DEF TakeHandle, TypeOK
  <2>2. serial[h.entry] = h.serial /\ h.entry \in Slots
    <3>1. LookupEntity(h) = e /\ e # NULL
      BY <2>1 DEF RefHandlesAgree
    <3> QED BY <2>1, <3>1, HandleTypes DEF LookupEntity
  <2>3. life[h.entry] \in Nat /\ h.serial \in Nat
    BY <2>1, <2>2, HandleTypes, SerialAssumption DEF TypeOK, Serials
  <2> HIDE DEF h
  <2> QED BY <2>1, <2>2, <2>3 DEF HeldSerial
<1>6. CASE Clear \/ \E e \in Ents : Construct(e)
  BY <1>1, <1>6 DEF Clear, Construct
<1>7. CASE Iterate
  BY <1>1, <1>7 DEF Iterate, LoopStart, LoopNext, LoopEnd
<1>8. CASE UNCHANGED vars
  BY <1>1, <1>8 DEF vars
<1> QED BY <1>2, <1>3, <1>4, <1>5, <1>6, <1>7, <1>8 DEF Next, Mutate

\* The inductive invariant holds of an empty list.
LEMMA InitInv == Init => IInv
<1> SUFFICES ASSUME Init PROVE IInv
  OBVIOUS
<1>1. TypeOK /\ ListsSound
  BY InitType, InitLists
<1>2. RefHandlesAgree
  BY DEF Init, RefHandlesAgree
<1>3. HeldSerial
  BY DEF Init, HeldSerial
<1> QED BY <1>1, <1>2, <1>3 DEF IInv

\* The inductive invariant is kept by every step.
LEMMA NextInv == IInv /\ [Next]_vars => IInv'
BY NextType, NextLists, NextRefHandles, NextHeldSerial DEF IInv

\* A serial number that far away makes LookupEntity refuse the handle.
LEMMA HeldSerialFaithful == TypeOK /\ HeldSerial => HandleFaithful
<1> SUFFICES ASSUME TypeOK, HeldSerial, ForcedSerials = {}, held # NULL
             PROVE  LET s == held.handle.entry
                        reuses == life[s] - held.life
                    IN /\ reuses = 0 => LookupEntity(held.handle) = pEntity[s]
                       /\ reuses \in 1 .. SerialMask => LookupEntity(held.handle) = NULL
  BY DEF HandleFaithful
<1> DEFINE t == held.handle.entry
           m == held.handle.serial
           d == life[t] - held.life
<1>1. /\ t \in Slots /\ m \in 0 .. SerialMask /\ held.handle # INVALID
      /\ serial[t] \in 0 .. SerialMask /\ d \in Int
  BY HandleTypes DEF TypeOK, Serials
<1>2. d <= SerialMask => serial[t] = m + d \/ serial[t] = m + d - (SerialMask + 1)
  BY DEF HeldSerial
<1>3. d = 0 => serial[t] = m
  BY <1>1, <1>2, SerialAssumption
<1>4. d \in 1 .. SerialMask => serial[t] # m
  BY <1>1, <1>2, SerialAssumption
<1> QED BY <1>1, <1>3, <1>4 DEF LookupEntity

-----------------------------------------------------------------------------
(* The theorems.                                                           *)

\* Every variable of the list keeps its type, for every instance.
THEOREM TypeCorrect == Spec => []TypeOK
<1>1. IInv => TypeOK
  BY DEF IInv
<1> QED BY <1>1, InitInv, NextInv, PTL DEF Spec

\* The active list and the free list of CBaseEntityList stay two separate,
\* correctly threaded lists of exactly the slots they should hold, through any
\* sequence of adds and removals.
THEOREM ListsWellLinked == Spec => []WellLinked
<1>1. IInv => WellLinked
  BY DEF IInv, ListsSound, WellLinked
<1> QED BY <1>1, InitInv, NextInv, PTL DEF Spec

\* m_RefEHandle and m_EntPtrArray always agree.
THEOREM RefHandlesAlwaysAgree == Spec => []RefHandlesAgree
<1>1. IInv => RefHandlesAgree
  BY DEF IInv
<1> QED BY <1>1, InitInv, NextInv, PTL DEF Spec

\* On the server a stale EHANDLE never resolves to a later occupant of its slot
\* before SERIAL_MASK + 1 reuses of the slot, and a current one always resolves
\* to its entity.
THEOREM HandlesFaithful == Spec => []HandleFaithful
<1>1. IInv => HandleFaithful
  BY HeldSerialFaithful DEF IInv
<1> QED BY <1>1, InitInv, NextInv, PTL DEF Spec

-----------------------------------------------------------------------------
(* The counters and the loop.                                              *)

\* The lists L thread the slots A of the active list in the order of rank:
\* m_pHead is the first, and m_pNext leads to the very next one. The conditions
\* of Threads relate neighbours only, and a loop has to meet every slot.
Sequenced(L, A, rank) ==
  /\ \A t, u \in A : rank[t] = rank[u] => t = u
  /\ \A t, u \in A : rank[t] < rank[u] =>
       L.next[t] \in A /\ rank[t] < rank[L.next[t]] /\ rank[L.next[t]] <= rank[u]
  /\ \A u \in A : L.head["active"] \in A /\ rank[L.head["active"]] <= rank[u]

\* While a loop runs, it stands on a listed slot, and what was listed ever
\* since it began has been seen or is still ahead of it.
Progress(rank) ==
  /\ cursor \notin {NULL, INVALID} => cursor.entry \in Listed
  /\ cursor # NULL =>
       \A s \in Slots, k \in Nat : <<s, k>> \in since =>
         /\ s \in Listed /\ k = life[s]
         /\ \/ <<s, k>> \in visited
            \/ cursor # INVALID /\ rank[cursor.entry] < rank[s]

LoopSound ==
  \E rank \in [Slots -> Int] : Sequenced(links, Listed, rank) /\ Progress(rank)

LoopInv == IInv /\ CountsAgree /\ LoopSound

ActiveOf(in) == {s \in Slots : in[s] = "active"}

-----------------------------------------------------------------------------
(* The order of the active list under the list operations.                 *)

\* Unlink, from either list, keeps the order of the slots that stay active.
LEMMA UnlinkSequenced ==
  ASSUME NEW L \in Links, NEW in \in [Slots -> ListNames], Threads(L, in),
         NEW rank \in [Slots -> Int], Sequenced(L, ActiveOf(in), rank),
         NEW s \in Slots, NEW l \in Lists, in[s] = l
  PROVE  Sequenced(Unlinked(L, l, s), ActiveOf([in EXCEPT ![s] = "none"]), rank)
<1> DEFINE p == L.prev[s]
           n == L.next[s]
           U == Unlinked(L, l, s)
           A == ActiveOf(in)
           B == ActiveOf([in EXCEPT ![s] = "none"])
<1>1. /\ L.prev \in [Slots -> Slots \cup {NULL}]
      /\ L.next \in [Slots -> Slots \cup {NULL}]
      /\ L.head \in [Lists -> Slots \cup {NULL}]
  BY DEF Links
<1>2. /\ p # s
      /\ p # NULL => p \in Slots /\ in[p] = l /\ L.next[p] = s
      /\ p = NULL => L.head[l] = s
  BY <1>1 DEF Threads
<1>3. /\ U.next = [(IF p # NULL THEN [L.next EXCEPT ![p] = n] ELSE L.next)
                     EXCEPT ![s] = s]
      /\ U.head = IF p # NULL THEN L.head ELSE [L.head EXCEPT ![l] = n]
  BY <1>2 DEF Unlinked, IsInList
<1> HIDE DEF U
<1>4. /\ \A t \in Slots : U.next[t] = IF t = s THEN s ELSE IF t = p THEN n ELSE L.next[t]
      /\ \A k \in Lists : U.head[k] = IF k = l /\ p = NULL THEN n ELSE L.head[k]
  BY <1>1, <1>2, <1>3
<1>5. A \subseteq Slots /\ B = A \ {s}
  BY DEF ActiveOf
<1>6. l = "active" <=> s \in A
  BY DEF ActiveOf
<1>7. \A t \in A : rank[t] \in Int
  BY <1>5
<1>8. \A t \in A : L.next[t] = s => t = p
  BY <1>1, <1>5 DEF Threads, ActiveOf, Lists
<1>8a. p # NULL => (p \in A <=> s \in A)
  BY <1>2 DEF ActiveOf
<1>8b. \A t \in B : t # s /\ t \in A
  BY <1>5
<1> HIDE DEF A, B, p, n
<1>9. \A t, u \in A : rank[t] < rank[u] =>
        L.next[t] \in A /\ rank[t] < rank[L.next[t]] /\ rank[L.next[t]] <= rank[u]
  BY DEF Sequenced, A
<1>9a. \A t, u \in A : rank[t] = rank[u] => t = u
  BY DEF Sequenced, A
<1>9b. \A u \in A : L.head["active"] \in A /\ rank[L.head["active"]] <= rank[u]
  BY DEF Sequenced, A
<1>10. ASSUME NEW t \in B, NEW u \in B, rank[t] < rank[u]
       PROVE  U.next[t] \in B /\ rank[t] < rank[U.next[t]] /\ rank[U.next[t]] <= rank[u]
  <2>1. /\ t # s /\ t \in A /\ u # s /\ u \in A /\ t \in Slots
        /\ L.next[t] \in A /\ rank[t] < rank[L.next[t]] /\ rank[L.next[t]] <= rank[u]
    BY <1>5, <1>8b, <1>9, <1>10
  <2>2. CASE L.next[t] # s
    <3>1. t # p
      <4>1. t = p => p # NULL
        BY <2>1
      <4> QED BY <1>2, <2>2, <4>1
    <3>2. U.next[t] = L.next[t]
      BY <1>4, <2>1, <3>1
    <3> QED BY <1>5, <2>1, <2>2, <3>2
  <2>3. CASE L.next[t] = s
    <3>1. t = p /\ s \in A
      BY <1>8, <2>1, <2>3
    <3>2. rank[s] # rank[u]
      BY <1>9a, <2>1, <3>1
    <3>3. rank[s] < rank[u]
      BY <1>7, <2>1, <2>3, <3>1, <3>2
    <3>4. n \in A /\ rank[s] < rank[n] /\ rank[n] <= rank[u]
      BY <1>9, <2>1, <3>1, <3>3 DEF n
    <3>5. n # s /\ U.next[t] = n
      BY <1>4, <1>7, <2>1, <3>1, <3>4
    <3>6. rank[t] < rank[n]
      BY <1>7, <2>1, <2>3, <3>1, <3>4
    <3> QED BY <1>5, <3>4, <3>5, <3>6
  <2> QED BY <2>2, <2>3
<1>11. ASSUME NEW u \in B
       PROVE  U.head["active"] \in B /\ rank[U.head["active"]] <= rank[u]
  <2>1. u \in A /\ u # s /\ L.head["active"] \in A /\ rank[L.head["active"]] <= rank[u]
    BY <1>8b, <1>9b
  <2>2. CASE l = "active" /\ p = NULL
    <3>1. L.head["active"] = s /\ s \in A
      BY <1>2, <1>6, <2>2
    <3>2. rank[s] # rank[u]
      BY <1>9a, <2>1, <3>1
    <3>3. rank[s] < rank[u]
      BY <1>7, <2>1, <3>1, <3>2
    <3>4. n \in A /\ rank[s] < rank[n] /\ rank[n] <= rank[u]
      BY <1>9, <2>1, <3>1, <3>3 DEF n
    <3>5. n # s
      BY <1>7, <3>1, <3>4
    <3>6. U.head["active"] = n
      BY <1>4, <2>2 DEF Lists
    <3> QED BY <1>5, <3>4, <3>5, <3>6
  <2>3. CASE ~(l = "active" /\ p = NULL)
    <3>1. U.head["active"] = L.head["active"]
      BY <1>4, <2>3 DEF Lists
    <3>2. L.head["active"] # s
      <4>1. L.head["active"] = s => s \in A /\ l = "active" /\ L.prev[s] = NULL
        BY <1>6, <2>1 DEF Threads, Lists
      <4> QED BY <2>3, <4>1 DEF p
    <3> QED BY <1>5, <2>1, <3>1, <3>2
  <2> QED BY <2>2, <2>3
<1>12. \A t, u \in B : rank[t] = rank[u] => t = u
  BY <1>8b, <1>9a
<1>13. Sequenced(U, B, rank)
  BY <1>10, <1>11, <1>12 DEF Sequenced
<1> QED BY <1>13 DEF U, B

\* AddToTail on the free list leaves the active list alone.
LEMMA AddFreeSequenced ==
  ASSUME NEW L \in Links, NEW in \in [Slots -> ListNames], Threads(L, in),
         NEW rank \in [Slots -> Int], Sequenced(L, ActiveOf(in), rank),
         NEW s \in Slots, in[s] = "none"
  PROVE  Sequenced(AddedToTail(L, "free", s), ActiveOf([in EXCEPT ![s] = "free"]), rank)
<1> DEFINE t == L.tail["free"]
           F == AddedToTail(L, "free", s)
<1>1. Unlinked(L, "free", s) = L
  BY DEF Threads, Unlinked, IsInList
<1>2. /\ F.next = IF t = NULL THEN [L.next EXCEPT ![s] = NULL]
                  ELSE [[L.next EXCEPT ![s] = NULL] EXCEPT ![t] = s]
      /\ F.head = IF t = NULL THEN [L.head EXCEPT !["free"] = s] ELSE L.head
  BY <1>1 DEF AddedToTail
<1> HIDE DEF F
<1>3. /\ L.next \in [Slots -> Slots \cup {NULL}]
      /\ L.head \in [Lists -> Slots \cup {NULL}]
      /\ t # NULL => in[t] = "free"
  BY DEF Links, Threads, Lists
<1>4. ActiveOf([in EXCEPT ![s] = "free"]) = ActiveOf(in)
  BY DEF ActiveOf
<1>5. \A u \in ActiveOf(in) : F.next[u] = L.next[u]
  BY <1>2, <1>3 DEF ActiveOf
<1>6. F.head["active"] = L.head["active"]
  BY <1>2, <1>3 DEF Lists
<1>7. Sequenced(F, ActiveOf(in), rank)
  BY <1>5, <1>6 DEF Sequenced
<1> QED BY <1>4, <1>7 DEF F

\* AddToTail on the active list puts the slot behind all others, whose ranks
\* stay.
LEMMA AddActiveSequenced ==
  ASSUME NEW L \in Links, NEW in \in [Slots -> ListNames], Threads(L, in),
         NEW rank \in [Slots -> Int], Sequenced(L, ActiveOf(in), rank),
         NEW s \in Slots, in[s] = "none"
  PROVE  \E r \in [Slots -> Int] :
           /\ \A u \in Slots \ {s} : r[u] = rank[u]
           /\ Sequenced(AddedToTail(L, "active", s),
                        ActiveOf([in EXCEPT ![s] = "active"]), r)
<1> DEFINE t == L.tail["active"]
           A == ActiveOf(in)
           B == ActiveOf([in EXCEPT ![s] = "active"])
           N == AddedToTail(L, "active", s)
           r == [rank EXCEPT ![s] = IF t = NULL THEN 0 ELSE rank[t] + 1]
<1>1. Unlinked(L, "active", s) = L
  BY DEF Threads, Unlinked, IsInList
<1>2. /\ N.next = IF t = NULL THEN [L.next EXCEPT ![s] = NULL]
                  ELSE [[L.next EXCEPT ![s] = NULL] EXCEPT ![t] = s]
      /\ N.head = IF t = NULL THEN [L.head EXCEPT !["active"] = s] ELSE L.head
  BY <1>1 DEF AddedToTail
<1> HIDE DEF N
<1>3. /\ L.next \in [Slots -> Slots \cup {NULL}]
      /\ L.head \in [Lists -> Slots \cup {NULL}]
      /\ t # NULL => t \in A /\ t \in Slots /\ t # s /\ L.next[t] = NULL
      /\ L.head["active"] = NULL <=> t = NULL
      /\ L.head["active"] # NULL => L.head["active"] \in A
  BY DEF Links, Threads, Lists, ActiveOf
<1>4. A \subseteq Slots /\ s \notin A /\ B = A \cup {s}
  BY DEF ActiveOf
<1>5. /\ \A u \in A : N.next[u] = IF u = t THEN s ELSE L.next[u]
      /\ N.head["active"] = IF t = NULL THEN s ELSE L.head["active"]
  BY <1>2, <1>3, <1>4 DEF Lists
<1>6. /\ r \in [Slots -> Int]
      /\ \A u \in Slots \ {s} : r[u] = rank[u]
      /\ r[s] = IF t = NULL THEN 0 ELSE rank[t] + 1
  BY <1>3
<1> HIDE DEF A, B, r, t
<1>7. /\ \A x, y \in A : rank[x] = rank[y] => x = y
      /\ \A x, y \in A : rank[x] < rank[y] =>
           L.next[x] \in A /\ rank[x] < rank[L.next[x]] /\ rank[L.next[x]] <= rank[y]
      /\ \A y \in A : L.head["active"] \in A /\ rank[L.head["active"]] <= rank[y]
  BY DEF Sequenced, A
<1>8. \A u \in A : u \in Slots /\ rank[u] \in Int /\ r[u] = rank[u] /\ r[u] \in Int
  BY <1>4, <1>6
<1>9. t = NULL => A = {}
  BY <1>3, <1>4, <1>7
<1>10. ASSUME NEW u \in A PROVE t \in A /\ r[u] <= r[t] /\ r[t] = rank[t] /\ r[s] = rank[t] + 1
  <2>1. t # NULL /\ t \in A
    BY <1>3, <1>9
  <2>2. ~(rank[t] < rank[u])
    BY <1>3, <1>4, <1>7, <2>1
  <2> QED BY <1>6, <1>8, <2>1, <2>2
<1>11. \A u \in A : r[u] < r[s]
  <2> TAKE u \in A
  <2>1. t \in A /\ r[u] <= r[t] /\ r[t] = rank[t] /\ r[s] = rank[t] + 1
    BY <1>10
  <2> QED BY <1>8, <2>1
<1>12. ASSUME NEW x \in B, NEW y \in B, r[x] = r[y] PROVE x = y
  <2>1. CASE x \in A /\ y \in A
    BY <1>7, <1>8, <1>12, <2>1
  <2>2. CASE x \in A /\ y = s
    BY <1>6, <1>8, <1>11, <1>12, <2>2
  <2>3. CASE x = s /\ y \in A
    BY <1>6, <1>8, <1>11, <1>12, <2>3
  <2> QED BY <1>4, <2>1, <2>2, <2>3
<1>13. ASSUME NEW x \in B, NEW y \in B, r[x] < r[y]
       PROVE  N.next[x] \in B /\ r[x] < r[N.next[x]] /\ r[N.next[x]] <= r[y]
  <2>1. x \in A
    <3>1. CASE x = s /\ y = s
      BY <1>6, <1>13, <3>1
    <3>2. CASE x = s /\ y \in A
      <4>1. r[y] < r[x] /\ r[x] \in Int /\ r[y] \in Int
        BY <1>6, <1>8, <1>11, <3>2
      <4> QED BY <1>13, <4>1
    <3> QED BY <1>4, <3>1, <3>2
  <2>2. CASE x = t
    <3>1. N.next[x] = s
      BY <1>5, <2>1, <2>2
    <3>2. y = s
      <4>1. y \in A => r[y] <= r[x] /\ r[x] \in Int /\ r[y] \in Int
        BY <1>8, <1>10, <2>1, <2>2
      <4> QED BY <1>4, <1>13, <4>1
    <3> QED BY <1>4, <1>6, <1>13, <3>1, <3>2
  <2>3. CASE x # t
    <3> DEFINE z == IF y \in A THEN y ELSE t
    <3>1. t \in A /\ r[x] <= r[t]
      BY <1>10, <2>1
    <3>2. rank[x] # rank[t]
      BY <1>7, <2>1, <2>3, <3>1
    <3>3. rank[x] < rank[t]
      BY <1>8, <2>1, <3>1, <3>2
    <3>4. z \in A /\ rank[x] < rank[z]
      BY <1>8, <1>13, <2>1, <3>1, <3>3
    <3>5. L.next[x] \in A /\ rank[x] < rank[L.next[x]] /\ rank[L.next[x]] <= rank[z]
      BY <1>7, <2>1, <3>4
    <3>6. N.next[x] = L.next[x]
      BY <1>5, <2>1, <2>3
    <3>7. r[z] <= r[y]
      BY <1>4, <1>6, <1>8, <1>11, <3>1, <3>4
    <3>8. r[x] < r[L.next[x]] /\ r[L.next[x]] <= r[z]
      BY <1>8, <2>1, <3>4, <3>5
    <3>9. r[L.next[x]] \in Int /\ r[z] \in Int /\ r[y] \in Int
      BY <1>4, <1>6, <1>8, <3>4, <3>5
    <3>10. r[L.next[x]] <= r[y]
      BY <3>7, <3>8, <3>9
    <3> QED BY <1>4, <3>5, <3>6, <3>8, <3>10
  <2> QED BY <2>2, <2>3
<1>14. ASSUME NEW y \in B
       PROVE  N.head["active"] \in B /\ r[N.head["active"]] <= r[y]
  <2>1. CASE t = NULL
    BY <1>4, <1>5, <1>6, <1>9, <2>1
  <2>2. CASE t # NULL
    <3> DEFINE h == L.head["active"]
    <3>1. h \in A /\ N.head["active"] = h
      BY <1>3, <1>5, <2>2
    <3>2. y \in A => r[h] <= r[y]
      BY <1>7, <1>8, <3>1
    <3>3. y = s => r[h] <= r[y]
      BY <1>6, <1>8, <1>11, <3>1
    <3> QED BY <1>4, <3>1, <3>2, <3>3
  <2> QED BY <2>1, <2>2
<1>15. Sequenced(N, B, r)
  BY <1>12, <1>13, <1>14 DEF Sequenced
<1> QED BY <1>6, <1>15 DEF N, B

-----------------------------------------------------------------------------
(* The counters.                                                           *)

\* The array of slots is finite, and so is every set of its slots.
LEMMA SlotSetsFinite == \A A \in SUBSET Slots : IsFiniteSet(A)
<1>1. IsFiniteSet(Slots)
  BY FS_Interval, SlotsAssumption DEF Slots
<1> QED BY <1>1, FS_Subset

\* OnAddEntity counts the slot that has just been taken.
LEMMA CountsOfAdd ==
  ASSUME TypeOK, CountsAgree, NEW s \in Slots, pEntity[s] = NULL,
         NEW e \in Ents, pEntity' = [pEntity EXCEPT ![s] = e], CountAdd(s)
  PROVE  CountsAgree' /\ Listed' = Listed \cup {s} /\ s \notin Listed
<1> DEFINE edicts == {t \in Listed : t < MaxEdicts}
<1>1. Listed' = Listed \cup {s} /\ s \notin Listed
  BY DEF Listed, Occupied, TypeOK
<1>2. {t \in Listed : t < MaxEdicts}' = IF s < MaxEdicts THEN edicts \cup {s} ELSE edicts
  BY <1>1
<1>3. IsFiniteSet(Listed) /\ IsFiniteSet(edicts)
  BY SlotSetsFinite DEF Listed
<1>4. Cardinality(Listed') = Cardinality(Listed) + 1
  BY <1>1, <1>3, FS_AddElement
<1>5. s \notin edicts /\ Cardinality(edicts \cup {s}) = Cardinality(edicts) + 1
  BY <1>1, <1>3, FS_AddElement
<1>6. numEnts' = Cardinality(Listed')
  BY <1>4 DEF CountsAgree, CountAdd
<1>7. numEdicts' = Cardinality({t \in Listed : t < MaxEdicts}')
  BY <1>2, <1>5 DEF CountsAgree, CountAdd
<1>8. \A t \in Listed' : t <= highestEnt'
  <2>1. \A t \in Slots : t \in Int
    BY DEF Slots
  <2>2. highestEnt \in Int /\ Listed \subseteq Slots
    BY <2>1 DEF TypeOK, Listed
  <2> QED BY <1>1, <2>1, <2>2 DEF CountsAgree, CountAdd
<1> QED BY <1>1, <1>6, <1>7, <1>8 DEF CountsAgree

\* OnRemoveEntity takes the slot that is being vacated off the counters.
LEMMA CountsOfRemove ==
  ASSUME TypeOK, CountsAgree, NEW s \in Slots, pEntity[s] # NULL,
         pEntity' = [pEntity EXCEPT ![s] = NULL], CountRemove(s),
         highestEnt' = highestEnt
  PROVE  CountsAgree' /\ Listed' = Listed \ {s}
<1> DEFINE edicts == {t \in Listed : t < MaxEdicts}
<1>1. Listed' = Listed \ {s} /\ s \in Listed
  BY DEF Listed, Occupied, TypeOK
<1>2. {t \in Listed : t < MaxEdicts}' = IF s < MaxEdicts THEN edicts \ {s} ELSE edicts
  BY <1>1
<1>3. IsFiniteSet(Listed) /\ IsFiniteSet(edicts)
  BY SlotSetsFinite DEF Listed
<1>4. Cardinality(Listed') = Cardinality(Listed) - 1
  BY <1>1, <1>3, FS_RemoveElement
<1>5. s < MaxEdicts => Cardinality(edicts \ {s}) = Cardinality(edicts) - 1
  BY <1>1, <1>3, FS_RemoveElement
<1>6. numEnts' = Cardinality(Listed')
  BY <1>4 DEF CountsAgree, CountRemove
<1>7. numEdicts' = Cardinality({t \in Listed : t < MaxEdicts}')
  BY <1>2, <1>5 DEF CountsAgree, CountRemove
<1>8. \A t \in Listed' : t <= highestEnt'
  BY <1>1 DEF CountsAgree
<1> QED BY <1>1, <1>6, <1>7, <1>8 DEF CountsAgree

-----------------------------------------------------------------------------
(* The loop.                                                               *)

\* The active list holds the listed slots.
LEMMA ActiveIsListed == ActiveOf(Membership) = Listed
BY DEF ActiveOf, Membership, Listed, Occupied

\* A running loop does not notice a slot that joins the list.
LEMMA LoopOfAdd ==
  ASSUME TypeOK, NEW rank \in [Slots -> Int], Progress(rank),
         NEW s \in Slots, s \notin Listed, Listed' = Listed \cup {s},
         NEW r \in [Slots -> Int], \A u \in Slots \ {s} : r[u] = rank[u],
         Sequenced(links', Listed', r),
         UNCHANGED <<cursor, life, visited, since>>
  PROVE  LoopSound'
<1>1. cursor' \notin {NULL, INVALID} => cursor'.entry \in Listed'
  BY DEF Progress
<1>2. ASSUME cursor' # NULL, NEW t \in Slots, NEW k \in Nat, <<t, k>> \in since'
      PROVE  /\ t \in Listed' /\ k = life'[t]
             /\ \/ <<t, k>> \in visited'
                \/ cursor' # INVALID /\ r[cursor'.entry] < r[t]
  <2>1. /\ t \in Listed /\ k = life[t]
        /\ \/ <<t, k>> \in visited
           \/ cursor # INVALID /\ rank[cursor.entry] < rank[t]
    BY <1>2 DEF Progress
  <2>2. cursor # INVALID => cursor.entry \in Listed
    BY <1>2 DEF Progress
  <2>3. Listed \subseteq Slots
    BY DEF Listed
  <2> QED BY <2>1, <2>2, <2>3
<1>3. Progress(r)'
  BY <1>1, <1>2 DEF Progress
<1> QED BY <1>3 DEF LoopSound

\* An entity is put in a vacant slot of no list.
LEMMA AddedSound ==
  ASSUME NEW L \in Links, NEW in \in [Slots -> ListNames], Threads(L, in),
         NEW rank \in [Slots -> Int], Sequenced(L, Listed, rank), Progress(rank),
         ActiveOf(in) = Listed, TypeOK, CountsAgree,
         NEW s \in Slots, in[s] = "none", pEntity[s] = NULL,
         NEW e \in Ents, NEW n \in Serials, AddEntityAtSlot(L, e, s, n)
  PROVE  CountsAgree' /\ LoopSound'
<1>1. /\ pEntity' = [pEntity EXCEPT ![s] = e]
      /\ links' = AddedToTail(L, "active", s)
      /\ CountAdd(s)
      /\ UNCHANGED <<cursor, life, visited, since>>
  BY DEF AddEntityAtSlot
<1>2. CountsAgree' /\ Listed' = Listed \cup {s} /\ s \notin Listed
  BY <1>1, CountsOfAdd
<1>3. ActiveOf([in EXCEPT ![s] = "active"]) = Listed'
  BY <1>2 DEF ActiveOf
<1>4. PICK r \in [Slots -> Int] :
        (\A u \in Slots \ {s} : r[u] = rank[u]) /\ Sequenced(links', Listed', r)
  BY <1>1, <1>3, AddActiveSequenced
<1> QED BY <1>1, <1>2, <1>4, LoopOfAdd

\* The header of the loop moves to the first slot, to the next one or past the
\* last one, and leaves nothing out.
LEMMA IterateSound ==
  ASSUME TypeOK, ListsSound, LoopSound, Iterate
  PROVE  LoopSound'
<1>1. PICK rank \in [Slots -> Int] : Sequenced(links, Listed, rank) /\ Progress(rank)
  BY DEF LoopSound
<1>2. UNCHANGED <<links, pEntity, life>>
  BY DEF Iterate, LoopStart, LoopNext, LoopEnd
<1>3. Listed' = Listed /\ Listed \subseteq Slots /\ \A t \in Slots : serial[t] \in Serials
  BY <1>2 DEF Listed, Occupied, TypeOK
<1>4. Sequenced(links', Listed', rank)
  BY <1>1, <1>2, <1>3 DEF Sequenced
<1>5. \A t \in Listed : rank[t] \in Int
  BY <1>3
<1>6. CASE LoopStart
  <2> DEFINE h == links.head["active"]
  <2>1. h \in Slots \cup {NULL} /\ \A u \in Listed : h \in Listed /\ rank[h] <= rank[u]
    BY <1>1 DEF Sequenced, TypeOK, Links, Lists
  <2>2. h # NULL => h \in Listed
    BY DEF ListsSound, Threads, Lists, Membership, Listed, Occupied, Links
  <2> HIDE DEF h
  <2>3. /\ cursor' = IF h = NULL THEN INVALID ELSE Handle(h, serial[h])
        /\ visited' = Occupant(cursor')
        /\ since' = {<<s, life[s]>> : s \in Listed}
    BY <1>6 DEF LoopStart, FirstHandle, h
  <2>4. CASE h = NULL
    <3>1. Listed = {} /\ cursor' = INVALID /\ since' = {}
      BY <1>3, <2>1, <2>3, <2>4
    <3>2. Progress(rank)'
      BY <3>1 DEF Progress
    <3> QED BY <1>4, <3>2 DEF LoopSound
  <2>5. CASE h # NULL
    <3>1. /\ cursor' # INVALID /\ cursor'.entry = h /\ h \in Listed
          /\ visited' = {<<h, life[h]>>}
      BY <1>3, <2>1, <2>2, <2>3, <2>5, HandleTypes DEF Occupant
    <3>2. ASSUME NEW s \in Slots, NEW k \in Nat, <<s, k>> \in since'
          PROVE  /\ s \in Listed /\ k = life[s]
                 /\ <<s, k>> \in visited' \/ rank[h] < rank[s]
      <4>1. s \in Listed /\ k = life[s]
        BY <2>3, <3>2
      <4>2. s # h => rank[h] < rank[s]
        <5>1. s # h => rank[h] # rank[s]
          BY <1>1, <3>1, <4>1 DEF Sequenced
        <5> QED BY <1>5, <2>1, <3>1, <4>1, <5>1
      <4> QED BY <3>1, <4>1, <4>2
    <3>3. Progress(rank)'
      BY <1>2, <1>3, <3>1, <3>2 DEF Progress
    <3> QED BY <1>4, <3>3 DEF LoopSound
  <2> QED BY <2>4, <2>5
<1>7. CASE LoopNext
  <2> DEFINE c == cursor.entry
             m == links.next[c]
  <2>1. /\ cursor \notin {NULL, INVALID} /\ c \in Listed
        /\ since' = since /\ m \in Slots \cup {NULL}
    BY <1>1, <1>3, <1>7 DEF LoopNext, Progress, TypeOK, Links
  <2>2. /\ cursor' = IF m = NULL THEN INVALID ELSE Handle(m, serial[m])
        /\ visited' = visited \cup Occupant(cursor')
    BY <1>7 DEF LoopNext, NextHandle
  <2>3. \A s \in Slots, k \in Nat : <<s, k>> \in since =>
          s \in Listed /\ k = life[s] /\ (<<s, k>> \in visited \/ rank[c] < rank[s])
    BY <1>1, <2>1 DEF Progress
  <2>4. m # NULL => m \in Listed
    BY <2>1 DEF ListsSound, Threads, Lists, Membership, Listed, Occupied
  <2>5. \A u \in Listed : rank[c] < rank[u] =>
          m \in Listed /\ rank[c] < rank[m] /\ rank[m] <= rank[u]
    BY <1>1, <2>1 DEF Sequenced
  <2> HIDE DEF c, m
  <2>6. CASE m = NULL
    <3>1. cursor' = INVALID /\ \A u \in Listed : ~(rank[c] < rank[u])
      BY <1>3, <2>2, <2>5, <2>6
    <3>2. Progress(rank)'
      BY <1>2, <1>3, <2>1, <2>2, <2>3, <3>1 DEF Progress
    <3> QED BY <1>4, <3>2 DEF LoopSound
  <2>7. CASE m # NULL
    <3>1. /\ cursor' # INVALID /\ cursor'.entry = m /\ m \in Listed
          /\ visited' = visited \cup {<<m, life[m]>>}
      BY <1>3, <2>1, <2>2, <2>4, <2>7, HandleTypes DEF Occupant
    <3>2. ASSUME NEW s \in Slots, NEW k \in Nat, <<s, k>> \in since'
          PROVE  /\ s \in Listed /\ k = life[s]
                 /\ <<s, k>> \in visited' \/ rank[m] < rank[s]
      <4>1. s \in Listed /\ k = life[s] /\ (<<s, k>> \in visited \/ rank[c] < rank[s])
        BY <2>1, <2>3, <3>2
      <4>2. CASE <<s, k>> \in visited
        BY <3>1, <4>1, <4>2
      <4>3. CASE rank[c] < rank[s] /\ s # m
        <5>1. rank[m] # rank[s] /\ rank[m] <= rank[s]
          BY <1>1, <2>5, <3>1, <4>1, <4>3 DEF Sequenced
        <5> QED BY <1>5, <3>1, <4>1, <5>1
      <4>4. CASE s = m
        BY <3>1, <4>1, <4>4
      <4> QED BY <4>1, <4>2, <4>3, <4>4
    <3>3. Progress(rank)'
      BY <1>2, <1>3, <3>1, <3>2 DEF Progress
    <3> QED BY <1>4, <3>3 DEF LoopSound
  <2> QED BY <2>6, <2>7
<1>8. CASE LoopEnd
  <2>1. cursor' = NULL
    BY <1>8 DEF LoopEnd
  <2>2. Progress(rank)'
    BY <2>1 DEF Progress
  <2> QED BY <1>4, <2>2 DEF LoopSound
<1> QED BY <1>6, <1>7, <1>8 DEF Iterate

\* Every step keeps the counters right and leaves nothing out of the loop.
LEMMA NextLoop ==
  TypeOK /\ ListsSound /\ CountsAgree /\ LoopSound /\ [Next]_vars
    => CountsAgree' /\ LoopSound'
<1> SUFFICES ASSUME TypeOK, ListsSound, CountsAgree, LoopSound, [Next]_vars
             PROVE  CountsAgree' /\ LoopSound'
  OBVIOUS
<1> USE MembershipType
<1>0. PICK rank \in [Slots -> Int] : Sequenced(links, Listed, rank) /\ Progress(rank)
  BY DEF LoopSound
<1>1. ASSUME NEW e \in Ents, NEW s \in Slots, NEW n \in Serials,
             AddNetworkableEntity(e, s, n)
      PROVE  CountsAgree' /\ LoopSound'
  <2>1. pEntity[s] = NULL /\ s < MaxEdicts /\ AddEntityAtSlot(links, e, s, n)
    BY <1>1 DEF AddNetworkableEntity
  <2>2. Membership[s] = "none"
    BY <2>1, SlotsAssumption DEF Membership, Slots
  <2> QED BY <1>0, <2>1, <2>2, AddedSound, ActiveIsListed DEF ListsSound
<1>2. ASSUME NEW e \in Ents, AddNonNetworkableEntity(e)
      PROVE  CountsAgree' /\ LoopSound'
  <2> DEFINE s == links.head["free"]
             U == Unlinked(links, "free", s)
             in == [Membership EXCEPT ![s] = "none"]
  <2>1. s # NULL /\ AddEntityAtSlot(U, e, s, serial[s])
    BY <1>2 DEF AddNonNetworkableEntity
  <2>2. s \in Slots /\ Membership[s] = "free"
    BY <2>1 DEF ListsSound, Threads, Links, Lists
  <2>3. pEntity[s] = NULL /\ serial[s] \in Serials
    BY <2>2 DEF Membership, TypeOK
  <2>4. PICK q \in [Slots -> Int] : Ordered(links, Membership, q)
    BY DEF ListsSound
  <2>5. U \in Links /\ Threads(U, in)
    BY <2>2, <2>4, UnlinkThreads DEF ListsSound, Lists
  <2>6. in \in [Slots -> ListNames] /\ in[s] = "none" /\ ActiveOf(in) = Listed
    BY <2>2, ActiveIsListed DEF ListNames, ActiveOf
  <2>7. Sequenced(U, Listed, rank)
    <3>1. Sequenced(links, ActiveOf(Membership), rank)
      BY <1>0, ActiveIsListed
    <3>2. Sequenced(U, ActiveOf(in), rank)
      BY <2>2, <3>1, UnlinkSequenced DEF ListsSound, Lists
    <3> HIDE DEF s, U, in
    <3> QED BY <2>6, <3>2
  <2> HIDE DEF s, U, in
  <2> QED BY <1>0, <2>1, <2>2, <2>3, <2>5, <2>6, <2>7, AddedSound
<1>3. ASSUME NEW e \in Ents, Destroy(e)
      PROVE  CountsAgree' /\ LoopSound'
  <2> DEFINE s == refEHandle[e].entry
             U == Unlinked(links, "active", s)
             in == [Membership EXCEPT ![s] = "none"]
  <2>1. /\ s \in Slots
        /\ UNCHANGED <<highestEnt, cursor, visited>>
        /\ cursor \notin {NULL, INVALID} => cursor.entry # s
    BY <1>3, HandleTypes DEF TypeOK, Destroy
  <2>2. CASE pEntity[s] = NULL
    <3>1. UNCHANGED <<pEntity, links, numEnts, numEdicts, life, since>>
      BY <1>3, <2>2 DEF Destroy, RemoveEntityAtSlot, Occupied
    <3> HIDE DEF s
    <3> QED
      BY <1>0, <2>1, <3>1 DEF CountsAgree, LoopSound, Progress, Sequenced, Listed, Occupied
  <2>3. CASE pEntity[s] # NULL
    <3>1. /\ pEntity' = [pEntity EXCEPT ![s] = NULL]
          /\ links' = IF s >= MaxEdicts THEN AddedToTail(U, "free", s) ELSE U
          /\ CountRemove(s)
          /\ life' = [life EXCEPT ![s] = @ + 1]
          /\ since' = since \ {<<s, life[s]>>}
      BY <1>3, <2>3 DEF Destroy, RemoveEntityAtSlot, Occupied
    <3>2. Membership[s] = "active"
      BY <2>1, <2>3 DEF Membership
    <3>3. CountsAgree' /\ Listed' = Listed \ {s}
      BY <2>1, <2>3, <3>1, CountsOfRemove
    <3>4. PICK q \in [Slots -> Int] : Ordered(links, Membership, q)
      BY DEF ListsSound
    <3>5. U \in Links /\ Threads(U, in)
      BY <2>1, <3>2, <3>4, UnlinkThreads DEF ListsSound, Lists
    <3>6. in \in [Slots -> ListNames] /\ in[s] = "none"
      BY <2>1 DEF ListNames
    <3>7. /\ ActiveOf(in) = Listed'
          /\ ActiveOf([in EXCEPT ![s] = "free"]) = Listed'
      BY <2>1, <3>3, ActiveIsListed DEF ActiveOf
    <3>8. Sequenced(U, Listed', rank)
      BY <1>0, <2>1, <3>2, <3>7, UnlinkSequenced, ActiveIsListed DEF ListsSound, Lists
    <3>9. Sequenced(links', Listed', rank)
      <4> HIDE DEF s, U, in
      <4>1. Sequenced(U, ActiveOf(in), rank)
        BY <3>7, <3>8
      <4>2. Sequenced(AddedToTail(U, "free", s), ActiveOf([in EXCEPT ![s] = "free"]), rank)
        BY <2>1, <3>5, <3>6, <4>1, AddFreeSequenced
      <4>3. Sequenced(AddedToTail(U, "free", s), Listed', rank)
        BY <3>7, <4>2
      <4> QED BY <3>1, <3>8, <4>3
    <3> HIDE DEF s, U, in
    <3>10. cursor' \notin {NULL, INVALID} => cursor'.entry \in Listed'
      BY <1>0, <2>1, <3>3 DEF Progress
    <3>11. ASSUME cursor' # NULL, NEW t \in Slots, NEW k \in Nat, <<t, k>> \in since'
           PROVE  /\ t \in Listed' /\ k = life'[t]
                  /\ \/ <<t, k>> \in visited'
                     \/ cursor' # INVALID /\ rank[cursor'.entry] < rank[t]
      <4>1. /\ t \in Listed /\ k = life[t]
            /\ \/ <<t, k>> \in visited
               \/ cursor # INVALID /\ rank[cursor.entry] < rank[t]
        BY <1>0, <2>1, <3>1, <3>11 DEF Progress
      <4>2. t # s
        BY <3>1, <3>11, <4>1
      <4>3. life'[t] = life[t]
        BY <3>1, <4>2 DEF TypeOK
      <4> QED BY <2>1, <3>3, <4>1, <4>2, <4>3
    <3>12. Progress(rank)'
      BY <3>10, <3>11 DEF Progress
    <3> QED BY <3>3, <3>9, <3>12 DEF LoopSound
  <2> QED BY <2>2, <2>3
<1>4. ASSUME UNCHANGED <<pEntity, links, numEnts, numEdicts, highestEnt>>
      PROVE  CountsAgree'
  BY <1>4 DEF CountsAgree, Listed, Occupied
<1>5. ASSUME UNCHANGED <<pEntity, links, cursor, life, visited, since>>
      PROVE  LoopSound'
  BY <1>0, <1>5 DEF LoopSound, Progress, Sequenced, Listed, Occupied
<1>6. CASE \E e \in Ents : Construct(e) \/ TakeHandle(e)
  BY <1>4, <1>5, <1>6 DEF Construct, TakeHandle
<1>7. CASE Iterate
  <2>1. CountsAgree'
    BY <1>4, <1>7 DEF Iterate, LoopStart, LoopNext, LoopEnd
  <2> QED BY <1>7, <2>1, IterateSound
<1>8. CASE UNCHANGED vars
  BY <1>4, <1>5, <1>8 DEF vars
<1>9. CASE Clear
  <2>1. CountsAgree'
    <3>1. /\ Listed' = {} /\ {s \in Listed : s < MaxEdicts} = {}
          /\ {s \in {} : s < MaxEdicts} = {}
          /\ numEnts' = 0 /\ numEdicts' = numEdicts
      BY <1>9 DEF Clear, Listed, Occupied
    <3>2. numEdicts = 0 /\ Cardinality({}) = 0
      BY <1>0, <3>1, FS_EmptySet DEF CountsAgree
    <3> QED BY <3>1, <3>2 DEF CountsAgree
  <2>2. LoopSound'
    BY <1>5, <1>9 DEF Clear
  <2> QED BY <2>1, <2>2
<1> QED BY <1>1, <1>2, <1>3, <1>6, <1>7, <1>8, <1>9 DEF Next, Mutate

\* The invariant holds of an empty list without a loop.
LEMMA InitLoop == Init => LoopInv
<1> SUFFICES ASSUME Init PROVE LoopInv
  OBVIOUS
<1>1. Listed = {} /\ {s \in Listed : s < MaxEdicts} = {}
  BY DEF Init, Listed, Occupied
<1>2. CountsAgree
  BY <1>1, FS_EmptySet DEF Init, CountsAgree
<1>3. LoopSound
  <2> DEFINE rank == [s \in Slots |-> 0]
  <2>1. rank \in [Slots -> Int] /\ Sequenced(links, Listed, rank) /\ Progress(rank)
    BY <1>1 DEF Init, Sequenced, Progress
  <2> HIDE DEF rank
  <2> QED BY <2>1 DEF LoopSound
<1> QED BY <1>2, <1>3, InitInv DEF LoopInv

\* The invariant is kept by every step.
LEMMA NextLoopInv == LoopInv /\ [Next]_vars => LoopInv'
BY NextInv, NextLoop DEF LoopInv, IInv

-----------------------------------------------------------------------------
(* The theorems.                                                           *)

\* m_iNumEnts and m_iNumEdicts are the numbers of listed entities and edicts,
\* and no listed slot is above m_iHighestEnt, for every size of the array and
\* every order of adds and removals.
THEOREM CountsAlwaysAgree == Spec => []CountsAgree
<1>1. LoopInv => CountsAgree
  BY DEF LoopInv
<1> QED BY <1>1, InitLoop, NextLoopInv, PTL DEF Spec

\* However entities are added, destroyed and put in reused slots while a loop
\* FirstHandle .. NextHandle runs, it has seen at its end every entity that was
\* listed all the while.
THEOREM LoopsSeeAll == Spec => []LoopSeesAll
<1>1. LoopInv => LoopSeesAll
  <2> SUFFICES ASSUME LoopInv, cursor = INVALID PROVE since \subseteq visited
    BY DEF LoopSeesAll
  <2>1. PICK rank \in [Slots -> Int] : Progress(rank)
    BY DEF LoopInv, LoopSound
  <2>2. cursor # NULL
    BY HandleAssumption
  <2>3. since \subseteq Slots \X Nat
    BY DEF LoopInv, IInv, TypeOK
  <2> QED BY <2>1, <2>2, <2>3 DEF Progress
<1> QED BY <1>1, InitLoop, NextLoopInv, PTL DEF Spec

-----------------------------------------------------------------------------
(* The refinement of EntityTable: both lists as sequences.                 *)

HIDE NullAssumption

\* A set of natural numbers that has a member has a least one.
LEMMA LeastNumber ==
  ASSUME NEW T \in SUBSET Nat, T # {}
  PROVE  \E n \in T : \A m \in T : n <= m
<1>1. IsWellFoundedOn(OpToRel(<, Nat), Nat)
  BY NatLessThanWellFounded
<1> DEFINE R == OpToRel(<, Nat)
<1> HIDE DEF R
<1>2. IsWellFoundedOn(R, Nat)
  BY <1>1 DEF R
<1>3. \E x \in T : \A y \in T : ~ (<<y, x>> \in R)
  BY <1>2, WFMin
<1>4. \A x, y \in Nat : <<y, x>> \in R <=> y < x
  BY DEF R, OpToRel
<1>5. PICK n \in T : \A m \in T : ~ (<<m, n>> \in R)
  BY <1>3
<1>6. \A m \in T : n <= m
  <2> SUFFICES ASSUME NEW m \in T PROVE n <= m
    OBVIOUS
  <2>1. n \in Nat /\ m \in Nat
    OBVIOUS
  <2>2. ~ (m < n)
    BY <1>4, <1>5, <2>1
  <2> QED BY <2>1, <2>2
<1> QED BY <1>6

\* f is what the recursive definition in Met describes.
Follows(f, L, list) ==
  f = [k \in 1 .. NumEntEntries |-> IF k = 1 THEN L.head[list] ELSE After(L, f[k - 1])]

\* The function Met follows the links with is the one that Follows describes.
LEMMA MetFollows ==
  ASSUME NEW L, NEW list, NEW w, Follows(w, L, list)
  PROVE  \E at : /\ Follows(at, L, list)
                 /\ Met(L, list) = [k \in 1 .. Cardinality({i \in 1 .. NumEntEntries : at[i] # NULL})
                                      |-> at[k]]
<1> DEFINE at == CHOOSE f : f = [k \in 1 .. NumEntEntries |->
                                   IF k = 1 THEN L.head[list] ELSE After(L, f[k - 1])]
<1>1. Follows(at, L, list)
  BY DEF Follows
<1>2. Met(L, list) = [k \in 1 .. Cardinality({i \in 1 .. NumEntEntries : at[i] # NULL}) |-> at[k]]
  BY DEF Met
<1> QED BY <1>1, <1>2

\* The links lead along c, there and back, from the head to the tail of a list.
Threaded(L, list, c) ==
  /\ c \in Seq(Slots)
  /\ \A j, k \in 1 .. Len(c) : c[j] = c[k] => j = k
  /\ L.head[list] = IF Len(c) = 0 THEN NULL ELSE c[1]
  /\ L.tail[list] = IF Len(c) = 0 THEN NULL ELSE c[Len(c)]
  /\ \A k \in 1 .. Len(c) : L.next[c[k]] = IF k = Len(c) THEN NULL ELSE c[k + 1]
  /\ \A k \in 1 .. Len(c) : L.prev[c[k]] = IF k = 1 THEN NULL ELSE c[k - 1]

\* Then they meet the slots of c.
LEMMA MetAlong ==
  ASSUME NEW L, NEW list, NEW c, Threaded(L, list, c)
  PROVE  Met(L, list) = c
<1> DEFINE N == NumEntEntries
           m == Len(c)
           w == [k \in 1 .. N |-> IF k <= m THEN c[k] ELSE NULL]
<1>1. /\ N \in Nat /\ 1 <= N /\ m \in Nat /\ c \in [1 .. m -> Slots]
      /\ L.head[list] = IF m = 0 THEN NULL ELSE c[1]
      /\ \A k \in 1 .. m : L.next[c[k]] = IF k = m THEN NULL ELSE c[k + 1]
      /\ \A k \in 1 .. m : c[k] # NULL
      /\ \A j, k \in 1 .. m : c[j] = c[k] => j = k
  <2>1. c \in Seq(Slots) /\ N \in Nat /\ 1 <= N
    BY SlotsAssumption DEF Threaded
  <2>2. m \in Nat /\ c \in [1 .. m -> Slots]
    BY <2>1
  <2>3. \A k \in 1 .. m : c[k] # NULL
    BY <2>2, NullAssumption
  <2> QED BY <2>1, <2>2, <2>3 DEF Threaded
<1>2. m <= N
  <2>1. c \in Injection(1 .. m, Slots)
    <3>1. c \in [1 .. m -> Slots] /\ \A j, k \in 1 .. m : c[j] = c[k] => j = k
      BY <1>1
    <3> HIDE DEF m
    <3> QED BY <3>1 DEF Injection, IsInjective
  <2>2. IsFiniteSet(Slots) /\ Cardinality(Slots) = N
    <3>1. Slots = 0 .. N - 1
      BY DEF Slots
    <3>2. N \in Nat /\ 1 <= N
      BY <1>1
    <3> HIDE DEF N
    <3> DEFINE b == N - 1
    <3>3. b \in Int /\ ~(0 > b) /\ b - 0 + 1 = N
      BY <3>2
    <3>4. Slots = 0 .. b
      BY <3>1
    <3> HIDE DEF b
    <3>5. IsFiniteSet(0 .. b) /\ Cardinality(0 .. b) = b - 0 + 1
      BY <3>3, FS_Interval
    <3> QED BY <3>3, <3>4, <3>5
  <2>3. IsFiniteSet(1 .. m) /\ Cardinality(1 .. m) = m
    <3>1. m \in Nat
      BY <1>1
    <3> HIDE DEF m
    <3> QED BY <3>1, FS_Interval
  <2> HIDE DEF m
  <2> QED BY <2>1, <2>2, <2>3, FS_Injection
<1> HIDE DEF m, N
<1>3. ASSUME NEW k \in 2 .. N PROVE w[k] = After(L, w[k - 1])
  <2>1. k - 1 \in 1 .. N /\ k \in 1 .. N
    BY <1>1
  <2>2. CASE k - 1 <= m
    <3>1. w[k - 1] = c[k - 1] /\ k - 1 \in 1 .. m
      BY <1>1, <2>1, <2>2
    <3>2. L.next[c[k - 1]] = IF k - 1 = m THEN NULL ELSE c[k - 1 + 1]
      BY <1>1, <3>1
    <3>3. k - 1 = m <=> ~(k <= m)
      BY <1>1, <2>2
    <3>4. k - 1 + 1 = k /\ w[k] = IF k <= m THEN c[k] ELSE NULL
      BY <1>1, <2>1
    <3> HIDE DEF w
    <3> QED BY <1>1, <3>1, <3>2, <3>3, <3>4 DEF After
  <2>3. CASE ~(k - 1 <= m)
    <3>1. w[k - 1] = NULL /\ w[k] = NULL
      BY <1>1, <2>1, <2>3
    <3> QED BY <3>1 DEF After
  <2> QED BY <2>2, <2>3
<1>4. w[1] = L.head[list] /\ DOMAIN w = 1 .. N
  BY <1>1, <1>2
<1>5. Follows(w, L, list)
  <2> DEFINE v == [k \in 1 .. N |-> IF k = 1 THEN L.head[list] ELSE After(L, w[k - 1])]
  <2>1. ASSUME NEW k \in 1 .. N PROVE w[k] = v[k]
    <3>1. CASE k = 1
      BY <1>4, <3>1
    <3>2. CASE k # 1
      <4>1. k \in 2 .. N
        BY <1>1, <3>2
      <4> HIDE DEF w
      <4> QED BY <1>3, <3>2, <4>1
    <3> QED BY <3>1, <3>2
  <2>2. w = v
    BY <2>1
  <2> HIDE DEF w
  <2> QED BY <2>2 DEF Follows, N
<1> HIDE DEF w
<1>6. PICK at : /\ Follows(at, L, list)
                /\ Met(L, list) = [k \in 1 .. Cardinality({i \in 1 .. N : at[i] # NULL}) |-> at[k]]
  BY <1>5, MetFollows DEF N
<1>7. ASSUME NEW k \in 1 .. N PROVE at[k] = w[k]
  <2> SUFFICES ASSUME at[k] # w[k] PROVE FALSE
    OBVIOUS
  <2> DEFINE T == {i \in 1 .. N : at[i] # w[i]}
  <2>1. T \in SUBSET Nat /\ T # {}
    BY <1>1
  <2>2. PICK n \in T : \A i \in T : n <= i
    BY <2>1, LeastNumber
  <2>3. /\ at[1] = L.head[list]
        /\ \A i \in 2 .. N : at[i] = After(L, at[i - 1])
    <3>1. at = [i \in 1 .. N |-> IF i = 1 THEN L.head[list] ELSE After(L, at[i - 1])]
      BY <1>6 DEF Follows, N
    <3>2. 1 \in 1 .. N /\ \A i \in 2 .. N : i \in 1 .. N /\ i # 1
      BY <1>1
    <3> QED BY <3>1, <3>2
  <2>4. n # 1
    BY <1>4, <2>3
  <2>5. n \in 2 .. N /\ n - 1 \in 1 .. N /\ ~(n <= n - 1)
    BY <1>1, <2>4
  <2>6. at[n - 1] = w[n - 1]
    BY <2>2, <2>5
  <2> QED BY <1>3, <2>3, <2>5, <2>6
<1>8. {i \in 1 .. N : at[i] # NULL} = 1 .. m
  <2>1. \A i \in 1 .. N : w[i] # NULL <=> i <= m
    BY <1>1 DEF w
  <2>2. \A i \in 1 .. N : at[i] # NULL <=> i <= m
    BY <1>7, <2>1
  <2>3. \A i \in 1 .. m : i \in 1 .. N /\ i <= m
    BY <1>1, <1>2
  <2>4. \A i \in 1 .. N : i <= m => i \in 1 .. m
    BY <1>1
  <2> QED BY <2>2, <2>3, <2>4
<1>9. Cardinality(1 .. m) = m
  BY <1>1, FS_Interval
<1>10. \A k \in 1 .. m : at[k] = c[k]
  <2>1. \A k \in 1 .. m : k \in 1 .. N /\ w[k] = c[k]
    BY <1>1, <1>2 DEF w
  <2> QED BY <1>7, <2>1
<1>11. Met(L, list) = [k \in 1 .. m |-> at[k]]
  BY <1>6, <1>8, <1>9
<1>12. c = [k \in 1 .. m |-> c[k]]
  BY <1>1
<1> QED BY <1>10, <1>11, <1>12

\* A function on 1 .. m is a sequence of length m.
LEMMA Listing ==
  ASSUME NEW m \in Nat, NEW S, NEW c \in [1 .. m -> S]
  PROVE  c \in Seq(S) /\ Len(c) = m /\ DOMAIN c = 1 .. m
OBVIOUS

\* No slot is in both.
Apart(c, d) == \A j \in 1 .. Len(c), k \in 1 .. Len(d) : c[j] # d[k]

\* s is in c.
In(c, s) == \E k \in 1 .. Len(c) : c[k] = s

\* Unlink takes out what stands at one place.
Gap(c, p) == [k \in 1 .. Len(c) - 1 |-> IF k < p THEN c[k] ELSE c[k + 1]]

\* What the rest of a sequence without repetitions is.
LEMMA GapShape ==
  ASSUME NEW c \in Seq(Slots), NEW p \in 1 .. Len(c),
         \A j, k \in 1 .. Len(c) : c[j] = c[k] => j = k
  PROVE  /\ Gap(c, p) \in Seq(Slots) /\ Len(Gap(c, p)) = Len(c) - 1
         /\ \A s \in Slots : In(Gap(c, p), s) <=> s # c[p] /\ In(c, s)
         /\ \A j, k \in 1 .. Len(c) - 1 : Gap(c, p)[j] = Gap(c, p)[k] => j = k
<1> DEFINE b == Gap(c, p)
           m == Len(c)
           o(k) == IF k < p THEN k ELSE k + 1
<1>1. m \in Nat /\ m - 1 \in Nat /\ \A k \in 1 .. m : c[k] \in Slots
  OBVIOUS
<1>2. b = [k \in 1 .. m - 1 |-> IF k < p THEN c[k] ELSE c[k + 1]]
  BY DEF Gap
<1> HIDE DEF m
<1>3. \A k \in 1 .. m - 1 : o(k) \in 1 .. m /\ o(k) # p /\ b[k] = c[o(k)]
  BY <1>1, <1>2
<1>4. \A j, k \in 1 .. m - 1 : o(j) = o(k) => j = k
  BY <1>1
<1>5. \A k \in 1 .. m : k # p => \E j \in 1 .. m - 1 : o(j) = k
  <2> SUFFICES ASSUME NEW k \in 1 .. m, k # p PROVE \E j \in 1 .. m - 1 : o(j) = k
    OBVIOUS
  <2>1. CASE k < p
    BY <1>1, <2>1 DEF m
  <2>2. CASE p < k
    <3>1. k - 1 \in 1 .. m - 1 /\ o(k - 1) = k
      BY <1>1, <2>2 DEF m
    <3> QED BY <3>1
  <2> QED BY <1>1, <2>1, <2>2 DEF m
<1>6. b \in [1 .. m - 1 -> Slots]
  <2>1. \A k \in 1 .. m - 1 : (IF k < p THEN c[k] ELSE c[k + 1]) \in Slots
    BY <1>1, <1>3
  <2> QED BY <1>2, <2>1
<1> HIDE DEF o, b
<1>7. b \in Seq(Slots) /\ Len(b) = m - 1
  BY <1>1, <1>6, Listing
<1>8. \A j, k \in 1 .. m - 1 : b[j] = b[k] => j = k
  BY <1>3, <1>4 DEF m
<1>9. ASSUME NEW s \in Slots
      PROVE  (\E k \in 1 .. m - 1 : b[k] = s) <=> s # c[p] /\ \E k \in 1 .. m : c[k] = s
  <2>1. ASSUME NEW k \in 1 .. m - 1, b[k] = s PROVE s # c[p] /\ \E j \in 1 .. m : c[j] = s
    BY <1>3, <2>1 DEF m
  <2>2. ASSUME s # c[p], NEW k \in 1 .. m, c[k] = s PROVE \E j \in 1 .. m - 1 : b[j] = s
    <3>1. PICK j \in 1 .. m - 1 : o(j) = k
      BY <1>5, <2>2
    <3> QED BY <1>3, <2>2, <3>1
  <2> QED BY <2>1, <2>2
<1> QED BY <1>7, <1>8, <1>9 DEF b, m, In

\* Unlink of a slot of a list leaves the list threaded along the rest, and the
\* other list as it was.
LEMMA UnlinkChain ==
  ASSUME NEW L \in Links, NEW l \in Lists, NEW c, Threaded(L, l, c), NEW p \in 1 .. Len(c)
  PROVE  /\ Unlinked(L, l, c[p]) \in Links
         /\ Unlinked(L, l, c[p]).prev[c[p]] = c[p]
         /\ Threaded(Unlinked(L, l, c[p]), l, Gap(c, p))
         /\ \A l2 \in Lists : \A d :
              l2 # l /\ Threaded(L, l2, d) /\ Apart(c, d) =>
                Threaded(Unlinked(L, l, c[p]), l2, d)
<1> DEFINE m == Len(c)
           s == c[p]
           before == L.prev[s]
           after == L.next[s]
           U == Unlinked(L, l, s)
           b == Gap(c, p)
<1>1. /\ c \in Seq(Slots) /\ m \in Nat
      /\ \A j, k \in 1 .. m : c[j] = c[k] => j = k
      /\ \A k \in 1 .. m : c[k] \in Slots /\ c[k] # NULL
      /\ L.head[l] = IF m = 0 THEN NULL ELSE c[1]
      /\ L.tail[l] = IF m = 0 THEN NULL ELSE c[m]
      /\ \A k \in 1 .. m : L.next[c[k]] = IF k = m THEN NULL ELSE c[k + 1]
      /\ \A k \in 1 .. m : L.prev[c[k]] = IF k = 1 THEN NULL ELSE c[k - 1]
  <2>1. c \in Seq(Slots)
    BY DEF Threaded
  <2>2. m \in Nat /\ \A k \in 1 .. m : c[k] \in Slots
    BY <2>1
  <2>3. \A k \in 1 .. m : c[k] # NULL
    BY <2>2, NullAssumption
  <2> QED BY <2>1, <2>2, <2>3 DEF Threaded
<1>2. /\ b \in Seq(Slots) /\ Len(b) = m - 1
      /\ \A j, k \in 1 .. m - 1 : b[j] = b[k] => j = k
      /\ \A k \in 1 .. m - 1 : b[k] = IF k < p THEN c[k] ELSE c[k + 1]
  <2>1. Gap(c, p) \in Seq(Slots) /\ Len(Gap(c, p)) = m - 1
    BY <1>1, GapShape
  <2>2. \A j, k \in 1 .. m - 1 : b[j] = b[k] => j = k
    BY <1>1, GapShape
  <2>3. \A k \in 1 .. m - 1 : b[k] = IF k < p THEN c[k] ELSE c[k + 1]
    BY DEF Gap
  <2> QED BY <2>1, <2>2, <2>3
<1>3. /\ L.prev \in [Slots -> Slots \cup {NULL}] /\ L.next \in [Slots -> Slots \cup {NULL}]
      /\ L.head \in [Lists -> Slots \cup {NULL}] /\ L.tail \in [Lists -> Slots \cup {NULL}]
  BY DEF Links
<1> HIDE DEF m, b
<1>4. /\ before = IF p = 1 THEN NULL ELSE c[p - 1]
      /\ after = IF p = m THEN NULL ELSE c[p + 1]
      /\ s \in Slots /\ p \in 1 .. m
  BY <1>1 DEF m
<1>5. before # s /\ after # s /\ before \in Slots \cup {NULL} /\ after \in Slots \cup {NULL} /\ s # NULL
  <2>1. p # 1 => p - 1 \in 1 .. m /\ p - 1 # p
    BY <1>1, <1>4
  <2>2. p # m => p + 1 \in 1 .. m /\ p + 1 # p
    BY <1>1, <1>4
  <2> QED BY <1>1, <1>4, <2>1, <2>2
<1>6. (before # NULL <=> p # 1) /\ (after # NULL <=> p # m)
  <2>1. p # 1 => p - 1 \in 1 .. m
    BY <1>1, <1>4
  <2>2. p # m => p + 1 \in 1 .. m
    BY <1>1, <1>4
  <2> QED BY <1>1, <1>4, <2>1, <2>2
<1> DEFINE next1 == IF before # NULL THEN [L.next EXCEPT ![before] = after] ELSE L.next
           prev1 == IF after # NULL THEN [L.prev EXCEPT ![after] = before] ELSE L.prev
<1>7. /\ U.prev = [prev1 EXCEPT ![s] = s]
      /\ U.next = [next1 EXCEPT ![s] = s]
      /\ U.head = IF before # NULL THEN L.head ELSE [L.head EXCEPT ![l] = after]
      /\ U.tail = IF after # NULL THEN L.tail ELSE [L.tail EXCEPT ![l] = before]
      /\ U = [prev |-> U.prev, next |-> U.next, head |-> U.head, tail |-> U.tail]
  BY <1>5 DEF Unlinked, IsInList
<1> HIDE DEF U, s, before, after
<1>8. /\ U.prev \in [Slots -> Slots \cup {NULL}] /\ U.next \in [Slots -> Slots \cup {NULL}]
      /\ U.head \in [Lists -> Slots \cup {NULL}] /\ U.tail \in [Lists -> Slots \cup {NULL}]
  BY <1>3, <1>4, <1>5, <1>7
<1>9. U \in Links
  BY <1>7, <1>8 DEF Links
<1>10. /\ \A t \in Slots : U.next[t] = IF t = s THEN s ELSE IF t = before THEN after ELSE L.next[t]
       /\ \A t \in Slots : U.prev[t] = IF t = s THEN s ELSE IF t = after THEN before ELSE L.prev[t]
  BY <1>3, <1>4, <1>5, <1>7, NullAssumption
<1>11. /\ U.head[l] = IF before # NULL THEN L.head[l] ELSE after
       /\ U.tail[l] = IF after # NULL THEN L.tail[l] ELSE before
       /\ \A l2 \in Lists : l2 # l => U.head[l2] = L.head[l2] /\ U.tail[l2] = L.tail[l2]
  BY <1>3, <1>7
<1> HIDE DEF next1, prev1
<1>12. Threaded(U, l, b)
  <2>1. U.head[l] = IF m - 1 = 0 THEN NULL ELSE b[1]
    <3>1. CASE p = 1
      <4>1. m = 1 \/ (1 \in 1 .. m - 1 /\ b[1] = c[2] /\ m # 1)
        BY <1>1, <1>2, <1>4, <3>1
      <4> QED BY <1>1, <1>4, <1>6, <1>11, <3>1, <4>1
    <3>2. CASE p # 1
      <4>1. 1 < p /\ 1 \in 1 .. m - 1 /\ m # 0 /\ m - 1 # 0
        BY <1>1, <1>4, <3>2
      <4>2. b[1] = c[1]
        BY <1>2, <4>1
      <4> QED BY <1>1, <1>6, <1>11, <3>2, <4>1, <4>2
    <3> QED BY <3>1, <3>2
  <2>2. U.tail[l] = IF m - 1 = 0 THEN NULL ELSE b[m - 1]
    <3>1. CASE p = m
      <4>1. m = 1 \/ (m - 1 \in 1 .. m - 1 /\ b[m - 1] = c[m - 1] /\ m # 1)
        BY <1>1, <1>2, <1>4, <3>1
      <4> QED BY <1>1, <1>4, <1>6, <1>11, <3>1, <4>1
    <3>2. CASE p # m
      <4>1. m - 1 \in 1 .. m - 1 /\ ~(m - 1 < p) /\ m # 0 /\ m - 1 # 0 /\ m - 1 + 1 = m
        BY <1>1, <1>4, <3>2
      <4>2. b[m - 1] = c[m]
        BY <1>2, <4>1
      <4> QED BY <1>1, <1>6, <1>11, <3>2, <4>1, <4>2
    <3> QED BY <3>1, <3>2
  <2>3. \A j \in 1 .. m : j # p => c[j] # s
    BY <1>1, <1>4 DEF s
  <2>4. \A j \in 1 .. m : c[j] = before <=> j = p - 1
    <3> SUFFICES ASSUME NEW j \in 1 .. m PROVE c[j] = before <=> j = p - 1
      OBVIOUS
    <3>1. CASE p = 1
      BY <1>1, <1>4, <3>1
    <3>2. CASE p # 1
      <4>1. p - 1 \in 1 .. m
        BY <1>1, <1>4, <3>2
      <4> QED BY <1>1, <1>4, <3>2, <4>1
    <3> QED BY <3>1, <3>2
  <2>5. \A j \in 1 .. m : c[j] = after <=> j = p + 1
    <3> SUFFICES ASSUME NEW j \in 1 .. m PROVE c[j] = after <=> j = p + 1
      OBVIOUS
    <3>1. CASE p = m
      BY <1>1, <1>4, <3>1
    <3>2. CASE p # m
      <4>1. p + 1 \in 1 .. m
        BY <1>1, <1>4, <3>2
      <4> QED BY <1>1, <1>4, <3>2, <4>1
    <3> QED BY <3>1, <3>2
  <2>6. ASSUME NEW k \in 1 .. m - 1
        PROVE  U.next[b[k]] = IF k = m - 1 THEN NULL ELSE b[k + 1]
    <3>1. CASE k = p - 1
      <4>1. k \in 1 .. m /\ b[k] = c[k] /\ c[k] = before /\ c[k] # s /\ c[k] \in Slots
        BY <1>1, <1>2, <1>4, <2>3, <2>4, <3>1
      <4>2. U.next[b[k]] = after
        <5>1. b[k] \in Slots /\ b[k] # s /\ b[k] = before
          BY <4>1
        <5>2. \A t \in Slots : t # s /\ t = before => U.next[t] = after
          BY <1>10
        <5> HIDE DEF m
        <5> QED BY <5>1, <5>2
      <4>3. k # m - 1 => k + 1 \in 1 .. m - 1 /\ ~(k + 1 < p) /\ p = k + 1
        <5>1. m \in Nat /\ p \in 1 .. m /\ k \in 1 .. m - 1 /\ k = p - 1
          BY <1>1, <1>4, <3>1
        <5>2. p = k + 1
          BY <5>1
        <5>3. k # m - 1 => k + 1 \in 1 .. m - 1
          BY <5>1
        <5>4. ~(k + 1 < p)
          BY <5>1
        <5> QED BY <5>2, <5>3, <5>4
      <4>4. k = m - 1 <=> p = m
        BY <1>1, <1>4, <3>1
      <4> QED BY <1>2, <1>4, <4>2, <4>3, <4>4
    <3>2. CASE k < p /\ k # p - 1
      <4>1. k \in 1 .. m /\ k + 1 \in 1 .. m - 1 /\ k + 1 < p /\ k # m - 1 /\ k # m /\ k # p
        BY <1>1, <1>4, <3>2
      <4>2. b[k] = c[k] /\ b[k + 1] = c[k + 1] /\ c[k] # s /\ c[k] # before /\ c[k] \in Slots
        BY <1>1, <1>2, <2>3, <2>4, <3>2, <4>1
      <4>3. U.next[b[k]] = L.next[c[k]]
        BY <1>10, <4>2
      <4> QED BY <1>1, <4>1, <4>2, <4>3
    <3>3. CASE ~(k < p)
      <4>1. k + 1 \in 1 .. m /\ k + 1 # p /\ k + 1 # p - 1 /\ (k = m - 1 <=> k + 1 = m)
        BY <1>1, <1>4, <3>3
      <4>2. b[k] = c[k + 1] /\ c[k + 1] # s /\ c[k + 1] # before /\ c[k + 1] \in Slots
        BY <1>1, <1>2, <2>3, <2>4, <3>3, <4>1
      <4>3. U.next[b[k]] = L.next[c[k + 1]]
        BY <1>10, <4>2
      <4>4. k # m - 1 => k + 1 \in 1 .. m - 1 /\ ~(k + 1 < p)
        BY <1>1, <1>4, <3>3
      <4>5. k # m - 1 => b[k + 1] = c[k + 1 + 1]
        BY <1>2, <4>4
      <4> QED BY <1>1, <4>1, <4>3, <4>5
    <3> QED BY <1>1, <1>4, <3>1, <3>2, <3>3
  <2>7. ASSUME NEW k \in 1 .. m - 1
        PROVE  U.prev[b[k]] = IF k = 1 THEN NULL ELSE b[k - 1]
    <3>1. CASE k = p
      <4>1. k + 1 \in 1 .. m /\ b[k] = c[k + 1] /\ k + 1 = p + 1 /\ k + 1 # p /\ ~(k < p)
        BY <1>1, <1>2, <1>4, <3>1
      <4>2. c[k + 1] = after /\ c[k + 1] # s /\ c[k + 1] \in Slots
        BY <1>1, <2>3, <2>5, <4>1
      <4>3. U.prev[b[k]] = before
        BY <1>10, <4>1, <4>2
      <4>4. k # 1 => k - 1 \in 1 .. m - 1 /\ k - 1 < p
        BY <1>1, <1>4, <3>1
      <4>5. k # 1 => b[k - 1] = c[k - 1]
        BY <1>2, <4>4
      <4> QED BY <1>4, <3>1, <4>3, <4>5
    <3>2. CASE k < p
      <4>1. k \in 1 .. m /\ k # p /\ k # p + 1
        BY <1>1, <1>4, <3>2
      <4>2. b[k] = c[k] /\ c[k] # s /\ c[k] # after /\ c[k] \in Slots
        BY <1>1, <1>2, <2>3, <2>5, <3>2, <4>1
      <4>3. U.prev[b[k]] = L.prev[c[k]]
        BY <1>10, <4>2
      <4>4. k # 1 => k - 1 \in 1 .. m - 1 /\ k - 1 < p
        BY <1>1, <1>4, <3>2
      <4>5. k # 1 => b[k - 1] = c[k - 1]
        BY <1>2, <4>4
      <4> QED BY <1>1, <4>1, <4>3, <4>5
    <3>3. CASE k > p
      <4>1. k + 1 \in 1 .. m /\ k + 1 # p /\ k + 1 # p + 1 /\ k + 1 # 1 /\ k # 1 /\ ~(k < p)
        BY <1>1, <1>4, <3>3
      <4>2. b[k] = c[k + 1] /\ c[k + 1] # s /\ c[k + 1] # after /\ c[k + 1] \in Slots
        BY <1>1, <1>2, <2>3, <2>5, <4>1
      <4>3. U.prev[b[k]] = L.prev[c[k + 1]]
        BY <1>10, <4>2
      <4>4. k - 1 \in 1 .. m - 1 /\ ~(k - 1 < p) /\ k + 1 - 1 = k - 1 + 1
        BY <1>1, <1>4, <3>3
      <4>5. b[k - 1] = c[k - 1 + 1]
        BY <1>2, <4>4
      <4> QED BY <1>1, <4>1, <4>3, <4>4, <4>5
    <3> QED BY <1>1, <1>4, <3>1, <3>2, <3>3
  <2> QED BY <1>2, <2>1, <2>2, <2>6, <2>7 DEF Threaded
<1>13. ASSUME NEW l2 \in Lists, NEW d, l2 # l, Threaded(L, l2, d), Apart(c, d)
       PROVE  Threaded(U, l2, d)
  <2>1. \A k \in 1 .. Len(d) : d[k] \in Slots
    BY <1>13 DEF Threaded
  <2>2. \A k \in 1 .. Len(d) : d[k] # s /\ d[k] # before /\ d[k] # after
    <3>1. \A j \in 1 .. m, k \in 1 .. Len(d) : c[j] # d[k]
      BY <1>13 DEF Apart, m
    <3>2. p # 1 => p - 1 \in 1 .. m
      BY <1>1, <1>4
    <3>3. p # m => p + 1 \in 1 .. m
      BY <1>1, <1>4
    <3>4. \A k \in 1 .. Len(d) : d[k] # NULL
      BY <2>1, NullAssumption
    <3> QED BY <1>4, <3>1, <3>2, <3>3, <3>4 DEF s
  <2>3. \A k \in 1 .. Len(d) : U.next[d[k]] = L.next[d[k]] /\ U.prev[d[k]] = L.prev[d[k]]
    BY <1>10, <2>1, <2>2
  <2>4. U.head[l2] = L.head[l2] /\ U.tail[l2] = L.tail[l2]
    BY <1>11, <1>13
  <2> QED BY <1>13, <2>3, <2>4 DEF Threaded
<1>14. U.prev[s] = s
  BY <1>4, <1>10
<1> QED BY <1>9, <1>12, <1>13, <1>14 DEF U, s, b
\* AddToTail of a slot of no list puts it at the end, and leaves the other list
\* as it was.
LEMMA AddChain ==
  ASSUME NEW L \in Links, NEW l \in Lists, NEW c, Threaded(L, l, c),
         NEW s \in Slots, L.prev[s] = s, \A k \in 1 .. Len(c) : c[k] # s
  PROVE  /\ Threaded(AddedToTail(L, l, s), l, Append(c, s))
         /\ \A l2 \in Lists : \A d :
              /\ l2 # l /\ Threaded(L, l2, d) /\ Apart(c, d)
              /\ \A k \in 1 .. Len(d) : d[k] # s
              => Threaded(AddedToTail(L, l, s), l2, d)
<1> DEFINE m == Len(c)
           t == L.tail[l]
           A == AddedToTail(L, l, s)
           b == Append(c, s)
<1>1. /\ c \in Seq(Slots) /\ m \in Nat
      /\ \A j, k \in 1 .. m : c[j] = c[k] => j = k
      /\ \A k \in 1 .. m : c[k] \in Slots /\ c[k] # NULL /\ c[k] # s
      /\ L.head[l] = IF m = 0 THEN NULL ELSE c[1]
      /\ t = IF m = 0 THEN NULL ELSE c[m]
      /\ \A k \in 1 .. m : L.next[c[k]] = IF k = m THEN NULL ELSE c[k + 1]
      /\ \A k \in 1 .. m : L.prev[c[k]] = IF k = 1 THEN NULL ELSE c[k - 1]
  <2>1. c \in Seq(Slots)
    BY DEF Threaded
  <2>2. m \in Nat /\ \A k \in 1 .. m : c[k] \in Slots
    BY <2>1
  <2>3. \A k \in 1 .. m : c[k] # NULL
    BY <2>2, NullAssumption
  <2> QED BY <2>1, <2>2, <2>3 DEF Threaded
<1>2. /\ b \in Seq(Slots) /\ Len(b) = m + 1
      /\ \A k \in 1 .. m : b[k] = c[k]
      /\ b[m + 1] = s
  BY <1>1
<1>3. /\ L.prev \in [Slots -> Slots \cup {NULL}] /\ L.next \in [Slots -> Slots \cup {NULL}]
      /\ L.head \in [Lists -> Slots \cup {NULL}] /\ L.tail \in [Lists -> Slots \cup {NULL}]
  BY DEF Links
<1> HIDE DEF m, b
<1>4. t \in Slots \cup {NULL} /\ t # s /\ s # NULL /\ (t = NULL <=> m = 0)
  <2>1. m # 0 => m \in 1 .. m
    BY <1>1
  <2>2. s # NULL
    BY NullAssumption
  <2> QED BY <1>1, <1>3, <2>1, <2>2
<1> DEFINE next1 == [L.next EXCEPT ![s] = NULL]
<1>5. /\ A.prev = [L.prev EXCEPT ![s] = t]
      /\ A.next = IF t = NULL THEN next1 ELSE [next1 EXCEPT ![t] = s]
      /\ A.head = IF t = NULL THEN [L.head EXCEPT ![l] = s] ELSE L.head
      /\ A.tail = [L.tail EXCEPT ![l] = s]
  BY DEF AddedToTail, Unlinked, IsInList
<1> HIDE DEF A, t
<1>6. /\ \A r \in Slots : A.next[r] = IF r = t THEN s ELSE IF r = s THEN NULL ELSE L.next[r]
      /\ \A r \in Slots : A.prev[r] = IF r = s THEN t ELSE L.prev[r]
  BY <1>3, <1>4, <1>5, NullAssumption
<1>7. /\ A.head[l] = IF t = NULL THEN s ELSE L.head[l]
      /\ A.tail[l] = s
      /\ \A l2 \in Lists : l2 # l => A.head[l2] = L.head[l2] /\ A.tail[l2] = L.tail[l2]
  BY <1>3, <1>5
<1> HIDE DEF next1
<1>8. Threaded(A, l, b)
  <2>1. m + 1 \in Nat /\ m + 1 # 0 /\ m + 1 \in 1 .. m + 1 /\ 1 \in 1 .. m + 1
    BY <1>1
  <2>2. \A k \in 1 .. m + 1 : k # m + 1 => k \in 1 .. m
    BY <1>1
  <2>3. ASSUME NEW j \in 1 .. m + 1, NEW k \in 1 .. m + 1, b[j] = b[k] PROVE j = k
    <3>1. CASE j = m + 1 /\ k = m + 1
      BY <3>1
    <3>2. CASE j # m + 1 /\ k = m + 1
      BY <1>1, <1>2, <2>2, <2>3, <3>2
    <3>3. CASE j = m + 1 /\ k # m + 1
      BY <1>1, <1>2, <2>2, <2>3, <3>3
    <3>4. CASE j # m + 1 /\ k # m + 1
      <4>1. j \in 1 .. m /\ k \in 1 .. m
        BY <2>2, <3>4
      <4>2. c[j] = c[k]
        BY <1>2, <2>3, <4>1
      <4> QED BY <1>1, <4>1, <4>2
    <3> QED BY <3>1, <3>2, <3>3, <3>4
  <2>4. A.head[l] = b[1]
    <3>1. CASE m = 0
      BY <1>2, <1>4, <1>7, <3>1
    <3>2. CASE m # 0
      <4>1. 1 \in 1 .. m
        BY <1>1, <3>2
      <4> QED BY <1>1, <1>2, <1>4, <1>7, <3>2, <4>1
    <3> QED BY <3>1, <3>2
  <2>5. ASSUME NEW k \in 1 .. m + 1
        PROVE  A.next[b[k]] = IF k = m + 1 THEN NULL ELSE b[k + 1]
    <3>1. CASE k = m + 1
      BY <1>2, <1>4, <1>6, <3>1
    <3>2. CASE k = m
      <4>1. m \in 1 .. m /\ k # m + 1 /\ m # 0
        BY <1>1, <3>2
      <4>2. b[k] = t /\ t \in Slots
        BY <1>1, <1>2, <3>2, <4>1
      <4>3. A.next[t] = s
        BY <1>6, <4>2
      <4> QED BY <1>2, <3>2, <4>1, <4>2, <4>3
    <3>3. CASE k # m + 1 /\ k # m
      <4>1. k \in 1 .. m /\ m \in 1 .. m /\ k + 1 \in 1 .. m /\ m # 0
        BY <1>1, <3>3
      <4>2. b[k] = c[k] /\ b[k + 1] = c[k + 1] /\ c[k] # s /\ c[k] # t /\ c[k] \in Slots
        BY <1>1, <1>2, <3>3, <4>1
      <4>3. A.next[c[k]] = L.next[c[k]]
        BY <1>6, <4>2
      <4> QED BY <1>1, <3>3, <4>1, <4>2, <4>3
    <3> QED BY <3>1, <3>2, <3>3
  <2>6. ASSUME NEW k \in 1 .. m + 1
        PROVE  A.prev[b[k]] = IF k = 1 THEN NULL ELSE b[k - 1]
    <3>1. CASE k = m + 1
      <4>1. A.prev[b[k]] = t
        BY <1>2, <1>6, <3>1
      <4>2. CASE m = 0
        <5>1. k = 1
          BY <3>1, <4>2
        <5> QED BY <1>4, <4>1, <4>2, <5>1
      <4>3. CASE m # 0
        <5>1. k # 1 /\ k - 1 = m /\ m \in 1 .. m
          BY <1>1, <3>1, <4>3
        <5> QED BY <1>1, <1>2, <4>1, <4>3, <5>1
      <4> QED BY <4>2, <4>3
    <3>2. CASE k # m + 1
      <4>1. k \in 1 .. m /\ (k # 1 => k - 1 \in 1 .. m)
        BY <1>1, <3>2
      <4>2. b[k] = c[k] /\ c[k] # s /\ c[k] \in Slots
        BY <1>1, <1>2, <4>1
      <4>3. A.prev[c[k]] = L.prev[c[k]]
        BY <1>6, <4>2
      <4> QED BY <1>1, <1>2, <4>1, <4>2, <4>3
    <3> QED BY <3>1, <3>2
  <2> QED BY <1>2, <1>7, <2>1, <2>3, <2>4, <2>5, <2>6 DEF Threaded
<1>9. ASSUME NEW l2 \in Lists, NEW d, l2 # l, Threaded(L, l2, d), Apart(c, d),
             \A k \in 1 .. Len(d) : d[k] # s
      PROVE  Threaded(A, l2, d)
  <2>1. \A k \in 1 .. Len(d) : d[k] \in Slots
    BY <1>9 DEF Threaded
  <2>2. \A k \in 1 .. Len(d) : d[k] # t
    <3>1. \A j \in 1 .. m, k \in 1 .. Len(d) : c[j] # d[k]
      BY <1>9 DEF Apart, m
    <3>2. m # 0 => m \in 1 .. m
      BY <1>1
    <3>3. \A k \in 1 .. Len(d) : d[k] # NULL
      BY <2>1, NullAssumption
    <3> QED BY <1>1, <3>1, <3>2, <3>3
  <2>3. \A k \in 1 .. Len(d) : A.next[d[k]] = L.next[d[k]] /\ A.prev[d[k]] = L.prev[d[k]]
    BY <1>6, <1>9, <2>1, <2>2
  <2>4. A.head[l2] = L.head[l2] /\ A.tail[l2] = L.tail[l2]
    BY <1>7, <1>9
  <2> QED BY <1>9, <2>3, <2>4 DEF Threaded
<1> QED BY <1>8, <1>9 DEF A, b

\* The two chains of slots, and which slots are in each.
Lined(L, c, d, p) ==
  /\ Threaded(L, "active", c) /\ Threaded(L, "free", d)
  /\ \A s \in Slots : In(c, s) <=> p[s] # NULL
  /\ \A s \in Slots : In(d, s) <=> p[s] = NULL /\ s > MaxEdicts

\* So are the lists of the state, and they hold the slots they should.
Chained == Lined(links, Chain("active"), Chain("free"), pEntity)

\* What the links are threaded along is what a walk along them meets.
LEMMA ChainsFollow ==
  ASSUME NEW c, NEW d, Lined(links', c, d, pEntity')
  PROVE  Chain("active")' = c /\ Chain("free")' = d /\ Chained'
<1>1. Met(links', "active") = c /\ Met(links', "free") = d
  BY MetAlong DEF Lined
<1>2. Chain("active")' = Met(links', "active") /\ Chain("free")' = Met(links', "free")
  BY DEF Chain, Met, After
<1>3. Chain("active")' = c /\ Chain("free")' = d
  BY <1>1, <1>2
<1> QED BY <1>3 DEF Chained

\* No slot is in both lists.
LEMMA ChainsApart ==
  ASSUME NEW L, NEW c, NEW d, NEW p, Lined(L, c, d, p)
  PROVE  Apart(c, d) /\ Apart(d, c)
<1>1. \A k \in 1 .. Len(c) : c[k] \in Slots
  BY DEF Lined, Threaded
<1>2. \A k \in 1 .. Len(d) : d[k] \in Slots
  BY DEF Lined, Threaded
<1>3. \A s \in Slots : ~(In(c, s) /\ In(d, s))
  BY DEF Lined
<1> QED BY <1>1, <1>2, <1>3 DEF Apart, In

\* What is in a sequence with one more element.
LEMMA AppendIn ==
  ASSUME NEW c \in Seq(Slots), NEW s \in Slots
  PROVE  \A t \in Slots : In(Append(c, s), t) <=> t = s \/ In(c, t)
<1> DEFINE m == Len(c)
           b == Append(c, s)
<1>1. m \in Nat /\ Len(b) = m + 1 /\ b[m + 1] = s /\ \A k \in 1 .. m : b[k] = c[k]
  OBVIOUS
<1> HIDE DEF m, b
<1>2. \A k \in 1 .. m + 1 : k # m + 1 => k \in 1 .. m
  BY <1>1
<1>3. m + 1 \in 1 .. m + 1 /\ \A k \in 1 .. m : k \in 1 .. m + 1
  BY <1>1
<1>4. \A t \in Slots : (\E k \in 1 .. m + 1 : b[k] = t) <=> t = s \/ \E k \in 1 .. m : c[k] = t
  BY <1>1, <1>2, <1>3
<1> QED BY <1>1, <1>4 DEF In, b, m

\* AddEntityAtSlot on a slot of neither list.
LEMMA LinedByAdd ==
  ASSUME NEW L \in Links, NEW c, NEW d, NEW p \in [Slots -> Ents \cup {NULL}],
         Threaded(L, "active", c), Threaded(L, "free", d), Apart(c, d),
         NEW s \in Slots, NEW e \in Ents, L.prev[s] = s, ~In(c, s), ~In(d, s),
         \A t \in Slots \ {s} : In(c, t) <=> p[t] # NULL,
         \A t \in Slots \ {s} : In(d, t) <=> p[t] = NULL /\ t > MaxEdicts
  PROVE  Lined(AddedToTail(L, "active", s), Append(c, s), d, [p EXCEPT ![s] = e])
<1> DEFINE A == AddedToTail(L, "active", s)
           q == [p EXCEPT ![s] = e]
<1>1. "active" \in Lists /\ "free" \in Lists /\ "free" # "active"
  BY DEF Lists
<1>2. (\A k \in 1 .. Len(c) : c[k] # s) /\ (\A k \in 1 .. Len(d) : d[k] # s)
  BY DEF In
<1>3. Threaded(A, "active", Append(c, s)) /\ Threaded(A, "free", d)
  <2> HIDE DEF A
  <2>1. /\ Threaded(AddedToTail(L, "active", s), "active", Append(c, s))
        /\ \A l2 \in Lists : \A x :
             /\ l2 # "active" /\ Threaded(L, l2, x) /\ Apart(c, x)
             /\ \A k \in 1 .. Len(x) : x[k] # s
             => Threaded(AddedToTail(L, "active", s), l2, x)
    BY <1>1, <1>2, AddChain
  <2> QED BY <1>1, <1>2, <2>1 DEF A
<1>4. \A t \in Slots : q[t] = IF t = s THEN e ELSE p[t]
  OBVIOUS
<1>5. c \in Seq(Slots) /\ e # NULL
  BY NullAssumption DEF Threaded
<1>6. \A t \in Slots : In(Append(c, s), t) <=> t = s \/ In(c, t)
  BY <1>5, AppendIn
<1> HIDE DEF A, q
<1>7. \A t \in Slots : In(Append(c, s), t) <=> q[t] # NULL
  BY <1>4, <1>5, <1>6
<1>8. \A t \in Slots : In(d, t) <=> q[t] = NULL /\ t > MaxEdicts
  BY <1>4, <1>5
<1> QED BY <1>3, <1>7, <1>8 DEF Lined, A, q

\* RemoveEntityAtSlot on a networkable slot, and on another.
LEMMA LinedByRemove ==
  ASSUME NEW L \in Links, NEW c, NEW d, NEW p \in [Slots -> Ents \cup {NULL}],
         Lined(L, c, d, p), NEW k \in 1 .. Len(c), c[k] # MaxEdicts
  PROVE  LET s == c[k]
             U == Unlinked(L, "active", s)
             q == [p EXCEPT ![s] = NULL]
         IN /\ s < MaxEdicts => Lined(U, Gap(c, k), d, q)
            /\ s >= MaxEdicts => Lined(AddedToTail(U, "free", s), Gap(c, k), Append(d, s), q)
<1> DEFINE s == c[k]
           U == Unlinked(L, "active", s)
           q == [p EXCEPT ![s] = NULL]
           b == Gap(c, k)
<1>1. "active" \in Lists /\ "free" \in Lists /\ "free" # "active"
  BY DEF Lists
<1>2. Threaded(L, "active", c) /\ Threaded(L, "free", d) /\ Apart(c, d)
  BY ChainsApart DEF Lined
<1>3. c \in Seq(Slots) /\ d \in Seq(Slots) /\ \A i, j \in 1 .. Len(c) : c[i] = c[j] => i = j
  BY <1>2 DEF Threaded
<1>4. s \in Slots /\ In(c, s) /\ s # MaxEdicts
  <2>1. c[k] \in Slots
    BY <1>3
  <2> QED BY <2>1 DEF In
<1>5. /\ U \in Links /\ U.prev[s] = s /\ Threaded(U, "active", b)
      /\ Threaded(U, "free", d)
  <2> HIDE DEF U, s, b
  <2>1. /\ Unlinked(L, "active", c[k]) \in Links
        /\ Unlinked(L, "active", c[k]).prev[c[k]] = c[k]
        /\ Threaded(Unlinked(L, "active", c[k]), "active", Gap(c, k))
        /\ \A l2 \in Lists : \A x :
             l2 # "active" /\ Threaded(L, l2, x) /\ Apart(c, x) =>
               Threaded(Unlinked(L, "active", c[k]), l2, x)
    BY <1>1, <1>2, UnlinkChain
  <2> QED BY <1>1, <1>2, <2>1 DEF U, s, b
<1>6. \A t \in Slots : In(b, t) <=> t # s /\ In(c, t)
  BY <1>3, GapShape
<1>7. \A t \in Slots : q[t] = IF t = s THEN NULL ELSE p[t]
  OBVIOUS
<1>8. /\ \A t \in Slots : In(c, t) <=> p[t] # NULL
      /\ \A t \in Slots : In(d, t) <=> p[t] = NULL /\ t > MaxEdicts
  BY DEF Lined
<1>9. \A i \in 1 .. Len(d) : d[i] # s
  BY <1>4, <1>8 DEF In
<1> HIDE DEF s, U, q, b
<1>10. \A t \in Slots : In(b, t) <=> q[t] # NULL
  BY <1>6, <1>7, <1>8
<1>11. ASSUME s < MaxEdicts PROVE Lined(U, b, d, q)
  <2>1. \A t \in Slots : In(d, t) <=> q[t] = NULL /\ t > MaxEdicts
    <3>1. ~(s > MaxEdicts)
      BY <1>4, <1>11, SlotsAssumption DEF Slots
    <3> QED BY <1>4, <1>7, <1>8, <3>1
  <2> QED BY <1>5, <1>10, <2>1 DEF Lined
<1>12. ASSUME s >= MaxEdicts PROVE Lined(AddedToTail(U, "free", s), b, Append(d, s), q)
  <2>1. s > MaxEdicts
    BY <1>4, <1>12, SlotsAssumption DEF Slots
  <2>2. \A t \in Slots : In(Append(d, s), t) <=> t = s \/ In(d, t)
    BY <1>3, <1>4, AppendIn
  <2>3. \A t \in Slots : In(Append(d, s), t) <=> q[t] = NULL /\ t > MaxEdicts
    BY <1>7, <1>8, <2>1, <2>2
  <2>4. Apart(d, b) /\ \A i \in 1 .. Len(b) : b[i] # s
    <3>1. b \in Seq(Slots)
      BY <1>5 DEF Threaded
    <3>2. \A i \in 1 .. Len(b) : b[i] \in Slots
      BY <3>1
    <3>3. \A i \in 1 .. Len(b) : b[i] # s /\ In(c, b[i])
      BY <1>6, <3>2 DEF In
    <3>4. \A i \in 1 .. Len(b) : ~In(d, b[i])
      BY <1>8, <3>2, <3>3
    <3> QED BY <3>3, <3>4 DEF Apart, In
  <2>5. /\ Threaded(AddedToTail(U, "free", s), "free", Append(d, s))
        /\ \A l2 \in Lists : \A x :
             /\ l2 # "free" /\ Threaded(U, l2, x) /\ Apart(d, x)
             /\ \A i \in 1 .. Len(x) : x[i] # s
             => Threaded(AddedToTail(U, "free", s), l2, x)
    BY <1>1, <1>4, <1>5, <1>9, AddChain
  <2>6. Threaded(AddedToTail(U, "free", s), "active", b)
    BY <1>1, <1>5, <2>4, <2>5
  <2> QED BY <1>10, <2>3, <2>5, <2>6 DEF Lined
<1> QED BY <1>11, <1>12 DEF s, U, q, b

\* EntityTable takes out a slot by its name, which is a place of the list.
LEMMA WithoutIsGap ==
  ASSUME NEW c \in Seq(Slots), NEW p \in 1 .. Len(c),
         \A j, k \in 1 .. Len(c) : c[j] = c[k] => j = k
  PROVE  Table!Without(c, c[p]) = Gap(c, p)
<1>1. DOMAIN c = 1 .. Len(c)
  OBVIOUS
<1>2. (CHOOSE k \in DOMAIN c : c[k] = c[p]) = p
  <2>1. \A k \in DOMAIN c : c[k] = c[p] <=> k = p
    BY <1>1
  <2>2. p \in DOMAIN c
    BY <1>1
  <2> QED BY <2>1, <2>2
<1> QED BY <1>2 DEF Table!Without, Gap

\* EntityTable's slots are those of the list.
LEMMA SameSlots == Table!Slots = Slots
BY DEF Table!Slots, Slots

\* The constructor's lists.
LEMMA InitChained == Init => Chained /\ Table!Init
<1> SUFFICES ASSUME Init PROVE Chained /\ Table!Init
  OBVIOUS
<1> DEFINE n == NumEntEntries - 1 - MaxEdicts
           d == [i \in 1 .. n |-> MaxEdicts + i]
           c == << >>
<1>1. n \in Nat /\ 1 <= n /\ MaxEdicts \in Nat /\ NumEntEntries \in Nat /\ NumEntEntries = n + 1 + MaxEdicts
  BY SlotsAssumption
<1>2. /\ links = InitialLinks /\ pEntity = [s \in Slots |-> NULL]
      /\ links.prev = [s \in Slots |-> IF s < MaxEdicts + 1 THEN s
                                ELSE IF s = MaxEdicts + 1 THEN NULL ELSE s - 1]
      /\ links.next = [s \in Slots |-> IF s < MaxEdicts + 1 THEN s
                                ELSE IF s = NumEntEntries - 1 THEN NULL ELSE s + 1]
      /\ links.head = [l \in Lists |-> IF l = "free" THEN MaxEdicts + 1 ELSE NULL]
      /\ links.tail = [l \in Lists |-> IF l = "free" THEN NumEntEntries - 1 ELSE NULL]
  BY DEF Init, InitialLinks
<1>3. \A i \in 1 .. n : MaxEdicts + i \in Slots
  BY <1>1 DEF Slots
<1> HIDE DEF n
<1>4. d \in Seq(Slots) /\ Len(d) = n
  <2>1. d \in [1 .. n -> Slots]
    BY <1>3
  <2> HIDE DEF d
  <2> QED BY <1>1, <2>1, Listing
<1>5. \A i \in 1 .. n : d[i] = MaxEdicts + i
  OBVIOUS
<1> HIDE DEF d
<1>6. Threaded(links, "free", d)
  <2>1. \A j, k \in 1 .. n : d[j] = d[k] => j = k
    BY <1>1, <1>5
  <2>2. n # 0 /\ 1 \in 1 .. n /\ n \in 1 .. n /\ d[1] = MaxEdicts + 1 /\ d[n] = NumEntEntries - 1
    BY <1>1, <1>5
  <2>3. links.head["free"] = d[1] /\ links.tail["free"] = d[n]
    BY <1>2, <2>2 DEF Lists
  <2>4. ASSUME NEW k \in 1 .. n
        PROVE  /\ links.next[d[k]] = IF k = n THEN NULL ELSE d[k + 1]
               /\ links.prev[d[k]] = IF k = 1 THEN NULL ELSE d[k - 1]
    <3>1. d[k] = MaxEdicts + k /\ MaxEdicts + k \in Slots /\ ~(MaxEdicts + k < MaxEdicts + 1)
      BY <1>1, <1>3, <1>5
    <3>2. links.next[d[k]] = IF MaxEdicts + k = NumEntEntries - 1 THEN NULL ELSE MaxEdicts + k + 1
      BY <1>2, <3>1
    <3>3. links.prev[d[k]] = IF d[k] = MaxEdicts + 1 THEN NULL ELSE d[k] - 1
      <4>1. \A t \in Slots : ~(t < MaxEdicts + 1) =>
              links.prev[t] = IF t = MaxEdicts + 1 THEN NULL ELSE t - 1
        BY <1>2
      <4>2. d[k] \in Slots /\ ~(d[k] < MaxEdicts + 1)
        BY <3>1
      <4> QED BY <4>1, <4>2
    <3>4. MaxEdicts + k = NumEntEntries - 1 <=> k = n
      BY <1>1
    <3>5. d[k] = MaxEdicts + 1 <=> k = 1
      BY <1>1, <3>1
    <3>6. k # n => d[k + 1] = MaxEdicts + k + 1
      <4>1. k # n => k + 1 \in 1 .. n
        BY <1>1
      <4> QED BY <1>1, <1>5, <4>1
    <3>7. k # 1 => d[k - 1] = d[k] - 1
      <4>1. k # 1 => k - 1 \in 1 .. n
        BY <1>1
      <4> DEFINE j == k - 1
                 t == MaxEdicts + k
      <4>2. MaxEdicts + j = t - 1 /\ d[k] = t
        BY <1>1, <3>1
      <4>3. k # 1 => j \in 1 .. n
        BY <4>1
      <4> HIDE DEF j, t
      <4>4. k # 1 => d[j] = MaxEdicts + j
        BY <1>5, <4>3
      <4>5. k # 1 => d[j] = d[k] - 1
        BY <4>2, <4>4
      <4> QED BY <4>5 DEF j
    <3> QED BY <3>2, <3>3, <3>4, <3>5, <3>6, <3>7
  <2> QED BY <1>4, <2>1, <2>2, <2>3, <2>4 DEF Threaded
<1>7. Threaded(links, "active", c)
  <2>1. links.head["active"] = NULL /\ links.tail["active"] = NULL
    BY <1>2 DEF Lists
  <2>2. c \in Seq(Slots) /\ Len(c) = 0 /\ 1 .. Len(c) = {}
    OBVIOUS
  <2> QED BY <2>1, <2>2 DEF Threaded
<1>8. Lined(links, c, d, pEntity)
  <2>1. \A s \in Slots : pEntity[s] = NULL
    BY <1>2
  <2>2. \A s \in Slots : ~In(c, s)
    BY DEF In
  <2>3. \A s \in Slots : In(d, s) <=> s > MaxEdicts
    <3> SUFFICES ASSUME NEW s \in Slots PROVE In(d, s) <=> s > MaxEdicts
      OBVIOUS
    <3>1. ASSUME NEW i \in 1 .. n, d[i] = s PROVE s > MaxEdicts
      BY <1>1, <1>5, <3>1
    <3>2. ASSUME s > MaxEdicts PROVE \E i \in 1 .. n : d[i] = s
      <4>1. s - MaxEdicts \in 1 .. n /\ MaxEdicts + (s - MaxEdicts) = s
        BY <1>1, <3>2 DEF Slots
      <4> QED BY <1>5, <4>1
    <3> QED BY <1>4, <3>1, <3>2 DEF In
  <2> QED BY <1>6, <1>7, <2>1, <2>2, <2>3 DEF Lined
<1>9. Chain("active") = c /\ Chain("free") = d
  BY <1>6, <1>7, MetAlong DEF Chain
<1>10. Chained
  BY <1>8, <1>9 DEF Chained
<1>11. Table!Init
  BY <1>2, <1>9, SameSlots DEF Table!Init, d, n
<1> QED BY <1>10, <1>11

\* An entity that has no slot yet is on none.
LEMMA UnlistedNowhere ==
  ASSUME IInv, NEW e \in Ents, Unlisted(e)
  PROVE  \A t \in Slots : pEntity[t] # e
<1>1. \A t \in Slots : pEntity[t] # NULL => refEHandle[pEntity[t]] = Handle(t, serial[t])
  BY DEF IInv, RefHandlesAgree
<1>2. \A t \in Slots : Handle(t, serial[t]) # INVALID
  BY HandleTypes DEF IInv, TypeOK
<1>3. e # NULL
  BY NullAssumption
<1> QED BY <1>1, <1>2, <1>3 DEF Unlisted

\* AddNetworkableEntity is EntityTable's.
LEMMA AddNetworkableMaps ==
  ASSUME IInv, Chained, NEW e \in Ents, NEW s \in Slots, NEW n \in Serials,
         AddNetworkableEntity(e, s, n)
  PROVE  Chained' /\ Table!AddNetworkable(s, e)
<1> DEFINE c == Chain("active")
           d == Chain("free")
<1>1. /\ s < MaxEdicts /\ pEntity[s] = NULL /\ Unlisted(e)
      /\ pEntity' = [pEntity EXCEPT ![s] = e]
      /\ links' = AddedToTail(links, "active", s)
  BY DEF AddNetworkableEntity, AddEntityAtSlot
<1>2. pEntity \in [Slots -> Ents \cup {NULL}] /\ links \in Links
  BY DEF IInv, TypeOK
<1>3. links.prev[s] = s
  <2>1. Membership[s] = "none"
    BY <1>1, SlotsAssumption DEF Membership, Slots
  <2> QED BY <2>1 DEF IInv, ListsSound, Threads
<1>4. Lined(links, c, d, pEntity)
  BY DEF Chained
<1> HIDE DEF c, d
<1>5. /\ Threaded(links, "active", c) /\ Threaded(links, "free", d) /\ Apart(c, d)
      /\ \A t \in Slots : In(c, t) <=> pEntity[t] # NULL
      /\ \A t \in Slots : In(d, t) <=> pEntity[t] = NULL /\ t > MaxEdicts
  BY <1>4, ChainsApart DEF Lined
<1>6. ~In(c, s) /\ ~In(d, s)
  <2>1. ~(s > MaxEdicts)
    BY <1>1, SlotsAssumption DEF Slots
  <2> QED BY <1>1, <1>5, <2>1
<1>7. Lined(AddedToTail(links, "active", s), Append(c, s), d, [pEntity EXCEPT ![s] = e])
  BY <1>2, <1>3, <1>5, <1>6, LinedByAdd
<1>8. Chain("active")' = Append(c, s) /\ Chain("free")' = d /\ Chained'
  BY <1>1, <1>7, ChainsFollow
<1>9. Table!Occupy(s, e)
  <2>1. \A t \in Slots : pEntity[t] # e
    BY <1>1, UnlistedNowhere
  <2> QED BY <1>1, <1>8, <2>1, SameSlots DEF Table!Occupy, c
<1> QED BY <1>1, <1>8, <1>9 DEF Table!AddNetworkable, d

\* AddNonNetworkableEntity takes the head of the free list, as EntityTable does.
LEMMA AddNonNetworkableMaps ==
  ASSUME IInv, Chained, NEW e \in Ents, AddNonNetworkableEntity(e)
  PROVE  Chained' /\ Table!AddNonNetworkable(e)
<1> DEFINE c == Chain("active")
           d == Chain("free")
           s == links.head["free"]
           U == Unlinked(links, "free", s)
<1>1. /\ s # NULL /\ Unlisted(e)
      /\ pEntity' = [pEntity EXCEPT ![s] = e]
      /\ links' = AddedToTail(U, "active", s)
  BY DEF AddNonNetworkableEntity, AddEntityAtSlot
<1>2. pEntity \in [Slots -> Ents \cup {NULL}] /\ links \in Links
  BY DEF IInv, TypeOK
<1>3. Lined(links, c, d, pEntity)
  BY DEF Chained
<1> HIDE DEF c, d, U
<1>4. /\ Threaded(links, "active", c) /\ Threaded(links, "free", d) /\ Apart(d, c)
      /\ \A t \in Slots : In(c, t) <=> pEntity[t] # NULL
      /\ \A t \in Slots : In(d, t) <=> pEntity[t] = NULL /\ t > MaxEdicts
  BY <1>3, ChainsApart DEF Lined
<1>5. d \in Seq(Slots) /\ Len(d) # 0 /\ s = d[1]
  BY <1>1, <1>4 DEF Threaded
<1>6. 1 \in 1 .. Len(d) /\ d # << >> /\ Head(d) = s /\ s \in Slots
  BY <1>5
<1>7. In(d, s)
  BY <1>5, <1>6 DEF In
<1>8. "active" \in Lists /\ "free" \in Lists /\ "free" # "active"
  BY DEF Lists
<1>9. /\ U \in Links /\ U.prev[s] = s /\ Threaded(U, "free", Gap(d, 1))
      /\ Threaded(U, "active", c)
  <2>1. /\ Unlinked(links, "free", d[1]) \in Links
        /\ Unlinked(links, "free", d[1]).prev[d[1]] = d[1]
        /\ Threaded(Unlinked(links, "free", d[1]), "free", Gap(d, 1))
        /\ \A l2 \in Lists : \A x :
             l2 # "free" /\ Threaded(links, l2, x) /\ Apart(d, x) =>
               Threaded(Unlinked(links, "free", d[1]), l2, x)
    <3> HIDE DEF s
    <3> QED BY <1>2, <1>4, <1>6, <1>8, UnlinkChain
  <2> QED BY <1>4, <1>5, <1>8, <2>1 DEF U
<1>10. /\ Gap(d, 1) \in Seq(Slots)
       /\ \A t \in Slots : In(Gap(d, 1), t) <=> t # d[1] /\ In(d, t)
  <2>1. \A j, k \in 1 .. Len(d) : d[j] = d[k] => j = k
    BY <1>4 DEF Threaded
  <2> HIDE DEF s
  <2> QED BY <1>5, <1>6, <2>1, GapShape
<1>11. Gap(d, 1) = Tail(d)
  <2>1. Tail(d) \in Seq(Slots) /\ Len(Tail(d)) = Len(d) - 1
    BY <1>5, <1>6
  <2>2. \A k \in 1 .. Len(Tail(d)) : Tail(d)[k] = d[k + 1]
    BY <1>5, <1>6
  <2>3. \A k \in 1 .. Len(d) - 1 : ~(k < 1) /\ Tail(d)[k] = d[k + 1]
    BY <1>5, <2>1, <2>2
  <2>4. Tail(d) = [k \in 1 .. Len(d) - 1 |-> Tail(d)[k]]
    <3> DEFINE b == Tail(d)
               m == Len(d) - 1
    <3>1. b \in Seq(Slots) /\ Len(b) = m
      BY <2>1
    <3> HIDE DEF b, m
    <3>2. b = [k \in 1 .. m |-> b[k]]
      BY <3>1
    <3> QED BY <3>2 DEF b, m
  <2> QED BY <2>3, <2>4 DEF Gap
<1> HIDE DEF s
<1>12. Apart(c, Gap(d, 1)) /\ ~In(c, s) /\ ~In(Gap(d, 1), s)
  <2>1. \A t \in Slots : ~(In(c, t) /\ In(Gap(d, 1), t))
    BY <1>4, <1>10
  <2>2. \A k \in 1 .. Len(c) : c[k] \in Slots
    BY <1>4 DEF Threaded
  <2>3. \A k \in 1 .. Len(c) : ~In(Gap(d, 1), c[k])
    BY <2>1, <2>2 DEF In
  <2>4. Apart(c, Gap(d, 1))
    BY <2>3 DEF Apart, In
  <2> QED BY <1>4, <1>5, <1>6, <1>7, <1>10, <2>4
<1>13. /\ \A t \in Slots \ {s} : In(c, t) <=> pEntity[t] # NULL
       /\ \A t \in Slots \ {s} : In(Gap(d, 1), t) <=> pEntity[t] = NULL /\ t > MaxEdicts
  BY <1>4, <1>5, <1>10
<1>14. Lined(AddedToTail(U, "active", s), Append(c, s), Gap(d, 1), [pEntity EXCEPT ![s] = e])
  BY <1>2, <1>6, <1>9, <1>12, <1>13, LinedByAdd
<1>15. Chain("active")' = Append(c, s) /\ Chain("free")' = Gap(d, 1) /\ Chained'
  BY <1>1, <1>14, ChainsFollow
<1>16. Table!Occupy(Head(d), e)
  <2>1. \A t \in Slots : pEntity[t] # e
    BY <1>1, UnlistedNowhere
  <2>2. pEntity[s] = NULL
    BY <1>4, <1>6, <1>7
  <2> QED BY <1>1, <1>6, <1>15, <2>1, <2>2, SameSlots DEF Table!Occupy, c
<1> QED BY <1>6, <1>11, <1>15, <1>16 DEF Table!AddNonNetworkable, d

\* A step that leaves the slots and the links alone changes nothing of the table.
LEMMA StutterMaps ==
  ASSUME Chained, UNCHANGED <<pEntity, links>>
  PROVE  Chained' /\ UNCHANGED Table!vars
<1> DEFINE c == Chain("active")
           d == Chain("free")
<1>1. Lined(links, c, d, pEntity)
  BY DEF Chained
<1> HIDE DEF c, d
<1>2. Chain("active")' = c /\ Chain("free")' = d /\ Chained'
  BY <1>1, ChainsFollow
<1> QED BY <1>2 DEF Table!vars, c, d

\* ~CBaseEntity removes the slot of its entity, or does nothing to the table.
LEMMA DestroyMaps ==
  ASSUME IInv, Chained, NEW e \in Ents, Destroy(e)
  PROVE  Chained' /\ [Table!Next]_(Table!vars)
<1> DEFINE c == Chain("active")
           d == Chain("free")
           s == refEHandle[e].entry
           U == Unlinked(links, "active", s)
<1>1. s \in Slots
  BY SlotsAssumption DEF IInv, TypeOK, Handles, INVALID, Handle, Slots
<1>2. CASE pEntity[s] = NULL
  <2>1. UNCHANGED <<pEntity, links>>
    BY <1>2 DEF Destroy, RemoveEntityAtSlot, Occupied
  <2> QED BY <2>1, StutterMaps
<1>3. CASE pEntity[s] # NULL
  <2>1. /\ pEntity' = [pEntity EXCEPT ![s] = NULL]
        /\ links' = IF s >= MaxEdicts THEN AddedToTail(U, "free", s) ELSE U
    BY <1>3 DEF Destroy, RemoveEntityAtSlot, Occupied
  <2>2. s # MaxEdicts /\ pEntity \in [Slots -> Ents \cup {NULL}] /\ links \in Links
    BY <1>3 DEF IInv, ListsSound, TypeOK
  <2>3. Lined(links, c, d, pEntity)
    BY DEF Chained
  <2> HIDE DEF c, d, s, U
  <2>4. In(c, s) /\ c \in Seq(Slots) /\ \A j, k \in 1 .. Len(c) : c[j] = c[k] => j = k
    BY <1>1, <1>3, <2>3 DEF Lined, Threaded
  <2>5. PICK k \in 1 .. Len(c) : c[k] = s
    BY <2>4 DEF In
  <2>6. /\ s < MaxEdicts => Lined(U, Gap(c, k), d, [pEntity EXCEPT ![s] = NULL])
        /\ s >= MaxEdicts => Lined(AddedToTail(U, "free", s), Gap(c, k), Append(d, s),
                                   [pEntity EXCEPT ![s] = NULL])
    BY <2>2, <2>3, <2>5, LinedByRemove DEF U
  <2>7. Table!Without(c, s) = Gap(c, k)
    BY <2>4, <2>5, WithoutIsGap
  <2>8. Chained' /\ Table!Remove(s)
    <3>1. CASE s < MaxEdicts
      <4>1. ~(s >= MaxEdicts)
        BY <1>1, <3>1, SlotsAssumption DEF Slots
      <4>2. Lined(links', Gap(c, k), d, pEntity')
        BY <2>1, <2>6, <3>1, <4>1
      <4>3. Chain("active")' = Gap(c, k) /\ Chain("free")' = d /\ Chained'
        BY <4>2, ChainsFollow
      <4> QED BY <1>3, <2>1, <2>7, <3>1, <4>3 DEF Table!Remove, c, d
    <3>2. CASE s >= MaxEdicts
      <4>1. ~(s < MaxEdicts)
        BY <1>1, <3>2, SlotsAssumption DEF Slots
      <4>2. Lined(links', Gap(c, k), Append(d, s), pEntity')
        BY <2>1, <2>6, <3>2
      <4>3. Chain("active")' = Gap(c, k) /\ Chain("free")' = Append(d, s) /\ Chained'
        BY <4>2, ChainsFollow
      <4> QED BY <1>3, <2>1, <2>7, <4>1, <4>3 DEF Table!Remove, c, d
    <3> QED BY <1>1, <3>1, <3>2, SlotsAssumption DEF Slots
  <2> QED BY <1>1, <2>8, SameSlots DEF Table!Next
<1> QED BY <1>2, <1>3

\* Every step of the list is one of EntityTable, or none.
LEMMA StepMapsTable ==
  IInv /\ Chained /\ [Next]_vars => Chained' /\ [Table!Next]_(Table!vars)
<1> SUFFICES ASSUME IInv, Chained, [Next]_vars
             PROVE  Chained' /\ [Table!Next]_(Table!vars)
  OBVIOUS
<1>1. CASE \E e \in Ents, s \in Slots, n \in Serials : AddNetworkableEntity(e, s, n)
  <2>1. PICK e \in Ents, s \in Slots, n \in Serials : AddNetworkableEntity(e, s, n)
    BY <1>1
  <2>2. Chained' /\ Table!AddNetworkable(s, e)
    BY <2>1, AddNetworkableMaps
  <2> QED BY <2>2, SameSlots DEF Table!Next
<1>2. CASE \E e \in Ents : AddNonNetworkableEntity(e)
  <2>1. PICK e \in Ents : AddNonNetworkableEntity(e)
    BY <1>2
  <2>2. Chained' /\ Table!AddNonNetworkable(e)
    BY <2>1, AddNonNetworkableMaps
  <2> QED BY <2>2 DEF Table!Next
<1>3. CASE \E e \in Ents : Destroy(e)
  BY <1>3, DestroyMaps
<1>4. CASE Clear \/ (\E e \in Ents : Construct(e) \/ TakeHandle(e)) \/ Iterate \/ UNCHANGED vars
  <2>1. UNCHANGED <<pEntity, links>>
    BY <1>4 DEF Clear, Construct, TakeHandle, Iterate, LoopStart, LoopNext, LoopEnd, vars
  <2> QED BY <2>1, StutterMaps
<1> QED BY <1>1, <1>2, <1>3, <1>4 DEF Next, Mutate

\* CBaseEntityList iterates over the entities in the order they were added, and
\* reuses the slot that has been vacant longest, for every instance: its linked
\* lists, met from head to tail, are EntityTable's order and queue.
THEOREM ListImplementsTable == Spec => ImplementsTable
<1>1. Init => IInv /\ Chained /\ Table!Init
  BY InitInv, InitChained
<1>2. IInv /\ Chained /\ [Next]_vars => IInv' /\ Chained' /\ [Table!Next]_(Table!vars)
  BY NextInv, StepMapsTable
<1> QED BY <1>1, <1>2, PTL DEF Spec, ImplementsTable, Table!Spec
=============================================================================
