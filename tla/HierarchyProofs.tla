--------------------------- MODULE HierarchyProofs ---------------------------
(***************************************************************************)
(* Hierarchy, for any number of entities. The argument is about the set    *)
(* that a walk over a list meets: it is the least set that holds the list, *)
(* and each operation on the links adds one entity to it, takes one out or *)
(* leaves it alone. No induction over the list is needed.                  *)
(***************************************************************************)
EXTENDS Hierarchy, TLAPS

Links == [Ents -> Ents \cup {NULL}]

-----------------------------------------------------------------------------
(* What a walk meets.                                                      *)

\* The walk itself holds the list.
LEMMA WalkHolds ==
  ASSUME NEW child \in Links, NEW peer \in Links, NEW p \in Ents
  PROVE  /\ Walk(child, peer, p) \in SUBSET Ents
         /\ HoldsList(child, peer, Walk(child, peer, p), p)
BY DEF Walk, HoldsList, Links

\* It is the least set that does.
LEMMA WalkLeast ==
  ASSUME NEW child, NEW peer, NEW p \in Ents, NEW S \in SUBSET Ents,
         HoldsList(child, peer, S, p)
  PROVE  Walk(child, peer, p) \subseteq S
BY DEF Walk

\* What an operation does to the list of p: nothing, c taken out, c put first.
Same(child, peer, child2, peer2, p) ==
  /\ child2[p] = child[p]
  /\ \A s \in Walk(child, peer, p) : peer2[s] = peer[s]

Cut(child, peer, child2, peer2, p, c) ==
  /\ c \in Walk(child, peer, p)
  /\ child2[p] = (IF child[p] = c THEN peer[c] ELSE child[p])
  /\ \A s \in Walk(child, peer, p) \ {c} :
       peer2[s] = (IF peer[s] = c THEN peer[c] ELSE peer[s])

Added(child, peer, child2, peer2, p, c) ==
  /\ c \in Ents \ Walk(child, peer, p)
  /\ child2[p] = c /\ peer2[c] = child[p]
  /\ \A s \in Walk(child, peer, p) : peer2[s] = peer[s]

\* No two links of the list of p lead to the same child.
Unique(child, peer, p) ==
  \A c \in Walk(child, peer, p) :
    peer[c] # NULL => /\ peer[c] # child[p]
                      /\ \A d \in Walk(child, peer, p) \ {c} : peer[c] # peer[d]

\* Links outside the list do not matter.
LEMMA SameWalk ==
  ASSUME NEW child \in Links, NEW peer \in Links, NEW p \in Ents,
         NEW child2 \in Links, NEW peer2 \in Links,
         Same(child, peer, child2, peer2, p)
  PROVE  Walk(child2, peer2, p) = Walk(child, peer, p)
<1> DEFINE W == Walk(child, peer, p)
<1> DEFINE W2 == Walk(child2, peer2, p)
<1>1. W \in SUBSET Ents /\ HoldsList(child, peer, W, p)
  BY WalkHolds
<1>2. W2 \in SUBSET Ents /\ HoldsList(child2, peer2, W2, p)
  BY WalkHolds
<1>3. HoldsList(child2, peer2, W, p)
  BY <1>1 DEF HoldsList, Same
<1>4. W2 \subseteq W
  BY <1>1, <1>3, WalkLeast
<1>5. HoldsList(child, peer, W2, p)
  BY <1>2, <1>4 DEF HoldsList, Same
<1>6. W \subseteq W2
  BY <1>2, <1>5, WalkLeast
<1> QED
  BY <1>4, <1>6

\* Leading every link that leads to c on to the next child takes c out.
LEMMA CutWalk ==
  ASSUME NEW child \in Links, NEW peer \in Links, NEW p \in Ents,
         NEW child2 \in Links, NEW peer2 \in Links,
         NEW c \in Ents, Unique(child, peer, p),
         Cut(child, peer, child2, peer2, p, c)
  PROVE  Walk(child2, peer2, p) = Walk(child, peer, p) \ {c}
<1> DEFINE W == Walk(child, peer, p)
<1> DEFINE W2 == Walk(child2, peer2, p)
<1>1. W \in SUBSET Ents /\ HoldsList(child, peer, W, p)
  BY WalkHolds
<1>2. W2 \in SUBSET Ents /\ HoldsList(child2, peer2, W2, p)
  BY WalkHolds
<1>0. peer[c] # c
  <2>1. SUFFICES ASSUME peer[c] = c PROVE FALSE
    OBVIOUS
  <2>2. HoldsList(child, peer, W \ {c}, p)
    BY <1>1, <2>1, NullAssumption DEF HoldsList, Cut, Unique
  <2> QED
    BY <1>1, <2>2, WalkLeast DEF Cut
<1>3. HoldsList(child2, peer2, W \ {c}, p)
  BY <1>0, <1>1 DEF HoldsList, Cut, Unique
<1>4. W2 \subseteq W \ {c}
  BY <1>1, <1>3, WalkLeast
<1> DEFINE T == IF child[p] = c \/ (\E s \in W2 : peer[s] = c) THEN W2 \cup {c} ELSE W2
<1>5. T \in SUBSET Ents
  BY <1>1, <1>2
<1>6. HoldsList(child, peer, T, p)
  <2>1. child[p] \in T \cup {NULL}
    BY <1>2 DEF HoldsList, Cut, Unique
  <2>2. ASSUME NEW s \in W2 PROVE peer[s] \in T \cup {NULL}
    BY <1>2, <1>4, <2>2 DEF HoldsList, Cut, Unique
  <2>3. c \in T => peer[c] \in T \cup {NULL}
    BY <1>2, <1>4 DEF HoldsList, Cut, Unique
  <2> QED
    BY <2>1, <2>2, <2>3 DEF HoldsList, Cut, Unique
<1>7. W \subseteq T
  BY <1>5, <1>6, WalkLeast
<1> QED
  BY <1>4, <1>7

\* A new first child comes to the walk.
LEMMA AddWalk ==
  ASSUME NEW child \in Links, NEW peer \in Links, NEW p \in Ents,
         NEW child2 \in Links, NEW peer2 \in Links, NEW c \in Ents,
         Added(child, peer, child2, peer2, p, c)
  PROVE  Walk(child2, peer2, p) = Walk(child, peer, p) \cup {c}
<1> DEFINE W == Walk(child, peer, p)
<1> DEFINE W2 == Walk(child2, peer2, p)
<1>1. W \in SUBSET Ents /\ HoldsList(child, peer, W, p)
  BY WalkHolds
<1>2. W2 \in SUBSET Ents /\ HoldsList(child2, peer2, W2, p)
  BY WalkHolds
<1>3. HoldsList(child2, peer2, W \cup {c}, p)
  BY <1>1 DEF HoldsList, Added
<1>4. W2 \subseteq W \cup {c}
  BY <1>1, <1>3, WalkLeast
<1>5. c \in W2
  BY <1>2, NullAssumption DEF HoldsList, Added
<1>6. HoldsList(child, peer, W2 \cap W, p)
  BY <1>1, <1>2, <1>5 DEF HoldsList, Added
<1>7. W \subseteq W2
  BY <1>1, <1>6, WalkLeast
<1> QED
  BY <1>4, <1>5, <1>7

-----------------------------------------------------------------------------
(* The lists as a whole: ListsSound with the links as arguments.           *)

Sound(child, peer, parent) ==
  \A p \in Ents : /\ \A c \in Walk(child, peer, p) : parent[c] = p
                 /\ Unique(child, peer, p)

LEMMA SoundIsListsSound == ListsSound <=> Sound(moveChild, movePeer, moveParent)
BY DEF ListsSound, Sound, Unique, Listed

\* The links after UnlinkFromParent(c) and after LinkChild(q, c).
CutLinks(child, peer, parent, child2, peer2, parent2, q, c) ==
  /\ child2 = [child EXCEPT ![q] = IF child[q] = c THEN peer[c] ELSE child[q]]
  /\ \A s \in Ents : peer2[s] =
       (IF s = c THEN NULL
        ELSE IF s \in Walk(child, peer, q) /\ peer[s] = c THEN peer[c] ELSE peer[s])
  /\ parent2 = [parent EXCEPT ![c] = NULL]

AddLinks(child, peer, parent, child2, peer2, parent2, q, c) ==
  /\ child2 = [child EXCEPT ![q] = c]
  /\ peer2 = [peer EXCEPT ![c] = child[q]]
  /\ parent2 = [parent EXCEPT ![c] = q]

InNoList(child, peer, c) == \A p \in Ents : c \notin Walk(child, peer, p)

\* Taking c out of the list of its parent q.
LEMMA CutSound ==
  ASSUME NEW child \in Links, NEW peer \in Links, NEW parent \in Links,
         Sound(child, peer, parent),
         NEW q \in Ents, NEW c \in Walk(child, peer, q),
         NEW child2 \in Links, NEW peer2 \in Links, NEW parent2 \in Links,
         CutLinks(child, peer, parent, child2, peer2, parent2, q, c)
  PROVE  /\ \A p \in Ents : Walk(child2, peer2, p) = Walk(child, peer, p) \ {c}
         /\ Sound(child2, peer2, parent2)
<1> DEFINE W(p) == Walk(child, peer, p)
<1> DEFINE W2(p) == Walk(child2, peer2, p)
<1>0. /\ child2 = [child EXCEPT ![q] = IF child[q] = c THEN peer[c] ELSE child[q]]
      /\ \A s \in Ents : peer2[s] =
           (IF s = c THEN NULL
            ELSE IF s \in W(q) /\ peer[s] = c THEN peer[c] ELSE peer[s])
      /\ parent2 = [parent EXCEPT ![c] = NULL]
  BY DEF CutLinks
<1>1. \A p \in Ents : W(p) \in SUBSET Ents /\ HoldsList(child, peer, W(p), p)
  BY WalkHolds
<1>2. W2(q) = W(q) \ {c}
  <2>1. child2[q] = (IF child[q] = c THEN peer[c] ELSE child[q])
    BY <1>0 DEF Links
  <2>2. \A s \in W(q) \ {c} : peer2[s] = (IF peer[s] = c THEN peer[c] ELSE peer[s])
    BY <1>0, <1>1
  <2>3. Unique(child, peer, q) /\ c \in Ents
    BY <1>1 DEF Sound, Unique
  <2>4. Cut(child, peer, child2, peer2, q, c)
    BY <2>1, <2>2 DEF Cut
  <2> QED
    BY <2>3, <2>4, CutWalk
<1>3. ASSUME NEW p \in Ents, p # q PROVE W2(p) = W(p) /\ c \notin W(p)
  <2>1. c \notin W(p)
    BY <1>3 DEF Sound, Unique
  <2>2. W(p) \cap W(q) = {}
    BY <1>3 DEF Sound, Unique
  <2>3. child2[p] = child[p]
    BY <1>0, <1>3 DEF Links
  <2>4. \A s \in W(p) : peer2[s] = peer[s]
    BY <1>0, <1>1, <2>1, <2>2
  <2>5. Same(child, peer, child2, peer2, p)
    BY <2>3, <2>4 DEF Same
  <2> QED
    BY <2>1, <2>5, SameWalk
<1>4. \A p \in Ents : W2(p) = W(p) \ {c}
  BY <1>2, <1>3
<1>5. ASSUME NEW p \in Ents, NEW s \in W2(p)
      PROVE  /\ parent2[s] = p
             /\ peer2[s] # NULL => /\ peer2[s] # child2[p]
                                   /\ \A d \in W2(p) \ {s} : peer2[s] # peer2[d]
  <2>1. s \in W(p) /\ s # c /\ s \in Ents
    BY <1>1, <1>4
  <2>2. parent2[s] = p
    BY <1>0, <2>1 DEF Sound, Unique, Links
  <2>3. CASE p # q
    <3>1. W2(p) = W(p) /\ child2[p] = child[p]
      BY <1>0, <1>3, <2>3 DEF Links
    <3>2. \A d \in W(p) : peer2[d] = peer[d]
      BY <1>0, <1>1, <1>3, <2>3 DEF Sound, Unique
    <3> QED
      BY <2>1, <2>2, <3>1, <3>2 DEF Sound, Unique
  <2>4. CASE p = q
    <3>1. \A d \in W2(q) : d \in W(q) /\ d # c
                          /\ peer2[d] = IF peer[d] = c THEN peer[c] ELSE peer[d]
      BY <1>0, <1>1, <1>2
    <3>2. child2[q] = (IF child[q] = c THEN peer[c] ELSE child[q])
      BY <1>0 DEF Links
    <3>3. \A d, e \in W(q) : d # e /\ peer[d] # NULL => peer[d] # peer[e]
      BY DEF Sound, Unique
    <3>4. \A d \in W(q) : peer[d] # NULL => peer[d] # child[q]
      BY DEF Sound, Unique
    <3>5. c \in Ents /\ c # NULL
      BY <1>1, NullAssumption
    <3>6. peer2[s] # NULL => peer2[s] # child2[q]
      BY <2>1, <2>4, <3>1, <3>2, <3>3, <3>4, <3>5
    <3>7. ASSUME NEW d \in W2(q) \ {s}, peer2[s] # NULL PROVE peer2[s] # peer2[d]
      BY <2>1, <2>4, <3>1, <3>3, <3>5, <3>7
    <3> QED
      BY <2>2, <2>4, <3>6, <3>7
  <2> QED
    BY <2>3, <2>4
<1> QED
  BY <1>4, <1>5 DEF Sound, Unique

\* Putting an entity that is in no list at the head of the list of q.
LEMMA AddSound ==
  ASSUME NEW child \in Links, NEW peer \in Links, NEW parent \in Links,
         Sound(child, peer, parent), NEW q \in Ents, NEW c \in Ents,
         InNoList(child, peer, c), NEW child2, NEW peer2, NEW parent2,
         AddLinks(child, peer, parent, child2, peer2, parent2, q, c)
  PROVE  /\ child2 \in Links /\ peer2 \in Links /\ parent2 \in Links
         /\ \A p \in Ents : Walk(child2, peer2, p) =
              IF p = q THEN Walk(child, peer, p) \cup {c} ELSE Walk(child, peer, p)
         /\ Sound(child2, peer2, parent2)
<1> DEFINE W(p) == Walk(child, peer, p)
<1> DEFINE W2(p) == Walk(child2, peer2, p)
<1>0. child2 \in Links /\ peer2 \in Links /\ parent2 \in Links
  BY DEF AddLinks, Links
<1>1. \A p \in Ents : W(p) \in SUBSET Ents /\ HoldsList(child, peer, W(p), p)
  BY WalkHolds
<1>2. child2[q] = c /\ peer2[c] = child[q] /\ \A s \in Ents \ {c} : peer2[s] = peer[s]
  BY DEF AddLinks, Links
<1>3. W2(q) = W(q) \cup {c}
  <2>1. Added(child, peer, child2, peer2, q, c)
    BY <1>1, <1>2 DEF Added, InNoList
  <2> QED
    BY <1>0, <2>1, AddWalk
<1>4. ASSUME NEW p \in Ents, p # q PROVE W2(p) = W(p)
  <2>1. child2[p] = child[p]
    BY <1>4 DEF AddLinks, Links
  <2>2. Same(child, peer, child2, peer2, p)
    BY <1>1, <1>2, <2>1 DEF Same, InNoList
  <2> QED
    BY <1>0, <2>2, SameWalk
<1>5. ASSUME NEW p \in Ents, NEW s \in W2(p)
      PROVE  /\ parent2[s] = p
             /\ peer2[s] # NULL => /\ peer2[s] # child2[p]
                                   /\ \A d \in W2(p) \ {s} : peer2[s] # peer2[d]
  <2>1. CASE p # q
    <3>1. W2(p) = W(p) /\ child2[p] = child[p] /\ s \in W(p) /\ s # c /\ s \in Ents
      BY <1>1, <1>4, <2>1 DEF AddLinks, InNoList, Links
    <3>2. \A d \in W(p) : peer2[d] = peer[d]
      BY <1>1, <1>2 DEF InNoList
    <3>3. parent2[s] = parent[s]
      BY <3>1 DEF AddLinks, Links
    <3> QED
      BY <3>1, <3>2, <3>3 DEF Sound, Unique
  <2>2. CASE p = q
    <3>1. \A d \in W(q) : peer2[d] = peer[d] /\ d # c /\ parent2[d] = q
      BY <1>1, <1>2 DEF AddLinks, InNoList, Links, Sound, Unique
    <3>2. parent2[c] = q
      BY DEF AddLinks, Links
    <3>3. \A d \in W(q) : peer[d] # c /\ (peer[d] # NULL => peer[d] # child[q])
      BY <1>1, NullAssumption DEF HoldsList, InNoList, Sound, Unique
    <3>4. child[q] # c
      BY <1>1, NullAssumption DEF HoldsList, InNoList
    <3>5. \A d, e \in W(q) : d # e /\ peer[d] # NULL => peer[d] # peer[e]
      BY DEF Sound, Unique
    <3>6. CASE s = c
      BY <1>2, <1>3, <2>2, <3>1, <3>2, <3>3, <3>4, <3>6
    <3>7. CASE s # c
      <4>1. s \in W(q)
        BY <1>3, <2>2, <3>7
      <4>2. parent2[s] = p /\ peer2[s] = peer[s] /\ peer[s] # c
        BY <2>2, <3>1, <3>3, <4>1
      <4>3. peer2[s] # NULL => peer2[s] # child2[p]
        BY <1>2, <2>2, <4>2
      <4>4. ASSUME NEW d \in W2(p) \ {s}, peer2[s] # NULL PROVE peer2[s] # peer2[d]
        <5>1. CASE d = c
          BY <1>2, <2>2, <3>3, <4>1, <4>2, <4>4, <5>1
        <5>2. CASE d # c
          <6>1. d \in W(q) /\ peer2[d] = peer[d]
            BY <1>3, <2>2, <3>1, <4>4, <5>2
          <6> QED
            BY <3>5, <4>1, <4>2, <4>4, <6>1
        <5> QED
          BY <5>1, <5>2
      <4> QED
        BY <4>2, <4>3, <4>4
    <3> QED
      BY <3>6, <3>7
  <2> QED
    BY <2>1, <2>2
<1> QED
  BY <1>0, <1>3, <1>4, <1>5 DEF Sound, Unique

\* Forgetting the entities D cuts lists off, and changes none that has no
\* entity of D.
LEMMA ForgetSound ==
  ASSUME NEW child \in Links, NEW peer \in Links, NEW parent \in Links,
         Sound(child, peer, parent), NEW D \in SUBSET Ents
  PROVE  LET child2 == Forget(child, D)
             peer2 == Forget(peer, D)
             parent2 == Forget(parent, D)
         IN  /\ child2 \in Links /\ peer2 \in Links /\ parent2 \in Links
             /\ \A p \in Ents : Walk(child2, peer2, p) \subseteq Walk(child, peer, p) \ D
             /\ \A p \in Ents \ D : Walk(child, peer, p) \cap D = {}
                                   => Walk(child2, peer2, p) = Walk(child, peer, p)
             /\ Sound(child2, peer2, parent2)
<1> DEFINE child2 == Forget(child, D)
<1> DEFINE peer2 == Forget(peer, D)
<1> DEFINE parent2 == Forget(parent, D)
<1> DEFINE W(p) == Walk(child, peer, p)
<1> DEFINE W2(p) == Walk(child2, peer2, p)
<1>0. child2 \in Links /\ peer2 \in Links /\ parent2 \in Links
  BY DEF Forget, Links
<1>a. \A e \in Ents : /\ child2[e] = (IF e \in D \/ child[e] \in D THEN NULL ELSE child[e])
                     /\ peer2[e] = (IF e \in D \/ peer[e] \in D THEN NULL ELSE peer[e])
                     /\ parent2[e] = (IF e \in D \/ parent[e] \in D THEN NULL ELSE parent[e])
  BY DEF Forget
<1> HIDE DEF child2, peer2, parent2
<1>1. \A p \in Ents : W(p) \in SUBSET Ents /\ HoldsList(child, peer, W(p), p)
  BY WalkHolds
<1>2. ASSUME NEW p \in Ents PROVE W2(p) \subseteq W(p) \ D
  <2>1. HoldsList(child2, peer2, W(p) \ D, p)
    BY <1>1, <1>a DEF HoldsList
  <2> QED
    BY <1>1, <2>1, WalkLeast
<1>3. ASSUME NEW p \in Ents \ D PROVE W(p) \cap D = {} => W2(p) = W(p)
  <2>1. SUFFICES ASSUME W(p) \cap D = {} PROVE W2(p) = W(p)
    OBVIOUS
  <2>2. Same(child, peer, child2, peer2, p)
    BY <1>1, <1>a, <2>1 DEF Same, HoldsList
  <2> QED
    BY <1>0, <2>2, SameWalk
<1>4. ASSUME NEW p \in Ents PROVE (\A c \in W2(p) : parent2[c] = p) /\ Unique(child2, peer2, p)
  <2>1. CASE p \in D
    <3>1. HoldsList(child2, peer2, {}, p)
      BY <1>a, <2>1 DEF HoldsList
    <3>2. W2(p) = {}
      BY <3>1, WalkLeast
    <3> QED
      BY <3>2 DEF Unique
  <2>2. CASE p \notin D
    <3>1. \A c \in W2(p) : c \in W(p) /\ c \in Ents \ D
      BY <1>1, <1>2
    <3>2. \A c \in W2(p) : parent2[c] = p
      BY <1>a, <2>2, <3>1 DEF Sound
    <3>3. \A c \in W2(p) : peer2[c] \in {peer[c], NULL}
      BY <1>a, <3>1
    <3>4. child2[p] \in {child[p], NULL}
      BY <1>a
    <3>5. Unique(child, peer, p)
      BY DEF Sound
    <3>6. Unique(child2, peer2, p)
      BY <3>1, <3>3, <3>4, <3>5 DEF Unique
    <3> QED
      BY <3>2, <3>6
  <2> QED
    BY <2>1, <2>2
<1>5. Sound(child2, peer2, parent2)
  BY <1>4 DEF Sound
<1> QED
  BY <1>0, <1>2, <1>3, <1>5 DEF child2, peer2, parent2

-----------------------------------------------------------------------------
(* What the operations do to the links and to the lists.                   *)

LinksTyped ==
  moveChild \in Links /\ movePeer \in Links /\ moveParent \in Links

\* UnlinkFromParent takes c out of the list it is in, if any.
LEMMA WithoutSound ==
  ASSUME LinksTyped, ListsSound, NEW c \in Ents
  PROVE  /\ ChildWithout(c) \in Links /\ PeerWithout(c) \in Links /\ ParentWithout(c) \in Links
         /\ \A p \in Ents : Walk(ChildWithout(c), PeerWithout(c), p) = Listed(p) \ {c}
         /\ Sound(ChildWithout(c), PeerWithout(c), ParentWithout(c))
<1>0. Sound(moveChild, movePeer, moveParent)
  BY SoundIsListsSound
<1>1. CASE InItsList(c)
  <2> DEFINE q == moveParent[c]
  <2>1. q \in Ents /\ c \in Walk(moveChild, movePeer, q)
    BY <1>1 DEF InItsList, Listed, LinksTyped, Links
  <2>2. /\ ChildWithout(c) = [moveChild EXCEPT ![q] = IF moveChild[q] = c THEN movePeer[c]
                                                    ELSE moveChild[q]]
        /\ ChildWithout(c) \in Links
    BY <1>1, <2>1 DEF ChildWithout, LinksTyped, Links
  <2>3. /\ \A s \in Ents : PeerWithout(c)[s] =
             (IF s = c THEN NULL
              ELSE IF s \in Walk(moveChild, movePeer, q) /\ movePeer[s] = c THEN movePeer[c]
              ELSE movePeer[s])
        /\ PeerWithout(c) \in Links
    BY <1>1, <2>1 DEF PeerWithout, PatchPeer, Listed, LinksTyped, Links
  <2>4. ParentWithout(c) = [moveParent EXCEPT ![c] = NULL] /\ ParentWithout(c) \in Links
    BY <1>1 DEF ParentWithout, LinksTyped, Links
  <2> HIDE DEF q
  <2>5. /\ \A p \in Ents : Walk(ChildWithout(c), PeerWithout(c), p)
                           = Walk(moveChild, movePeer, p) \ {c}
        /\ Sound(ChildWithout(c), PeerWithout(c), ParentWithout(c))
    <3>1. CutLinks(moveChild, movePeer, moveParent,
                   ChildWithout(c), PeerWithout(c), ParentWithout(c), q, c)
      BY <2>2, <2>3, <2>4 DEF CutLinks
    <3> QED
      BY <1>0, <2>1, <2>2, <2>3, <2>4, <3>1, CutSound DEF LinksTyped
  <2> QED
    BY <2>2, <2>3, <2>4, <2>5 DEF Listed
<1>2. CASE ~InItsList(c)
  <2>1. \A p \in Ents : c \notin Listed(p)
    BY <1>2, NullAssumption DEF InItsList, ListsSound
  <2> QED
    BY <1>0, <1>2, <2>1 DEF ChildWithout, PeerWithout, ParentWithout, Listed, LinksTyped
<1> QED
  BY <1>1, <1>2

\* The lists after an unlinking of c, a move of c to p, the end of D.
Unlinked(c) ==
  /\ \A p \in Ents : Listed(p)' = Listed(p) \ {c}
  /\ \A d \in Ents \ {c} : moveParent'[d] = moveParent[d]
  /\ moveParent'[c] = IF InItsList(c) THEN NULL ELSE moveParent[c]

Moved(c, p) ==
  /\ \A q \in Ents : Listed(q)' = IF q = p THEN Listed(q) \cup {c} ELSE Listed(q) \ {c}
  /\ \A d \in Ents \ {c} : moveParent'[d] = moveParent[d]
  /\ moveParent'[c] = p

Dropped(D) ==
  /\ \A p \in Ents : Listed(p)' \subseteq Listed(p) \ D
  /\ \A p \in Ents \ D : Listed(p) \cap D = {} => Listed(p)' = Listed(p)
  /\ \A d \in Ents : moveParent'[d] =
       IF d \in D \/ moveParent[d] \in D THEN NULL ELSE moveParent[d]

LEMMA UnlinkEffect ==
  ASSUME LinksTyped, ListsSound, NEW c \in Ents, UnlinkFromParent(c)
  PROVE  LinksTyped' /\ ListsSound' /\ Unlinked(c)
<1>1. /\ moveChild' \in Links /\ movePeer' \in Links /\ moveParent' \in Links
      /\ \A p \in Ents : Walk(moveChild', movePeer', p) = Listed(p) \ {c}
      /\ Sound(moveChild', movePeer', moveParent')
  BY WithoutSound DEF UnlinkFromParent
<1>2. ListsSound'
  BY <1>1 DEF ListsSound, Listed, Sound, Unique
<1>3. Unlinked(c)
  BY <1>1 DEF Unlinked, Listed, UnlinkFromParent, ParentWithout, LinksTyped, Links
<1> QED
  BY <1>1, <1>2, <1>3 DEF LinksTyped

LEMMA MoveEffect ==
  ASSUME LinksTyped, ListsSound, NEW c \in Ents, NEW p \in Ents, MoveTo(c, p)
  PROVE  LinksTyped' /\ ListsSound' /\ Moved(c, p)
<1> DEFINE child == ChildWithout(c)
<1> DEFINE peer == PeerWithout(c)
<1> DEFINE parent == ParentWithout(c)
<1>1. /\ child \in Links /\ peer \in Links /\ parent \in Links
      /\ \A q \in Ents : Walk(child, peer, q) = Listed(q) \ {c}
      /\ Sound(child, peer, parent)
  BY WithoutSound
<1>2. /\ moveChild' = [child EXCEPT ![p] = c]
      /\ movePeer' = [peer EXCEPT ![c] = child[p]]
      /\ moveParent' = [parent EXCEPT ![c] = p]
  BY DEF MoveTo, ParentWithout, LinksTyped, Links
<1> HIDE DEF child, peer, parent
<1>3. /\ moveChild' \in Links /\ movePeer' \in Links /\ moveParent' \in Links
      /\ \A q \in Ents : Walk(moveChild', movePeer', q) =
           IF q = p THEN Walk(child, peer, q) \cup {c} ELSE Walk(child, peer, q)
      /\ Sound(moveChild', movePeer', moveParent')
  <2>1. InNoList(child, peer, c)
    BY <1>1 DEF InNoList
  <2>2. AddLinks(child, peer, parent, moveChild', movePeer', moveParent', p, c)
    BY <1>2 DEF AddLinks
  <2> QED
    BY <1>1, <2>1, <2>2, AddSound
<1>4. ListsSound'
  BY <1>3 DEF ListsSound, Listed, Sound, Unique
<1>5. Moved(c, p)
  <2>1. \A q \in Ents : Listed(q)' = IF q = p THEN Listed(q) \cup {c} ELSE Listed(q) \ {c}
    BY <1>1, <1>3 DEF Listed
  <2> QED
    BY <2>1 DEF Moved, MoveTo, LinksTyped, Links
<1> QED
  BY <1>3, <1>4, <1>5 DEF LinksTyped

\* LinkChild of an entity that is in no list.
LEMMA LinkEffect ==
  ASSUME LinksTyped, ListsSound, NEW c \in Ents, NEW p \in Ents, LinkChild(p, c),
         \A q \in Ents : c \notin Listed(q)
  PROVE  LinksTyped' /\ ListsSound' /\ Moved(c, p)
<1>0. Sound(moveChild, movePeer, moveParent)
  BY SoundIsListsSound
<1>1. InNoList(moveChild, movePeer, c)
  BY DEF InNoList, Listed
<1>2. AddLinks(moveChild, movePeer, moveParent, moveChild', movePeer', moveParent', p, c)
  BY DEF LinkChild, AddLinks
<1>3. /\ moveChild' \in Links /\ movePeer' \in Links /\ moveParent' \in Links
      /\ \A q \in Ents : Walk(moveChild', movePeer', q) =
           IF q = p THEN Walk(moveChild, movePeer, q) \cup {c} ELSE Walk(moveChild, movePeer, q)
      /\ Sound(moveChild', movePeer', moveParent')
  BY <1>0, <1>1, <1>2, AddSound DEF LinksTyped
<1>4. ListsSound'
  BY <1>3 DEF ListsSound, Listed, Sound, Unique
<1>5. Moved(c, p)
  <2>1. \A q \in Ents : Listed(q)' = IF q = p THEN Listed(q) \cup {c} ELSE Listed(q) \ {c}
    BY <1>1, <1>3 DEF Listed
  <2> QED
    BY <2>1 DEF Moved, LinkChild, LinksTyped, Links
<1> QED
  BY <1>3, <1>4, <1>5 DEF LinksTyped

LEMMA DropEffect ==
  ASSUME LinksTyped, ListsSound, NEW D \in SUBSET Ents,
         moveParent' = Forget(moveParent, D), moveChild' = Forget(moveChild, D),
         movePeer' = Forget(movePeer, D)
  PROVE  LinksTyped' /\ ListsSound' /\ Dropped(D)
<1>0. Sound(moveChild, movePeer, moveParent)
  BY SoundIsListsSound
<1>1. /\ moveChild' \in Links /\ movePeer' \in Links /\ moveParent' \in Links
      /\ \A p \in Ents : Walk(moveChild', movePeer', p) \subseteq Listed(p) \ D
      /\ \A p \in Ents \ D : Listed(p) \cap D = {} => Walk(moveChild', movePeer', p) = Listed(p)
      /\ Sound(moveChild', movePeer', moveParent')
  BY <1>0, ForgetSound DEF Listed, LinksTyped
<1>2. ListsSound'
  BY <1>1 DEF ListsSound, Listed, Sound, Unique
<1>3. Dropped(D)
  <2>1. \A d \in Ents : moveParent'[d] =
          IF d \in D \/ moveParent[d] \in D THEN NULL ELSE moveParent[d]
    BY DEF Forget
  <2> QED
    BY <1>1, <2>1 DEF Dropped, Listed
<1> QED
  BY <1>1, <1>2, <1>3 DEF LinksTyped

-----------------------------------------------------------------------------
(* The invariant. ParentsAgree is what keeps OnRestore from linking a      *)
(* child that is in the list of another parent; it needs a restore to find *)
(* nothing marked and no transfer under way.                               *)

Quiet == toRestore # {} => marked = {} /\ transfer = <<>>

IInv == TypeOK /\ ListsSound /\ ParentsAgree /\ Quiet

LEMMA TypeLinks == TypeOK => LinksTyped
BY DEF TypeOK, LinkOK, LinksTyped, Links, Alive

\* The descendants of any entity are alive.
LEMMA DescendantsAlive ==
  ASSUME TypeOK, NEW e \in Ents
  PROVE  Descendants(e) \subseteq Alive
<1>1. Alive \in SUBSET Ents
  BY DEF Alive
<1>2. \A s \in Alive \cup {e} : HoldsList(moveChild, movePeer, Alive, s)
  BY <1>1 DEF HoldsList, TypeOK, LinkOK
<1> QED
  BY <1>1, <1>2 DEF Descendants

\* Links of living entities only, after an unlinking of any entity.
LEMMA WithoutOK ==
  ASSUME TypeOK, NEW c \in Ents
  PROVE  LinkOK(ChildWithout(c)) /\ LinkOK(PeerWithout(c)) /\ LinkOK(ParentWithout(c))
<1>1. ASSUME InItsList(c) PROVE moveParent[c] \in Alive /\ c \in Alive
  BY <1>1, NullAssumption DEF InItsList, TypeOK, LinkOK, Alive
<1>2. LinkOK(ChildWithout(c))
  BY <1>1 DEF ChildWithout, TypeOK, LinkOK, Alive
<1>3. LinkOK(PeerWithout(c))
  <2>1. CASE InItsList(c)
    <3>1. \A s \in Ents : PeerWithout(c)[s] \in {NULL, movePeer[s], movePeer[c]}
                         /\ (movePeer[s] = NULL => PeerWithout(c)[s] = NULL)
      BY <1>1, <2>1, NullAssumption DEF PeerWithout, PatchPeer, Alive
    <3>2. PeerWithout(c) = [s \in Ents |-> PeerWithout(c)[s]]
      BY <2>1 DEF PeerWithout
    <3>3. \A s \in Ents : PeerWithout(c)[s] \in Alive \cup {NULL}
      BY <3>1 DEF TypeOK, LinkOK
    <3>4. \A s \in Ents \ Alive : PeerWithout(c)[s] = NULL
      BY <3>1 DEF TypeOK, LinkOK
    <3>5. PeerWithout(c) \in [Ents -> Alive \cup {NULL}]
      BY <3>2, <3>3
    <3> QED
      BY <3>4, <3>5 DEF LinkOK
  <2> QED
    BY <2>1 DEF PeerWithout, TypeOK
<1>4. LinkOK(ParentWithout(c))
  BY <1>1 DEF ParentWithout, TypeOK, LinkOK, Alive
<1> QED
  BY <1>2, <1>3, <1>4

\* The links after the end of D, and after an unlinking and the end of e.
LEMMA DropOK ==
  ASSUME TypeOK, NEW D \in SUBSET Alive, Free(D)
  PROVE  /\ Alive' = Alive \ D /\ mem' \in [Ents -> {"unborn", "alive", "freed"}]
         /\ moveParent' = Forget(moveParent, D) => LinkOK(moveParent)'
         /\ moveChild' = Forget(moveChild, D) => LinkOK(moveChild)'
         /\ movePeer' = Forget(movePeer, D) => LinkOK(movePeer)'
         /\ pParent' = Forget(pParent, D) => LinkOK(pParent)'
BY DEF TypeOK, LinkOK, Forget, Free, Alive

LEMMA UnlinkDropOK ==
  ASSUME TypeOK, NEW e \in Alive, Free({e}), UnlinkAndForget(e)
  PROVE  LinkOK(moveParent)' /\ LinkOK(moveChild)' /\ LinkOK(movePeer)'
<1>1. LinkOK(ChildWithout(e)) /\ LinkOK(PeerWithout(e)) /\ LinkOK(ParentWithout(e))
  BY WithoutOK DEF Alive
<1>2. Alive' = Alive \ {e}
  BY DropOK
<1>3. \A f : LinkOK(f) => /\ Forget(f, {e}) \in [Ents -> (Alive \ {e}) \cup {NULL}]
                         /\ \A d \in Ents \ (Alive \ {e}) : Forget(f, {e})[d] = NULL
  BY DEF LinkOK, Forget, Alive
<1> QED
  BY <1>1, <1>2, <1>3 DEF UnlinkAndForget, LinkOK

\* The lists after an unlinking and the end of e.
LEMMA UnlinkDropEffect ==
  ASSUME LinksTyped, ListsSound, NEW e \in Ents, UnlinkAndForget(e)
  PROVE  /\ LinksTyped' /\ ListsSound'
         /\ \A p \in Ents : Listed(p)' \subseteq Listed(p) \ {e}
         /\ \A p \in Ents \ {e} : Listed(p)' = Listed(p) \ {e}
         /\ \A d \in Ents : moveParent'[d] =
              IF d = e \/ moveParent[d] = e THEN NULL ELSE moveParent[d]
<1> DEFINE child == ChildWithout(e)
<1> DEFINE peer == PeerWithout(e)
<1> DEFINE parent == ParentWithout(e)
<1>1. /\ child \in Links /\ peer \in Links /\ parent \in Links
      /\ \A p \in Ents : Walk(child, peer, p) = Listed(p) \ {e}
      /\ Sound(child, peer, parent)
  BY WithoutSound
<1>2. \A d \in Ents : d # e => parent[d] = moveParent[d]
  BY DEF ParentWithout, LinksTyped, Links
<1>3. /\ moveChild' = Forget(child, {e}) /\ movePeer' = Forget(peer, {e})
      /\ moveParent' = Forget(parent, {e})
  BY DEF UnlinkAndForget
<1> HIDE DEF child, peer, parent
<1>4. /\ moveChild' \in Links /\ movePeer' \in Links /\ moveParent' \in Links
      /\ \A p \in Ents : Walk(moveChild', movePeer', p) \subseteq Walk(child, peer, p) \ {e}
      /\ \A p \in Ents \ {e} : Walk(child, peer, p) \cap {e} = {}
                              => Walk(moveChild', movePeer', p) = Walk(child, peer, p)
      /\ Sound(moveChild', movePeer', moveParent')
  BY <1>1, <1>3, ForgetSound
<1>5. ListsSound'
  BY <1>4 DEF ListsSound, Listed, Sound, Unique
<1>6. \A d \in Ents : moveParent'[d] =
        IF d = e \/ moveParent[d] = e THEN NULL ELSE moveParent[d]
  BY <1>2, <1>3 DEF Forget
<1>7. /\ \A p \in Ents : Listed(p)' \subseteq Listed(p) \ {e}
      /\ \A p \in Ents \ {e} : Listed(p)' = Listed(p) \ {e}
  BY <1>1, <1>4 DEF Listed
<1> QED
  BY <1>4, <1>5, <1>6, <1>7 DEF LinksTyped

THEOREM InitIInv == Init => IInv
<1> SUFFICES ASSUME Init PROVE IInv
  OBVIOUS
<1>1. TypeOK
  BY DEF Init, TypeOK, LinkOK, Alive, Unused
<1>2. \A p \in Ents : Listed(p) = {}
  <2>1. SUFFICES ASSUME NEW p \in Ents PROVE Walk(moveChild, movePeer, p) \subseteq {}
    BY DEF Listed
  <2>2. HoldsList(moveChild, movePeer, {}, p)
    BY DEF HoldsList, Init, Unused
  <2> QED
    BY <2>2, WalkLeast
<1>3. ListsSound
  BY <1>2 DEF ListsSound
<1>4. ParentsAgree
  BY DEF ParentsAgree, Init, Unused, Alive
<1> QED
  BY <1>1, <1>3, <1>4 DEF IInv, Quiet, Init

-----------------------------------------------------------------------------
(* Every step keeps the invariant.                                         *)

LEMMA CreateIInv ==
  ASSUME IInv, NEW e \in Ents, Create(e) PROVE IInv'
<1> USE DEF Create, GameCode, IInv
<1>1. TypeOK'
  BY DEF TypeOK, LinkOK, Alive, links
<1>2. ListsSound'
  BY DEF ListsSound, Listed, links
<1>3. ParentsAgree'
  BY DEF ParentsAgree, InItsList, Listed, links, TypeOK, LinkOK, Alive
<1> QED
  BY <1>1, <1>2, <1>3 DEF Quiet

LEMMA SetParentIInv ==
  ASSUME IInv, NEW c \in Ents, NEW p \in Ents \cup {NULL}, SetParent(c, p) PROVE IInv'
<1> USE DEF SetParent, GameCode
<1>1. LinksTyped /\ ListsSound /\ TypeOK /\ ParentsAgree
  BY TypeLinks DEF IInv
<1>2. LinkOK(ChildWithout(c)) /\ LinkOK(PeerWithout(c)) /\ LinkOK(ParentWithout(c))
  BY <1>1, WithoutOK
<1>3. LinkOK(pParent)' /\ pParent' = [pParent EXCEPT ![c] = IF p = c THEN NULL ELSE p]
  BY <1>1 DEF ParentNamed, TypeOK, LinkOK, Alive
<1>4. CASE p \in {NULL, c} \/ c \notin Networked
  <2>1. UnlinkFromParent(c)
    BY <1>4
  <2>2. LinksTyped' /\ ListsSound' /\ Unlinked(c)
    BY <1>1, <2>1, UnlinkEffect
  <2>3. TypeOK'
    BY <1>1, <1>2, <1>3, <1>4, <2>1 DEF UnlinkFromParent, TypeOK, LinkOK, Alive
  <2>4. ParentsAgree'
    <3>1. SUFFICES ASSUME NEW d \in Alive, moveParent'[d] # NULL,
                          d \in Networked \/ InItsList(d)'
                   PROVE  pParent'[d] \in {moveParent'[d], NULL} \cup marked
      BY DEF ParentsAgree, Alive
    <3>2. CASE d = c
      BY <1>1, <1>3, <1>4, <2>2, <3>1, <3>2
         DEF Unlinked, InItsList, LinksTyped, Links, TypeOK, LinkOK, Alive
    <3>3. CASE d # c
      BY <1>1, <1>3, <2>2, <3>1, <3>3
         DEF Unlinked, InItsList, LinksTyped, Links, ParentsAgree, TypeOK, LinkOK, Alive
    <3> QED
      BY <3>2, <3>3
  <2> QED
    BY <2>2, <2>3, <2>4 DEF IInv, Quiet
<1>5. CASE p \notin {NULL, c} /\ c \in Networked
  <2>1. MoveTo(c, p) /\ p \in Alive /\ p \in Ents
    BY <1>5 DEF Alive
  <2>2. LinksTyped' /\ ListsSound' /\ Moved(c, p)
    BY <1>1, <2>1, MoveEffect
  <2>3. TypeOK'
    BY <1>1, <1>2, <1>3, <1>5, <2>1 DEF MoveTo, Relinks, TypeOK, LinkOK, Alive
  <2>4. ParentsAgree'
    <3>1. SUFFICES ASSUME NEW d \in Alive, moveParent'[d] # NULL,
                          d \in Networked \/ InItsList(d)'
                   PROVE  pParent'[d] \in {moveParent'[d], NULL} \cup marked
      BY DEF ParentsAgree, Alive
    <3>2. CASE d = c
      BY <1>1, <1>3, <1>5, <2>2, <3>2 DEF Moved, TypeOK, LinkOK, Alive
    <3>3. CASE d # c
      BY <1>1, <1>3, <2>2, <3>1, <3>3
         DEF Moved, InItsList, LinksTyped, Links, ParentsAgree, TypeOK, LinkOK, Alive
    <3> QED
      BY <3>2, <3>3
  <2> QED
    BY <2>2, <2>3, <2>4 DEF IInv, Quiet
<1> QED
  BY <1>4, <1>5

\* UpdateOnRemove, called by UTIL_Remove, by its own loop and after a transfer.
LEMMA MarkKeeps ==
  ASSUME IInv, NEW e \in Alive, MarkAndUnlink(e),
         UNCHANGED <<mem, pParent, toRestore, relinkedTo>>,
         toRestore = {}, transfer' = transfer \/ (transfer = <<e, transfer[2]>> /\ transfer' = <<>>)
  PROVE  IInv'
<1> USE DEF MarkAndUnlink
<1>1. LinksTyped /\ ListsSound /\ TypeOK /\ ParentsAgree /\ e \in Ents
  BY TypeLinks DEF IInv, Alive
<1>2. LinkOK(ChildWithout(e)) /\ LinkOK(PeerWithout(e)) /\ LinkOK(ParentWithout(e))
  BY <1>1, WithoutOK
<1>3. LinksTyped' /\ ListsSound' /\ Unlinked(e)
  BY <1>1, UnlinkEffect
<1>4. Descendants(e) \subseteq Alive
  BY <1>1, DescendantsAlive
<1>5. TypeOK'
  BY <1>1, <1>2, <1>4 DEF UnlinkFromParent, TypeOK, LinkOK, Alive
<1>6. ParentsAgree'
  <2>1. SUFFICES ASSUME NEW d \in Alive, moveParent'[d] # NULL,
                        d \in Networked \/ InItsList(d)'
                 PROVE  \/ pParent'[d] \in {moveParent'[d], NULL} \cup marked'
                        \/ transfer' # <<>> /\ pParent'[d] = transfer'[1]
    BY DEF ParentsAgree, Alive
  <2>2. moveParent'[d] = moveParent[d] /\ (InItsList(d)' => InItsList(d))
    BY <1>1, <1>3, <2>1 DEF Unlinked, InItsList, LinksTyped, Links, Alive
  <2>3. \/ pParent[d] \in {moveParent[d], NULL} \cup marked
        \/ transfer # <<>> /\ pParent[d] = transfer[1]
    BY <1>1, <2>1, <2>2 DEF ParentsAgree
  <2> QED
    BY <2>2, <2>3
<1> QED
  BY <1>3, <1>5, <1>6 DEF IInv, Quiet

LEMMA RemoveIInv ==
  ASSUME IInv, NEW e \in Ents, UTIL_Remove(e) \/ RemoveOrphan(e) PROVE IInv'
<1>1. e \in Alive
  BY DEF UTIL_Remove, RemoveOrphan, IInv, TypeOK
<1>2. CASE UTIL_Remove(e)
  BY <1>1, <1>2, MarkKeeps DEF UTIL_Remove, GameCode
<1>3. CASE RemoveOrphan(e) /\ e \notin marked
  BY <1>1, <1>3, MarkKeeps DEF RemoveOrphan, GameCode
<1>4. CASE RemoveOrphan(e) /\ e \in marked
  <2> USE <1>4 DEF RemoveOrphan, GameCode, IInv
  <2>1. TypeOK'
    BY DEF TypeOK, LinkOK, Alive, links
  <2>2. ListsSound' /\ ParentsAgree'
    BY DEF ListsSound, ParentsAgree, InItsList, Listed, links, Alive
  <2> QED
    BY <2>1, <2>2 DEF Quiet
<1> QED
  BY <1>2, <1>3, <1>4

LEMMA CleanupIInv ==
  ASSUME IInv, NEW e \in Ents, CleanupDeleteList(e) PROVE IInv'
<1> USE DEF CleanupDeleteList, GameCode
<1>1. LinksTyped /\ ListsSound /\ TypeOK /\ ParentsAgree /\ e \in Alive
  BY TypeLinks DEF IInv, TypeOK
<1>2. /\ Alive' = Alive \ {e} /\ mem' \in [Ents -> {"unborn", "alive", "freed"}]
      /\ LinkOK(moveParent)' /\ LinkOK(moveChild)' /\ LinkOK(movePeer)' /\ LinkOK(pParent)'
  BY <1>1, DropOK
<1>3. TypeOK'
  BY <1>1, <1>2 DEF TypeOK
<1>4. LinksTyped' /\ ListsSound' /\ Dropped({e})
  BY <1>1, DropEffect
<1>5. ParentsAgree'
  <2>1. SUFFICES ASSUME NEW d \in Alive \ {e}, moveParent'[d] # NULL,
                        d \in Networked \/ InItsList(d)'
                 PROVE  pParent'[d] \in {moveParent'[d], NULL} \cup marked'
    BY <1>2 DEF ParentsAgree
  <2>2. moveParent'[d] = moveParent[d] /\ (InItsList(d)' => InItsList(d))
    BY <1>1, <1>4, <2>1 DEF Dropped, InItsList, LinksTyped, Links, Alive
  <2>3. pParent[d] \in {moveParent[d], NULL} \cup marked
    BY <1>1, <2>1, <2>2 DEF ParentsAgree
  <2>4. pParent'[d] = IF pParent[d] = e THEN NULL ELSE pParent[d]
    BY <2>1 DEF Forget, Alive
  <2> QED
    BY <2>2, <2>3, <2>4
<1> QED
  BY <1>3, <1>4, <1>5 DEF IInv, Quiet

LEMMA RemoveImmediateIInv ==
  ASSUME IInv, NEW e \in Ents, UTIL_RemoveImmediate(e) PROVE IInv'
<1> USE DEF UTIL_RemoveImmediate, GameCode
<1>1. LinksTyped /\ ListsSound /\ TypeOK /\ ParentsAgree /\ e \in Alive
  BY TypeLinks DEF IInv
<1>2. /\ Alive' = Alive \ {e} /\ mem' \in [Ents -> {"unborn", "alive", "freed"}]
      /\ LinkOK(pParent)' /\ LinkOK(moveParent)' /\ LinkOK(moveChild)' /\ LinkOK(movePeer)'
  BY <1>1, DropOK, UnlinkDropOK
<1>3. TypeOK'
  BY <1>1, <1>2 DEF TypeOK, NothingRelies
<1>4. /\ LinksTyped' /\ ListsSound'
      /\ \A p \in Ents : Listed(p)' \subseteq Listed(p) \ {e}
      /\ \A d \in Ents : moveParent'[d] =
           IF d = e \/ moveParent[d] = e THEN NULL ELSE moveParent[d]
  BY <1>1, UnlinkDropEffect
<1>5. ParentsAgree'
  <2>1. SUFFICES ASSUME NEW d \in Alive \ {e}, moveParent'[d] # NULL,
                        d \in Networked \/ InItsList(d)'
                 PROVE  pParent'[d] \in {moveParent'[d], NULL} \cup marked'
    BY <1>2 DEF ParentsAgree
  <2>2. moveParent'[d] = moveParent[d] /\ (InItsList(d)' => InItsList(d))
    BY <1>1, <1>4, <2>1 DEF InItsList, LinksTyped, Links, Alive
  <2>3. pParent[d] \in {moveParent[d], NULL} \cup marked
    BY <1>1, <2>1, <2>2 DEF ParentsAgree
  <2>4. pParent'[d] = IF pParent[d] = e THEN NULL ELSE pParent[d]
    BY <2>1 DEF Forget, Alive
  <2> QED
    BY <2>2, <2>3, <2>4
<1> QED
  BY <1>3, <1>4, <1>5 DEF IInv, Quiet

LEMMA ConvertIInv ==
  ASSUME IInv, NEW e \in Ents, NEW n \in Ents \cup {NULL}, ConvertTarget(e, n) PROVE IInv'
<1> USE DEF ConvertTarget, GameCode
<1>1. LinksTyped /\ ListsSound /\ TypeOK /\ ParentsAgree
  BY TypeLinks DEF IInv
<1>2. LinkOK(ChildWithout(e)) /\ LinkOK(PeerWithout(e)) /\ LinkOK(ParentWithout(e))
  BY <1>1, WithoutOK
<1>3. LinksTyped' /\ ListsSound' /\ Unlinked(e)
  BY <1>1, UnlinkEffect
<1>4. /\ mem' \in [Ents -> {"unborn", "alive", "freed"}] /\ Alive \subseteq Alive'
      /\ transfer' \in {<<>>} \cup (Alive' \X Alive')
      /\ \A d \in Alive' \ Alive : d = n
  BY <1>1 DEF TypeOK, Alive
<1>5. TypeOK'
  BY <1>1, <1>2, <1>4 DEF UnlinkFromParent, TypeOK, LinkOK
<1>6. \A d \in Alive' \ Alive : moveParent'[d] = NULL
  BY <1>1, <1>2 DEF UnlinkFromParent, LinkOK, Alive
<1>7. ParentsAgree'
  <2>1. SUFFICES ASSUME NEW d \in Alive, moveParent'[d] # NULL,
                        d \in Networked \/ InItsList(d)'
                 PROVE  pParent'[d] \in {moveParent'[d], NULL} \cup marked'
    BY <1>6 DEF ParentsAgree, Alive
  <2>2. moveParent'[d] = moveParent[d] /\ (InItsList(d)' => InItsList(d))
    BY <1>1, <1>3, <2>1 DEF Unlinked, InItsList, LinksTyped, Links, Alive
  <2>3. pParent[d] \in {moveParent[d], NULL} \cup marked
    BY <1>1, <2>1, <2>2 DEF ParentsAgree
  <2> QED
    BY <2>2, <2>3
<1> QED
  BY <1>3, <1>5, <1>7 DEF IInv, Quiet

\* The first child of an entity is in its list.
LEMMA FirstChildListed ==
  ASSUME TypeOK, NEW p \in Ents, moveChild[p] # NULL
  PROVE  moveChild[p] \in Listed(p) /\ moveChild[p] \in Alive
<1>1. HoldsList(moveChild, movePeer, Listed(p), p)
  BY TypeLinks, WalkHolds DEF Listed, LinksTyped
<1> QED
  BY <1>1 DEF HoldsList, TypeOK, LinkOK

LEMMA TransferIInv ==
  ASSUME IInv, TransferChild \/ TransferDone PROVE IInv'
<1>1. LinksTyped /\ ListsSound /\ TypeOK /\ ParentsAgree /\ Quiet
  BY TypeLinks DEF IInv
<1>2. /\ transfer # <<>> /\ transfer \in Alive \X Alive
      /\ transfer[1] \in Alive /\ transfer[2] \in Alive
      /\ toRestore = {} /\ transfer = <<transfer[1], transfer[2]>>
  BY <1>1 DEF TransferChild, TransferDone, TypeOK, Quiet
<1>3. CASE TransferDone
  BY <1>2, <1>3, MarkKeeps DEF TransferDone
<1>4. CASE TransferChild
  <2> DEFINE o == transfer[1]
  <2> DEFINE n == transfer[2]
  <2> DEFINE c == moveChild[o]
  <2>1. /\ c # NULL /\ MoveTo(c, n) /\ o \in Ents /\ n \in Ents /\ n \in Alive
        /\ UNCHANGED <<mem, marked, pParent, orphans, transfer, toRestore>>
        /\ relinkedTo' \subseteq Ents
    BY <1>1, <1>2, <1>4 DEF TransferChild, Relinks, TypeOK, Alive
  <2>2. c \in Listed(o) /\ c \in Alive /\ c \in Ents
    BY <1>1, <2>1, FirstChildListed DEF Alive
  <2> HIDE DEF c, n
  <2>3. LinksTyped' /\ ListsSound' /\ Moved(c, n)
    BY <1>1, <2>1, <2>2, MoveEffect
  <2>4. LinkOK(ChildWithout(c)) /\ LinkOK(PeerWithout(c)) /\ LinkOK(ParentWithout(c))
    BY <1>1, <2>2, WithoutOK
  <2>5. TypeOK'
    BY <1>1, <2>1, <2>2, <2>4 DEF MoveTo, TypeOK, LinkOK, Alive
  <2>6. ParentsAgree'
    <3>1. SUFFICES ASSUME NEW d \in Alive, moveParent'[d] # NULL,
                          d \in Networked \/ InItsList(d)'
                   PROVE  \/ pParent[d] \in {moveParent'[d], NULL} \cup marked
                          \/ pParent[d] = o
      BY <1>2, <2>1 DEF ParentsAgree, Alive
    <3>2. moveParent[c] = o /\ InItsList(c)
      BY <1>1, <2>1, <2>2, NullAssumption DEF ListsSound, InItsList
    <3>3. CASE d = c
      BY <1>1, <2>2, <3>2, <3>3, NullAssumption, <2>1 DEF ParentsAgree
    <3>4. CASE d # c
      <4>1. moveParent'[d] = moveParent[d] /\ (InItsList(d)' => InItsList(d))
        BY <1>1, <2>3, <3>1, <3>4 DEF Moved, InItsList, LinksTyped, Links, Alive
      <4> QED
        BY <1>1, <3>1, <4>1 DEF ParentsAgree
    <3> QED
      BY <3>3, <3>4
  <2> QED
    BY <1>1, <2>1, <2>3, <2>5, <2>6 DEF IInv, Quiet
<1> QED
  BY <1>3, <1>4

LEMMA SaveIInv ==
  ASSUME IInv, SaveAndLoad PROVE IInv'
<1> DEFINE D == Alive \cap DontSave
<1>0. /\ GameCode /\ orphans = {} /\ marked = {} /\ Free(D) /\ pParent' = Forget(pParent, D)
      /\ moveParent' = Forget(moveParent, D) /\ moveChild' = Forget(moveChild, D)
      /\ movePeer' = Forget(movePeer, D) /\ toRestore' = Alive \ D
      /\ UNCHANGED <<marked, orphans, transfer>> /\ D \in SUBSET Alive /\ D \in SUBSET Ents
      /\ relinkedTo' = {}
  BY DEF SaveAndLoad, Alive
<1> HIDE DEF D
<1>1. LinksTyped /\ ListsSound /\ TypeOK /\ ParentsAgree
  BY TypeLinks DEF IInv
<1>2. /\ Alive' = Alive \ D /\ mem' \in [Ents -> {"unborn", "alive", "freed"}]
      /\ LinkOK(moveParent)' /\ LinkOK(moveChild)' /\ LinkOK(movePeer)' /\ LinkOK(pParent)'
  BY <1>0, <1>1, DropOK
<1>3. TypeOK'
  BY <1>0, <1>1, <1>2 DEF TypeOK, GameCode
<1>4. LinksTyped' /\ ListsSound' /\ Dropped(D)
  BY <1>0, <1>1, DropEffect
<1>5. ParentsAgree'
  <2>1. SUFFICES ASSUME NEW d \in Alive \ D, moveParent'[d] # NULL,
                        d \in Networked \/ InItsList(d)'
                 PROVE  pParent'[d] \in {moveParent'[d], NULL} \cup marked'
    BY <1>2 DEF ParentsAgree
  <2>2. moveParent'[d] = moveParent[d] /\ (InItsList(d)' => InItsList(d))
    BY <1>1, <1>4, <2>1 DEF Dropped, InItsList, LinksTyped, Links, Alive
  <2>3. pParent[d] \in {moveParent[d], NULL} \cup marked
    BY <1>0, <1>1, <2>1, <2>2 DEF ParentsAgree, GameCode
  <2>4. pParent'[d] = IF pParent[d] \in D THEN NULL ELSE pParent[d]
    BY <1>0, <2>1 DEF Forget, Alive
  <2> QED
    BY <1>0, <2>2, <2>3, <2>4
<1> QED
  BY <1>0, <1>3, <1>4, <1>5 DEF IInv, Quiet, GameCode

\* An entity that is missing in the list of m_pParent is in no list at all.
LEMMA MissingInAll ==
  ASSUME IInv, NEW e \in toRestore, NotInItsList(pParent[e], e)
  PROVE  \A q \in Ents : e \notin Listed(q)
<1>1. SUFFICES ASSUME NEW q \in Ents, e \in Listed(q) PROVE FALSE
  OBVIOUS
<1>2. moveParent[e] = q /\ InItsList(e)
  BY <1>1, NullAssumption DEF IInv, ListsSound, InItsList
<1>3. pParent[e] = q
  BY <1>2, NullAssumption DEF IInv, TypeOK, ParentsAgree, Quiet, NotInItsList
<1> QED
  BY <1>1, <1>3 DEF NotInItsList

LEMMA OnRestoreIInv ==
  ASSUME IInv, NEW e \in Ents, OnRestore(e) PROVE IInv'
<1> USE DEF OnRestore
<1>1. LinksTyped /\ ListsSound /\ TypeOK /\ ParentsAgree /\ Quiet
  BY TypeLinks DEF IInv
<1>2. CASE NotInItsList(pParent[e], e)
  <2> DEFINE p == pParent[e]
  <2>1. p \in Alive /\ p \in Ents /\ e \in Alive /\ LinkChild(p, e)
    BY <1>1, <1>2 DEF NotInItsList, TypeOK, LinkOK, Alive
  <2>2. LinksTyped' /\ ListsSound' /\ Moved(e, p)
    <3>1. \A q \in Ents : e \notin Listed(q)
      BY <1>2, MissingInAll
    <3> HIDE DEF p
    <3> QED
      BY <1>1, <2>1, <3>1, LinkEffect
  <2>3. TypeOK'
    BY <1>1, <2>1 DEF LinkChild, TypeOK, LinkOK, Alive
  <2>4. ParentsAgree'
    <3>1. SUFFICES ASSUME NEW d \in Alive, moveParent'[d] # NULL,
                          d \in Networked \/ InItsList(d)'
                   PROVE  pParent[d] \in {moveParent'[d], NULL} \cup marked
      BY <1>1 DEF ParentsAgree, Alive, Quiet
    <3>2. CASE d = e
      BY <2>2, <3>2 DEF Moved
    <3>3. CASE d # e
      <4>1. moveParent'[d] = moveParent[d] /\ (InItsList(d)' => InItsList(d))
        BY <1>1, <2>2, <3>1, <3>3 DEF Moved, InItsList, LinksTyped, Links, Alive
      <4> QED
        BY <1>1, <3>1, <4>1 DEF ParentsAgree, Quiet
    <3> QED
      BY <3>2, <3>3
  <2> QED
    BY <1>1, <2>2, <2>3, <2>4 DEF IInv, Quiet
<1>3. CASE ~NotInItsList(pParent[e], e)
  <2>1. TypeOK'
    BY <1>1, <1>3 DEF TypeOK, LinkOK, Alive, links
  <2>2. ListsSound' /\ ParentsAgree'
    BY <1>1, <1>3 DEF ListsSound, ParentsAgree, InItsList, Listed, links, Alive
  <2> QED
    BY <1>1, <2>1, <2>2 DEF IInv, Quiet
<1> QED
  BY <1>2, <1>3

\* Every step keeps the invariant.
THEOREM NextIInv == IInv /\ [Next]_vars => IInv'
<1> SUFFICES ASSUME IInv, [Next]_vars PROVE IInv'
  OBVIOUS
<1>1. CASE UNCHANGED vars
  BY <1>1 DEF vars, links, IInv, TypeOK, LinkOK, ListsSound, ParentsAgree, InItsList,
              Listed, Quiet, Alive
<1>2. ASSUME NEW e \in Ents, Create(e) PROVE IInv'
  BY <1>2, CreateIInv
<1>3. ASSUME NEW e \in Ents, UTIL_Remove(e) \/ RemoveOrphan(e) PROVE IInv'
  BY <1>3, RemoveIInv
<1>4. ASSUME NEW e \in Ents, UTIL_RemoveImmediate(e) PROVE IInv'
  BY <1>4, RemoveImmediateIInv
<1>5. ASSUME NEW e \in Ents, CleanupDeleteList(e) PROVE IInv'
  BY <1>5, CleanupIInv
<1>6. ASSUME NEW e \in Ents, OnRestore(e) PROVE IInv'
  BY <1>6, OnRestoreIInv
<1>7. ASSUME NEW c \in Ents, NEW p \in Ents \cup {NULL}, SetParent(c, p) PROVE IInv'
  BY <1>7, SetParentIInv
<1>8. ASSUME NEW c \in Ents, NEW p \in Ents \cup {NULL}, ConvertTarget(c, p) PROVE IInv'
  BY <1>8, ConvertIInv
<1>9. CASE TransferChild \/ TransferDone
  BY <1>9, TransferIInv
<1>10. CASE SaveAndLoad
  BY <1>10, SaveIInv
<1> QED
  BY <1>1, <1>2, <1>3, <1>4, <1>5, <1>6, <1>7, <1>8, <1>9, <1>10 DEF Next

\* The invariant in every reachable state.
THEOREM SpecIInv == Spec => []IInv
<1>1. Init => IInv
  BY InitIInv
<1>2. IInv /\ [Next]_vars => IInv'
  BY NextIInv
<1> QED
  BY <1>1, <1>2, PTL DEF Spec

\* Only living entities are linked, marked, about to be removed or restored.
THEOREM SpecTypeOK == Spec => []TypeOK
<1>1. IInv => TypeOK
  BY DEF IInv
<1> QED
  BY <1>1, SpecIInv, PTL

\* The lists of children are lists, disjoint, and walks over them end.
THEOREM SpecListsSound == Spec => []ListsSound
<1>1. IInv => ListsSound
  BY DEF IInv
<1> QED
  BY <1>1, SpecIInv, PTL

\* m_pParent names the parent an entity is linked to, nobody, or an entity
\* that is on its way out.
THEOREM SpecParentsAgree == Spec => []ParentsAgree
<1>1. IInv => ParentsAgree
  BY DEF IInv
<1> QED
  BY <1>1, SpecIInv, PTL

\* A restore moves no networked entity from one living parent to another.
THEOREM SpecRestoreKeepsParent == Spec => RestoreKeepsParent
<1> DEFINE Kept == \A e \in toRestore \cap Networked :
                    moveParent[e] # NULL => moveParent'[e] = moveParent[e]
<1>1. IInv /\ [Next]_vars => Kept \/ UNCHANGED vars
  <2>1. SUFFICES ASSUME IInv, Next, NEW e \in toRestore \cap Networked, moveParent[e] # NULL
                 PROVE  moveParent'[e] = moveParent[e]
    OBVIOUS
  <2>2. toRestore # {} /\ marked = {} /\ transfer = <<>>
    BY <2>1 DEF IInv, Quiet
  <2>3. PICK r \in Ents : OnRestore(r)
    BY <2>1, <2>2 DEF Next, Create, UTIL_Remove, RemoveOrphan, UTIL_RemoveImmediate,
       CleanupDeleteList, SetParent, ConvertTarget, TransferChild, TransferDone, SaveAndLoad,
       GameCode
  <2>4. e \in Alive /\ e \in Ents /\ moveParent \in Links
    BY <2>1, TypeLinks DEF IInv, TypeOK, LinksTyped, Alive
  <2>5. CASE r # e \/ ~NotInItsList(pParent[r], r)
    BY <2>3, <2>4, <2>5 DEF OnRestore, LinkChild, links, Links
  <2>6. CASE r = e /\ NotInItsList(pParent[r], r)
    <3>1. pParent[e] = moveParent[e]
      BY <2>1, <2>2, <2>4, <2>6 DEF IInv, ParentsAgree, NotInItsList
    <3> QED
      BY <2>3, <2>4, <2>6, <3>1 DEF OnRestore, LinkChild, Links
  <2> QED
    BY <2>5, <2>6
<1> QED
  BY <1>1, SpecIInv, PTL DEF Spec, RestoreKeepsParent

-----------------------------------------------------------------------------
(* A removed entity is in no list when it is freed, unless it was put into *)
(* one afterwards: so no other list is cut off, and no child is lost.      *)

JInv == MarkedUnlisted /\ ChildrenListed

\* Nothing happens to the lists, to whom a child names, or to who is alive.
LEMMA SameJInv ==
  ASSUME JInv, UNCHANGED links, Alive' = Alive, UNCHANGED pParent,
         marked' = marked, relinkedTo' = relinkedTo, toRestore \subseteq toRestore'
  PROVE  JInv'
BY DEF JInv, MarkedUnlisted, ChildrenListed, InItsList, Listed, links

LEMMA CreateJInv ==
  ASSUME IInv, JInv, NEW e \in Ents, Create(e) PROVE JInv'
<1> USE DEF Create, GameCode, JInv
<1>1. MarkedUnlisted'
  BY DEF MarkedUnlisted, Listed, links
<1>2. ChildrenListed'
  BY DEF IInv, TypeOK, LinkOK, ChildrenListed, InItsList, Listed, links, Alive
<1> QED
  BY <1>1, <1>2

\* A child whose parent did not change stays in its list unless it is c.
LEMMA UnlinkJInv ==
  ASSUME IInv, JInv, NEW c \in Ents, UnlinkFromParent(c),
         marked' \subseteq marked \cup {c}, relinkedTo' = relinkedTo,
         toRestore = {}, toRestore' = {},
         \A d \in Alive' \ Alive : moveParent[d] = NULL /\ d # c,
         \A d \in Ents \ {c} : pParent'[d] = pParent[d],
         c \in Networked /\ pParent'[c] # NULL => pParent'[c] = pParent[c]
  PROVE  JInv'
<1>1. LinksTyped /\ ListsSound /\ TypeOK
  BY TypeLinks DEF IInv
<1>2. Unlinked(c)
  BY <1>1, UnlinkEffect
<1>3. MarkedUnlisted'
  BY <1>2 DEF Unlinked, JInv, MarkedUnlisted
<1>4. ChildrenListed'
  <2>1. SUFFICES ASSUME NEW d \in Alive' \cap Networked, moveParent'[d] # NULL,
                        moveParent'[d] \notin relinkedTo, pParent'[d] = moveParent'[d]
                 PROVE  InItsList(d)'
    BY DEF ChildrenListed
  <2>2. d \in Ents /\ moveParent'[d] = moveParent[d] /\ moveParent[d] \in Ents
    BY <1>1, <1>2, <2>1 DEF Unlinked, LinksTyped, Links, Alive
  <2>3. d \in Alive
    BY <2>1, <2>2
  <2>4. pParent[d] = moveParent[d]
    BY <2>1, <2>2
  <2>5. InItsList(d)
    BY <2>1, <2>2, <2>3, <2>4 DEF JInv, ChildrenListed
  <2>6. d # c
    BY <1>2, <2>1, <2>5 DEF Unlinked
  <2> QED
    BY <1>2, <2>1, <2>2, <2>5, <2>6 DEF Unlinked, InItsList
<1> QED
  BY <1>3, <1>4 DEF JInv

\* A child that comes to the list of p is in the list of its parent.
LEMMA MovedJInv ==
  ASSUME IInv, JInv, NEW c \in Ents, NEW p \in Ents, Moved(c, p),
         Alive' = Alive, marked' = marked, toRestore \subseteq toRestore' \cup {c},
         relinkedTo \subseteq relinkedTo', c \in marked => p \in relinkedTo',
         \A d \in Ents \ {c} : pParent'[d] = pParent[d]
  PROVE  JInv'
<1>1. LinksTyped /\ TypeOK
  BY TypeLinks DEF IInv
<1>2. MarkedUnlisted'
  BY DEF Moved, JInv, MarkedUnlisted
<1>3. ChildrenListed'
  <2>1. SUFFICES ASSUME NEW d \in (Alive \cap Networked) \ toRestore', moveParent'[d] # NULL,
                        moveParent'[d] \notin relinkedTo', pParent'[d] = moveParent'[d]
                 PROVE  InItsList(d)'
    BY DEF ChildrenListed
  <2>2. CASE d = c
    BY <2>1, <2>2 DEF Moved, InItsList
  <2>3. CASE d # c
    <3>1. d \in Ents /\ moveParent'[d] = moveParent[d] /\ moveParent[d] \in Ents
      BY <1>1, <2>1, <2>3 DEF Moved, LinksTyped, Links, Alive
    <3>2. InItsList(d)
      BY <2>1, <2>3, <3>1 DEF JInv, ChildrenListed
    <3> QED
      BY <2>1, <2>3, <3>1, <3>2 DEF Moved, InItsList
  <2> QED
    BY <2>2, <2>3
<1> QED
  BY <1>2, <1>3 DEF JInv

LEMMA SetParentJInv ==
  ASSUME IInv, JInv, NEW c \in Ents, NEW p \in Ents \cup {NULL}, SetParent(c, p)
  PROVE  JInv'
<1> USE DEF SetParent, GameCode
<1>1. LinksTyped /\ ListsSound /\ TypeOK
  BY TypeLinks DEF IInv
<1>2. pParent' = [pParent EXCEPT ![c] = IF p = c THEN NULL ELSE p] /\ Alive' = Alive
  BY DEF ParentNamed, Alive
<1>3. CASE p \in {NULL, c} \/ c \notin Networked
  BY <1>1, <1>2, <1>3, UnlinkJInv DEF TypeOK, LinkOK
<1>4. CASE p \notin {NULL, c} /\ c \in Networked
  <2>1. /\ p \in Ents /\ MoveTo(c, p) /\ relinkedTo \subseteq relinkedTo'
        /\ c \in marked => p \in relinkedTo'
    BY <1>4 DEF Relinks
  <2>2. Moved(c, p)
    BY <1>1, <2>1, MoveEffect
  <2>3. \A d \in Ents \ {c} : pParent'[d] = pParent[d]
    BY <1>1, <1>2 DEF TypeOK, LinkOK
  <2> QED
    BY <1>2, <2>1, <2>2, <2>3, MovedJInv
<1> QED
  BY <1>3, <1>4

LEMMA RemoveJInv ==
  ASSUME IInv, JInv, NEW e \in Ents, UTIL_Remove(e) \/ RemoveOrphan(e) \/ TransferDone PROVE JInv'
<1>1. ASSUME NEW x \in Ents, MarkAndUnlink(x), UNCHANGED <<mem, pParent, toRestore>>,
             toRestore = {}, relinkedTo' = relinkedTo
      PROVE  JInv'
  BY <1>1, UnlinkJInv DEF MarkAndUnlink, Alive
<1>2. CASE UTIL_Remove(e)
  BY <1>1, <1>2 DEF UTIL_Remove, GameCode
<1>3. CASE RemoveOrphan(e) /\ e \notin marked
  BY <1>1, <1>3 DEF RemoveOrphan, GameCode
<1>4. CASE RemoveOrphan(e) /\ e \in marked
  BY <1>4, SameJInv DEF RemoveOrphan, GameCode, Alive
<1>5. CASE TransferDone
  <2>1. transfer[1] \in Ents /\ toRestore = {}
    BY <1>5 DEF TransferDone, IInv, TypeOK, Quiet, Alive
  <2> QED
    BY <1>1, <1>5, <2>1 DEF TransferDone
<1> QED
  BY <1>2, <1>3, <1>4, <1>5

LEMMA CleanupJInv ==
  ASSUME IInv, JInv, NEW e \in Ents, CleanupDeleteList(e) PROVE JInv'
<1> USE DEF CleanupDeleteList, GameCode
<1>1. LinksTyped /\ ListsSound /\ TypeOK /\ Alive' = Alive \ {e} /\ e \in Alive
  BY TypeLinks, DropOK DEF IInv, TypeOK
<1>2. Dropped({e})
  BY <1>1, DropEffect
<1>3. MarkedUnlisted'
  BY <1>2 DEF Dropped, JInv, MarkedUnlisted
<1>4. ChildrenListed'
  <2>1. SUFFICES ASSUME NEW d \in (Alive \ {e}) \cap Networked, moveParent'[d] # NULL,
                        moveParent'[d] \notin relinkedTo, pParent'[d] = moveParent'[d]
                 PROVE  InItsList(d)'
    BY <1>1 DEF ChildrenListed
  <2>2. d \in Ents /\ moveParent'[d] = moveParent[d] /\ moveParent[d] \in Ents \ {e}
    BY <1>1, <1>2, <2>1 DEF Dropped, LinksTyped, Links, Alive
  <2>3. pParent[d] = moveParent[d]
    BY <2>1, <2>2 DEF Forget
  <2>4. InItsList(d)
    BY <2>1, <2>2, <2>3 DEF JInv, ChildrenListed
  <2>5. Listed(moveParent[d])' = Listed(moveParent[d])
    BY <1>2, <2>1, <2>2 DEF Dropped, JInv, MarkedUnlisted
  <2> QED
    BY <2>1, <2>2, <2>4, <2>5 DEF InItsList, Listed
<1> QED
  BY <1>3, <1>4 DEF JInv

LEMMA RemoveImmediateJInv ==
  ASSUME IInv, JInv, NEW e \in Ents, UTIL_RemoveImmediate(e) PROVE JInv'
<1> USE DEF UTIL_RemoveImmediate, GameCode
<1>1. LinksTyped /\ ListsSound /\ TypeOK /\ Alive' = Alive \ {e} /\ e \in Alive
  BY TypeLinks, DropOK DEF IInv, TypeOK
<1>2. /\ \A p \in Ents : Listed(p)' \subseteq Listed(p) \ {e}
      /\ \A p \in Ents \ {e} : Listed(p)' = Listed(p) \ {e}
      /\ \A d \in Ents : moveParent'[d] =
           IF d = e \/ moveParent[d] = e THEN NULL ELSE moveParent[d]
  BY <1>1, UnlinkDropEffect
<1>3. MarkedUnlisted'
  BY <1>2 DEF JInv, MarkedUnlisted
<1>4. ChildrenListed'
  <2>1. SUFFICES ASSUME NEW d \in (Alive \ {e}) \cap Networked, moveParent'[d] # NULL,
                        moveParent'[d] \notin relinkedTo, pParent'[d] = moveParent'[d]
                 PROVE  InItsList(d)'
    BY <1>1 DEF ChildrenListed
  <2>2. d \in Ents /\ moveParent'[d] = moveParent[d] /\ moveParent[d] \in Ents \ {e}
    BY <1>1, <1>2, <2>1 DEF LinksTyped, Links, Alive
  <2>3. pParent[d] = moveParent[d]
    BY <2>1, <2>2 DEF Forget
  <2>4. InItsList(d)
    BY <2>1, <2>2, <2>3 DEF JInv, ChildrenListed
  <2>5. Listed(moveParent[d])' = Listed(moveParent[d]) \ {e}
    BY <1>2, <2>2
  <2> QED
    BY <2>1, <2>2, <2>4, <2>5 DEF InItsList, Listed
<1> QED
  BY <1>3, <1>4 DEF JInv

LEMMA ConvertJInv ==
  ASSUME IInv, JInv, NEW e \in Ents, NEW n \in Ents \cup {NULL}, ConvertTarget(e, n) PROVE JInv'
<1> USE DEF ConvertTarget, GameCode
<1>1. \A d \in Alive' \ Alive : moveParent[d] = NULL /\ d # e
  BY DEF IInv, TypeOK, LinkOK, Alive
<1> QED
  BY <1>1, UnlinkJInv DEF Alive

LEMMA TransferJInv ==
  ASSUME IInv, JInv, TransferChild PROVE JInv'
<1> DEFINE o == transfer[1]
<1> DEFINE n == transfer[2]
<1> DEFINE c == moveChild[o]
<1>1. LinksTyped /\ ListsSound /\ TypeOK
  BY TypeLinks DEF IInv
<1>2. /\ c # NULL /\ MoveTo(c, n) /\ o \in Ents /\ n \in Ents
      /\ UNCHANGED <<mem, marked, pParent, orphans, transfer, toRestore>>
      /\ relinkedTo \subseteq relinkedTo' /\ (c \in marked => n \in relinkedTo')
  BY <1>1 DEF TransferChild, TypeOK, Alive, Relinks
<1>3. c \in Listed(o) /\ c \in Ents
  BY <1>1, <1>2, FirstChildListed DEF Alive
<1> HIDE DEF c, n, o
<1>4. Moved(c, n)
  BY <1>1, <1>2, <1>3, MoveEffect
<1> QED
  BY <1>2, <1>3, <1>4, MovedJInv DEF Alive

LEMMA RestoreJInv ==
  ASSUME IInv, JInv, NEW e \in Ents, SaveAndLoad \/ OnRestore(e) PROVE JInv'
<1>1. LinksTyped /\ ListsSound /\ TypeOK /\ Quiet
  BY TypeLinks DEF IInv
<1>2. CASE SaveAndLoad
  <2>1. marked' = {} /\ toRestore' = Alive'
    BY <1>2 DEF SaveAndLoad, Free, Alive
  <2> QED
    BY <2>1 DEF JInv, MarkedUnlisted, ChildrenListed
<1>3. CASE OnRestore(e) /\ NotInItsList(pParent[e], e)
  <2> DEFINE p == pParent[e]
  <2>1. p \in Ents /\ LinkChild(p, e) /\ marked = {}
    BY <1>1, <1>3 DEF OnRestore, NotInItsList, TypeOK, LinkOK, Alive, Quiet
  <2>2. \A q \in Ents : e \notin Listed(q)
    BY <1>3, MissingInAll DEF OnRestore
  <2> HIDE DEF p
  <2>3. Moved(e, p)
    BY <1>1, <2>1, <2>2, LinkEffect
  <2> QED
    BY <1>3, <2>1, <2>3, MovedJInv DEF OnRestore, Alive
<1>4. CASE OnRestore(e) /\ ~NotInItsList(pParent[e], e)
  <2> USE <1>4 DEF OnRestore
  <2>1. MarkedUnlisted'
    BY DEF JInv, MarkedUnlisted, Listed, links
  <2>2. ChildrenListed'
    BY DEF JInv, ChildrenListed, InItsList, NotInItsList, Listed, links, Alive
  <2> QED
    BY <2>1, <2>2 DEF JInv
<1> QED
  BY <1>2, <1>3, <1>4

\* Every step keeps the children in their lists.
THEOREM NextJInv == IInv /\ JInv /\ [Next]_vars => JInv'
<1> SUFFICES ASSUME IInv, JInv, [Next]_vars PROVE JInv'
  OBVIOUS
<1>1. CASE UNCHANGED vars
  BY <1>1, SameJInv DEF vars, Alive
<1>2. ASSUME NEW e \in Ents, Create(e) PROVE JInv'
  BY <1>2, CreateJInv
<1>3. ASSUME NEW e \in Ents, UTIL_Remove(e) \/ RemoveOrphan(e) PROVE JInv'
  BY <1>3, RemoveJInv
<1>4. ASSUME NEW e \in Ents, UTIL_RemoveImmediate(e) PROVE JInv'
  BY <1>4, RemoveImmediateJInv
<1>5. ASSUME NEW e \in Ents, CleanupDeleteList(e) PROVE JInv'
  BY <1>5, CleanupJInv
<1>6. ASSUME NEW e \in Ents, OnRestore(e) PROVE JInv'
  BY <1>6, RestoreJInv
<1>7. ASSUME NEW c \in Ents, NEW p \in Ents \cup {NULL}, SetParent(c, p) PROVE JInv'
  BY <1>7, SetParentJInv
<1>8. ASSUME NEW c \in Ents, NEW p \in Ents \cup {NULL}, ConvertTarget(c, p) PROVE JInv'
  BY <1>8, ConvertJInv
<1>9. CASE TransferChild
  BY <1>9, TransferJInv
<1>10. CASE TransferDone
  <2>1. transfer[1] \in Ents
    BY <1>10 DEF TransferDone, IInv, TypeOK, Alive
  <2> QED
    BY <1>10, <2>1, RemoveJInv
<1>11. CASE SaveAndLoad
  <2>1. \E e \in Ents : TRUE
    BY <1>11 DEF SaveAndLoad, Alive
  <2> QED
    BY <1>11, <2>1, RestoreJInv
<1> QED
  BY <1>1, <1>2, <1>3, <1>4, <1>5, <1>6, <1>7, <1>8, <1>9, <1>10, <1>11 DEF Next

\* Children stay in the list of their parent in every reachable state.
THEOREM SpecJInv == Spec => []JInv
<1>1. Init => JInv
  <2>1. Init => ChildrenListed
    BY DEF Init, ChildrenListed, Alive
  <2>2. Init => MarkedUnlisted
    BY DEF Init, MarkedUnlisted
  <2> QED
    BY <2>1, <2>2 DEF JInv
<1>2. IInv /\ JInv /\ [Next]_vars => JInv'
  BY NextJInv
<1> QED
  BY <1>1, <1>2, SpecIInv, PTL DEF Spec

\* No child is lost to the list of its parent, but for lists that a removed entity
\* was put into (SetParent, TransferChildren).
THEOREM SpecChildrenListed == Spec => []ChildrenListed
<1>1. JInv => ChildrenListed
  BY DEF JInv
<1> QED
  BY <1>1, SpecJInv, PTL

\* A removed entity is in no list that it was not put into after its removal.
THEOREM SpecMarkedUnlisted == Spec => []MarkedUnlisted
<1>1. JInv => MarkedUnlisted
  BY DEF JInv
<1> QED
  BY <1>1, SpecJInv, PTL
=============================================================================
