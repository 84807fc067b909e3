------------------------ MODULE EntityLifecycleProofs ------------------------
(***************************************************************************)
(* Removal is safe for any number of entities and however deep removals    *)
(* nest: raw pointers never dangle, an entity is removed by one call and   *)
(* then pending once, and registries forget it.                            *)
(***************************************************************************)
EXTENDS EntityLifecycle, TLAPS

-----------------------------------------------------------------------------
(* The hierarchy.                                                          *)

\* GetAllChildren includes the children, and theirs.
LEMMA DescendantsClosed ==
  ASSUME NEW up, NEW e
  PROVE  /\ Children(up, e) \subseteq Descendants(up, e)
         /\ \A c \in Descendants(up, e) : Children(up, c) \subseteq Descendants(up, e)
BY DEF Children, Descendants

\* ... and nothing else: it is the least such set.
LEMMA DescendantsLeast ==
  ASSUME NEW up, NEW e, NEW S \in SUBSET Ents,
         Children(up, e) \subseteq S, \A c \in S : Children(up, c) \subseteq S
  PROVE  Descendants(up, e) \subseteq S
BY DEF Descendants

\* Every descendant hangs from somebody.
LEMMA DescendantsHang ==
  ASSUME NEW up, NEW e \in Ents
  PROVE  \A d \in Descendants(up, e) : d \in Ents /\ up[d] # NULL
<1> DEFINE S == {d \in Descendants(up, e) : up[d] \in {e} \cup Descendants(up, e)}
<1>1. S \in SUBSET Ents /\ Descendants(up, e) \in SUBSET Ents
  BY DEF Descendants
<1>2. Children(up, e) \subseteq S
  BY DescendantsClosed DEF Children
<1>3. \A c \in S : Children(up, c) \subseteq S
  BY DescendantsClosed DEF Children
<1>4. Descendants(up, e) \subseteq S
  BY <1>1, <1>2, <1>3, DescendantsLeast
<1> QED BY <1>1, <1>4, NullAssumption

-----------------------------------------------------------------------------
(* The stack of removals under way.                                        *)

Calls(s) == {s[i] : i \in DOMAIN s}

Distinct(s) == \A i, j \in DOMAIN s : i # j => s[i].ent # s[j].ent

\* No removal waits behind one that frees an entity still on its list.
Covered(s) ==
  \A i, j \in DOMAIN s : i < j /\ s[i].how # "later" => s[i].ent \notin s[j].orphans

StackOK(s) == s \in Seq(Removal) /\ Distinct(s) /\ Covered(s)

\* A call put on top of the stack.
LEMMA Push ==
  ASSUME NEW s, StackOK(s), NEW r \in Removal,
         \A q \in Calls(s) : q.ent # r.ent /\ (r.how # "later" => r.ent \notin q.orphans)
  PROVE  StackOK(<<r>> \o s) /\ Calls(<<r>> \o s) = {r} \cup Calls(s)
<1> DEFINE t == <<r>> \o s
<1>1. /\ t \in Seq(Removal) /\ Len(s) \in Nat /\ DOMAIN s = 1..Len(s)
      /\ DOMAIN t = 1..(Len(s) + 1) /\ t[1] = r
      /\ \A i \in 1..Len(s) : t[i + 1] = s[i]
  BY DEF StackOK
<1> HIDE DEF t
<1>2. \A i \in DOMAIN t :
        i \in Nat /\ (i = 1 \/ (i > 1 /\ i - 1 \in DOMAIN s /\ t[i] = s[i - 1]))
  BY <1>1
<1>a. \A i \in DOMAIN s :
        s[i].ent # r.ent /\ (r.how # "later" => r.ent \notin s[i].orphans)
  BY DEF Calls
<1>b. \A i, j \in Nat : i # j => i - 1 # j - 1
  OBVIOUS
<1>c. \A i, j \in Nat : i < j => i - 1 < j - 1 /\ (i > 1 => j > 1) /\ (i = 1 => j # 1)
  OBVIOUS
<1>3. Distinct(t)
  <2> SUFFICES ASSUME NEW i \in DOMAIN t, NEW j \in DOMAIN t, i # j PROVE t[i].ent # t[j].ent
    BY DEF Distinct
  <2> QED BY <1>1, <1>2, <1>a, <1>b DEF Distinct, StackOK
<1>4. Covered(t)
  <2> SUFFICES ASSUME NEW i \in DOMAIN t, NEW j \in DOMAIN t, i < j, t[i].how # "later"
               PROVE  t[i].ent \notin t[j].orphans
    BY DEF Covered
  <2>1. j # 1 /\ j - 1 \in DOMAIN s /\ t[j] = s[j - 1]
    BY <1>2, <1>c
  <2>2. CASE i = 1
    BY <1>1, <1>a, <2>1, <2>2
  <2>3. CASE i # 1
    BY <1>2, <1>c, <2>1, <2>3 DEF Covered, StackOK
  <2> QED BY <2>2, <2>3
<1>5. Calls(t) = {r} \cup Calls(s)
  <2>1. Calls(t) \subseteq {r} \cup Calls(s)
    BY <1>1, <1>2 DEF Calls
  <2>2. \A i \in DOMAIN s : i + 1 \in DOMAIN t /\ t[i + 1] = s[i]
    BY <1>1
  <2>3. 1 \in DOMAIN t
    BY <1>1
  <2>4. {r} \cup Calls(s) \subseteq Calls(t)
    BY <1>1, <2>2, <2>3 DEF Calls
  <2> QED BY <2>1, <2>4
<1> QED BY <1>1, <1>3, <1>4, <1>5 DEF StackOK, t

\* The top of the stack and the calls it will return to.
LEMMA Split ==
  ASSUME NEW s, StackOK(s), s # <<>>
  PROVE  /\ StackOK(Tail(s)) /\ Head(s) \in Removal
         /\ Calls(s) = {Head(s)} \cup Calls(Tail(s))
         /\ \A q \in Calls(Tail(s)) :
              q.ent # Head(s).ent /\ (Head(s).how # "later" => Head(s).ent \notin q.orphans)
<1> DEFINE t == Tail(s)
<1>1. /\ t \in Seq(Removal) /\ Len(s) \in Nat \ {0} /\ DOMAIN s = 1..Len(s)
      /\ DOMAIN t = 1..(Len(s) - 1) /\ Head(s) = s[1] /\ s[1] \in Removal
      /\ \A i \in 1..(Len(s) - 1) : t[i] = s[i + 1]
  BY DEF StackOK
<1> HIDE DEF t
<1>2. \A i \in DOMAIN t : i \in Nat /\ i + 1 \in DOMAIN s /\ i + 1 > 1 /\ t[i] = s[i + 1]
  BY <1>1
<1>3. \A i \in DOMAIN s : i = 1 \/ (i - 1 \in DOMAIN t /\ t[i - 1] = s[i])
  BY <1>1
<1>4. Distinct(t)
  BY <1>2 DEF Distinct, StackOK
<1>5. Covered(t)
  <2>1. \A i, j \in DOMAIN t : i < j => i + 1 < j + 1
    BY <1>2
  <2> QED BY <1>2, <2>1 DEF Covered, StackOK
<1>6. Calls(s) = {s[1]} \cup Calls(t)
  BY <1>1, <1>2, <1>3 DEF Calls
<1>7. \A q \in Calls(t) :
        q.ent # s[1].ent /\ (s[1].how # "later" => s[1].ent \notin q.orphans)
  BY <1>1, <1>2 DEF Calls, Distinct, Covered, StackOK
<1> QED BY <1>1, <1>4, <1>5, <1>6, <1>7 DEF StackOK, t

-----------------------------------------------------------------------------
(* The inductive invariant: what entities and the lists they are in look   *)
(* like (World), what removals under way hold (Removals), and what the     *)
(* frame's own pointers may name (Frame).                                  *)

WorldTypes ==
  /\ mem \in [Ents -> {"unborn", "alive", "freed"}]
  /\ marked \subseteq Ents
  /\ parent \in [Ents -> Ents \cup {NULL}]
  /\ deleteList \in [Ents -> Nat]
  /\ simThink \subseteq Ents
  /\ updateList \in [Ents -> Nat]
  /\ checkUntouch \subseteq Ents

\* Freed entities were marked, unborn ones are not; whoever a registry lists
\* or hangs from somebody is alive.
Lives ==
  /\ \A e \in Ents : (mem[e] = "freed" => e \in marked) /\ (mem[e] = "unborn" => e \notin marked)
  /\ simThink \subseteq Alive
  /\ \A e \in Ents : updateList[e] > 0 => e \in Alive
  /\ \A c \in Ents : parent[c] # NULL => {c, parent[c]} \subseteq Alive

Pending(removing) ==
  \A e \in Ents :
    deleteList[e] = IF e \in marked \ removing /\ mem[e] = "alive" THEN 1 ELSE 0

World == WorldTypes /\ Lives /\ Pending(Removing) /\ RegistriesForget

\* A removal is of a marked entity that lives and holds living children; whoever
\* is to be freed at its end is in no list of the frame.
CallOK(r) ==
  /\ r.ent \in Alive \cap marked
  /\ r.orphans \subseteq Alive
  /\ r.how # "later" =>
       /\ r.ent \notin removeObjects /\ pc # "think"
       /\ pc = "untouch" => rest[r.ent] = 0
  /\ r.how = "callback" => pc # "free"

Removals == StackOK(removal) /\ \A r \in Calls(removal) : CallOK(r)

Frame ==
  /\ pc \in Phases
  /\ then \in {"outside", "pre", "runthink", "events", "untouch"}
  /\ rest \in [Ents -> Nat]
  /\ removeObjects \subseteq Alive
  /\ \A e \in Ents : rest[e] > 0 => e \in Alive
  /\ pc = "free" => removeObjects = {}
  /\ pc \notin {"think", "untouch"} => rest = Empty
  /\ pc = "untouch" => \A e \in Ents : rest[e] > 0 =>
       rest[e] = 1 /\ updateList[e] = 0 /\ e \in checkUntouch

IInv == World /\ Removals /\ Frame

\* Sets of entities as lists of pointers.
LEMMA EmptyEntries ==
  /\ Empty \in [Ents -> Nat]
  /\ \A e \in Ents : Empty[e] = 0
  /\ \A S : Entry(S) \in [Ents -> Nat]
BY DEF Empty, Entry

\* The sets that the module takes from the stack.
LEMMA StackSets ==
  /\ Removing = {r.ent : r \in Calls(removal)}
  /\ Unannounced = {r.ent : r \in {q \in Calls(removal) : ~q.begun}}
  /\ FreedOnReturn = {r.ent : r \in {q \in Calls(removal) : q.how # "later"}}
  /\ Orphans = UNION {r.orphans : r \in Calls(removal)}
BY DEF Removing, Unannounced, FreedOnReturn, Orphans, UnderWay, Calls

\* The same of the next state.
LEMMA StackSetsPrime ==
  /\ Removing' = {r.ent : r \in Calls(removal')}
  /\ Unannounced' = {r.ent : r \in {q \in Calls(removal') : ~q.begun}}
BY DEF Removing, Unannounced, UnderWay, Calls

\* The invariant says all that the properties say.
LEMMA InvImplies ==
  IInv => TypeOK /\ NoDangling /\ PendingOnce /\ RegistriesForget
<1> SUFFICES ASSUME IInv PROVE TypeOK /\ NoDangling /\ PendingOnce /\ RegistriesForget
  OBVIOUS
<1>1. removal \in Seq(Removal) /\ Distinct(removal)
  BY DEF IInv, Removals, StackOK
<1>2. TypeOK
  BY <1>1 DEF TypeOK, IInv, World, WorldTypes, Frame, Alive
<1>3. Removing \cup Orphans \subseteq Alive
  BY StackSets DEF IInv, Removals, CallOK
<1>4. NoDangling
  BY <1>3 DEF NoDangling, IInv, World, WorldTypes, Frame, Pending, Lives, Alive
<1>5. PendingOnce
  BY <1>1 DEF PendingOnce, IInv, World, Pending, Distinct
<1> QED BY <1>2, <1>4, <1>5 DEF IInv, World

\* The game starts sound: no entity, no pointer.
LEMMA InitInv == Init => IInv
<1> SUFFICES ASSUME Init PROVE IInv
  OBVIOUS
<1>1. removal \in Seq(Removal) /\ DOMAIN removal = {}
  BY DEF Init
<1>2. Removals /\ Calls(removal) = {}
  BY <1>1 DEF Removals, StackOK, Distinct, Covered, Calls
<1>3. Removing = {}
  BY <1>2, StackSets
<1>4. WorldTypes /\ Lives /\ Pending(Removing) /\ RegistriesForget
  BY <1>3, EmptyEntries DEF Init, WorldTypes, Lives, Pending, RegistriesForget, Alive
<1>5. Frame
  BY EmptyEntries DEF Init, Frame, Phases, GamePhases
<1> QED BY <1>2, <1>4, <1>5 DEF IInv, World

-----------------------------------------------------------------------------
(* The removal steps keep the invariant.                                   *)

Entities(calls) == {r.ent : r \in calls}
Fresh(calls) == {r \in calls : ~r.begun}

\* The stack stays as it is.
LEMMA StackKept ==
  ASSUME UNCHANGED removal
  PROVE  Removing' = Removing /\ Unannounced' = Unannounced
BY StackSets, StackSetsPrime

\* An entity is marked and its removal is put on top of the stack.
LEMMA MarkInv ==
  ASSUME World, NEW calls, StackOK(calls), \A r \in Calls(calls) : CallOK(r),
         Entities(Calls(calls)) = Removing,
         Entities(Fresh(Calls(calls))) = Unannounced,
         NEW e \in Alive \ marked, NEW how \in {"later", "now", "callback"},
         marked' = marked \cup {e}, removal' = <<Begin(e, how)>> \o calls,
         how # "later" =>
           /\ \A q \in Calls(calls) : e \notin q.orphans
           /\ e \notin removeObjects /\ pc # "think"
           /\ pc = "untouch" => rest[e] = 0,
         how = "callback" => pc # "free",
         removeObjects' \subseteq removeObjects,
         UNCHANGED <<mem, parent, deleteList, simThink, updateList, checkUntouch, pc, rest>>
  PROVE  World' /\ Removals'
<1> DEFINE b == Begin(e, how)
<1>1. e \in Ents /\ e \notin marked /\ mem[e] = "alive"
  BY DEF Alive
<1>2. /\ b \in Removal /\ b.ent = e /\ b.how = how /\ b.begun = FALSE
      /\ b.orphans = {}
  BY <1>1 DEF Begin, Removal
<1>3. \A q \in Calls(calls) : q.ent # e
  BY <1>1 DEF CallOK
<1>4. StackOK(removal') /\ Calls(removal') = {b} \cup Calls(calls)
  <2> HIDE DEF b
  <2>1. \A q \in Calls(calls) : q.ent # b.ent /\ (b.how # "later" => b.ent \notin q.orphans)
    BY <1>2, <1>3
  <2>2. removal' = <<b>> \o calls
    BY DEF b
  <2> QED BY <1>2, <2>1, <2>2, Push
<1> HIDE DEF b
<1>5. Alive' = Alive
  BY DEF Alive
<1>6. CallOK(b)'
  BY <1>1, <1>2, <1>5 DEF CallOK
<1>7. ASSUME NEW r \in Calls(calls) PROVE CallOK(r)'
  <2>1. CallOK(r)
    OBVIOUS
  <2> QED BY <1>5, <2>1 DEF CallOK
<1>8. Removals'
  BY <1>4, <1>6, <1>7 DEF Removals
<1>9. Removing' = Removing \cup {e} /\ Unannounced' = Unannounced \cup {e}
  BY <1>2, <1>4, StackSetsPrime DEF Entities, Fresh
<1>10. WorldTypes' /\ Lives'
  BY <1>1, <1>5 DEF World, WorldTypes, Lives
<1>11. Pending(Removing)'
  BY <1>1, <1>9 DEF World, WorldTypes, Pending
<1>12. RegistriesForget'
  BY <1>9 DEF World, RegistriesForget
<1> QED BY <1>8, <1>10, <1>11, <1>12 DEF World

\* UTIL_Remove outside a physics callback, whoever calls it.
LEMMA RemoveInv ==
  ASSUME World, NEW calls, StackOK(calls), \A r \in Calls(calls) : CallOK(r),
         Entities(Calls(calls)) = Removing,
         Entities(Fresh(Calls(calls))) = Unannounced,
         NEW e \in Alive, Remove(e, calls),
         removeObjects' \subseteq removeObjects,
         UNCHANGED <<mem, parent, deleteList, simThink, updateList, checkUntouch, pc, rest>>
  PROVE  World' /\ Removals'
<1>1. CASE e \in marked
  <2>1. removal' = calls /\ marked' = marked
    BY <1>1 DEF Remove, IsMarkedForDeletion
  <2>2. Removing' = Removing /\ Unannounced' = Unannounced
    BY <2>1, StackSetsPrime DEF Entities, Fresh
  <2>3. Alive' = Alive
    BY DEF Alive
  <2>4. ASSUME NEW r \in Calls(calls) PROVE CallOK(r)'
    <3>1. CallOK(r)
      OBVIOUS
    <3> QED BY <2>1, <2>3, <3>1 DEF CallOK
  <2>5. Removals'
    BY <2>1, <2>4 DEF Removals
  <2>6. World'
    BY <2>1, <2>2, <2>3 DEF World, WorldTypes, Lives, Pending, RegistriesForget
  <2> QED BY <2>5, <2>6
<1>2. CASE e \notin marked
  <2>1. marked' = marked \cup {e} /\ removal' = <<Begin(e, "later")>> \o calls
    BY <1>2 DEF Remove, IsMarkedForDeletion
  <2>2. e \in Alive \ marked
    BY <1>2
  <2> QED BY <2>1, <2>2, MarkInv
<1> QED BY <1>1, <1>2

\* The stack as it is meets what RemoveInv asks for.
LEMMA StackAsIs ==
  ASSUME Removals
  PROVE  /\ StackOK(removal) /\ \A r \in Calls(removal) : CallOK(r)
         /\ Entities(Calls(removal)) = Removing
         /\ Entities(Fresh(Calls(removal))) = Unannounced
BY StackSets DEF Removals, Entities, Fresh

\* So does the stack with another state of the innermost removal.
LEMMA Resumed ==
  ASSUME Removals, removal # <<>>, NEW r \in Removal,
         r.ent = Head(removal).ent, r.how = Head(removal).how, CallOK(r)
  PROVE  /\ StackOK(<<r>> \o Tail(removal))
         /\ Calls(<<r>> \o Tail(removal)) = {r} \cup Calls(Tail(removal))
         /\ \A q \in {r} \cup Calls(Tail(removal)) : CallOK(q)
         /\ Entities({r} \cup Calls(Tail(removal))) = Removing
         /\ r.begun = Head(removal).begun =>
              Entities(Fresh({r} \cup Calls(Tail(removal)))) = Unannounced
<1> DEFINE top == Head(removal)
           below == Tail(removal)
<1>1. /\ StackOK(below) /\ top \in Removal
      /\ Calls(removal) = {top} \cup Calls(below)
      /\ \A q \in Calls(below) :
           q.ent # top.ent /\ (top.how # "later" => top.ent \notin q.orphans)
  BY Split DEF Removals
<1> HIDE DEF top, below
<1>2. r.ent = top.ent /\ r.how = top.how
  BY DEF top
<1>3. StackOK(<<r>> \o below) /\ Calls(<<r>> \o below) = {r} \cup Calls(below)
  BY <1>1, <1>2, Push
<1>4. \A q \in {r} \cup Calls(below) : CallOK(q)
  BY <1>1 DEF Removals
<1>5. Entities({r} \cup Calls(below)) = Removing
  BY <1>1, <1>2, StackSets DEF Entities
<1>6. ASSUME r.begun = top.begun
      PROVE  Entities(Fresh({r} \cup Calls(below))) = Unannounced
  BY <1>1, <1>2, <1>6, StackSets DEF Entities, Fresh
<1> QED BY <1>3, <1>4, <1>5, <1>6 DEF top, below

\* The innermost UpdateOnRemove tells the listeners and lists the children.
LEMMA UpdateInv == IInv /\ UpdateOnRemove => IInv'
<1> SUFFICES ASSUME IInv, UpdateOnRemove PROVE IInv'
  OBVIOUS
<1> DEFINE top == Head(removal)
           e == top.ent
           r == [top EXCEPT !.begun = TRUE, !.orphans = Descendants(parent, e)]
<1>1. /\ removal # <<>> /\ top.begun = FALSE /\ top \in Removal /\ CallOK(top)
      /\ StackOK(Tail(removal)) /\ Calls(removal) = {top} \cup Calls(Tail(removal))
      /\ \A q \in Calls(Tail(removal)) : q.ent # top.ent
  BY Split DEF UpdateOnRemove, IInv, Removals, Removal
<1>2. /\ simThink' = simThink \ {e}
      /\ updateList' = [updateList EXCEPT ![e] = IF TouchForgets(e) THEN @ - 1 ELSE @]
      /\ parent' = [parent EXCEPT ![e] = NULL]
      /\ removal' = <<r>> \o Tail(removal)
      /\ UNCHANGED <<mem, marked, deleteList, removeObjects, checkUntouch, pc, then, rest>>
  BY DEF UpdateOnRemove
<1>3. e \in Ents /\ e \in Alive /\ e \in marked
  BY <1>1 DEF CallOK, Alive
<1>4. Descendants(parent, e) \subseteq Alive
  BY <1>3, DescendantsHang DEF IInv, World, Lives
<1>5. /\ r \in Removal /\ r.ent = e /\ r.how = top.how /\ r.begun = TRUE
      /\ r.orphans = Descendants(parent, e)
  BY <1>1, <1>4 DEF Removal, Alive
<1> HIDE DEF r
<1>6. CallOK(r)
  BY <1>1, <1>4, <1>5 DEF CallOK
<1>7. /\ StackOK(removal') /\ Calls(removal') = {r} \cup Calls(Tail(removal))
      /\ \A q \in Calls(removal') : CallOK(q)
      /\ Entities(Calls(removal')) = Removing
  BY <1>1, <1>2, <1>5, <1>6, Resumed DEF IInv
<1>8. Alive' = Alive /\ Removing' = Removing
  BY <1>2, <1>7, StackSetsPrime DEF Alive, Entities
<1>9. ASSUME NEW q \in Calls(removal') PROVE CallOK(q)'
  <2>1. CallOK(q)
    BY <1>7
  <2> QED BY <1>2, <1>8, <2>1 DEF CallOK
<1>10. Removals'
  BY <1>7, <1>9 DEF Removals
<1>11. Unannounced' = Unannounced \ {e}
  <2>1. Unannounced' = Entities(Fresh(Calls(Tail(removal))))
    BY <1>5, <1>7, StackSetsPrime DEF Entities, Fresh
  <2>2. Unannounced = {e} \cup Entities(Fresh(Calls(Tail(removal))))
    BY <1>1, StackSets DEF Entities, Fresh
  <2> QED BY <1>1, <2>1, <2>2 DEF Entities, Fresh
<1> HIDE DEF e, top
<1>12. /\ \A x \in Ents \ {e} : updateList'[x] = updateList[x]
       /\ updateList'[e] = 0 /\ updateList' \in [Ents -> Nat]
  BY <1>2, <1>3 DEF TouchForgets, IInv, World, WorldTypes, RegistriesForget
<1>13. WorldTypes'
  BY <1>2, <1>3, <1>12 DEF IInv, World, WorldTypes
<1>14. Lives'
  BY <1>2, <1>3, <1>8, <1>12 DEF IInv, World, WorldTypes, Lives
<1>15. Pending(Removing)'
  BY <1>2, <1>8 DEF IInv, World, Pending
<1>16. RegistriesForget'
  BY <1>2, <1>3, <1>11, <1>12 DEF IInv, World, RegistriesForget
<1>17. Frame'
  BY <1>2, <1>3, <1>8, <1>12 DEF IInv, Frame, World, WorldTypes
<1> QED BY <1>10, <1>13, <1>14, <1>15, <1>16, <1>17 DEF IInv, World

\* It gets to the next of its children.
LEMMA RemoveOrphanInv == \A c \in Ents : IInv /\ RemoveOrphan(c) => IInv'
<1> SUFFICES ASSUME NEW c \in Ents, IInv, RemoveOrphan(c) PROVE IInv'
  OBVIOUS
<1> DEFINE top == Head(removal)
           r == [top EXCEPT !.orphans = @ \ {c}]
           calls == <<r>> \o Tail(removal)
<1>1. /\ removal # <<>> /\ c \in top.orphans /\ top \in Removal /\ CallOK(top)
      /\ Calls(removal) = {top} \cup Calls(Tail(removal))
  BY Split DEF RemoveOrphan, IInv, Removals
<1>2. UNCHANGED <<mem, parent, deleteList, simThink, updateList, checkUntouch, pc, then,
                  rest>>
  BY DEF RemoveOrphan
<1>3. /\ r \in Removal /\ r.ent = top.ent /\ r.how = top.how /\ r.begun = top.begun
      /\ r.orphans = top.orphans \ {c}
  BY <1>1 DEF Removal
<1>4. CASE Deferring /\ ~IsMarkedForDeletion(c)
           /\ QueueRemove(c) /\ removal' = calls
  <2> HIDE DEF r
  <2>1. CallOK(r)
    BY <1>1, <1>3 DEF CallOK
  <2>2. /\ StackOK(removal') /\ Calls(removal') = {r} \cup Calls(Tail(removal))
        /\ \A q \in Calls(removal') : CallOK(q)
        /\ Entities(Calls(removal')) = Removing
        /\ Entities(Fresh(Calls(removal'))) = Unannounced
    BY <1>1, <1>3, <1>4, <2>1, Resumed DEF IInv
  <2>3. /\ removeObjects' = removeObjects \cup {c} /\ marked' = marked
        /\ c \in Alive /\ c \notin marked /\ pc # "free"
    BY <1>1, <1>4 DEF QueueRemove, IsMarkedForDeletion, CallOK, Deferring
  <2>4. Alive' = Alive /\ Removing' = Removing /\ Unannounced' = Unannounced
    BY <1>2, <2>2, StackSetsPrime DEF Alive, Entities, Fresh
  <2>5. ASSUME NEW q \in Calls(removal') PROVE CallOK(q)'
    <3>1. CallOK(q)
      BY <2>2
    <3> QED BY <1>2, <2>3, <2>4, <3>1 DEF CallOK
  <2>6. Removals'
    BY <2>2, <2>5 DEF Removals
  <2>7. World'
    BY <1>2, <2>3, <2>4 DEF IInv, World, WorldTypes, Lives, Pending, RegistriesForget
  <2>8. Frame'
    BY <1>2, <2>3, <2>4 DEF IInv, Frame
  <2> QED BY <2>6, <2>7, <2>8 DEF IInv
<1>5. CASE Remove(c, calls) /\ removeObjects' = removeObjects
  <2> HIDE DEF r
  <2>1. CallOK(r)
    BY <1>1, <1>3 DEF CallOK
  <2>2. /\ StackOK(calls) /\ \A q \in Calls(calls) : CallOK(q)
        /\ Entities(Calls(calls)) = Removing
        /\ Entities(Fresh(Calls(calls))) = Unannounced
    BY <1>1, <1>3, <2>1, Resumed DEF IInv
  <2>3. c \in Alive
    BY <1>1 DEF CallOK
  <2> HIDE DEF calls
  <2>4. World' /\ Removals'
    BY <1>2, <1>5, <2>2, <2>3, RemoveInv DEF IInv
  <2>5. Frame'
    BY <1>2, <1>5 DEF IInv, Frame, Alive
  <2> QED BY <2>4, <2>5 DEF IInv
<1> QED BY <1>4, <1>5 DEF RemoveOrphan

\* The innermost UpdateOnRemove returns: the entity is queued, or freed.
LEMMA ReturnInv == IInv /\ RemoveReturns => IInv'
<1> SUFFICES ASSUME IInv, RemoveReturns PROVE IInv'
  OBVIOUS
<1> DEFINE top == Head(removal)
           e == top.ent
           below == Calls(Tail(removal))
<1>1. /\ removal # <<>> /\ top.begun = TRUE /\ top \in Removal /\ CallOK(top)
      /\ StackOK(Tail(removal)) /\ Calls(removal) = {top} \cup below
      /\ \A q \in below : q.ent # e /\ (top.how # "later" => e \notin q.orphans)
  BY Split DEF RemoveReturns, IInv, Removals, Removal
<1>2. /\ removal' = Tail(removal)
      /\ IF top.how = "later"
         THEN deleteList' = [deleteList EXCEPT ![e] = @ + 1] /\ UNCHANGED <<mem, parent>>
         ELSE Freed(e) /\ UNCHANGED deleteList
      /\ UNCHANGED <<marked, removeObjects, simThink, updateList, checkUntouch, pc, then,
                     rest>>
  BY DEF RemoveReturns
<1>3. e \in Ents /\ e \in Alive /\ e \in marked /\ mem[e] = "alive"
  BY <1>1 DEF CallOK, Alive
<1>4. Removing = Removing' \cup {e} /\ e \notin Removing' /\ Unannounced' = Unannounced
  <2>1. Removing' = Entities(below) /\ Unannounced' = Entities(Fresh(below))
    BY <1>2, StackSetsPrime DEF Entities, Fresh
  <2>2. Removing = {e} \cup Entities(below) /\ Unannounced = Entities(Fresh(below))
    BY <1>1, StackSets DEF Entities, Fresh
  <2> QED BY <1>1, <2>1, <2>2 DEF Entities
<1>5. e \notin Unannounced
  BY <1>1, StackSets DEF Entities, Fresh
<1>6. e \notin simThink /\ updateList[e] = 0
  BY <1>3, <1>5 DEF IInv, World, WorldTypes, RegistriesForget
<1>7. StackOK(removal') /\ Calls(removal') = below
  BY <1>1, <1>2
<1>8. \A q \in below : CallOK(q)
  BY <1>1 DEF IInv, Removals
<1>9. CASE top.how = "later"
  <2> HIDE DEF top, e, below
  <2>1. /\ deleteList' = [deleteList EXCEPT ![e] = @ + 1] /\ UNCHANGED <<mem, parent>>
    BY <1>2, <1>9
  <2>2. Alive' = Alive
    BY <2>1 DEF Alive
  <2>3. ASSUME NEW q \in below PROVE CallOK(q)'
    <3>1. CallOK(q)
      BY <1>8
    <3> QED BY <1>2, <2>2, <3>1 DEF CallOK
  <2>4. Removals'
    BY <1>7, <2>3 DEF Removals
  <2>5. WorldTypes' /\ Lives' /\ RegistriesForget'
    BY <1>2, <1>3, <1>4, <2>1, <2>2 DEF IInv, World, WorldTypes, Lives, RegistriesForget
  <2>6. Pending(Removing)'
    BY <1>2, <1>3, <1>4, <2>1 DEF IInv, World, WorldTypes, Pending
  <2>7. Frame'
    BY <1>2, <2>2 DEF IInv, Frame
  <2> QED BY <2>4, <2>5, <2>6, <2>7 DEF IInv, World
<1>10. CASE top.how # "later"
  <2>0. e \notin removeObjects /\ pc # "think" /\ (pc = "untouch" => rest[e] = 0)
        /\ \A q \in below : e \notin q.orphans /\ q.ent # e
    BY <1>1, <1>10 DEF CallOK
  <2>1. UNCHANGED deleteList /\ Freed(e)
    BY <1>2, <1>10
  <2> HIDE DEF top, e, below
  <2>2. /\ mem' = [mem EXCEPT ![e] = "freed"]
        /\ parent' = [c \in Ents |-> IF c = e \/ parent[c] = e THEN NULL ELSE parent[c]]
    BY <2>1 DEF Freed
  <2>3. Alive' = Alive \ {e}
    BY <2>2, <1>3 DEF Alive, IInv, World, WorldTypes
  <2>4. ASSUME NEW q \in below PROVE CallOK(q)'
    <3>1. CallOK(q)
      BY <1>8
    <3>2. e \notin q.orphans /\ q.ent # e
      BY <2>0
    <3> QED BY <1>2, <2>3, <3>1, <3>2 DEF CallOK
  <2>5. Removals'
    BY <1>7, <2>4 DEF Removals
  <2>6. WorldTypes'
    BY <1>2, <1>3, <2>1, <2>2 DEF IInv, World, WorldTypes
  <2>7. Lives'
    <3>1. \A c \in Ents : parent'[c] # NULL =>
            c # e /\ parent'[c] = parent[c] /\ parent[c] # e
      BY <2>2
    <3> QED BY <1>2, <1>3, <1>6, <2>2, <2>3, <3>1 DEF IInv, World, WorldTypes, Lives
  <2>8. Pending(Removing)'
    BY <1>2, <1>3, <1>4, <2>1, <2>2 DEF IInv, World, WorldTypes, Pending
  <2>9. RegistriesForget'
    BY <1>2, <1>4 DEF IInv, World, RegistriesForget
  <2>10. Frame'
    <3>1. rest[e] = 0
      BY <1>3, <2>0 DEF IInv, Frame, Empty
    <3> QED BY <1>2, <2>0, <2>3, <3>1 DEF IInv, Frame
  <2> QED BY <2>5, <2>6, <2>7, <2>8, <2>9, <2>10 DEF IInv, World
<1> QED BY <1>9, <1>10

-----------------------------------------------------------------------------
(* So do game code and the frame.                                          *)

\* Removals under way stay sound while nobody dies and nothing new is queued.
LEMMA RemovalsKept ==
  ASSUME Removals, Alive \subseteq Alive',
         UNCHANGED <<removal, marked, pc, rest>>, removeObjects' = removeObjects
  PROVE  Removals' /\ Removing' = Removing /\ Unannounced' = Unannounced
<1>1. ASSUME NEW r \in Calls(removal) PROVE CallOK(r)'
  <2>1. CallOK(r)
    BY DEF Removals
  <2> QED BY <2>1 DEF CallOK
<1> QED BY <1>1, StackKept DEF Removals

\* What game code does to entities keeps the invariant.
LEMMA GameStepInv == IInv /\ GameStep => IInv'
<1> SUFFICES ASSUME IInv, GameStep PROVE IInv'
  OBVIOUS
<1>0. World /\ Removals /\ Frame
  BY DEF IInv
<1>1. ASSUME NEW e \in Ents, Create(e) PROVE IInv'
  <2>1. Alive' = Alive \cup {e} /\ mem[e] = "unborn"
    BY <1>0, <1>1 DEF Create, Alive, World, WorldTypes
  <2>2. Removals' /\ Removing' = Removing /\ Unannounced' = Unannounced
    BY <1>0, <1>1, <2>1, RemovalsKept DEF Create, frame
  <2>3. World'
    BY <1>0, <1>1, <2>1, <2>2 DEF Create, frame, World, WorldTypes, Lives, Pending,
       RegistriesForget
  <2>4. Frame'
    BY <1>0, <1>1, <2>1 DEF Create, frame, Frame
  <2> QED BY <2>2, <2>3, <2>4 DEF IInv
<1>2. ASSUME NEW e \in Ents, UTIL_Remove(e) PROVE IInv'
  <2>1. World' /\ Removals'
    BY <1>0, <1>2, StackAsIs, RemoveInv DEF UTIL_Remove, frame
  <2>2. Frame'
    BY <1>0, <1>2 DEF UTIL_Remove, frame, Frame, Alive
  <2> QED BY <2>1, <2>2 DEF IInv
<1>3. ASSUME NEW e \in Ents, PhysCallbackRemove(e) PROVE IInv'
  <2>1. /\ e \in Alive /\ e \notin FreedOnReturn /\ pc # "free"
        /\ removeObjects' = removeObjects \cup {e}
        /\ UNCHANGED <<mem, marked, removal, parent, deleteList, simThink, updateList,
                       checkUntouch, pc, then, rest>>
    BY <1>3 DEF PhysCallbackRemove, QueueRemove, frame
  <2>2. Alive' = Alive /\ Removing' = Removing /\ Unannounced' = Unannounced
    BY <2>1, StackKept DEF Alive
  <2>3. ASSUME NEW r \in Calls(removal) PROVE CallOK(r)'
    <3>1. CallOK(r)
      BY <1>0 DEF Removals
    <3>2. r.how # "later" => r.ent # e
      BY <2>1, StackSets
    <3> QED BY <2>1, <2>2, <3>1, <3>2 DEF CallOK
  <2>4. Removals'
    BY <1>0, <2>1, <2>3 DEF Removals
  <2>5. World'
    BY <1>0, <2>1, <2>2 DEF World, WorldTypes, Lives, Pending, RegistriesForget
  <2>6. Frame'
    BY <1>0, <2>1, <2>2 DEF Frame
  <2> QED BY <2>4, <2>5, <2>6 DEF IInv
<1>4. ASSUME NEW e \in Ents, NEW how \in {"now", "callback"}, UTIL_RemoveImmediate(e, how)
      PROVE  IInv'
  <2>1. /\ e \in Alive \ marked /\ pc # "think" /\ (how = "callback" => pc # "free")
        /\ e \notin removeObjects /\ (pc = "untouch" => rest[e] = 0)
        /\ \A q \in Calls(removal) : e \notin q.orphans
        /\ marked' = marked \cup {e} /\ removal' = <<Begin(e, how)>> \o removal
        /\ UNCHANGED <<mem, parent, deleteList, removeObjects, simThink, updateList,
                       checkUntouch, pc, then, rest>>
    BY <1>4, StackSets DEF UTIL_RemoveImmediate, RemoveImmediateDisabled, NothingRelies, frame
  <2>2. World' /\ Removals'
    BY <1>0, <2>1, StackAsIs, MarkInv
  <2>3. Frame'
    BY <1>0, <2>1 DEF Frame, Alive
  <2> QED BY <2>2, <2>3 DEF IInv
<1>5. ASSUME NEW e \in Ents, NEW p \in Ents \cup {NULL}, SetParent(e, p) PROVE IInv'
  <2>1. Alive' = Alive /\ e \in Alive /\ p \in Alive \cup {NULL}
    BY <1>5 DEF SetParent, Alive
  <2>2. Removals' /\ Removing' = Removing /\ Unannounced' = Unannounced
    BY <1>0, <1>5, <2>1, RemovalsKept DEF SetParent, frame
  <2>3. World'
    BY <1>0, <1>5, <2>1, <2>2 DEF SetParent, frame, World, WorldTypes, Lives, Pending,
       RegistriesForget
  <2>4. Frame'
    BY <1>0, <1>5, <2>1 DEF SetParent, frame, Frame
  <2> QED BY <2>2, <2>3, <2>4 DEF IInv
<1>6. ASSUME NEW e \in Ents, NEW active \in BOOLEAN, EntityChanged(e, active) PROVE IInv'
  <2>1. Alive' = Alive /\ e \in Alive /\ e \notin marked
    BY <1>6 DEF EntityChanged, Listable, IsMarkedForDeletion, Alive
  <2>2. Removals' /\ Removing' = Removing /\ Unannounced' = Unannounced
    BY <1>0, <1>6, <2>1, RemovalsKept DEF EntityChanged, frame
  <2>3. World'
    BY <1>0, <1>6, <2>1, <2>2 DEF EntityChanged, frame, World, WorldTypes, Lives, Pending,
       RegistriesForget
  <2>4. Frame'
    BY <1>0, <1>6, <2>1 DEF EntityChanged, frame, Frame
  <2> QED BY <2>2, <2>3, <2>4 DEF IInv
<1>7. ASSUME NEW e \in Ents, SetCheckUntouch(e) PROVE IInv'
  <2>1. Alive' = Alive /\ e \in Alive /\ e \notin checkUntouch
    BY <1>7 DEF SetCheckUntouch, AlreadyFlagged, Alive
  <2>2. Removals' /\ Removing' = Removing /\ Unannounced' = Unannounced
    BY <1>0, <1>7, <2>1, RemovalsKept DEF SetCheckUntouch, frame
  <2>3. World'
    BY <1>0, <1>7, <2>1, <2>2 DEF SetCheckUntouch, Listable, IsMarkedForDeletion, frame,
       World, WorldTypes, Lives, Pending, RegistriesForget
  <2>4. Frame'
    BY <1>0, <1>7, <2>1 DEF SetCheckUntouch, frame, Frame, World, WorldTypes
  <2> QED BY <2>2, <2>3, <2>4 DEF IInv
<1> QED BY <1>1, <1>2, <1>3, <1>4, <1>5, <1>6, <1>7 DEF GameStep

\* One round of UpdateRemoveObjects keeps it.
LEMMA RemoveObjectsInv ==
  ASSUME IInv, NEW e \in Ents, UpdateRemoveObjects(e)
  PROVE  IInv'
<1>1. e \in Alive /\ removeObjects' \subseteq removeObjects
  BY DEF UpdateRemoveObjects, IInv, Frame
<1>2. World' /\ Removals'
  BY <1>1, StackAsIs, RemoveInv DEF UpdateRemoveObjects, frame, IInv
<1>3. Frame'
  BY <1>1 DEF UpdateRemoveObjects, frame, IInv, Frame, Alive
<1> QED BY <1>2, <1>3 DEF IInv

\* So does every step of the frame itself.
LEMMA FrameStepInv == IInv /\ FrameStep => IInv'
<1> SUFFICES ASSUME IInv, FrameStep PROVE IInv'
  OBVIOUS
<1>0. World /\ Removals /\ Frame /\ removal = <<>>
  BY DEF IInv, FrameStep
<1>a. ASSUME UNCHANGED removal
      PROVE  Removals' /\ Removing' = {} /\ Removing = {} /\ Unannounced' = Unannounced
  <2>1. Calls(removal) = {} /\ StackOK(removal) /\ removal' = removal
    BY <1>0, <1>a DEF Calls, Removals
  <2> QED BY <2>1, StackSets, StackKept DEF Removals
<1>b. ASSUME UNCHANGED <<world, deleteList>> PROVE World' /\ Removals'
  BY <1>0, <1>a, <1>b DEF world, World, WorldTypes, Lives, Pending, RegistriesForget, Alive
<1>1. CASE CleanupDeleteList
  <2>1. Frame'
    BY <1>0, <1>1 DEF CleanupDeleteList, CleanupReturns, Frame, world, Alive, Phases
  <2> QED BY <1>1, <1>b, <2>1 DEF CleanupDeleteList, IInv
<1>2. CASE FlushQueuedOperations
  BY <1>2, RemoveObjectsInv DEF FlushQueuedOperations
<1>3. CASE FlushEnd
  <2>1. World'
    BY <1>0, <1>a, <1>3, EmptyEntries DEF FlushEnd, World, WorldTypes, Lives, Pending,
       RegistriesForget, Alive
  <2>2. Frame'
    <3>1. CASE then = "untouch"
      BY <3>1, <1>0, <1>3 DEF FlushEnd, Flushed, Frame, Alive, Phases, GamePhases, World,
         WorldTypes, Lives, RegistriesForget, Empty
    <3>2. CASE then # "untouch"
      BY <3>2, <1>0, <1>3 DEF FlushEnd, Flushed, Frame, Alive, Phases
    <3> QED BY <3>1, <3>2
  <2>3. Removals'
    BY <1>3, <1>a DEF FlushEnd
  <2> QED BY <2>1, <2>2, <2>3 DEF IInv
<1>4. ASSUME NEW e \in Ents, Release(e) PROVE IInv'
  <2>1. /\ pc = "free" /\ deleteList[e] > 0
        /\ mem' = [mem EXCEPT ![e] = "freed"]
        /\ parent' = [c \in Ents |-> IF c = e \/ parent[c] = e THEN NULL ELSE parent[c]]
        /\ deleteList' = [deleteList EXCEPT ![e] = @ - 1]
        /\ UNCHANGED <<marked, removal, simThink, updateList, checkUntouch, removeObjects,
                       pc, then, rest>>
    BY <1>4 DEF Release, Freed, frame
  <2>2. Removals' /\ Removing' = {} /\ Removing = {} /\ Unannounced = {} /\ Unannounced' = {}
    <3>1. Calls(removal) = {}
      BY <1>0 DEF Calls
    <3> QED BY <1>a, <2>1, <3>1, StackSets
  <2>3. e \in marked /\ mem[e] = "alive" /\ deleteList[e] = 1
    BY <1>0, <2>1 DEF World, Pending
  <2>4. Alive' = Alive \ {e}
    BY <1>0, <2>1, <2>3 DEF Alive, World, WorldTypes
  <2>5. e \notin simThink /\ updateList[e] = 0
    BY <1>0, <2>2, <2>3 DEF World, WorldTypes, RegistriesForget
  <2>6. WorldTypes'
    BY <1>0, <2>1, <2>3 DEF World, WorldTypes
  <2>7. Lives'
    <3>1. \A c \in Ents : parent'[c] # NULL =>
            c # e /\ parent'[c] = parent[c] /\ parent[c] # e
      BY <2>1
    <3> QED BY <1>0, <2>1, <2>3, <2>4, <2>5, <3>1 DEF World, WorldTypes, Lives
  <2>8. Pending(Removing)'
    BY <1>0, <2>1, <2>2, <2>3 DEF World, WorldTypes, Pending
  <2>9. RegistriesForget'
    BY <1>0, <2>1, <2>2 DEF World, RegistriesForget
  <2>10. Frame'
    BY <1>0, <2>1, <2>4, EmptyEntries DEF Frame
  <2> QED BY <2>2, <2>6, <2>7, <2>8, <2>9, <2>10 DEF IInv, World
<1>5. CASE CleanupEnd
  <2>1. Frame'
    BY <1>0, <1>5, EmptyEntries DEF CleanupEnd, Frame, world, Alive, Phases, GamePhases
  <2> QED BY <1>5, <1>b, <2>1 DEF CleanupEnd, IInv
<1>6. CASE ThinkStart
  <2>1. PICK due \in SUBSET simThink : rest' = Entry(due)
    BY <1>6 DEF ThinkStart
  <2>2. rest' \in [Ents -> Nat] /\ \A e \in Ents : rest'[e] > 0 => e \in simThink
    BY <2>1 DEF Entry
  <2>3. Frame'
    BY <1>0, <1>6, <2>2 DEF ThinkStart, Frame, world, Alive, Phases, GamePhases, World, Lives
  <2> QED BY <1>6, <1>b, <2>3 DEF ThinkStart, IInv
<1>7. CASE PlayersOnly
  <2>1. Frame'
    BY <1>0, <1>7 DEF PlayersOnly, Frame, world, Alive, Phases, GamePhases
  <2> QED BY <1>7, <1>b, <2>1 DEF PlayersOnly, IInv
<1>8. ASSUME NEW e \in Ents, ThinkStep(e) PROVE IInv'
  <2>1. Frame'
    BY <1>0, <1>8 DEF ThinkStep, Frame, world, Alive
  <2> QED BY <1>8, <1>b, <2>1 DEF ThinkStep, IInv
<1>9. CASE PhysicsStart
  <2>1. Frame'
    BY <1>0, <1>9 DEF PhysicsStart, Frame, world, Alive, Phases, GamePhases
  <2> QED BY <1>9, <1>b, <2>1 DEF PhysicsStart, IInv
<1>10. CASE PhysicsEnd
  <2>1. Frame'
    BY <1>0, <1>10 DEF PhysicsEnd, Frame, world, Alive, Phases
  <2> QED BY <1>10, <1>b, <2>1 DEF PhysicsEnd, IInv
<1>11. ASSUME NEW e \in Ents, UntouchStep(e) PROVE IInv'
  <2>1. updateList[e] = 0
    BY <1>0, <1>11 DEF UntouchStep, Frame
  <2>2. World' /\ Removals'
    BY <1>0, <1>a, <1>11, <2>1 DEF UntouchStep, World, WorldTypes, Lives, Pending,
       RegistriesForget, Alive
  <2>3. Frame'
    BY <1>0, <1>11 DEF UntouchStep, Frame, Alive
  <2> QED BY <2>2, <2>3 DEF IInv
<1>12. CASE UntouchEnd
  <2>1. Frame'
    BY <1>0, <1>12 DEF UntouchEnd, Frame, world, Alive, Phases, GamePhases
  <2> QED BY <1>12, <1>b, <2>1 DEF UntouchEnd, IInv
<1> QED BY <1>1, <1>2, <1>3, <1>4, <1>5, <1>6, <1>7, <1>8, <1>9, <1>10, <1>11, <1>12
        DEF FrameStep

\* The invariant is inductive.
LEMMA NextInv == IInv /\ [Next]_vars => IInv'
<1> SUFFICES ASSUME IInv, [Next]_vars PROVE IInv'
  OBVIOUS
<1>1. CASE GameStep
  BY <1>1, GameStepInv
<1>2. CASE RemovalStep
  BY <1>2, UpdateInv, RemoveOrphanInv, ReturnInv DEF RemovalStep
<1>3. CASE FrameStep
  BY <1>3, FrameStepInv
<1>4. CASE PostSimulationFrame
  BY <1>4, RemoveObjectsInv DEF PostSimulationFrame
<1>5. ASSUME NEW e \in Ents, DestructorRemove(e) PROVE IInv'
  <2>1. World' /\ Removals'
    BY <1>5, StackAsIs, RemoveInv DEF DestructorRemove, frame, IInv
  <2>2. Frame'
    BY <1>5 DEF DestructorRemove, IInv, Frame, Alive, frame
  <2> QED BY <2>1, <2>2 DEF IInv
<1>6. CASE UNCHANGED vars
  <2>1. Alive' = Alive
    BY <1>6 DEF vars, Alive
  <2>2. Removals' /\ Removing' = Removing /\ Unannounced' = Unannounced
    BY <1>6, <2>1, RemovalsKept DEF vars, IInv
  <2> QED BY <1>6, <2>1, <2>2 DEF vars, IInv, World, WorldTypes, Lives, Pending,
             RegistriesForget, Frame
<1> QED BY <1>1, <1>2, <1>3, <1>4, <1>5, <1>6 DEF Next

-----------------------------------------------------------------------------
(* The theorems.                                                           *)

\* The invariant holds in every behaviour.
THEOREM Invariant == Spec => []IInv
BY InitInv, NextInv, PTL DEF Spec

\* Types of the removal state, for any number of entities.
THEOREM TypeCorrect == Spec => []TypeOK
BY Invariant, InvImplies, PTL

\* No raw pointer of the frame or of a removal under way ever names freed memory:
\* UTIL_Remove, deferred removal, UTIL_RemoveImmediate and destructors in any
\* order and nested in one another.
THEOREM PointersNeverDangle == Spec => []NoDangling
BY Invariant, InvImplies, PTL

\* Every marked entity is removed by one call and then on the delete list once
\* until it is freed.
THEOREM ReleasedOnce == Spec => []PendingOnce
BY Invariant, InvImplies, PTL

\* The registries never list an entity that they were told is going away.
THEOREM RegistriesNeverStale == Spec => []RegistriesForget
BY Invariant, InvImplies, PTL

=============================================================================
