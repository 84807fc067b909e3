------------------------------ MODULE Hierarchy ------------------------------
(***************************************************************************)
(* The hierarchy of entities. A parent holds its children in a singly      *)
(* linked list threaded through the children, and every link of it is a    *)
(* handle: m_hMoveChild leads to the first child, m_hMovePeer from a child *)
(* to the next, m_hMoveParent back up. A link is modelled as what its      *)
(* handle reads as: NULL for ever once the entity is freed (EntityList).   *)
(* So an entity freed while it is in a list cuts the list off behind it.   *)
(* Next to the links m_pParent remembers whom SetParent named, and a       *)
(* restore repairs the lists from it.                                      *)
(*                                                                         *)
(* UTIL_Remove of an entity removes its descendants one by one from a list *)
(* of them taken at the start; game code (an override of UpdateOnRemove)   *)
(* may run between two of them. Linking and unlinking are one step each:   *)
(* the OnEntityEvent in them (hierarchy.cpp:41, 66) is overridden thrice   *)
(* under game/server, and no override touches the hierarchy.               *)
(***************************************************************************)
EXTENDS Naturals

CONSTANTS
  Ents, NULL,
  Networked,     \* entities with an edict
  DontSave       \* entities with FCAP_DONT_SAVE

ASSUME NullAssumption == NULL \notin Ents

VARIABLES
  mem,        \* "unborn", "alive" or "freed"
  marked,     \* EFL_KILLME, until the entity is freed
  moveParent, moveChild, movePeer, pParent,   \* handles, as they read
  orphans,    \* what is left of the childrenLists of UpdateOnRemove
  transfer,   \* <<pOldParent, pNewParent>> of a TransferChildren, or <<>>
  toRestore,  \* entities whose OnRestore is still to come
  relinkedTo  \* history: into whose lists a removed entity was put, since a restore

links == <<moveParent, moveChild, movePeer>>
vars == <<mem, marked, links, pParent, orphans, transfer, toRestore, relinkedTo>>

Alive == {e \in Ents : mem[e] = "alive"}
Unused == [e \in Ents |-> NULL]

Init ==
  /\ mem = [e \in Ents |-> "unborn"] /\ marked = {}
  /\ moveParent = Unused /\ moveChild = Unused /\ movePeer = Unused
  /\ pParent = Unused
  /\ orphans = {} /\ transfer = <<>> /\ toRestore = {} /\ relinkedTo = {}

-----------------------------------------------------------------------------
(* Reading the lists.                                                      *)

\* A set that holds the first child of p and with every child the next one.
HoldsList(child, peer, S, p) ==
  /\ child[p] \in S \cup {NULL}
  /\ \A s \in S : peer[s] \in S \cup {NULL}

\* What a walk along given links meets; Listed(p): over the children of p.
Walk(child, peer, p) ==
  {c \in Ents : \A S \in SUBSET Ents : HoldsList(child, peer, S, p) => c \in S}

Listed(p) == Walk(moveChild, movePeer, p)

InItsList(c) == moveParent[c] # NULL /\ c \in Listed(moveParent[c])

\* GetAllChildren: the children, their children, and so on.
Descendants(e) ==
  {d \in Ents : \A S \in SUBSET Ents :
     (\A s \in S \cup {e} : HoldsList(moveChild, movePeer, S, s)) => d \in S}

-----------------------------------------------------------------------------
(* Linking and unlinking. UnlinkFromParent(c) walks over the list of the   *)
(* parent and makes the link that leads to c lead to the next child. If    *)
(* the walk does not meet c, it ends in Assert(0) and nothing changes.     *)

PatchPeer(cell, c) == IF cell = c THEN movePeer[c] ELSE cell

ChildWithout(c) ==
  IF InItsList(c)
  THEN [moveChild EXCEPT ![moveParent[c]] = IF @ = c THEN movePeer[c] ELSE @]
  ELSE moveChild

PeerWithout(c) ==
  IF InItsList(c)
  THEN [s \in Ents |-> IF s = c THEN NULL
                       ELSE IF s \in Listed(moveParent[c]) THEN PatchPeer(movePeer[s], c)
                       ELSE movePeer[s]]
  ELSE movePeer

ParentWithout(c) == IF InItsList(c) THEN [moveParent EXCEPT ![c] = NULL] ELSE moveParent

UnlinkFromParent(c) ==
  /\ moveChild' = ChildWithout(c)
  /\ movePeer' = PeerWithout(c)
  /\ moveParent' = ParentWithout(c)

\* UnlinkFromParent(c), then LinkChild(p, c).
MoveTo(c, p) ==
  /\ moveChild' = [ChildWithout(c) EXCEPT ![p] = c]
  /\ movePeer' = [PeerWithout(c) EXCEPT ![c] = ChildWithout(c)[p]]
  /\ moveParent' = [moveParent EXCEPT ![c] = p]

LinkChild(p, c) ==
  /\ moveChild' = [moveChild EXCEPT ![p] = c]
  /\ movePeer' = [movePeer EXCEPT ![c] = moveChild[p]]
  /\ moveParent' = [moveParent EXCEPT ![c] = p]

-----------------------------------------------------------------------------
(* What game code does.                                                    *)

\* Not in the middle of TransferChildren or of a restore.
GameCode == transfer = <<>> /\ toRestore = {}

Create(e) ==
  /\ GameCode /\ mem[e] = "unborn"
  /\ mem' = [mem EXCEPT ![e] = "alive"]
  /\ UNCHANGED <<marked, links, pParent, orphans, transfer, toRestore, relinkedTo>>

\* The callers see to it that no entity becomes its own ancestor: SetParent
\* looks for c = p only.
MayParent(c, p) == p \notin Descendants(c)

\* Nothing stops anybody from giving a removed entity a parent.
Relinks(c, p) == relinkedTo' = IF c \in marked THEN relinkedTo \cup {p} ELSE relinkedTo

\* Faulty variant: an entity that has a parent keeps its name.
ParentKept(c, p) ==
  [pParent EXCEPT ![c] = IF @ # NULL /\ p # NULL THEN @ ELSE p]

ParentNamed(c, p) == [pParent EXCEPT ![c] = p]

\* SetParent(p) of c, with p = NULL for none; c = p counts as none.
SetParent(c, p) ==
  /\ GameCode /\ c \in Alive /\ p \in Alive \cup {NULL} /\ MayParent(c, p)
  /\ pParent' = ParentNamed(c, IF p = c THEN NULL ELSE p)
  /\ IF p \in {NULL, c} \/ c \notin Networked
     THEN UnlinkFromParent(c) /\ UNCHANGED relinkedTo
     ELSE MoveTo(c, p) /\ Relinks(c, p)
  /\ UNCHANGED <<mem, marked, orphans, transfer, toRestore>>

-----------------------------------------------------------------------------
(* Removal.                                                                *)

\* UpdateOnRemove: out of the parent's list, and the descendants are to follow.
MarkAndUnlink(e) ==
  /\ marked' = marked \cup {e}
  /\ UnlinkFromParent(e)
  /\ orphans' = (orphans \cup Descendants(e)) \ {e}

\* UTIL_Remove of an unmarked entity, outside physics callbacks.
UTIL_Remove(e) ==
  /\ GameCode /\ e \in Alive \ marked
  /\ MarkAndUnlink(e)
  /\ UNCHANGED <<mem, pParent, transfer, toRestore, relinkedTo>>

\* The loop of UpdateOnRemove gets to the next of its childrenList.
RemoveOrphan(e) ==
  /\ GameCode /\ e \in orphans
  /\ IF e \in marked
     THEN orphans' = orphans \ {e} /\ UNCHANGED <<marked, links>>
     ELSE MarkAndUnlink(e)
  /\ UNCHANGED <<mem, pParent, transfer, toRestore, relinkedTo>>

\* A link when the entities D are gone.
Forget(f, D) == [e \in Ents |-> IF e \in D \/ f[e] \in D THEN NULL ELSE f[e]]

Free(D) == mem' = [e \in Ents |-> IF e \in D THEN "freed" ELSE mem[e]]

\* CleanupDeleteList frees a removed entity. The destructor leaves the links
\* alone, the handles of the entity read as NULL from now on.
CleanupDeleteList(e) ==
  /\ GameCode /\ orphans = {} /\ e \in marked
  /\ Free({e}) /\ marked' = marked \ {e}
  /\ moveParent' = Forget(moveParent, {e}) /\ moveChild' = Forget(moveChild, {e})
  /\ movePeer' = Forget(movePeer, {e}) /\ pParent' = Forget(pParent, {e})
  /\ UNCHANGED <<orphans, transfer, toRestore, relinkedTo>>

UnlinkAndForget(e) ==
  /\ moveParent' = Forget(ParentWithout(e), {e})
  /\ moveChild' = Forget(ChildWithout(e), {e})
  /\ movePeer' = Forget(PeerWithout(e), {e})

\* "WARNING! Only use this when sure no pointers rely on this entity" (util.cpp):
\* an UpdateOnRemove under way keeps pointers to those it has yet to remove.
NothingRelies(e) == e \notin orphans

\* UTIL_RemoveImmediate in a physics callback, where UTIL_Remove puts the
\* children off: the entity is freed above them. Elsewhere it amounts to
\* UTIL_Remove and CleanupDeleteList.
UTIL_RemoveImmediate(e) ==
  /\ GameCode /\ e \in Alive \ marked /\ NothingRelies(e)
  /\ UnlinkAndForget(e) /\ Free({e}) /\ pParent' = Forget(pParent, {e})
  /\ UNCHANGED <<marked, orphans, transfer, toRestore, relinkedTo>>

-----------------------------------------------------------------------------
(* phys_convert: an entity hands its children to the physics object that   *)
(* replaces it.                                                            *)

\* InputConvertTarget: e leaves its parent; the object n may not come to be.
ConvertTarget(e, n) ==
  /\ GameCode /\ orphans = {} /\ e \in Alive \ marked
  /\ UnlinkFromParent(e)
  /\ \/ n = NULL /\ UNCHANGED <<mem, transfer>>
     \/ /\ n # NULL /\ mem[n] = "unborn"
        /\ mem' = [mem EXCEPT ![n] = "alive"]
        /\ transfer' = <<e, n>>
  /\ UNCHANGED <<marked, pParent, orphans, toRestore, relinkedTo>>

\* One round of the loop in TransferChildren; m_pParent is left as it is.
TransferChild ==
  /\ transfer # <<>> /\ moveChild[transfer[1]] # NULL
  /\ MoveTo(moveChild[transfer[1]], transfer[2])
  /\ Relinks(moveChild[transfer[1]], transfer[2])
  /\ UNCHANGED <<mem, marked, pParent, orphans, transfer, toRestore>>

\* The list is empty: UTIL_Remove of the entity that was converted.
TransferDone ==
  /\ transfer # <<>> /\ moveChild[transfer[1]] = NULL
  /\ MarkAndUnlink(transfer[1])
  /\ transfer' = <<>>
  /\ UNCHANGED <<mem, pParent, toRestore, relinkedTo>>

-----------------------------------------------------------------------------
(* Save and restore. What a save wrote is the state it was made in, so a   *)
(* load is a step from that state: saved entities come back with their     *)
(* links, a handle of an entity that was not saved comes back as NULL.     *)

SaveAndLoad ==
  /\ GameCode /\ orphans = {} /\ marked = {} /\ Alive # {}
  /\ LET D == Alive \cap DontSave IN
     /\ Free(D) /\ pParent' = Forget(pParent, D)
     /\ moveParent' = Forget(moveParent, D) /\ moveChild' = Forget(moveChild, D)
     /\ movePeer' = Forget(movePeer, D)
  /\ toRestore' = Alive \ DontSave /\ relinkedTo' = {}
  /\ UNCHANGED <<marked, orphans, transfer>>

\* Faulty variant: no look into the list of the parent.
RelinkAlways(q, e) == q # NULL

\* Faulty variant: the lists are taken as they were loaded.
RelinkNever(q, e) == FALSE

NotInItsList(q, e) == q # NULL /\ e \notin Listed(q)

\* CBaseEntity::OnRestore: an entity that is missing in the list of m_pParent
\* is put back into it.
OnRestore(e) ==
  /\ e \in toRestore
  /\ toRestore' = toRestore \ {e}
  /\ IF NotInItsList(pParent[e], e)
     THEN LinkChild(pParent[e], e)
     ELSE UNCHANGED links
  /\ UNCHANGED <<mem, marked, pParent, orphans, transfer, relinkedTo>>

Next ==
  \/ \E e \in Ents : Create(e) \/ UTIL_Remove(e) \/ RemoveOrphan(e)
                     \/ UTIL_RemoveImmediate(e) \/ CleanupDeleteList(e) \/ OnRestore(e)
  \/ \E c \in Ents, p \in Ents \cup {NULL} : SetParent(c, p) \/ ConvertTarget(c, p)
  \/ TransferChild \/ TransferDone
  \/ SaveAndLoad

Spec == Init /\ [][Next]_vars

-----------------------------------------------------------------------------
(* Properties.                                                             *)

LinkOK(link) ==
  link \in [Ents -> Alive \cup {NULL}] /\ \A e \in Ents \ Alive : link[e] = NULL

\* Every variable has its type: only living entities are linked, marked, about
\* to be removed or restored.
TypeOK ==
  /\ mem \in [Ents -> {"unborn", "alive", "freed"}]
  /\ marked \subseteq Alive /\ orphans \subseteq Alive /\ toRestore \subseteq Alive
  /\ transfer \in {<<>>} \cup (Alive \X Alive) /\ relinkedTo \subseteq Ents
  /\ LinkOK(moveParent) /\ LinkOK(moveChild) /\ LinkOK(movePeer) /\ LinkOK(pParent)

\* The lists are lists: a walk over the children of p meets entities whose
\* m_hMoveParent is p, so that no entity is in two lists, and no two links of
\* it lead to the same child, so that it ends.
ListsSound ==
  \A p \in Ents : \A c \in Listed(p) :
    /\ moveParent[c] = p
    /\ movePeer[c] # NULL => /\ movePeer[c] # moveChild[p]
                             /\ \A d \in Listed(p) \ {c} : movePeer[c] # movePeer[d]

\* No child is lost: an entity with an edict whose m_hMoveParent and m_pParent
\* name the same parent is met by a walk over the children of that parent, so
\* that it is removed with it. It may be missing only while a restore has not come
\* to it yet, or when somebody has put a removed entity into that list: freed
\* there it cuts the list off, and the next UnlinkFromParent of a child behind it
\* ends in the Assert(0) of UnlinkChild.
ChildrenListed ==
  \A c \in (Alive \cap Networked) \ toRestore :
    moveParent[c] \notin relinkedTo \cup {NULL} /\ pParent[c] = moveParent[c] => InItsList(c)

\* "FIXME: Remove this! There shouldn't be a difference between moveparent +
\* parent": where an entity is linked, m_pParent names its parent or nobody,
\* or the entity that is being removed after TransferChildren.
ParentsAgree ==
  \A c \in Alive :
    moveParent[c] # NULL /\ (c \in Networked \/ InItsList(c))
    => \/ pParent[c] \in {moveParent[c], NULL} \cup marked
       \/ transfer # <<>> /\ pParent[c] = transfer[1]

\* A restore moves no entity with an edict from one living parent to another.
RestoreKeepsParent ==
  [][\A e \in toRestore \cap Networked :
       moveParent[e] # NULL => moveParent'[e] = moveParent[e]]_vars

\* UpdateOnRemove has taken a removed entity out of its list, and it is in no list
\* but one that it was put into afterwards: freeing it will cut off no other.
MarkedUnlisted == \A p \in Ents \ relinkedTo : Listed(p) \cap marked = {}

\* hierarchy.cpp: "This only happens if the child wasn't found in the parent's
\* child list", Assert(0). Anybody may call UnlinkFromParent of an entity next.
UnlinkChildFinds ==
  toRestore = {} => \A c \in Alive : moveParent[c] # NULL => InItsList(c)
=============================================================================
