--------------------------- MODULE EntityLifecycle ---------------------------
(***************************************************************************)
(* How the server removes entities. UTIL_Remove marks an entity, runs its  *)
(* UpdateOnRemove, which removes its children one by one in the same way,  *)
(* and queues it; CleanupDeleteList frees the queue at three places of the *)
(* frame; inside a physics callback the whole of UTIL_Remove is deferred;  *)
(* and UTIL_RemoveImmediate frees at once unless the think loop forbids    *)
(* it. Game code runs in every UpdateOnRemove, so removals nest: those     *)
(* under way are a stack. Meanwhile raw pointers to entities sit in the    *)
(* delete list, in the physics remove list, in the sim-think and untouch   *)
(* registries, in the arrays the think loop and the untouch loop copied    *)
(* from them and in the lists of children of the removals under way.       *)
(*                                                                         *)
(* A list of pointers is the number of entries that name each entity: the  *)
(* order within a list is left open. An address is used once. The links    *)
(* between parents and children are the subject of Hierarchy; here they    *)
(* only say who is whose child.                                            *)
(***************************************************************************)
EXTENDS Integers, Sequences

CONSTANTS Ents, NULL

ASSUME NullAssumption == NULL \notin Ents

VARIABLES
  mem,           \* "unborn", "alive" or "freed": the memory of each entity
  marked,        \* entities with EFL_KILLME
  removal,       \* stack of the removals under way, the innermost first
  parent,        \* m_hMoveParent, as it resolves
  deleteList,    \* g_DeleteList, the entries not yet released
  removeObjects, \* g_Collisions.m_removeObjects (AddRemoveObject keeps it a set)
  simThink,      \* entities in g_SimThinkManager.m_simThinkList
  updateList,    \* g_TouchManager.m_updateList
  checkUntouch,  \* entities with EFL_CHECK_UNTOUCH
  pc,            \* where GameFrame is
  then,          \* where CleanupDeleteList or FrameUpdate returns to
  rest           \* the rest of the array a loop of the frame has copied

vars == <<mem, marked, removal, parent, deleteList, removeObjects, simThink, updateList,
          checkUntouch, pc, then, rest>>

\* Places of the frame where game code runs, and those of the frame itself.
GamePhases == {"outside", "pre", "think", "players", "physics", "untouch", "events"}
Phases == GamePhases \cup {"flush", "free", "runthink"}

Alive == {e \in Ents : mem[e] = "alive"}
Empty == [e \in Ents |-> 0]
Entry(S) == [e \in Ents |-> IF e \in S THEN 1 ELSE 0]

\* A removal of ent: deferred, immediate, or immediate in a physics callback;
\* whether CBaseEntity::UpdateOnRemove has begun, and what is left of its
\* childrenList.
Removal == [ent : Ents, how : {"later", "now", "callback"}, begun : BOOLEAN,
            orphans : SUBSET Ents]

Init ==
  /\ mem = [e \in Ents |-> "unborn"]
  /\ marked = {} /\ removal = <<>> /\ parent = [e \in Ents |-> NULL]
  /\ deleteList = Empty /\ removeObjects = {}
  /\ simThink = {} /\ updateList = Empty /\ checkUntouch = {}
  /\ pc = "outside" /\ then = "outside" /\ rest = Empty

-----------------------------------------------------------------------------
(* Removal.                                                                *)

\* The removals under way, and the entities they are of.
UnderWay == {removal[i] : i \in DOMAIN removal}
Removing == {r.ent : r \in UnderWay}

\* Those whose listeners have not been told yet, and those freed on return.
Unannounced == {r.ent : r \in {q \in UnderWay : ~q.begun}}
FreedOnReturn == {r.ent : r \in {q \in UnderWay : q.how # "later"}}

\* Entities that an UpdateOnRemove has yet to remove.
Orphans == UNION {r.orphans : r \in UnderWay}

\* Inside a physics callback that is known of: nothing ends it but its return.
Deferring == removal # <<>> /\ Head(removal).how = "callback"

Begin(e, how) == [ent |-> e, how |-> how, begun |-> FALSE, orphans |-> {}]

\* The hierarchy is given by "up", the parent of every entity.
Children(up, e) == {c \in Ents : up[c] = e}

Descendants(up, e) ==   \* GetAllChildren: the least set closed under Children
  {d \in Ents : \A S \in SUBSET Ents :
     Children(up, e) \subseteq S /\ (\A c \in S : Children(up, c) \subseteq S)
     => d \in S}

\* CEntityTouchManager::OnEntityDeleted removes one entry, if it is flagged.
TouchForgets(e) == e \in checkUntouch /\ updateList[e] > 0

\* Faulty variant: an entity already marked is removed once more.
NeverMarked(e) == FALSE

IsMarkedForDeletion(e) == e \in marked

\* UTIL_Remove outside a physics callback, called with these removals under way.
Remove(e, calls) ==
  IF IsMarkedForDeletion(e)
  THEN removal' = calls /\ UNCHANGED marked
  ELSE marked' = marked \cup {e} /\ removal' = <<Begin(e, "later")>> \o calls

\* Faulty variant: marked although UTIL_Remove will come again for it.
QueueRemoveMarked(e) == removeObjects' = removeObjects \cup {e} /\ marked' = marked \cup {e}

\* AddRemoveObject looks for the pointer first; the entity is not marked.
QueueRemove(e) == removeObjects' = removeObjects \cup {e} /\ UNCHANGED marked

\* The pointers that lead to a freed entity by a handle read as NULL.
Freed(e) ==
  /\ mem' = [mem EXCEPT ![e] = "freed"]
  /\ parent' = [c \in Ents |-> IF c = e \/ parent[c] = e THEN NULL ELSE parent[c]]

\* CBaseEntity::UpdateOnRemove, behind what the overrides of it do first: the
\* listeners of NotifyRemoveEntity forget the entity, it leaves its parent, and
\* all that hang from it are listed.
UpdateOnRemove ==
  /\ removal # <<>> /\ ~Head(removal).begun
  /\ LET e == Head(removal).ent IN
     /\ simThink' = simThink \ {e}
     /\ updateList' = [updateList EXCEPT ![e] = IF TouchForgets(e) THEN @ - 1 ELSE @]
     /\ parent' = [parent EXCEPT ![e] = NULL]
     /\ removal' = <<[Head(removal) EXCEPT !.begun = TRUE,
                                           !.orphans = Descendants(parent, e)]>>
                   \o Tail(removal)
  /\ UNCHANGED <<mem, marked, deleteList, removeObjects, checkUntouch, pc, then, rest>>

\* "Any children still connected are orphans, mark all for delete": one of them.
RemoveOrphan(c) ==
  /\ removal # <<>> /\ c \in Head(removal).orphans
  /\ LET calls == <<[Head(removal) EXCEPT !.orphans = @ \ {c}]>> \o Tail(removal) IN
     IF Deferring /\ ~IsMarkedForDeletion(c)
     THEN QueueRemove(c) /\ removal' = calls
     ELSE Remove(c, calls) /\ UNCHANGED removeObjects
  /\ UNCHANGED <<mem, parent, deleteList, simThink, updateList, checkUntouch, pc, then,
                 rest>>

\* UpdateOnRemove returns: AddToDeleteList, or delete.
RemoveReturns ==
  /\ removal # <<>> /\ Head(removal).begun /\ Head(removal).orphans = {}
  /\ removal' = Tail(removal)
  /\ LET e == Head(removal).ent IN
     IF Head(removal).how = "later"
     THEN deleteList' = [deleteList EXCEPT ![e] = @ + 1] /\ UNCHANGED <<mem, parent>>
     ELSE Freed(e) /\ UNCHANGED deleteList
  /\ UNCHANGED <<marked, removeObjects, simThink, updateList, checkUntouch, pc, then,
                 rest>>

RemovalStep == UpdateOnRemove \/ (\E c \in Ents : RemoveOrphan(c)) \/ RemoveReturns

-----------------------------------------------------------------------------
(* What game code does: console commands, thinks, touches, inputs, damage, *)
(* and the overrides of UpdateOnRemove, wherever the removal comes from.   *)

frame == <<pc, then, rest>>

GameCode == pc \in GamePhases \/ removal # <<>>

Create(e) ==
  /\ GameCode /\ mem[e] = "unborn"
  /\ mem' = [mem EXCEPT ![e] = "alive"]
  /\ UNCHANGED <<marked, removal, parent, deleteList, removeObjects, simThink,
                 updateList, checkUntouch, frame>>

UTIL_Remove(e) ==
  /\ GameCode /\ e \in Alive /\ ~Deferring
  /\ Remove(e, removal)
  /\ UNCHANGED <<mem, parent, deleteList, removeObjects, simThink, updateList,
                 checkUntouch, frame>>

\* PhysCallbackRemove, and UTIL_Remove of an unmarked entity, while
\* PhysIsInCallback(): only during game code that physics called, which
\* VPhysicsDestroyObject may do at any time but while the delete list is freed.
\* Nobody queues an entity that is being removed immediately.
PhysCallbackRemove(e) ==
  /\ GameCode /\ pc # "free" /\ e \in Alive \ FreedOnReturn
  /\ QueueRemove(e)
  /\ UNCHANGED <<mem, removal, parent, deleteList, simThink, updateList, checkUntouch,
                 frame>>

\* Faulty variant: the think loop does not raise s_RemoveImmediateSemaphore.
RemoveImmediateEnabled == FALSE

\* UTIL_DisableRemoveImmediate .. UTIL_EnableRemoveImmediate around the loop.
RemoveImmediateDisabled == pc = "think"

\* "Only use this when sure no pointers rely on this entity": the caller's part.
NothingRelies(e) ==
  e \notin removeObjects \cup Orphans /\ (pc = "untouch" => rest[e] = 0)

\* UTIL_RemoveImmediate of an unmarked entity while it is not disabled (then
\* it is UTIL_Remove). In a physics callback UTIL_Remove of the children is
\* deferred, and their handle of the parent is stale by the time it comes.
UTIL_RemoveImmediate(e, how) ==
  /\ GameCode /\ e \in Alive \ marked
  /\ ~RemoveImmediateDisabled /\ NothingRelies(e)
  /\ how = "callback" => pc # "free"
  /\ Deferring => how = "callback"
  /\ marked' = marked \cup {e} /\ removal' = <<Begin(e, how)>> \o removal
  /\ UNCHANGED <<mem, parent, deleteList, removeObjects, simThink, updateList,
                 checkUntouch, frame>>

\* SetParent, of removed entities too. Callers never close a ring.
SetParent(e, p) ==
  /\ GameCode /\ e \in Alive
  /\ p \in Alive \cup {NULL} /\ p \notin {e} \cup Descendants(parent, e)
  /\ parent' = [parent EXCEPT ![e] = p]
  /\ UNCHANGED <<mem, marked, removal, deleteList, removeObjects, simThink, updateList,
                 checkUntouch, frame>>

\* Faulty variant: put back into the list after deletion.
Changeable(e) == TRUE

\* "might change after deletion, don't put back into the list"
Listable(e) == ~IsMarkedForDeletion(e)

\* SimThink_EntityChanged: the entity starts or stops to think or simulate.
EntityChanged(e, active) ==
  /\ GameCode /\ e \in Alive
  /\ Listable(e)
  /\ simThink' = IF active THEN simThink \cup {e} ELSE simThink \ {e}
  /\ UNCHANGED <<mem, marked, removal, parent, deleteList, removeObjects, updateList,
                 checkUntouch, frame>>

AlreadyFlagged(e) == e \in checkUntouch

\* SetCheckUntouch( true ); EntityTouch_Add refuses a marked entity.
SetCheckUntouch(e) ==
  /\ GameCode /\ e \in Alive
  /\ ~AlreadyFlagged(e)
  /\ checkUntouch' = checkUntouch \cup {e}
  /\ updateList' = IF Listable(e) THEN [updateList EXCEPT ![e] = @ + 1]
                   ELSE updateList
  /\ UNCHANGED <<mem, marked, removal, parent, deleteList, removeObjects, simThink,
                 frame>>

GameStep ==
  \E e \in Ents :
    \/ Create(e)
    \/ UTIL_Remove(e)
    \/ PhysCallbackRemove(e)
    \/ \E how \in {"now", "callback"} : UTIL_RemoveImmediate(e, how)
    \/ \E p \in Ents \cup {NULL} : SetParent(e, p)
    \/ \E active \in BOOLEAN : EntityChanged(e, active)
    \/ SetCheckUntouch(e)

-----------------------------------------------------------------------------
(* The frame, which goes on when the calls it has made have returned.      *)
(* CleanupDeleteList is "flush" (PhysOnCleanupDeleteList), then "free"     *)
(* (the Release loop).                                                     *)

world == <<mem, marked, removal, parent, simThink, updateList, checkUntouch>>

\* Where CleanupDeleteList is called from, and what follows: level changes, the
\* frame starts, Physics_RunThinkFunctions, the frame ends, and CleanUpMap.
CleanupReturns == {<<"outside", "outside">>, <<"outside", "pre">>,
                   <<"pre", "runthink">>,
                   <<"events", "outside">>, <<"events", "events">>}

CleanupDeleteList ==
  /\ \E c \in CleanupReturns : pc = c[1] /\ then' = c[2]
  /\ pc' = "flush"
  /\ UNCHANGED <<world, deleteList, removeObjects, rest>>

\* One entry of UpdateRemoveObjects. UpdateOnRemove may queue more, and the loop
\* reads Count() again.
UpdateRemoveObjects(e) ==
  /\ e \in removeObjects
  /\ Remove(e, removal)
  /\ removeObjects' = removeObjects \ {e}
  /\ UNCHANGED <<mem, parent, deleteList, simThink, updateList, checkUntouch, frame>>

\* PostSimulationFrame, after any step of the physics simulation.
PostSimulationFrame ==
  /\ pc = "physics" /\ removal = <<>>
  /\ \E e \in Ents : UpdateRemoveObjects(e)

FlushQueuedOperations ==
  /\ pc = "flush"
  /\ \E e \in Ents : UpdateRemoveObjects(e)

Flushed == removeObjects = {}

FlushEnd ==
  /\ pc = "flush" /\ Flushed
  /\ IF then = "untouch" THEN pc' = "untouch" /\ rest' = updateList /\ updateList' = Empty
     ELSE pc' = "free" /\ UNCHANGED <<rest, updateList>>
  /\ UNCHANGED <<mem, marked, removal, parent, simThink, checkUntouch, deleteList,
                 removeObjects, then>>

Release(e) ==
  /\ pc = "free" /\ deleteList[e] > 0
  /\ Freed(e)
  /\ deleteList' = [deleteList EXCEPT ![e] = @ - 1]
  /\ UNCHANGED <<marked, removal, simThink, updateList, checkUntouch,
                 removeObjects, frame>>

\* A destructor may remove what its object owns (~CPropDoorRotating); no
\* physics callback runs then. The loop over the list reads Count() again.
DestructorRemove(e) ==
  /\ pc = "free" /\ removal = <<>> /\ e \in Alive
  /\ \E d \in Ents : deleteList[d] > 0
  /\ Remove(e, removal)
  /\ UNCHANGED <<mem, parent, deleteList, removeObjects, simThink, updateList,
                 checkUntouch, frame>>

CleanupEnd ==
  /\ pc = "free" /\ deleteList = Empty
  /\ pc' = then
  /\ UNCHANGED <<world, deleteList, removeObjects, then, rest>>

\* Physics_RunThinkFunctions( true ): SimThink_ListCopy of the entities that
\* are due.
ThinkStart ==
  /\ pc = "runthink" /\ pc' = "think"
  /\ \E due \in SUBSET simThink : rest' = Entry(due)
  /\ UNCHANGED <<world, deleteList, removeObjects, then>>

\* Physics_RunThinkFunctions( false ): only the players, found one by one.
PlayersOnly ==
  /\ pc = "runthink" /\ pc' = "players"
  /\ UNCHANGED <<world, deleteList, removeObjects, then, rest>>

\* Physics_SimulateEntity( list[i] ) has returned.
ThinkStep(e) ==
  /\ pc = "think" /\ rest[e] > 0
  /\ rest' = [rest EXCEPT ![e] = @ - 1]
  /\ UNCHANGED <<world, deleteList, removeObjects, pc, then>>

PhysicsStart ==
  /\ pc = "players" \/ (pc = "think" /\ rest = Empty)
  /\ pc' = "physics"
  /\ UNCHANGED <<world, deleteList, removeObjects, then, rest>>

\* CCollisionEvent::FrameUpdate; the touch manager copies its list next.
PhysicsEnd ==
  /\ pc = "physics" /\ pc' = "flush" /\ then' = "untouch"
  /\ UNCHANGED <<world, deleteList, removeObjects, rest>>

\* PhysicsCheckForEntityUntouch( ents[i] ) has returned: flag cleared.
UntouchStep(e) ==
  /\ pc = "untouch" /\ rest[e] > 0
  /\ rest' = [rest EXCEPT ![e] = @ - 1]
  /\ checkUntouch' = checkUntouch \ {e}
  /\ UNCHANGED <<mem, marked, removal, parent, simThink, updateList, deleteList,
                 removeObjects, pc, then>>

UntouchEnd ==
  /\ pc = "untouch" /\ rest = Empty /\ pc' = "events"
  /\ UNCHANGED <<world, deleteList, removeObjects, then, rest>>

FrameStep ==
  /\ removal = <<>>
  /\ \/ CleanupDeleteList
     \/ FlushQueuedOperations \/ FlushEnd
     \/ \E e \in Ents : Release(e)
     \/ CleanupEnd
     \/ ThinkStart \/ PlayersOnly
     \/ \E e \in Ents : ThinkStep(e)
     \/ PhysicsStart \/ PhysicsEnd
     \/ \E e \in Ents : UntouchStep(e)
     \/ UntouchEnd

Next == GameStep \/ RemovalStep \/ FrameStep \/ PostSimulationFrame
        \/ \E e \in Ents : DestructorRemove(e)

Spec == Init /\ [][Next]_vars

\* The engine keeps running frames and every call into game code returns.
FairSpec == Spec /\ WF_vars(FrameStep \/ RemovalStep)

-----------------------------------------------------------------------------
(* Properties.                                                             *)

\* Types of the removal state.
TypeOK ==
  /\ mem \in [Ents -> {"unborn", "alive", "freed"}]
  /\ marked \subseteq Ents
  /\ removal \in Seq(Removal)
  /\ parent \in [Ents -> Ents \cup {NULL}]
  /\ deleteList \in [Ents -> Nat]
  /\ removeObjects \subseteq Ents
  /\ simThink \subseteq Ents
  /\ updateList \in [Ents -> Nat]
  /\ checkUntouch \subseteq Ents
  /\ pc \in Phases
  /\ then \in {"outside", "pre", "runthink", "events", "untouch"}
  /\ rest \in [Ents -> Nat]

\* "so there can be no pointer errors" (UTIL_Remove): no raw pointer that the
\* frame or a removal under way will still follow names freed memory, in any
\* list, registry or copied array, whichever way the entity is removed.
NoDangling ==
  \A e \in Ents :
    \/ deleteList[e] > 0 \/ rest[e] > 0 \/ updateList[e] > 0
    \/ e \in removeObjects \cup simThink \cup Removing \cup Orphans
    => mem[e] = "alive"

\* An entity is removed by one call, and when that has returned it is on the
\* delete list until it is freed, and only once, so it is released once and
\* nothing marked is forgotten (UTIL_Remove, AddToDeleteList, CleanupDeleteList).
PendingOnce ==
  /\ \A i, j \in DOMAIN removal : i # j => removal[i].ent # removal[j].ent
  /\ \A e \in Ents :
       deleteList[e] = IF e \in marked \ Removing /\ mem[e] = "alive" THEN 1 ELSE 0

\* A registry never lists an entity again once NotifyRemoveEntity has made it
\* forget it, and the touch manager, which removes one entry of an entity that
\* is flagged, never has two entries of it or one of an unflagged one.
RegistriesForget ==
  /\ simThink \cap marked \subseteq Unannounced
  /\ \A e \in Ents : updateList[e] > 0 =>
       updateList[e] = 1 /\ e \in checkUntouch /\ (e \in marked => e \in Unannounced)

\* Whatever is removed, at once, by UTIL_Remove, out of a physics callback or as
\* the child of a removed parent, is freed in the end, whatever happens to it and
\* to its parent in the meantime.
EventuallyFreed ==
  \A e \in Ents : e \in marked \cup removeObjects \cup Orphans ~> mem[e] = "freed"
=============================================================================
