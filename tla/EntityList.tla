----------------------------- MODULE EntityList -----------------------------
(***************************************************************************)
(* CBaseEntityList (game/shared/entitylist_base) as CGlobalEntityList      *)
(* uses it: the array of CEntInfo slots, the serial numbers that make      *)
(* EHANDLEs go stale, the active list and the free list of non-networkable *)
(* slots, both threaded through the same m_pPrev / m_pNext fields, and the *)
(* loop FirstHandle .. NextHandle that game code runs over the list.       *)
(***************************************************************************)
EXTENDS Integers, FiniteSets

CONSTANTS
  MaxEdicts,        \* MAX_EDICTS: slots below it are networkable
  NumEntEntries,    \* NUM_ENT_ENTRIES
  SerialMask,       \* SERIAL_MASK: serial numbers of slots are 0..SerialMask
  HandleSerialMask, \* the serial bits of INVALID_EHANDLE_INDEX (all ones)
  ForcedSerials,    \* iForcedSerialNum values; {} on the server
  Ents,             \* addresses entities are constructed at
  NULL,
  MaxLives          \* bound of the model: entities one slot may ever hold

Slots == 0 .. NumEntEntries - 1
Serials == 0 .. SerialMask

ASSUME SlotsAssumption ==
  /\ MaxEdicts \in Nat /\ NumEntEntries \in Nat
  /\ 0 < MaxEdicts /\ MaxEdicts + 1 < NumEntEntries
ASSUME SerialAssumption ==
  /\ SerialMask \in Nat /\ HandleSerialMask \in Nat
  /\ SerialMask < HandleSerialMask
  /\ ForcedSerials \subseteq Serials
ASSUME NullAssumption == NULL \notin Slots /\ NULL \notin Ents
ASSUME BoundAssumption == MaxLives \in Nat

VARIABLES
  pEntity,    \* m_EntPtrArray[s].m_pEntity
  serial,     \* m_EntPtrArray[s].m_SerialNumber
  links,      \* m_pPrev, m_pNext of every slot; m_pHead, m_pTail of both lists
  refEHandle, \* CBaseEntity::m_RefEHandle of every constructed entity
  allocated,  \* the addresses that hold a constructed entity
  numEnts, numEdicts, highestEnt, \* CGlobalEntityList's counters
  cursor,     \* hCur of a loop over the list, NULL while no loop runs
  life,       \* history: how often a slot has been vacated
  held,       \* history: an EHANDLE some object holds, and whose it was
  visited,    \* history: the <<slot, life>> pairs the loop has seen
  since       \* history: the pairs in the list ever since the loop began

vars == <<pEntity, serial, links, refEHandle, allocated, numEnts, numEdicts,
          highestEnt, cursor, life, held, visited, since>>

-----------------------------------------------------------------------------
(* CBaseHandle: an entry index and a serial number packed in one word.     *)

Handle(s, n) == [entry |-> s, serial |-> n]

\* All ones, so GetEntryIndex() of it is the last slot of the array.
INVALID == Handle(NumEntEntries - 1, HandleSerialMask)

ASSUME HandleAssumption == NULL # INVALID

LookupEntity(h) ==
  IF h # INVALID /\ serial[h.entry] = h.serial THEN pEntity[h.entry] ELSE NULL

-----------------------------------------------------------------------------
(* CEntInfoList.                                                           *)

Lists == {"active", "free"}

\* ClearLinks() points both links of a slot at the slot itself.
IsInList(L, s) == L.prev[s] # s

\* Faulty variant: a removed tail stays the tail of its list.
UnlinkedStaleTail(L, list, s) ==
  IF ~IsInList(L, s) THEN L ELSE
  LET p == L.prev[s]
      n == L.next[s]
      next1 == IF p # NULL THEN [L.next EXCEPT ![p] = n] ELSE L.next
      prev1 == IF n # NULL THEN [L.prev EXCEPT ![n] = p] ELSE L.prev
  IN [L EXCEPT !.prev = [prev1 EXCEPT ![s] = s],
               !.next = [next1 EXCEPT ![s] = s],
               !.head = IF p # NULL THEN L.head ELSE [L.head EXCEPT ![list] = n]]

\* Faulty variant: the slot before the removed one still leads to it.
UnlinkedStaleNext(L, list, s) ==
  IF ~IsInList(L, s) THEN L ELSE
  LET p == L.prev[s]
      n == L.next[s]
      prev1 == IF n # NULL THEN [L.prev EXCEPT ![n] = p] ELSE L.prev
  IN [prev |-> [prev1 EXCEPT ![s] = s],
      next |-> [L.next EXCEPT ![s] = s],
      head |-> IF p # NULL THEN L.head ELSE [L.head EXCEPT ![list] = n],
      tail |-> IF n # NULL THEN L.tail ELSE [L.tail EXCEPT ![list] = p]]

Unlinked(L, list, s) ==
  IF ~IsInList(L, s) THEN L ELSE
  LET p == L.prev[s]
      n == L.next[s]
      next1 == IF p # NULL THEN [L.next EXCEPT ![p] = n] ELSE L.next
      prev1 == IF n # NULL THEN [L.prev EXCEPT ![n] = p] ELSE L.prev
  IN [prev |-> [prev1 EXCEPT ![s] = s],
      next |-> [next1 EXCEPT ![s] = s],
      head |-> IF p # NULL THEN L.head ELSE [L.head EXCEPT ![list] = n],
      tail |-> IF n # NULL THEN L.tail ELSE [L.tail EXCEPT ![list] = p]]

\* Faulty variant: AddToHead for AddToTail.
AddedToHead(L, list, s) ==
  LET U == Unlinked(L, list, s)
      h == U.head[list]
      prev1 == [U.prev EXCEPT ![s] = NULL]
  IN [next |-> [U.next EXCEPT ![s] = h],
      prev |-> IF h = NULL THEN prev1 ELSE [prev1 EXCEPT ![h] = s],
      tail |-> IF h = NULL THEN [U.tail EXCEPT ![list] = s] ELSE U.tail,
      head |-> [U.head EXCEPT ![list] = s]]

\* AddToTail, that is LinkBefore(NULL, s)
AddedToTail(L, list, s) ==
  LET U == Unlinked(L, list, s)
      t == U.tail[list]
      next1 == [U.next EXCEPT ![s] = NULL]
  IN [prev |-> [U.prev EXCEPT ![s] = t],
      next |-> IF t = NULL THEN next1 ELSE [next1 EXCEPT ![t] = s],
      head |-> IF t = NULL THEN [U.head EXCEPT ![list] = s] ELSE U.head,
      tail |-> [U.tail EXCEPT ![list] = s]]

\* The constructor's free list: the slots above MaxEdicts, in order. Slot
\* MaxEdicts itself is in no list, so it is never handed out.
InitialLinks ==
  LET first == MaxEdicts + 1
      last == NumEntEntries - 1
  IN [prev |-> [s \in Slots |-> IF s < first THEN s
                                ELSE IF s = first THEN NULL ELSE s - 1],
      next |-> [s \in Slots |-> IF s < first THEN s
                                ELSE IF s = last THEN NULL ELSE s + 1],
      head |-> [l \in Lists |-> IF l = "free" THEN first ELSE NULL],
      tail |-> [l \in Lists |-> IF l = "free" THEN last ELSE NULL]]

-----------------------------------------------------------------------------
Init ==
  /\ pEntity = [s \in Slots |-> NULL]
  /\ serial \in [Slots -> Serials]      \* rand() & SERIAL_MASK
  /\ links = InitialLinks
  /\ refEHandle = [e \in Ents |-> INVALID]
  /\ allocated = {}
  /\ numEnts = 0 /\ numEdicts = 0 /\ highestEnt = 0
  /\ cursor = NULL
  /\ life = [s \in Slots |-> 0]
  /\ held = NULL
  /\ visited = {} /\ since = {}

\* new CBaseEntity: not in the list until PostConstructor adds it.
Construct(e) ==
  /\ e \notin allocated
  /\ allocated' = allocated \cup {e}
  /\ refEHandle' = [refEHandle EXCEPT ![e] = INVALID]
  /\ UNCHANGED <<pEntity, serial, links, numEnts, numEdicts, highestEnt,
                 cursor, life, held, visited, since>>

SetRefEHandle(e, h) == refEHandle' = [refEHandle EXCEPT ![e] = h]

\* CGlobalEntityList::OnAddEntity
CountAdd(s) ==
  /\ numEnts' = numEnts + 1
  /\ numEdicts' = IF s < MaxEdicts THEN numEdicts + 1 ELSE numEdicts
  /\ highestEnt' = IF s > highestEnt THEN s ELSE highestEnt

\* On the links L that the caller has already changed.
AddEntityAtSlot(L, e, s, n) ==
  /\ pEntity' = [pEntity EXCEPT ![s] = e]
  /\ serial' = [serial EXCEPT ![s] = n]
  /\ links' = AddedToTail(L, "active", s)
  /\ SetRefEHandle(e, Handle(s, n))
  /\ CountAdd(s)
  /\ UNCHANGED <<allocated, cursor, life, held, visited, since>>

\* PostConstructor runs once per entity: it has no slot yet.
Unlisted(e) == e \in allocated /\ refEHandle[e] = INVALID

\* The engine hands out edict s only while no entity sits on it.
AddNetworkableEntity(e, s, n) ==
  /\ Unlisted(e)
  /\ s < MaxEdicts /\ pEntity[s] = NULL /\ life[s] < MaxLives
  /\ n \in {serial[s]} \cup ForcedSerials
  /\ AddEntityAtSlot(links, e, s, n)

\* With no slot left the entity stays without one: the call returns an
\* invalid handle and changes nothing (a stuttering step).
AddNonNetworkableEntity(e) ==
  LET s == links.head["free"] IN
  /\ Unlisted(e)
  /\ s # NULL /\ life[s] < MaxLives
  /\ AddEntityAtSlot(Unlinked(links, "free", s), e, s, serial[s])

NextSerialSame(n) == n            \* faulty variant: no increment
NextSerial(n) == IF n = SerialMask THEN 0 ELSE n + 1  \* (n+1) & SERIAL_MASK

AlwaysOccupied(s) == TRUE         \* faulty variant: no test of m_pEntity
Occupied(s) == pEntity[s] # NULL

Listed == {s \in Slots : Occupied(s)}

\* CGlobalEntityList::OnRemoveEntity; m_iHighestEnt comes down in Clear only.
CountRemove(s) ==
  /\ numEnts' = numEnts - 1
  /\ numEdicts' = IF s < MaxEdicts THEN numEdicts - 1 ELSE numEdicts

RemoveEntityAtSlot(s) ==
  IF ~Occupied(s)
  THEN UNCHANGED <<pEntity, serial, links, refEHandle, numEnts, numEdicts,
                   life, since>>
  ELSE
  /\ SetRefEHandle(pEntity[s], INVALID)
  /\ CountRemove(s)
  /\ pEntity' = [pEntity EXCEPT ![s] = NULL]
  /\ serial' = [serial EXCEPT ![s] = NextSerial(serial[s])]
  /\ links' = LET L == Unlinked(links, "active", s)
              IN IF s >= MaxEdicts THEN AddedToTail(L, "free", s) ELSE L
  /\ life' = [life EXCEPT ![s] = @ + 1]
  /\ since' = since \ {<<s, life[s]>>}

\* ~CBaseEntity: gEntList.RemoveEntity( GetRefEHandle() ) without a test
\* of the handle. A precondition on game code: the entity a loop stands on is
\* not destroyed at once, as NextEnt( pCurrent ) would read it when it is freed.
\* Loops remove it with UTIL_Remove, which defers the destructor (Clear does).
Destroy(e) ==
  LET s == refEHandle[e].entry IN
  /\ e \in allocated
  /\ cursor \notin {NULL, INVALID} => cursor.entry # s
  /\ RemoveEntityAtSlot(s)
  /\ allocated' = allocated \ {e}
  /\ UNCHANGED <<highestEnt, cursor, held, visited>>

\* How CGlobalEntityList::Clear ends: every listed entity has been removed and
\* CleanupDeleteList has destroyed it (Destroy), and two counters are reset.
Clear ==
  /\ cursor = NULL /\ Listed = {}
  /\ highestEnt' = 0 /\ numEnts' = 0
  /\ UNCHANGED <<pEntity, serial, links, refEHandle, allocated, numEdicts,
                 cursor, life, held, visited, since>>

\* CBaseHandle::Set( pEnt ) by any object, at any time. The model follows one
\* EHANDLE, whichever it is, so it is set once.
TakeHandle(e) ==
  LET h == refEHandle[e] IN
  /\ e \in allocated /\ h # INVALID
  /\ held = NULL
  /\ held' = [handle |-> h, life |-> life[h.entry]]
  /\ UNCHANGED <<pEntity, serial, links, refEHandle, allocated, numEnts,
                 numEdicts, highestEnt, cursor, life, visited, since>>

-----------------------------------------------------------------------------
(* for ( hCur = FirstHandle(); hCur != InvalidHandle(); hCur = NextHandle  *)
(* ( hCur ) ): one action per evaluation of the loop header.               *)

FirstHandle == LET s == links.head["active"]
               IN IF s = NULL THEN INVALID ELSE Handle(s, serial[s])

NextHandle(h) == LET s == links.next[h.entry]
                 IN IF s = NULL THEN INVALID ELSE Handle(s, serial[s])

Occupant(h) == IF h = INVALID THEN {} ELSE {<<h.entry, life[h.entry]>>}

LoopStart ==
  /\ cursor = NULL
  /\ cursor' = FirstHandle
  /\ visited' = Occupant(FirstHandle)
  /\ since' = {<<s, life[s]>> : s \in Listed}
  /\ UNCHANGED <<pEntity, serial, links, refEHandle, allocated, numEnts,
                 numEdicts, highestEnt, life, held>>

LoopNext ==
  /\ cursor \notin {NULL, INVALID}
  /\ cursor' = NextHandle(cursor)
  /\ visited' = visited \cup Occupant(NextHandle(cursor))
  /\ UNCHANGED <<pEntity, serial, links, refEHandle, allocated, numEnts,
                 numEdicts, highestEnt, life, held, since>>

LoopEnd ==
  /\ cursor = INVALID
  /\ cursor' = NULL
  /\ visited' = {} /\ since' = {}
  /\ UNCHANGED <<pEntity, serial, links, refEHandle, allocated, numEnts,
                 numEdicts, highestEnt, life, held>>

-----------------------------------------------------------------------------
Mutate ==
  \/ \E e \in Ents : Construct(e)
  \/ \E e \in Ents, s \in Slots, n \in Serials : AddNetworkableEntity(e, s, n)
  \/ \E e \in Ents : AddNonNetworkableEntity(e)
  \/ \E e \in Ents : Destroy(e)
  \/ Clear

Iterate == LoopStart \/ LoopNext \/ LoopEnd

Next == Mutate \/ Iterate \/ \E e \in Ents : TakeHandle(e)

Spec == Init /\ [][Next]_vars

-----------------------------------------------------------------------------
(* Properties.                                                             *)

Handles == [entry : Slots, serial : Serials]

Links == [prev : [Slots -> Slots \cup {NULL}], next : [Slots -> Slots \cup {NULL}],
          head : [Lists -> Slots \cup {NULL}], tail : [Lists -> Slots \cup {NULL}]]

\* Types of the entity list's state (CBaseEntityList, CGlobalEntityList).
TypeOK ==
  /\ pEntity \in [Slots -> Ents \cup {NULL}]
  /\ serial \in [Slots -> Serials]
  /\ links \in Links
  /\ refEHandle \in [Ents -> Handles \cup {INVALID}]
  /\ allocated \subseteq Ents
  /\ numEnts \in Int /\ numEdicts \in Int /\ highestEnt \in Slots
  /\ cursor \in Handles \cup {INVALID, NULL}
  /\ life \in [Slots -> Nat]
  /\ held \in [handle : Handles, life : Nat] \cup {NULL}
  /\ visited \subseteq Slots \X Nat
  /\ since \subseteq Slots \X Nat

\* An EHANDLE resolves to the entity it was taken from while that entity is in
\* the list, and afterwards to NULL, however often its slot is reused: a later
\* occupant is mistaken for it only after SerialMask + 1 reuses of the slot
\* (LookupEntity against the increment in RemoveEntityAtSlot). The client lets
\* the server force serial numbers, so this is a promise of the server's list.
HandleFaithful ==
  ForcedSerials = {} /\ held # NULL =>
    LET s == held.handle.entry
        reuses == life[s] - held.life
    IN /\ reuses = 0 => LookupEntity(held.handle) = pEntity[s]
       /\ reuses \in 1 .. SerialMask => LookupEntity(held.handle) = NULL

\* m_RefEHandle of an entity and the slot that holds the entity always name
\* each other, so no entity sits in two slots and every listed one is allocated
\* (AddEntityAtSlot, RemoveEntityAtSlot, ~CBaseEntity).
RefHandlesAgree ==
  /\ \A s \in Slots : pEntity[s] # NULL =>
       /\ pEntity[s] \in allocated
       /\ refEHandle[pEntity[s]] = Handle(s, serial[s])
  /\ \A e \in allocated : refEHandle[e] # INVALID =>
       LookupEntity(refEHandle[e]) = e

\* Which list a slot belongs in: the active list holds the occupied slots, the
\* free list every vacant slot above MaxEdicts, and a vacant networkable slot
\* (and slot MaxEdicts) is in neither.
Membership == [s \in Slots |-> IF pEntity[s] # NULL THEN "active"
                               ELSE IF s > MaxEdicts THEN "free" ELSE "none"]

\* The links L thread exactly the lists that "in" assigns the slots to.
Threads(L, in) ==
  /\ \A s \in Slots : in[s] = "none" => L.prev[s] = s
  /\ \A s \in Slots : in[s] \in Lists =>
       /\ IF L.prev[s] = NULL THEN L.head[in[s]] = s
          ELSE L.prev[s] # s /\ in[L.prev[s]] = in[s] /\ L.next[L.prev[s]] = s
       /\ IF L.next[s] = NULL THEN L.tail[in[s]] = s
          ELSE L.next[s] # s /\ in[L.next[s]] = in[s] /\ L.prev[L.next[s]] = s
  /\ \A l \in Lists :
       /\ L.head[l] = NULL <=> L.tail[l] = NULL
       /\ L.head[l] # NULL => in[L.head[l]] = l /\ L.prev[L.head[l]] = NULL
       /\ L.tail[l] # NULL => in[L.tail[l]] = l /\ L.next[L.tail[l]] = NULL

\* Both lists are doubly linked through the same two fields and never mix: a
\* link leads to a slot of the same list whose opposite link leads back, and
\* the ends of a list are its head and its tail (LinkBefore, Unlink).
WellLinked == Threads(links, Membership)

\* The counters follow the list through every order of adds and removals
\* (OnAddEntity, OnRemoveEntity).
CountsAgree ==
  /\ numEnts = Cardinality(Listed)
  /\ numEdicts = Cardinality({s \in Listed : s < MaxEdicts})
  /\ \A s \in Listed : s <= highestEnt

\* A loop FirstHandle .. NextHandle that has ended has seen every entity that
\* was listed from its beginning to its end, whatever was added, destroyed or
\* put in a reused slot meanwhile.
LoopSeesAll == cursor = INVALID => since \subseteq visited

\* "Remove this entity from the ent list (NOTE: This Makes EHANDLES go NULL)"
\* (baseentity.cpp:466): a destructor takes its own entity out of the list. So
\* the handle of a listed entity resolves to it until that entity is destroyed.
OnlyTheDestroyedIsUnlisted ==
  [][\A e \in allocated \cap allocated' : refEHandle[e] # INVALID =>
       /\ pEntity'[refEHandle[e].entry] = e
       /\ serial'[refEHandle[e].entry] = refEHandle[e].serial]_vars
=============================================================================
