# The entity core of the HLComplete server, in TLA+

HLComplete is the Source SDK 2013 game code with Half-Life's code being merged
into it. Most of its 1.7 million lines are content: weapons, NPCs, panels,
shaders. What all of that content stands on is a small core of the server DLL
that owns the entities, decides who thinks in a tick, delivers the inputs that
entities send each other, knows who is attached to whom and who touches whom,
and frees what was removed. That core is sequential, but it is full of
*re-entrance*: every loop in it calls game code, and game code may call back into
the very structure that is being looped over. Beneath it lie a few lock-free
structures that threads share. Those interleavings are what unit tests do not
reach and what this project models.

Contents: [parts](#the-parts-of-the-system), [modules](#modules),
[runs](#what-tlc-checks), [proofs](#what-is-proved),
[assumptions](#what-the-models-rely-on), [limits](#what-is-not-modelled-and-why),
[plan](#plan).

Paths below are relative to `src/src/game/` unless they start with `src/`.

## The parts of the system

### Entity list and handles (`shared/entitylist_base.*`, `src/src/public/basehandle.h`)

State: an array of `CEntInfo` slots (the pointer and a serial number), two
doubly linked lists (the active entities, the vacant non-networkable slots)
threaded through the same two pointers of a slot, and in `CGlobalEntityList`
three counters. Operations: add a networkable entity at the slot its edict
names, add a non-networkable one at the head of the free list, remove, look a
handle up, walk the list with `FirstHandle`/`NextHandle`. An `EHANDLE` packs a
slot and a serial number; removing the entity increments the serial number, so
old handles resolve to NULL. Everybody calls it: constructors, destructors, and
every loop over entities.

Hard: slots are reused, serial numbers wrap, a node moves from one list to the
other while a loop stands on it. Correct means: a handle never resolves to
another entity than the one it was taken from (up to a full round of serial
numbers); both lists stay well linked; a loop sees each entity that stays
exactly once; the counters follow.

### Removal (`server/util.cpp`, `server/entitylist.cpp`, `server/physics.cpp`, `server/hierarchy.cpp`)

State: the mark `EFL_KILLME`, the delete list, the queue of objects whose
removal a physics callback requested, the parent of every entity. Operations:
`UTIL_Remove` marks an entity, calls its `UpdateOnRemove` and puts it on the
delete list; `UpdateOnRemove`, which entities override, makes the registries forget
the entity, takes it from its parent, lists its descendants and calls `UTIL_Remove` of
each; `PhysCallbackRemove`, and `UTIL_Remove` in a physics callback, only queue the
request; `UTIL_RemoveImmediate` frees at once unless the think loop has forbidden it;
`CleanupDeleteList` flushes the physics queue and releases the delete list, three
times per frame and at level changes.

Interactions: `UpdateOnRemove` notifies the listeners (`CSimThinkManager`,
`CEntityTouchManager`), which hold raw pointers; the think loop and the untouch
loop walk *copies* of such lists; destructors may remove further entities. Hard: game
code runs in each `UpdateOnRemove`, so removals nest, and a child that one of them has
listed may be removed, moved or freed by another before its turn comes.
Correct means: no raw pointer that will still be followed leads to freed
memory; every marked entity is removed by one call and released exactly once;
whatever was requested, a child of a removed parent included, is freed in the end.

### Think functions (`shared/baseentity_shared.cpp`, `shared/physics_main_shared.cpp`, `server/physics_main.cpp`, `server/entitylist.cpp`)

State: for every entity the next tick of its base think function and of its
think contexts, two `EFL` flags that summarise them, and `CSimThinkManager`: a
packed array of the entities that think or move, each with its first think tick,
and a table from slots to array indices. Operations: `SetNextThink`,
`SetMoveType`, removal, and the loop of `Physics_RunThinkFunctions`, which
copies the entities that are due and simulates each, its move parents first.

Hard: the flags are kept up to date from hints, the cached tick by incremental
updates, the index table across removals that move the last entry; think
functions reschedule, remove and move each other in the middle of the loop.
Correct means: array and table are inverse to each other; the array lists
exactly the live entities that think or simulate, with their true first tick;
no think that was due is lost.

### Event queue (`server/cbase.cpp`, `server/eventqueue.h`)

State: a doubly linked list of delayed inputs, sorted by fire time, which hangs
from a node that is a member of the queue. Operations: add, service once a
frame, cancel by caller or by target and input, clear, save, restore.

Hard: servicing an event calls an input, which adds and cancels events; the
cancelling loops delete nodes they walk over; equal fire times must stay in
order of posting, through a save and a restore at another server time as well.
Correct means: events fire in order and never early, nothing due is left, a
cancelled event never fires, nobody follows a pointer to a deleted node, and a
restored queue is the one that was saved.

### Outputs and `logic_relay` (`server/cbase.cpp`, `server/logicrelay.cpp`)

State: each output has a list of actions (target, input, delay, how often it may
still fire); a relay is disabled or not, and waits for a refire or not.
Operations: `FireOutput` posts all actions and drops those that are used up; a
relay's inputs enable, disable, toggle and trigger it and cancel what it has
posted. After a trigger it waits for the input `EnableRefire`, which it posts to
itself behind the greatest delay of its output.

Hard: inputs run inside `ServiceEvents`, post into the queue that is being
serviced and cancel parts of it; relays trigger each other in rings.
Correct means: a relay that waits has exactly one wake-up pending, and is not
fired again before its last output has been; each action of an output is posted
once per firing; servicing the queue comes to an end.

### Hierarchy (`server/hierarchy.cpp`, `server/baseentity.cpp`)

State: for every entity three handles, `m_hMoveParent`, `m_hMoveChild` (its first
child) and `m_hMovePeer` (the next child of the same parent), and `m_pParent`, whom
`SetParent` named last. Operations: `SetParent`, `UnlinkFromParent`, the removal of
an entity with all its descendants, `TransferChildren` when `phys_convert` replaces
an entity, and the repair in `OnRestore`.

Hard: the lists are threaded through handles, so an entity that is freed while
it is in a list cuts the list off behind it; the descendants are removed from a
list taken before game code runs; a save leaves entities out; the two parents
differ ("FIXME: Remove this! There shouldn't be a difference between moveparent +
parent", `server/baseentity.h:1903`). Correct means: the lists are
lists; a child whose two parents agree is found by a walk over the children of
that parent, and so dies with it; a restore moves nobody to another parent.

### Touch links (`shared/physics_main_shared.cpp`, `shared/touchlink.h`, `server/entitylist.cpp`)

State: a list of links per entity, one for each entity it touches, with a stamp;
`g_pNextLink` of the walk under way; `EFL_CHECK_UNTOUCH` and the update list of
`CEntityTouchManager`. Operations: two entities touch (polled when one of them
moves, or reported by the physics engine), an entity moves (`SetCheckUntouch`), the
end of the frame checks who no longer touches, the physics engine reports the
end of a contact, an entity is freed.

Hard: `StartTouch`, `Touch` and `EndTouch` are game code in the middle of every one
of these: between the two halves of a touch, between the two halves of an
untouch, inside the walk over the links that are being removed. Correct means:
the walk is told of every link that goes; whoever was told of a touch is told of
its end; links that are out of date will be checked.

### Lock-free lists and queue (`src/src/public/tier0/tslist.h`)

State: `CTSListBase` has a head of a first node, a depth and a sequence number,
exchanged as one; `CTSQueue` has two such links, a dummy node and a free list.
They lie under the pools and free lists (`CTSListWithFreeList`, the memory pools of
`tier1/mempool.h`, the bone setup, the navigation mesh) and under `CTSCallQueue`.

Hard: other threads act between any two words that a call reads; nodes are used
again while a sleeping call still knows them; the sequence number wraps; helping
instead of waiting. Correct means: each call of the list takes effect at one
moment; the queue is first in, first out, counts right and never says that it is
empty when it is not; nobody waits for a thread that stands still.

### Other parts

| part | where | state and hard behaviour | here |
|---|---|---|---|
| physics callbacks | `server/physics.cpp` | queues that are flushed at the end of a step | the removal queue |
| doors, buttons, logic entities | `server/doors.cpp`, `server/logicentities.cpp` | toggle states driven by thinks and inputs | no |
| NPC AI | `server/ai_*.cpp` | data-driven schedules, squads with shared slots | squads are a candidate |
| game rules | `server/vote_controller.cpp`, `shared/teamplay_round_timer.cpp` | timers and counters | candidates |
| player commands, lag compensation | `server/player_command.cpp` | numeric | no |
| save files | `shared/saverestore.cpp` | conversion of fields | what they do to the event queue and the hierarchy |
| command buffer | `src/src/tier1` | argument buffer | a candidate |
| map compilers | `src/src/utils` | geometry; a work counter shared by threads | no |
| client, panels, materials, third party | | rendering, user interface | no |

## Modules

| module | models | state and actions |
|---|---|---|
| `EntityList` | `CBaseEntityList`, `CGlobalEntityList`'s counters, `CBaseHandle` | `pEntity`, `serial` and `links` are the fields of the slots; one action per operation (`AddNetworkableEntity`, `AddNonNetworkableEntity`, `Destroy`, `Construct`, `Clear`, ...); `LoopStart`, `LoopNext`, `LoopEnd` are a loop that runs game code between its turns |
| `EntityTable` | what the list promises: the occupied slots in order of arrival and a queue of vacant ones | |
| `EntityListRefinement` | the mapping from the former to the latter | `Chain` walks the links |
| `EntityLifecycle` | removal, the frame of `GameFrame` around it | `pc` is where the frame is; game code acts in the phases `GamePhases`, the frame moves between them; `removal` is the stack of the removals under way, each with what is left of its list of children, and game code runs between any two steps of one (`UpdateOnRemove`, `RemoveOrphan`, `RemoveReturns`); lists of raw pointers are counted per entity, because their order plays no part |
| `SimThink` | `CSimThinkManager`, think contexts, the think loop | `manager` is the packed array and its index table; `chain`, `method`, `context`, `thinking` are the call stack of one `PhysicsSimulate`; `owed` remembers what was due |
| `EventQueue` | `CEventQueue` on its links | `next`, `prev`, `fireTime`, `post` are the nodes; `pe` and `cursor` the local variables of the loops; `phase` where `ServiceEvents` is, `"cancelled"` when an input has cancelled the event that called it |
| `EventSchedule` | what the queue promises: a sequence of posted inputs with the number of frames each has to wait | |
| `EventQueueRefinement` | the mapping | a cancelling call takes effect when it is made |
| `LogicRelay` | outputs and `logic_relay`, on top of `EventSchedule` | `outputs` are the action lists, `call` is a `FireOutput` under way, `handled` says that the input of the event being fired has been called; one action per input, one per turn of `FireOutput`; `Undefined` is where the code would delete an event twice |
| `Hierarchy` | the child lists and `m_pParent` | `moveParent`, `moveChild`, `movePeer`, `pParent` are the handles as they read (NULL once the entity is freed); `orphans` is what is left of the lists that `UpdateOnRemove` has taken, `transfer` a `TransferChildren` under way, `toRestore` whose `OnRestore` is still to come; `relinkedTo` remembers into whose lists a removed entity was put |
| `TouchLinks` | touch links, their stamps, the untouch check | `list` and `stamp` are the links; `stack` is the call stack, with what is left to do when the game code on top of it returns; `touching` records who was told of a touch, `spoiled` and `missed` two cases explained below |
| `LockFreeLists` | what `CTSListBase` promises: stacks of nodes with atomic operations | |
| `TSNodes` | the threads and nodes that both share | |
| `TSList` | `CTSListBase`, word by word | `heads`, `next` are shared, `old`, `new`, `step`, `toRead` the locals of a call; `stack` is the history of what was pushed, the mapping to `LockFreeLists`; `age` counts the pushes that a call has slept through |
| `FifoQueue` | what `CTSQueue` promises | |
| `TSQueue` | `CTSQueue` with `PushItem` and `PopItem` | `pc` is the line a thread is at, `link`, `tailSeq`, `nxt`, `item` its locals |
| `MC...` | instances for TLC | |
| `...Proofs` | theorems; those about `TSQueue` are in `TSListProofs` too | |

In every module an action is one atomic piece of the code: what happens between
two calls of game code that may touch the state of the module. A loop that calls game
code has one action for its start, one per turn and one for its end, so that any game
action may come between. Two calls of game code are not given a place of their own:
the `OnEntityEvent` in the middle of linking and unlinking a child
(`server/hierarchy.cpp:41,66`), which three classes of the server override and none
to touch the hierarchy, and, in `Hierarchy` and `TouchLinks`, the part of
`UpdateOnRemove` before the entity has left its parent and its listeners, which in
`EntityLifecycle` is a step apart. Every definition that models code names it in `PROJECT.json`, with its
lines. Definitions that begin with a comment *Faulty variant* are not part of a
specification: each is the form a plausible bug would give to the definition
below it, and replacing the one by the other makes TLC find a violation of the
property it is listed with.

`LogicRelay` is composed with the queue: its `queue` and `phase` are the variables
of an instance of `EventSchedule`, which `EventQueue` is shown to implement, and
each of its steps that touches the queue is a step of the schedule. A call of
`CancelEvents` may name the event that is being fired, in all three modules;
`OnlyOwnCancel` says which relays make such a call.
In it time is counted in units of half a frame, so that the 0.001 seconds that
a relay adds are shorter than a frame and not zero.

The others are not composed into one state machine: `EntityLifecycle` contains
what it needs of the think manager (who is listed, when it forgets) and of the
hierarchy (who is whose parent), and the details of each are checked in its own
module. `SimThink` takes the mark and the freeing from `EntityLifecycle` as
`UTIL_Remove` and `Free`, with the same guard (nothing is freed inside the think
loop), which `EntityLifecycle` establishes. `Hierarchy` and `TouchLinks` have the
removal of `EntityLifecycle` reduced to what touches the links; `Hierarchy` reads its
handles as `EntityList` shows them to read. `TSQueue` takes its free list as a set
of nodes with atomic operations, which is what `TSList` is proved to implement. The
two are about the same threads and nodes (`TSNodes`), and have different names for
what both of them have, so that one module can hold the proofs about `tslist.h`.

## What TLC checks

| run | what it shows | bounds |
|---|---|---|
| `entity_list` | handles are faithful, the counters agree, both lists stay well linked, loops see every entity that stays, the table is implemented | one networkable slot and three others beside the slot `MAX_EDICTS` that is never used, so that a node is removed from the head, the middle and the tail of a list; serial numbers 0 and 1, so that they wrap; each slot is vacated up to twice, a full round. What loops do is watched in some behaviours and what handles do in the others (`WatchSpec`), since neither changes the list |
| `destroy_unlisted` | a violation, see below | |
| `lifecycle` | nothing dangles, everything marked has one call that removes it or is pending once, registries forget; what is marked, queued or listed as the child of a removed parent is freed | three entities: three generations, or a pair and a bystander, one of them created later; removals nested three deep; fairness of the frame. What game code does is bounded (`MCGameStep`: it does not run everywhere, one entity thinks, one touches, two are queued in physics callbacks, parents are given in one order, and in the middle of a removal game code asks for further removals or takes the last child from its parent); what removals do is not |
| `sim_think` | the index table, the cached tick, the list and the loop are right | two entities with two think contexts each, two ticks: the removal of the first entry shifts the second; both are networkable, so that the once-per-tick rule applies. The proof covers lists of any length |
| `event_queue` | order, pointers, the schedule is implemented, with cancelling and with save and restore | three events, delays of 0 and 1 frames, three frames, or two where a save is made; kinds of posts so that a cancelling call may match one by caller, one by target, or two at once, the one being fired among them. A session either cancels or saves (`SessionSpec`) |
| `relay` | one wake-up per waiting relay, no refire before the last output, all actions posted, the event being fired stays but for a relay that cancels itself, servicing ends, every wait ends | four relays in a ring without delay: two that wait, one that may be retriggered, one that is removed when it fires and fires on spawning; an action that may fire twice, delayed ones, one by which a relay cancels itself; two events of others, so that triggers, cancellations and a removal meet in one frame; 20000 seconds on the clock, where the rounding of fire times leaves a choice; fairness of the frame |
| `relay_limited_output`, `relay_uptime` | violations, see below | one or two relays |
| `hierarchy` | the lists are lists, no child is lost but from a list that a removed entity was put into, a restore keeps parents | four entities, one without an edict, one that is never saved, one that is created by `phys_convert` or later: lists of three children, three generations; removed entities are put into the list of one parent only (`MCNext`) |
| `touch_links` | types, the walk is safe, started touches keep the link that ends them, ends are told, old links are checked | three entities: a trigger and two others, one pair polled and one reported by the physics engine; calls of game code nested two deep; one entity does not move by itself (`MCNext`). No pair is of both kinds, so a contact that ends between the halves of a *polled* touch of the same two (`DispatchEndTouch` adds it to `spoiled`) does not occur here; the proof covers it |
| `ts_list` | links and depth are right, each call takes effect at one moment | two threads, three nodes that move between a list and a free list, sequence numbers 0 to 2, a thread takes a second node only by a detach |
| `ts_queue` | types, the count, no item lost behind a node that is used again, empty only if empty, first in first out, every call returns | two threads, three nodes, three items, so that nodes are used again while the other thread still knows them; one pop that finds nothing. Four items (2.2 million states) give no violation either |

Bounds of the models are the constants `MaxLives`, `MaxTick`, `MaxTime`,
`MaxPending`, `MaxCalls`, `MaxItems`, `MaxEmpty`, and `MaxHeld` of `MCTSList`; they
appear only in guards that stop history counters, the clock, or others from
calling more. `LogicRelay` needs no bound on time, since waiting times are
relative. The interesting cases need few entities: every structure is a list,
and three nodes give a head, a middle and a tail; two actors give every kind of
interference between a loop and the code it calls. The proofs remove the bounds
for the safety properties of eight modules. Properties that are proved for all
values and say little to TLC are not repeated in the runs: the types of six of
those modules, `RefHandlesAgree`, `FiresInOrder`, `NothingDueLeft`, `CancelsAll`,
 `ParentsAgree`, `MarkedUnlisted` and `NodesApart`.

Deadlock is not checked where the system may stop: in `EntityList` with every
slot used up `MaxLives` times, in `Hierarchy` and `TouchLinks` with all entities
freed (an address is used once), in `TSList` and `TSQueue` when no thread calls and
the bounds allow none. There `CallsReturn` says that no call stands still. In all
other runs deadlock is checked.

### Disagreements with comments

*Destroying an entity without a slot.* `~CBaseEntity` calls `gEntList.RemoveEntity( GetRefEHandle() )`
(`server/baseentity.cpp:467`), "Remove this entity from the ent list (NOTE:
This Makes EHANDLES go NULL)". An entity that found no vacant slot has an
invalid handle, whose bits are all ones; the entry index of that handle is the
last slot of the array, and neither `RemoveEntity` nor `RemoveEntityAtSlot`
looks at the rest. If an entity sits there, it is taken off the list, and all
its handles go NULL instead. The run `destroy_unlisted` shows it: a state with
every slot taken, one more construction that fails, and its destructor. The
run `entity_list` includes these steps as well; its properties do not speak
about whose slot is vacated and hold.

*The last output of a relay.* `InputTrigger` fires `OnTrigger` and only then asks
for its greatest delay (`server/logicrelay.cpp:145,158`). An action that could
fire once more has been dropped by then, so its delay does not count, and the
relay can be fired again before that action's event, against "cannot be
refired until after the last output has been fired". Run `relay_limited_output`.

*A relay after nine hours.* The wake-up is posted 0.001 seconds after the greatest
delay, but the fire time is a float sum with the server time
(`server/cbase.cpp:826`). From 32768 seconds on, floats are 0.0039 apart, the
0.001 is rounded away, and two relays that trigger each other without delay do
so again and again in one call of `ServiceEvents`, against "to prevent rapid
refire". Run `relay_uptime`; with a lower clock the same instance is harmless.

### Known cases that no run shows

*A relay that cancels itself.* If `OnTrigger` of a relay calls `CancelPending` of the
same relay, the event being fired is one of those that `CancelEvents( this )`
deletes, and `ServiceEvents` unlinks and deletes it a second time
(`server/cbase.cpp:965-977`). The models go there: an input that cancels its own event
moves the phase from "firing" to "cancelled". The rest of that input goes on; what
`ServiceEvents` does then is undefined in C++, so the behaviour ends there (`Undefined` in
`LogicRelay`, no step of `ServiceEvents` in `EventQueue`). The relay `d` of the run `relay`
does it. `OnlyOwnCancel` says when it can happen: only when a relay has sent
`CancelPending` to itself, never by a chain of relays however long. `PointersLive`,
`PassEnds` and `WakesUp` are stated for what comes before.

*A node of `CTSQueue` used too soon.* A push
that has read `m_Tail` and sleeps may find, when it wakes, that this node was
popped, put on the free list and taken by another `PushItem`, which has set its
link to `End()` but has not linked it yet. The exchange of the link then succeeds: the
first push returns, and its item cannot be reached until the second push links
its node, when two items come in at once; a pop in between may return nothing. The
header says that "The PushItem()/PopItem() for handles this by
keeping a persistent free list" (`src/src/public/tier0/tslist.h`); that keeps the
memory valid, but not the link. `PushedIsReachable` says what is left: such an item
hangs behind the node of a push under way, whose own item is newer. `FifoQueue` allows the
batch, so that `ImplementsFifo` holds: the order is kept and nothing is lost for good.
For the same reason, and because "this can fail if another thread pushed", `m_Tail`
may be one node behind when all calls have returned, and `ValidateQueue` of a debug
build then reports a corrupt queue that is not.

*One-sided touches.* "Every start Touch gets a corresponding end touch" does not
hold if the second half of a touch is refused, because the callback of the first has
removed one of the two, attached one to the other, or set `FL_DONTTOUCH` (`Refused`); if
the physics engine reports the end of the contact between the halves; or if the two
touch again inside `EndTouch`: one side keeps a link of which the other knows
nothing, and is not told when the other is freed. The variable `spoiled` records
these pairs, and `EndedWhenFreed` speaks of all others. An entity that moves in its
own untouch check loses the new check, because `SetCheckUntouch( false )` at the
end clears the flag and the entity was not put on the list again; its old links
stay until it moves again (`missed`).

*A child that is not in its list.* `UnlinkChild` ends in `Assert(0)` if the child is
not found. It can be reached by giving a removed entity a parent: `!activator`
resolves to marked entities as well (`server/entitylist.cpp:546`). The removed entity is
freed in the middle of the list, its links read NULL, and the children behind it are
cut off; TLC reports this as a violation of `UnlinkChildFinds`. The model allows such
calls and `relinkedTo` remembers the parents: `ChildrenListed` and `MarkedUnlisted` say
that no other list is ever cut off.

### Fairness

Three modules have liveness properties. `FairSpec` of `EntityLifecycle`
assumes `WF_vars(FrameStep \/ RemovalStep)`: the engine goes on calling `GameFrame`,
every call of game code returns, and so does every `UpdateOnRemove`. Nothing is assumed of game code itself, which may
request removals for ever, nor of `PostSimulationFrame`, which the physics
engine calls when it likes. `EventuallyFreed` says that all the same each
requested removal is completed, whatever becomes of the entity and of its parent
while it waits.

`FairSpec` of `LogicRelay` assumes `WF_vars(Frame)` in the same way: frames go on,
inputs return. Others may post or not. `PassEnds` says that `ServiceEvents`
returns although relays in a ring restart its loop; it holds because a relay that
waits ignores the trigger, and fails if the margin of 0.001 seconds is dropped.
It is stated for what others post from their inputs with a delay: a map in
which an input cancels a relay's wait and triggers it again without delay does
hang the server.

`FairSpec` of `TSQueue` assumes weak fairness of each thread's `Step`: the operating
system runs every thread that is in a call. No thread has to make a call, and
none may rely on another one: that `CallsReturn` holds is due to helping. It is
stated with a bounded number of calls, since a lock-free (and not wait-free) call
may lose its exchange to others for ever.

## What is proved

TLAPS checks the theorems for every value of the constants: any number of slots,
entities, contexts, ticks, events, threads, nodes. The shape is the same in the eight modules:
an inductive invariant `IInv`, one lemma per operation, and theorems that read
the properties off the invariant.

* `EntityListProofs`. `IInv` is types, both lists sound, own handles in
  agreement, and what a held handle's serial number says about its slot.
  *Well linked* alone is not inductive: locally consistent links can also form
  a ring beside the list. The invariant therefore has a rank for the nodes of
  each list that grows along the links, which excludes rings. From it follow
  `TypeCorrect`, `ListsWellLinked`, `RefHandlesAlwaysAgree`, `HandlesFaithful`.
  On top of it, a loop has to meet every slot of the active
  list, which conditions on neighbours do not say. So `LoopSound` has a rank of
  the slots in which `m_pNext` leads to the *very next* one and the head is the
  first (`Sequenced`); what has been listed since the loop began has been seen or
  has a greater rank than the slot the loop stands on (`Progress`). Three lemmas say
  that the list operations keep that order. Theorems: `CountsAlwaysAgree`,
  `LoopsSeeAll`. The refinement, `ListImplementsTable`, has to say the whole lists:
  `Threaded` says that the links lead along a given sequence of different slots,
  there and back, from the head to the tail; then a walk meets just that sequence
  (`MetAlong`), `Unlink` takes one place out of it (`UnlinkChain`, `Gap`) and
  `AddToTail` appends (`AddChain`), and neither disturbs the other list, which shares
  the link fields but no slot (`Apart`). `Chained` says this of both lists of the
  state, and which slots are in each.
* `EntityLifecycleProofs`. `IInv` is about the world (marks, pending entities,
  registries), about the removals under way, however deep they nest, and about the
  frame (what each phase may still hold: the copied array of the think loop may name
  marked entities but no freed one, because nothing is freed in that phase). What
  makes the lists of children safe is `Covered`: no removal waits behind one that
  frees an entity still on its list. `StackOK` says this of the stack, with no entity
  twice on it, and `Push` and `Split` are what a call and a return do to it; `CallOK` is what
  each removal on it may name. `RemoveInv` is the step of `UTIL_Remove` from wherever it is
  called. The descendants of an entity are defined as a least closed set, and whoever
  hangs from a living entity is alive (`DescendantsHang`). Theorems: `TypeCorrect`,
  `PointersNeverDangle`, `ReleasedOnce`, `RegistriesNeverStale`.
* `SimThinkProofs`. `IInv` is about the book-keeping (index table, flags, cached
  ticks) and about the loop: whatever is owed belongs to an entity that is still
  in the copied array, in the chain of parents, or in the running pass at or
  before the context it is owed to. Theorems: `TypeCorrect`, `IndexAlwaysExact`,
  `AlwaysListedExactly`, `CachedTickNeverStale`, `ThinksNeverLost`.
* `EventQueueProofs`. The order of the events is total (fire time, then order of
  posting, a history variable). `InOrder` says of each link that it leads to the
  *immediate successor* in that order; so the list needs no notion of
  reachability, and inserting and removing are local. `Ahead` adds that a
  cancelling loop still has everything it names in front of it. Theorems:
  `TypeCorrect`, `AlwaysInOrder`, `PointersNeverStale`, `EventsFireInOrder`,
  `NothingDueIsLeft`, `CancelsEverything`. The refinement, `QueueImplementsSchedule`,
  needs the whole list at once. A set has one enumeration in a strict order
  (`OneOrder`), and links that lead along an enumeration visit just its nodes
  (`MetAlong`, the choice of a least place where they would not); so the nodes met from
  `m_Events` *are* the queued events in their order (`Listed`), and adding or removing
  one wedges it into, or takes it out of, that sequence (`Wedge`, `Gap`). What a
  cancelling loop will leave is the enumeration of the events it does not name, which
  its steps therefore do not change (`KeptIs`). `Saving` and `Restoring` say how far the
  file and the list agree, and `FileSorted` that every restored event goes to the end.
  Assumed beside the assumptions on the constants: memory is finite
  (`MemoryAssumption`).
* `LogicRelayProofs`. First the operators of `EventSchedule` are characterised by the
  places of the queue: what `Insert` does to them (`Inserted`), and that what is left
  after `Without` is an increasing renumbering (`Thinned`, from `Ranks`). That such
  numbers exist is an induction, which is done as the choice of a least
  counterexample (`LeastNumber`, by the library's `WFMin`). `Base` is types and what
  an event may say: an `EnableRefire` in the queue is the relay's own. Four invariants stand on it:
  `WalkOK` (what is posted and what is left of the list make up the list that the
  call found), `WakesOK` (one wake-up that is not handled yet for a relay that waits,
  none for others), `SettledOK` (while a relay fires, its events are no later than
  its wake-up will be; while it waits they are before the wake-up; otherwise there are
  none) with `Sorted` and `AlwaysKept` (an action without a limit stays in the list),
  and `QuietOK` (who has fired at this server time fires still, or waits for a wake-up
  that is not due). `Carried` is the common form of all steps that move events about
  the queue. Theorems: `TypeCorrect`, `OnlyOwnCancelCuts`, `AllAlwaysPosted`,
  `AlwaysRefirePending`, and two under the conditions without which the runs
  `relay_limited_output` and `relay_uptime` fail: `LastOutputAlwaysFirst` if the
  greatest delay is one of an action that is always fired (`LastKept`), and
  `NeverRapidRefire` if the server time is below 2^14 seconds. The assumptions of
  `LogicRelay` are used: `m_iIDStamp` is unique, and `EnableRefire` is "only posted from
  our Trigger function".
* `HierarchyProofs`. What a walk meets (`Walk`) is the least set that holds the
  list. Three lemmas say what happens to it when a child is cut out, when one is
  put in front, and when only links outside of it change; every operation is a
  combination of these. `IInv` is types, `ListsSound`, `ParentsAgree` and the
  quiet of the world during a transfer and a restore; `JInv` adds that, but for the
  lists into which removed entities were put, no marked entity is in a list and no
  child is lost. Theorems: `SpecTypeOK`, `SpecListsSound`, `SpecParentsAgree`,
  `SpecRestoreKeepsParent`, `SpecChildrenListed` and `SpecMarkedUnlisted`.
* `TouchLinksProofs`. The invariant is about the call stack, for any depth of calls
  of game code: `Fits` says which frame may be where (a walk at the bottom, a purge
  above frames that do not name its entity, who is told above the frame that
  removes the other link), `Claimed` that each frame which will still use or free a
  link when it returns finds it there, and that no two frames claim the same link.
  `PurgedUnchecked` keeps a purged entity out of the copy of the update list. One
  lemma per operation says what frames it takes and brings (`Takes`, `Brings`) and
  that the stack stays sound; then `WalkSafe` follows because only the frame that
  claims a link frees it, and `StartedIsLinked` because a link that is claimed by an
  `unlink` frame can be told from one that is not. On top of it `SInv` is about
  links that are out of date: those of the walked entity are still ahead of
  g_pNextLink or claimed by a frame that removes them (`WalkAhead`), so at the end of
  a walk there are none; who has links has a data object to be walked
  (`RootedLists`); and who is flagged is listed or walked (`FlaggedListed`).
  `EInv` is about what a purge and a removal still have to tell: who was told of a
  touch that is not spoiled is told of its end before it is freed, because the link
  is still there or claimed by a frame that ends the touch.
  Theorems: `TypeCorrect`, `WalkAlwaysSafe`, `StartedAlwaysLinked`,
  `StaleAlwaysChecked`, `AlwaysEndedWhenFreed`.
* `TSListProofs`. The sequence number of a list is the one that a call has read
  plus the pushes since then, modulo the range; if nobody sleeps through a full
  range, equal numbers mean no push, and pops and detaches alone do not bring a
  node back to the head. So the link that a pop has read is still right when its
  exchange succeeds. `ListsInv` is types, `Linked`, `NodesApart` and this fact for
  every thread (`Fresh`). Theorems: `SpecListsTypeOK`, `SpecLinked`, `SpecNodesApart`,
  and the refinement `SpecImplementsLists`: each step maps to one of `LockFreeLists`
  or to a stutter.

  The queue (`TSQueue`), in the same module. None of its four invariants says what the
  links of the nodes outside of the queue lead to, and a push may link its node to
  such a node. So the invariant, `IInv`, says where *every* node is: in the queue,
  free, new, or in the row of a call (`Layout`). The row of a push is its node and
  whatever others have linked behind it because they took it for the last one of the
  queue; that of a pop is the dummy it has taken. A link is `End()` only at the end of
  the queue or of a row, so whichever node an exchange of a link finds, it joins a
  row to the queue or to the row of another push. It never closes a row to a ring:
  items get older along a row (`Ordered`), and what a push has read, if another push
  holds it by now, carries a newer item than its own (`KnownTo`), because it was taken
  from the free list after that. `Reads` says what a call knows if `m_Head` or `m_Tail`
  still is what it has read; since their sequence numbers only grow, equality means
  that nothing has happened in between, although the links and the items have no such
  number. `Contents` says that each item pushed is on one node or was popped once, and
  `Counting` that `m_Count` is pushes minus pops but for the calls under way. Many steps move no node and no
  item (`Quiet`); one lemma does for all of them, and `Link`, `SwapHead`, `PushItem` and
  `CountDown` have one each. A function that follows the links from a node is equal to
  any sequence along which they lead (`WalkAlong`, from the library's `WFMin`, as
  induction is out of reach), so the queue of the specification is that of `Layout`.
  Theorems: `SpecIInv`, `SpecTypeOK`, `SpecEmptyIfNone`, `SpecPushedIsReachable`,
  `SpecCountsItems`, and the refinement `SpecImplementsFifo`: a step leaves the queue
  alone, takes its first item or adds a row at its end, and with several threads a
  row may have more than the two nodes that the run with two threads shows.
  Assumed beside the assumptions on the marks: finitely many nodes and threads
  (`FiniteAssumption`).

Only model-checked: `EventuallyFreed`, `PassEnds`, `WakesUp` and `CallsReturn`, because
liveness under fairness is out of reach of this prover.

## What the models rely on

Each of these is a precondition of an action or a choice of the model, and each
is what the code or its comments ask of callers.

* `UTIL_RemoveImmediate` is called when "sure no pointers rely on this entity"
  (`server/util.cpp`): the entity is neither in the physics queue nor in the rest
  of the array of the untouch loop nor on the list of children of a removal under way
  (`NothingRelies`). Nor does anybody queue an entity, in a physics callback, that is just
  being removed at once: its destructor would leave the pointer in the queue
  (`FreedOnReturn`).
* `SetParent` never closes a ring.
* Destructors run no physics callback that requests a removal.
* In `EntityList` game code does not destroy at once the entity that a loop over the list
  stands on: `NextEnt( pCurrent )` would read it. It may `UTIL_Remove` it, as the loop of
  `Clear` does.
* In `EntityLifecycle` an address is used once; the reuse of slots is the subject
  of `EntityList`. Entities that got no slot are only in `EntityList`.
* `SimThink` leaves players out (their thinks run with their commands) and leaves
  open what each move type computes, and which parents an entity has. A think is never
  set to tick 0: callers set thinks relative to the clock, which the model starts at 1,
  and none under `game/server` or `game/shared` passes a literal 0. A think that rounds
  to tick 0 on the very first tick of a server is thus left out.
* In `Hierarchy` callers close no ring (`SetParent` compares with itself only), an
  override of `OnRestore` leaves the hierarchy alone, the order of the `OnRestore`
  calls is arbitrary, and a save is made between frames with nothing marked.
* In `TouchLinks` the pairs that may touch are constants; a pair that the hierarchy or
  a flag forbids is not among those, and what a callback makes of them in the middle
  of a touch is left open (`Refused`). The physics engine may report contacts inside a
  callback as well as after its simulation, but not of a pair whose links are being
  removed or stamped by an unfinished call, nor of an entity that is just being freed
  (`Reports`). The switch that keeps `StartTouch` and
  `EndTouch` from being called during a restore is left out; a stamp is the
  entity's present one, an old one, or that of an event-driven link.
* In `TSList` nodes are not given back to the system while threads use the lists;
  no call sleeps through 2^16 pushes (`NobodyOversleeps`); there are fewer than 2^15
  nodes, so that `Depth` does not reach the word of the sequence number.
* `TSList` and `TSQueue` assume sequentially consistent memory, which the locked
  exchanges and barriers of the code give on x86. The words of `oldHead` and
  `oldTail` are read in either order; the reads of `CTSQueue::Pop`, which its
  comments forbid the optimizer to reorder, are in the order written. The
  sequence numbers of the queue, as wide as a pointer, do not wrap.
* Delays are not negative, time is counted in frames, the developer's single step
  through the queue is left out, and firing an event stands for all inputs it
  calls.

## What is not modelled, and why

Geometry, movement and physics are numeric and leave the structures here alone.
The client predicts and draws; it shares `EntityList`, whose constant
`ForcedSerials` stands for the serial numbers that the client takes from the
server. Save files are conversions of fields, except for what a save and a
restore do to the queue and to the hierarchy. AI schedules, weapons and game
rules are clients of the core and candidates for modules of their own; so is the
command buffer. The mutexes and events of `threadtools.h` are those of the
operating system, and the thread pool on top of them is not in this repository.
`UnlinkAllChildren` is called by nobody. `PROJECT.json` lists every part with its
status.

Hazards that no property covers: the flush of the physics callbacks gives up
after 20 rounds (`server/physics.cpp:2014`), far more than a frame queues, and the
model's flush has no cap; an entity without a slot is not put on the delete list
and stays allocated (`server/entitylist.cpp:308`), and such entities are only in
`EntityList`; freeing an entity at once while the untouch loop still has it in its
copy (`server/entitylist.cpp:1356`) is excluded by `NothingRelies`, as the comment
on `UTIL_RemoveImmediate` asks.

## Plan

Done: `EntityList`, `EntityLifecycle`, `SimThink`, `EventQueue`, each with its run
and proofs, in this order because each is used by the next; `LogicRelay` on top of
`EventQueue`; `Hierarchy`, `TouchLinks` and `TSList`, and `TSQueue` on top of the last,
all with proofs.

Worth doing next, as far as they repay it:

1. Squads (`ai_squad.cpp`), votes, capture areas, the command buffer, and
   `CCallQueueT` on top of `TSQueue`.
2. The child lists of `Hierarchy` shown to implement the parent relation of
   `EntityLifecycle`.
3. Proofs about the steps of several components at once, such as the free list of
   `TSQueue` as an instance of `TSList`.
