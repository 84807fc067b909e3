------------------------------ MODULE SimThink ------------------------------
(***************************************************************************)
(* Who thinks in a tick. CSimThinkManager keeps the entities that simulate *)
(* or have a think scheduled in an unordered vector, with the index of     *)
(* every entity's entry on the side, and caches in the entry the first     *)
(* tick at which the entity will think. The cached tick and the two EFL    *)
(* flags are maintained incrementally by every SetNextThink, SetMoveType   *)
(* and removal. Each tick the think loop copies the entries that are due   *)
(* and simulates each entity, its move parents first, once: its think      *)
(* contexts run in the order that its move type asks for, while game code  *)
(* goes on changing all of it.                                             *)
(*                                                                         *)
(* An entity is its slot in the entity list. Left out: players, who think  *)
(* when their commands arrive, and player-simulated entities; move types   *)
(* and move parents, whose effect is left open at every turn.              *)
(***************************************************************************)
EXTENDS Integers, Sequences, FiniteSets

CONSTANTS
  Slots,        \* entry indices
  Edicts,       \* those of networked entities
  NumContexts,  \* think functions of an entity; context 0 is the base one
  MaxTick       \* bound of the model: the last tick of the game

ASSUME SlotsAssumption == IsFiniteSet(Slots) /\ Edicts \subseteq Slots
ASSUME ContextsAssumption == NumContexts \in Nat \ {0}
ASSUME BoundAssumption == MaxTick \in Nat \ {0}

VARIABLES
  status,     \* the entity in each slot: "none", "live" or "marked" (EFL_KILLME)
  nextThink,  \* m_nNextThinkTick of every context
  noThink,    \* entities with EFL_NO_THINK_FUNCTION
  noSim,      \* entities with EFL_NO_GAME_PHYSICS_SIMULATION
  manager,    \* g_SimThinkManager: index = m_entinfoIndex, list = m_simThinkList
  tickcount,
  inLoop,     \* Physics_RunThinkFunctions is looping
  list,       \* the rest of the array it copied
  chain,      \* the entities in PhysicsSimulate that have not run yet, a
              \* parent before its child; the head is the one to run
  simulated,  \* entities whose m_nSimulationTick is the tickcount
  method,     \* thinkMethod of the PhysicsRunThink that runs for the head;
              \* "between" the two that PhysicsStep calls; "none" else
  context,    \* i of that PhysicsRunThink
  thinking,   \* a think function of that context is running
  owed        \* history: <<slot, context>> due when the loop began, and since
              \* neither run nor rescheduled nor removed

entities == <<status, nextThink, noThink, noSim>>
turn == <<chain, method, context, thinking>>
loop == <<inLoop, list, simulated, turn>>
vars == <<entities, manager, tickcount, loop, owed>>

Contexts == 0 .. NumContexts - 1
NEVER == -1                              \* TICK_NEVER_THINK
Ticks == NEVER .. MaxTick                \* 0: the context was never scheduled
ABSENT == 0                              \* 0xFFFF; vector indices start at 1

-----------------------------------------------------------------------------
(* The schedule of one entity: a tick for every context.                   *)

Scheduled(next) == {next[c] : c \in {k \in Contexts : next[k] > 0}}

WillThink(next) == Scheduled(next) # {}

GetFirstThinkTick(next) ==
  IF Scheduled(next) = {} THEN NEVER
  ELSE CHOOSE t \in Scheduled(next) : \A u \in Scheduled(next) : t <= u

-----------------------------------------------------------------------------
(* CSimThinkManager.                                                       *)

\* Faulty variant: the entity that fast remove shifted keeps its old index.
RemovedUnshifted(m, s) ==
  LET i == m.index[s]
      n == Len(m.list)
  IN IF i = ABSENT THEN m ELSE
     [index |-> [m.index EXCEPT ![s] = ABSENT],
      list |-> SubSeq([m.list EXCEPT ![i] = m.list[n]], 1, n - 1)]

\* "fast remove shifted someone, update that someone"
RemoveEntinfoIndex(m, s) ==
  LET i == m.index[s]
      n == Len(m.list)
      last == m.list[n].entEntry
  IN IF i = ABSENT THEN m ELSE
     [index |-> [t \in Slots |-> IF t = s THEN ABSENT
                                 ELSE IF t = last THEN i ELSE m.index[t]],
      list |-> SubSeq([m.list EXCEPT ![i] = m.list[n]], 1, n - 1)]

AddToTail(m, s, tick) ==
  [index |-> [m.index EXCEPT ![s] = Len(m.list) + 1],
   list |-> Append(m.list, [entEntry |-> s, nextThinkTick |-> tick])]

Entered(m, s) == m.index[s] # ABSENT

\* Faulty variant: the entry already there keeps its tick.
EntryKept(m, s, tick) == m

EntryUpdated(m, s, tick) == [m EXCEPT !.list[m.index[s]].nextThinkTick = tick]

IgnoresChange(s) == status[s] = "marked"

\* EntityChanged( s ), whose schedule and flags are already the new ones.
EntityChanged(m, s, next, noThinkNow, noSimNow) ==
  LET tick == IF noSimNow THEN GetFirstThinkTick(next) ELSE 0
  IN IF IgnoresChange(s) THEN m
     ELSE IF noThinkNow /\ noSimNow THEN RemoveEntinfoIndex(m, s)
     ELSE IF ~Entered(m, s) THEN AddToTail(m, s, tick)
     ELSE EntryUpdated(m, s, tick)

-----------------------------------------------------------------------------
Init ==
  /\ status = [s \in Slots |-> "none"]
  /\ nextThink = [s \in Slots |-> [c \in Contexts |-> 0]]
  /\ noThink = Slots /\ noSim = Slots
  /\ manager = [index |-> [s \in Slots |-> ABSENT], list |-> << >>]
  /\ tickcount = 1
  /\ inLoop = FALSE /\ list = << >> /\ chain = << >> /\ simulated = {}
  /\ method = "none" /\ context = 0 /\ thinking = FALSE
  /\ owed = {}

\* Faulty variant: the hint is all that counts.
HintedFlags(s, next, isThinking) ==
  IF isThinking THEN noThink \ {s} ELSE noThink \cup {s}

\* The EFL_NO_THINK_FUNCTION flags after CheckHasThinkFunction( isThinking ).
CheckedFlags(s, next, isThinking) ==
  IF isThinking THEN noThink \ {s}
  ELSE IF WillThink(next) THEN noThink ELSE noThink \cup {s}

\* The new schedule of s, then CheckHasThinkFunction.
Reschedule(s, next, isThinking) ==
  /\ nextThink' = [nextThink EXCEPT ![s] = next]
  /\ noThink' = CheckedFlags(s, next, isThinking)
  /\ manager' = EntityChanged(manager, s, next, s \in noThink', s \in noSim)

-----------------------------------------------------------------------------
(* What game code does, between frames and inside think functions.         *)

\* Game code runs between the frames, in think functions and, in the frame,
\* in what surrounds them: touches, Blocked, water checks.
GameRuns == method \in {"none", "between"} \/ thinking

\* The constructor and PostConstructor, in a slot that is free.
PostConstructor(s) ==
  /\ GameRuns /\ status[s] = "none"
  /\ status' = [status EXCEPT ![s] = "live"]
  /\ nextThink' = [nextThink EXCEPT ![s] = [c \in Contexts |-> 0]]
  /\ noThink' = noThink \cup {s} /\ noSim' = noSim \cup {s}
  /\ simulated' = simulated \ {s}
  /\ UNCHANGED <<manager, tickcount, inLoop, list, turn, owed>>

\* SetNextThink( time, context ), SetThink( func, time, context )
\* Tick 0 is left out, a precondition on game code: the flag would say that the
\* entity thinks while GetFirstThinkTick says never, and EntityChanged asserts
\* that this does not happen (nextThinkTick >= 0). The clock starts at 1.
SetNextThink(s, c, tick) ==
  /\ GameRuns /\ status[s] # "none"
  /\ Reschedule(s, [nextThink[s] EXCEPT ![c] = tick], tick # NEVER)
  /\ owed' = owed \ {<<s, c>>}
  /\ UNCHANGED <<status, noSim, tickcount, loop>>

\* CheckHasGamePhysicsSimulation, after SetMoveType or SetMoveDoneTime
CheckSimulation(s, isSimulating) ==
  /\ noSim' = IF isSimulating THEN noSim \ {s} ELSE noSim \cup {s}
  /\ manager' = IF noSim' = noSim THEN manager
                ELSE EntityChanged(manager, s, nextThink[s], s \in noThink, s \in noSim')

SetMoveType(s, isSimulating) ==
  /\ GameRuns /\ status[s] # "none"
  /\ CheckSimulation(s, isSimulating)
  /\ UNCHANGED <<status, nextThink, noThink, tickcount, loop, owed>>

\* The same with MOVETYPE_VPHYSICS, while the entity waits in PhysicsSimulate
\* for its parent: the switch then runs nothing for it in this tick.
SetMoveTypeVPhysics(i) ==
  /\ GameRuns /\ i \in 2 .. Len(chain)
  /\ CheckSimulation(chain[i], FALSE)
  /\ chain' = [k \in 1 .. Len(chain) - 1 |-> IF k < i THEN chain[k] ELSE chain[k + 1]]
  /\ owed' = {o \in owed : o[1] # chain[i]}
  /\ UNCHANGED <<status, nextThink, noThink, tickcount, inLoop, list, simulated,
                 method, context, thinking>>

\* CBaseDoor::Blocked: "don't run simulation this frame if you haven't run yet"
SkipThisFrame(s) ==
  /\ GameRuns /\ inLoop /\ status[s] # "none"
  /\ s \in Edicts \ simulated
  /\ simulated' = simulated \cup {s}
  /\ owed' = {o \in owed : o[1] # s}
  /\ UNCHANGED <<entities, manager, tickcount, inLoop, list, turn>>

\* UTIL_Remove: OnEntityDeleted
UTIL_Remove(s) ==
  /\ GameRuns /\ status[s] = "live"
  /\ status' = [status EXCEPT ![s] = "marked"]
  /\ manager' = RemoveEntinfoIndex(manager, s)
  /\ owed' = {o \in owed : o[1] # s}
  /\ UNCHANGED <<nextThink, noThink, noSim, tickcount, loop>>

\* CleanupDeleteList, never inside the loop
Free(s) ==
  /\ ~inLoop /\ status[s] = "marked"
  /\ status' = [status EXCEPT ![s] = "none"]
  /\ UNCHANGED <<nextThink, noThink, noSim, manager, tickcount, loop, owed>>

GameStep ==
  \/ \E s \in Slots :
       \/ PostConstructor(s)
       \/ \E c \in Contexts, tick \in Ticks \ {0} : SetNextThink(s, c, tick)
       \/ \E isSimulating \in BOOLEAN : SetMoveType(s, isSimulating)
       \/ SkipThisFrame(s)
       \/ UTIL_Remove(s)
       \/ Free(s)
  \/ \E i \in 2 .. Len(chain) : SetMoveTypeVPhysics(i)

-----------------------------------------------------------------------------
(* Physics_RunThinkFunctions.                                              *)

Due(s, c) == nextThink[s][c] > 0 /\ nextThink[s][c] <= tickcount

\* "only copy out entities that will simulate or think this frame"
Copied(entry) == entry.nextThinkTick <= tickcount

\* The copy keeps the order of the list.
ListCopy ==
  /\ ~inLoop /\ inLoop' = TRUE
  /\ LET due == {i \in 1 .. Len(manager.list) : Copied(manager.list[i])}
     IN \E pick \in [1 .. Cardinality(due) -> due] :
          /\ \A i \in due : \E k \in DOMAIN pick : pick[k] = i
          /\ \A k, l \in DOMAIN pick : k < l => pick[k] < pick[l]
          /\ list' = [k \in DOMAIN pick |-> manager.list[pick[k]].entEntry]
  /\ owed' = {o \in Slots \X Contexts : status[o[1]] = "live" /\ Due(o[1], o[2])}
  /\ UNCHANGED <<entities, manager, tickcount, simulated, turn>>

\* The move parents that PhysicsSimulate of s goes through, topmost first, up to
\* one that was already simulated.
MoveParents(s) ==
  LET others == {t \in Slots \ simulated : t # s /\ status[t] # "none"}
  IN {up \in UNION {[1 .. n -> others] : n \in 0 .. Cardinality(others)} :
        \A i, j \in DOMAIN up : up[i] = up[j] => i = j}

\* Physics_SimulateEntity: PhysicsSimulate, which makes "sure not to simulate this
\* guy twice per frame", or for an entity without edict PhysicsRunThink only.
SimulateEntity ==
  /\ chain = << >> /\ list # << >> /\ list' = Tail(list)
  /\ LET s == Head(list) IN
     \/ /\ s \in Edicts \ simulated
        /\ \E up \in MoveParents(s) :
             /\ chain' = Append(up, s)
             /\ simulated' = simulated \cup {s} \cup {up[i] : i \in DOMAIN up}
     \/ s \in Edicts \cap simulated /\ UNCHANGED <<chain, simulated>>
     \/ s \notin Edicts /\ chain' = <<s>> /\ UNCHANGED simulated
  /\ UNCHANGED <<entities, manager, tickcount, inLoop, method, context, thinking, owed>>

\* The head has run.
Done == chain' = Tail(chain) /\ method' = "none" /\ context' = 0

\* Faulty variant: PhysicsStep returns after the first pass.
StepsOver(m) == FALSE

\* PhysicsStep goes on to the base think when it is due.
BaseFollows(m) == m = "all_but_base" /\ Due(Head(chain), 0)

\* PhysicsRunThink( m ) returns.
PassEnds(m) ==
  IF BaseFollows(m) THEN method' = "between" /\ context' = 0 /\ UNCHANGED chain
  ELSE Done

\* PhysicsRunThink is called: by PhysicsStep in two passes, else in one.
PhysicsRunThink ==
  /\ chain # << >> /\ ~thinking
  /\ \E m \in IF method = "none" THEN {"all", "all_but_base"}
              ELSE IF method = "between" THEN {"base_only"} ELSE {} :
       IF Head(chain) \in noThink THEN PassEnds(m)
       ELSE method' = m /\ context' = (IF m = "all_but_base" THEN 1 ELSE 0) /\ UNCHANGED chain
  /\ UNCHANGED <<entities, manager, tickcount, inLoop, list, simulated, thinking, owed>>

InPass == method \notin {"none", "between"} /\ ~thinking

ContextsEnd == IF method = "base_only" THEN 1 ELSE NumContexts

\* PhysicsRunSpecificThink: unscheduled first, then dispatched.
RunSpecificThink ==
  /\ InPass /\ context < ContextsEnd
  /\ LET s == Head(chain) IN
     /\ Due(s, context)
     /\ Reschedule(s, [nextThink[s] EXCEPT ![context] = NEVER], FALSE)
     /\ owed' = owed \ {<<s, context>>}
  /\ thinking' = TRUE
  /\ UNCHANGED <<status, noSim, tickcount, inLoop, list, simulated, chain, method, context>>

\* The think function has returned; an entity that it removed ends its pass.
ThinkReturns ==
  /\ thinking /\ thinking' = FALSE
  /\ IF status[Head(chain)] = "marked" THEN PassEnds(method)
     ELSE context' = context + 1 /\ UNCHANGED <<chain, method>>
  /\ UNCHANGED <<entities, manager, tickcount, inLoop, list, simulated, owed>>

SkipContext ==
  /\ InPass /\ context < ContextsEnd /\ ~Due(Head(chain), context)
  /\ context' = context + 1
  /\ UNCHANGED <<entities, manager, tickcount, inLoop, list, simulated, chain,
                 method, thinking, owed>>

LastContext ==
  /\ InPass /\ context = ContextsEnd
  /\ PassEnds(method)
  /\ UNCHANGED <<entities, manager, tickcount, inLoop, list, simulated, thinking, owed>>

FrameEnd ==
  /\ inLoop /\ list = << >> /\ chain = << >> /\ tickcount < MaxTick
  /\ inLoop' = FALSE /\ tickcount' = tickcount + 1 /\ simulated' = {}
  /\ UNCHANGED <<entities, manager, list, turn, owed>>

LoopStep == \/ ListCopy \/ SimulateEntity \/ PhysicsRunThink \/ RunSpecificThink
            \/ ThinkReturns \/ SkipContext \/ LastContext \/ FrameEnd

Next == GameStep \/ LoopStep

Spec == Init /\ [][Next]_vars

-----------------------------------------------------------------------------
(* Properties.                                                             *)

Entries == [entEntry : Slots, nextThinkTick : Ticks]

\* Types of the think schedule and of CSimThinkManager, whose indices fit the
\* number of slots: the list never grows beyond one entry for each.
TypeOK ==
  /\ status \in [Slots -> {"none", "live", "marked"}]
  /\ nextThink \in [Slots -> [Contexts -> Ticks]]
  /\ noThink \subseteq Slots /\ noSim \subseteq Slots
  /\ manager \in [index : [Slots -> 0 .. Cardinality(Slots)], list : Seq(Entries)]
  /\ tickcount \in 1 .. MaxTick
  /\ inLoop \in BOOLEAN /\ list \in Seq(Slots)
  /\ chain \in Seq(Slots) /\ simulated \subseteq Slots
  /\ method \in {"none", "between", "all", "all_but_base", "base_only"}
  /\ context \in 0 .. NumContexts /\ thinking \in BOOLEAN
  /\ owed \subseteq Slots \X Contexts

\* m_entinfoIndex and m_simThinkList name each other through every order of
\* additions and fast removals (RemoveEntinfoIndex, EntityChanged).
IndexExact ==
  /\ \A s \in Slots : manager.index[s] # ABSENT =>
       /\ manager.index[s] \in 1 .. Len(manager.list)
       /\ manager.list[manager.index[s]].entEntry = s
  /\ \A i \in 1 .. Len(manager.list) : manager.index[manager.list[i].entEntry] = i

\* The list is exactly the live entities that think or simulate, although it
\* is only maintained incrementally and by hints (CheckHasThinkFunction): an
\* entity marked for deletion, or a vacant slot, is not in it.
ListedExactly ==
  \A s \in Slots : manager.index[s] # ABSENT <=>
    status[s] = "live" /\ (WillThink(nextThink[s]) \/ s \notin noSim)

\* The assertion of ListCopy (entitylist.cpp:207): the tick an entry caches is
\* the first think tick of its entity, or 0 if the entity simulates.
CachedTick ==
  \A i \in 1 .. Len(manager.list) :
    LET e == manager.list[i] IN
      e.nextThinkTick = IF e.entEntry \in noSim
                        THEN GetFirstThinkTick(nextThink[e.entEntry]) ELSE 0

\* No think is lost: whatever was due when the loop began has run when the loop
\* is over, unless game code rescheduled it, removed the entity or took it out
\* of this frame meanwhile (PhysicsSimulate, PhysicsStep, PhysicsRunThink).
NoThinkLost == inLoop /\ list = << >> /\ chain = << >> => owed = {}
=============================================================================
