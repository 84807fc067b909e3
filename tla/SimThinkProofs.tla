--------------------------- MODULE SimThinkProofs ---------------------------
(***************************************************************************)
(* The bookkeeping of CSimThinkManager is exact and no think is lost, for  *)
(* any finite number of slots, of think contexts and of ticks.             *)
(***************************************************************************)
EXTENDS SimThink, FiniteSetTheorems, WellFoundedInduction, TLAPS

Schedules == [Contexts -> Ticks]

Managers == [index : [Slots -> Nat], list : Seq(Entries)]

-----------------------------------------------------------------------------
(* The schedule of one entity.                                             *)

\* GetFirstThinkTick returns a tick, and none of the scheduled ones is earlier.
LEMMA FirstThinkTick ==
  ASSUME NEW next \in Schedules
  PROVE  /\ GetFirstThinkTick(next) \in Ticks
         /\ \A c \in Contexts : next[c] > 0 => GetFirstThinkTick(next) <= next[c]
<1>1. Scheduled(next) \in SUBSET Nat /\ Scheduled(next) \subseteq Ticks
  BY BoundAssumption DEF Scheduled, Schedules, Ticks, NEVER
<1>2. CASE Scheduled(next) = {}
  BY <1>2, BoundAssumption DEF GetFirstThinkTick, Scheduled, Ticks, NEVER
<1>3. CASE Scheduled(next) # {}
  <2>1. \E t \in Scheduled(next) : \A u \in Scheduled(next) :
          ~ (<<u, t>> \in OpToRel(<, Nat))
    BY <1>1, <1>3, NatLessThanWellFounded, WFMin, Zenon
  <2>2. \E t \in Scheduled(next) : \A u \in Scheduled(next) : t <= u
    <3>1. \A t, u \in Nat : ~ (<<u, t>> \in OpToRel(<, Nat)) => ~ (u < t)
      BY Zenon DEF OpToRel
    <3>2. PICK t \in Scheduled(next) : \A u \in Scheduled(next) :
            ~ (<<u, t>> \in OpToRel(<, Nat))
      BY <2>1
    <3>3. \A u \in Scheduled(next) : ~ (u < t)
      BY <1>1, <3>1, <3>2, Zenon
    <3> QED BY <1>1, <3>3
  <2>3. /\ GetFirstThinkTick(next) \in Scheduled(next)
        /\ \A u \in Scheduled(next) : GetFirstThinkTick(next) <= u
    BY <1>3, <2>2 DEF GetFirstThinkTick
  <2> QED BY <1>1, <2>3 DEF Scheduled
<1> QED BY <1>2, <1>3

\* An entity thinks when one of its contexts is scheduled.
LEMMA ThinksByContext ==
  ASSUME NEW next PROVE WillThink(next) <=> \E c \in Contexts : next[c] > 0
BY DEF WillThink, Scheduled

-----------------------------------------------------------------------------
(* CSimThinkManager as a table: which slots it lists, and with what entry. *)

\* The parts of a well-typed manager.
LEMMA ManagerShape ==
  ASSUME NEW m \in Managers
  PROVE  /\ m.index \in [Slots -> Nat] /\ m.list \in Seq(Entries)
         /\ Len(m.list) \in Nat
         /\ \A j \in 1 .. Len(m.list) : m.list[j] \in Entries /\ m.list[j].entEntry \in Slots
<1>1. m.index \in [Slots -> Nat] /\ m.list \in Seq(Entries)
  BY DEF Managers
<1>2. Len(m.list) \in Nat /\ \A j \in 1 .. Len(m.list) : m.list[j] \in Entries
  BY <1>1
<1> QED BY <1>1, <1>2 DEF Entries

Exact(m) ==
  /\ \A s \in Slots : m.index[s] # ABSENT =>
       /\ m.index[s] \in 1 .. Len(m.list)
       /\ m.list[m.index[s]].entEntry = s
  /\ \A i \in 1 .. Len(m.list) : m.index[m.list[i].entEntry] = i

EntryOf(m, s) == m.list[m.index[s]]

\* Nothing but s changed between m and r.
Keeps(m, r, s) ==
  \A t \in Slots \ {s} :
    /\ r.index[t] = ABSENT <=> m.index[t] = ABSENT
    /\ m.index[t] # ABSENT => EntryOf(r, t) = EntryOf(m, t)

\* Fast remove takes out exactly s.
LEMMA RemoveExact ==
  ASSUME NEW m \in Managers, Exact(m), NEW s \in Slots, NEW r,
         r = RemoveEntinfoIndex(m, s)
  PROVE  r \in Managers /\ Exact(r) /\ Keeps(m, r, s) /\ r.index[s] = ABSENT
<1>1. CASE m.index[s] = ABSENT
  BY <1>1 DEF RemoveEntinfoIndex, Keeps, EntryOf
<1>2. CASE m.index[s] # ABSENT
  <2> DEFINE i == m.index[s]
             n == Len(m.list)
             last == m.list[n].entEntry
  <2>1. /\ i \in 1 .. n /\ n \in Nat \ {0}
        /\ m.list \in Seq(Entries) /\ m.index \in [Slots -> Nat]
        /\ \A j \in 1 .. n : m.list[j] \in Entries /\ m.list[j].entEntry \in Slots
    <3>1. i \in 1 .. n
      BY <1>2 DEF Exact
    <3> QED BY <3>1, ManagerShape
  <2>2. /\ last \in Slots /\ m.index[last] = n
        /\ m.list[i].entEntry = s
    BY <1>2, <2>1 DEF Exact
  <2>3. /\ r.index = [t \in Slots |-> IF t = s THEN ABSENT
                                      ELSE IF t = last THEN i ELSE m.index[t]]
        /\ r.list = SubSeq([m.list EXCEPT ![i] = m.list[n]], 1, n - 1)
        /\ r = [index |-> r.index, list |-> r.list]
    BY <1>2 DEF RemoveEntinfoIndex
  <2>4. /\ r.list \in Seq(Entries) /\ Len(r.list) = n - 1
        /\ \A j \in 1 .. n - 1 : r.list[j] = IF j = i THEN m.list[n] ELSE m.list[j]
    <3>1. [m.list EXCEPT ![i] = m.list[n]] \in Seq(Entries)
      BY <2>1
    <3>2. Len([m.list EXCEPT ![i] = m.list[n]]) = n
      BY <2>1
    <3> QED BY <2>1, <2>3, <3>1, <3>2
  <2>5. r.index \in [Slots -> Nat] /\ r.index[s] = ABSENT
    BY <2>1, <2>3 DEF ABSENT
  <2>6. r \in Managers
    BY <2>3, <2>4, <2>5 DEF Managers
  <2>7. ASSUME NEW t \in Slots \ {s}
        PROVE  /\ r.index[t] = ABSENT <=> m.index[t] = ABSENT
               /\ m.index[t] # ABSENT =>
                    /\ r.index[t] \in 1 .. n - 1
                    /\ r.list[r.index[t]] = m.list[m.index[t]]
    <3>1. CASE t = last
      <4>1. r.index[t] = i /\ m.index[t] = n /\ i # n
        BY <2>2, <2>3, <2>7, <3>1
      <4>2. i \in 1 .. n - 1 /\ r.list[i] = m.list[n]
        BY <2>1, <2>4, <4>1
      <4> QED BY <2>1, <4>1, <4>2 DEF ABSENT
    <3>2. CASE t # last
      <4>1. r.index[t] = m.index[t]
        BY <2>3, <2>7, <3>2
      <4>2. m.index[t] # ABSENT => m.index[t] \in 1 .. n /\ m.index[t] # n /\ m.index[t] # i
        BY <2>2, <2>7, <3>2 DEF Exact
      <4>3. m.index[t] # ABSENT =>
              m.index[t] \in 1 .. n - 1 /\ r.list[m.index[t]] = m.list[m.index[t]]
        BY <2>1, <2>4, <4>2
      <4> QED BY <4>1, <4>3
    <3> QED BY <3>1, <3>2
  <2>8. Keeps(m, r, s)
    BY <2>7 DEF Keeps, EntryOf
  <2>9. Exact(r)
    <3>1. ASSUME NEW t \in Slots, r.index[t] # ABSENT
          PROVE  r.index[t] \in 1 .. Len(r.list) /\ r.list[r.index[t]].entEntry = t
      <4>1. t # s
        BY <2>5, <3>1
      <4>2. m.index[t] # ABSENT
        BY <2>7, <3>1, <4>1
      <4> QED BY <2>4, <2>7, <4>1, <4>2 DEF Exact
    <3>2. ASSUME NEW j \in 1 .. Len(r.list)
          PROVE  r.index[r.list[j].entEntry] = j
      <4>1. j \in 1 .. n - 1
        BY <2>4, <3>2
      <4>2. CASE j = i
        <5>1. i # n
          BY <2>1, <4>1, <4>2
        <5>2. last # s
          BY <2>1, <2>2, <5>1
        <5> QED BY <2>2, <2>3, <2>4, <4>1, <4>2, <5>2
      <4>3. CASE j # i
        <5>1. r.list[j] = m.list[j] /\ m.index[m.list[j].entEntry] = j
          <6>1. j \in 1 .. n
            BY <2>1, <4>1
          <6> QED BY <2>4, <4>1, <4>3, <6>1 DEF Exact
        <5>2. m.list[j].entEntry # s /\ m.list[j].entEntry # last
          BY <2>1, <2>2, <4>1, <4>3, <5>1
        <5>3. m.list[j].entEntry \in Slots
          BY <2>1, <4>1
        <5> QED BY <2>3, <5>1, <5>2, <5>3
      <4> QED BY <4>2, <4>3
    <3> QED BY <3>1, <3>2 DEF Exact
  <2> QED BY <2>5, <2>6, <2>8, <2>9
<1> QED BY <1>1, <1>2

\* A new entry at the tail is that of s, which had none.
LEMMA AddExact ==
  ASSUME NEW m \in Managers, Exact(m), NEW s \in Slots, m.index[s] = ABSENT,
         NEW tick \in Ticks, NEW r, r = AddToTail(m, s, tick)
  PROVE  /\ r \in Managers /\ Exact(r) /\ Keeps(m, r, s)
         /\ r.index[s] # ABSENT /\ EntryOf(r, s).nextThinkTick = tick
<1> DEFINE n == Len(m.list)
           new == [entEntry |-> s, nextThinkTick |-> tick]
<1>1. /\ n \in Nat /\ m.list \in Seq(Entries) /\ m.index \in [Slots -> Nat]
      /\ new \in Entries
      /\ \A j \in 1 .. n : m.list[j].entEntry \in Slots
  BY ManagerShape DEF Entries
<1>2. /\ r.index = [m.index EXCEPT ![s] = n + 1]
      /\ r.list = Append(m.list, new)
      /\ r = [index |-> r.index, list |-> r.list]
  BY DEF AddToTail
<1>3. /\ r.list \in Seq(Entries) /\ Len(r.list) = n + 1
      /\ r.list[n + 1] = new
      /\ \A j \in 1 .. n : r.list[j] = m.list[j]
  BY <1>1, <1>2
<1>4. /\ r.index \in [Slots -> Nat] /\ r.index[s] = n + 1
      /\ \A t \in Slots \ {s} : r.index[t] = m.index[t]
  BY <1>1, <1>2
<1>5. Keeps(m, r, s)
  BY <1>3, <1>4 DEF Keeps, EntryOf, Exact
<1>6. Exact(r)
  <2>1. ASSUME NEW t \in Slots, r.index[t] # ABSENT
        PROVE  r.index[t] \in 1 .. Len(r.list) /\ r.list[r.index[t]].entEntry = t
    <3>1. CASE t = s
      BY <1>1, <1>3, <1>4, <3>1
    <3>2. CASE t # s
      <4>1. r.index[t] = m.index[t] /\ m.index[t] \in 1 .. n /\ m.list[m.index[t]].entEntry = t
        BY <1>4, <2>1, <3>2 DEF Exact
      <4> QED BY <1>1, <1>3, <4>1
    <3> QED BY <3>1, <3>2
  <2>2. ASSUME NEW j \in 1 .. Len(r.list)
        PROVE  r.index[r.list[j].entEntry] = j
    <3>1. CASE j = n + 1
      BY <1>3, <1>4, <3>1
    <3>2. CASE j \in 1 .. n
      <4>1. m.index[m.list[j].entEntry] = j /\ m.list[j].entEntry \in Slots
        BY <1>1, <3>2 DEF Exact
      <4>2. m.list[j].entEntry # s
        BY <3>2, <4>1 DEF ABSENT
      <4> QED BY <1>3, <1>4, <3>2, <4>1, <4>2
    <3> QED BY <1>1, <1>3, <2>2, <3>1, <3>2
  <2> QED BY <2>1, <2>2 DEF Exact
<1>7. r \in Managers
  BY <1>2, <1>3, <1>4 DEF Managers
<1>8. r.index[s] # ABSENT /\ EntryOf(r, s) = new
  BY <1>1, <1>3, <1>4 DEF EntryOf, ABSENT
<1> QED BY <1>5, <1>6, <1>7, <1>8

\* Writing the tick of the entry of s changes no other entry.
LEMMA UpdateExact ==
  ASSUME NEW m \in Managers, Exact(m), NEW s \in Slots, m.index[s] # ABSENT,
         NEW tick \in Ticks, NEW r, r = EntryUpdated(m, s, tick)
  PROVE  /\ r \in Managers /\ Exact(r) /\ Keeps(m, r, s)
         /\ r.index[s] # ABSENT /\ EntryOf(r, s).nextThinkTick = tick
<1> DEFINE n == Len(m.list)
           i == m.index[s]
<1>1. /\ n \in Nat /\ m.list \in Seq(Entries) /\ m.index \in [Slots -> Nat]
      /\ i \in 1 .. n
      /\ \A j \in 1 .. n : m.list[j] \in Entries
  BY ManagerShape DEF Exact
<1>2. /\ r.index = m.index
      /\ r.list = [m.list EXCEPT ![i] = [m.list[i] EXCEPT !.nextThinkTick = tick]]
      /\ r = [index |-> r.index, list |-> r.list]
  BY DEF EntryUpdated, Managers
<1>3. [m.list[i] EXCEPT !.nextThinkTick = tick] \in Entries
  BY <1>1 DEF Entries
<1>4. /\ r.list \in Seq(Entries) /\ Len(r.list) = n
      /\ r.list[i] = [m.list[i] EXCEPT !.nextThinkTick = tick]
      /\ \A j \in 1 .. n : j # i => r.list[j] = m.list[j]
  BY <1>1, <1>2, <1>3
<1>5. /\ r.list[i].entEntry = m.list[i].entEntry
      /\ r.list[i].nextThinkTick = tick
  BY <1>1, <1>4 DEF Entries
<1>6. \A j \in 1 .. n : r.list[j].entEntry = m.list[j].entEntry
  BY <1>4, <1>5
<1>7. Exact(r)
  BY <1>1, <1>2, <1>4, <1>6 DEF Exact
<1>8. Keeps(m, r, s)
  BY <1>1, <1>2, <1>4 DEF Keeps, EntryOf, Exact
<1> QED BY <1>1, <1>2, <1>4, <1>5, <1>7, <1>8 DEF Managers, EntryOf

\* r lists what m lists, and s with the given tick or not at all.
Becomes(m, r, s, listed, tick) ==
  /\ r \in Managers /\ Exact(r) /\ Keeps(m, r, s)
  /\ r.index[s] # ABSENT <=> listed
  /\ r.index[s] # ABSENT => EntryOf(r, s).nextThinkTick = tick

\* EntityChanged leaves s listed if and only if it thinks or simulates, with
\* the tick that its schedule asks for.
LEMMA ChangeExact ==
  ASSUME NEW m \in Managers, Exact(m), NEW s \in Slots, ~IgnoresChange(s),
         NEW next \in Schedules, NEW a \in BOOLEAN, NEW b \in BOOLEAN,
         NEW r, r = EntityChanged(m, s, next, a, b)
  PROVE  Becomes(m, r, s, ~(a /\ b), IF b THEN GetFirstThinkTick(next) ELSE 0)
<1> USE DEF Becomes
<1> DEFINE tick == IF b THEN GetFirstThinkTick(next) ELSE 0
<1>1. tick \in Ticks
  BY FirstThinkTick, BoundAssumption DEF Ticks, NEVER
<1>2. CASE a /\ b
  <2>1. r = RemoveEntinfoIndex(m, s)
    BY <1>2 DEF EntityChanged
  <2> QED BY <1>2, <2>1, RemoveExact
<1>3. CASE ~(a /\ b) /\ ~Entered(m, s)
  <2>1. r = AddToTail(m, s, tick) /\ m.index[s] = ABSENT
    BY <1>3 DEF EntityChanged, Entered
  <2> HIDE DEF tick
  <2>2. /\ r \in Managers /\ Exact(r) /\ Keeps(m, r, s)
        /\ r.index[s] # ABSENT /\ EntryOf(r, s).nextThinkTick = tick
    BY <1>1, <2>1, AddExact
  <2> QED BY <1>3, <2>2 DEF tick
<1>4. CASE ~(a /\ b) /\ Entered(m, s)
  <2>1. r = EntryUpdated(m, s, tick) /\ m.index[s] # ABSENT
    BY <1>4 DEF EntityChanged, Entered
  <2> HIDE DEF tick
  <2>2. /\ r \in Managers /\ Exact(r) /\ Keeps(m, r, s)
        /\ r.index[s] # ABSENT /\ EntryOf(r, s).nextThinkTick = tick
    BY <1>1, <2>1, UpdateExact
  <2> QED BY <1>4, <2>2 DEF tick
<1> QED BY <1>2, <1>3, <1>4

-----------------------------------------------------------------------------
(* The inductive invariant.                                                *)

\* The entities and the manager.
Tables ==
  /\ status \in [Slots -> {"none", "live", "marked"}]
  /\ nextThink \in [Slots -> Schedules]
  /\ noThink \subseteq Slots /\ noSim \subseteq Slots
  /\ manager \in Managers

Thinks(s) == WillThink(nextThink[s])

\* EFL_NO_THINK_FUNCTION is exact, although set from hints.
FlagExact == \A s \in Slots : s \in noThink <=> ~Thinks(s)

\* The entry of s is the one its schedule and its flags ask for.
Faithful ==
  \A s \in Slots :
    /\ manager.index[s] # ABSENT <=> status[s] = "live" /\ (Thinks(s) \/ s \notin noSim)
    /\ manager.index[s] # ABSENT =>
         EntryOf(manager, s).nextThinkTick =
           IF s \in noSim THEN GetFirstThinkTick(nextThink[s]) ELSE 0

Book == Tables /\ Exact(manager) /\ FlagExact /\ Faithful

Methods == {"none", "between", "all", "all_but_base", "base_only"}

LoopTypes ==
  /\ tickcount \in 1 .. MaxTick
  /\ inLoop \in BOOLEAN /\ list \in Seq(Slots)
  /\ chain \in Seq(Slots) /\ simulated \subseteq Slots
  /\ method \in Methods
  /\ context \in 0 .. NumContexts /\ thinking \in BOOLEAN
  /\ owed \subseteq Slots \X Contexts

\* Where the loop is.
LoopShape ==
  /\ list # << >> \/ chain # << >> => inLoop
  /\ ~inLoop => simulated = {}
  /\ \A i \in 1 .. Len(list) : status[list[i]] # "none"
  /\ \A i \in 1 .. Len(chain) : status[chain[i]] # "none"
  /\ chain = << >> => method = "none"
  /\ method \in {"none", "between"} => context = 0 /\ ~thinking
  /\ context <= ContextsEnd
  /\ thinking => context < ContextsEnd

\* The head of the chain will still come to context c.
Coming(c) ==
  \/ method = "none"
  \/ method \in {"between", "all_but_base"} /\ c = 0
  \/ /\ method \notin {"none", "between"}
     /\ method = "base_only" => c = 0
     /\ IF thinking THEN c > context ELSE c >= context

\* The loop is still to come to whatever it owes: the entity waits in
\* PhysicsSimulate, or for its turn.
Ahead(o) ==
  \/ \E i \in 1 .. Len(chain) : chain[i] = o[1] /\ (i = 1 => Coming(o[2]))
  \/ o[1] \notin simulated /\ \E i \in 1 .. Len(list) : list[i] = o[1]

Owing ==
  inLoop => \A o \in owed : status[o[1]] = "live" /\ Due(o[1], o[2]) /\ Ahead(o)

Loop == LoopTypes /\ LoopShape /\ Owing

IInv == Book /\ Loop

\* What the properties say follows from it.
LEMMA BookMeans == Book => IndexExact /\ ListedExactly /\ CachedTick
<1> SUFFICES ASSUME Book PROVE IndexExact /\ ListedExactly /\ CachedTick
  OBVIOUS
<1>1. IndexExact
  BY DEF Book, Exact, IndexExact
<1>2. ListedExactly
  BY DEF Book, Faithful, ListedExactly, Thinks
<1>3. ASSUME NEW i \in 1 .. Len(manager.list)
      PROVE  manager.list[i].nextThinkTick =
               IF manager.list[i].entEntry \in noSim
               THEN GetFirstThinkTick(nextThink[manager.list[i].entEntry]) ELSE 0
  <2> DEFINE s == manager.list[i].entEntry
  <2>1. s \in Slots
    BY ManagerShape DEF Book, Tables
  <2>2. manager.index[s] = i /\ i # ABSENT
    BY DEF Book, Exact, ABSENT
  <2> QED BY <2>1, <2>2 DEF Book, Faithful, EntryOf
<1> QED BY <1>1, <1>2, <1>3 DEF CachedTick

\* An exact manager has at most one entry for each slot.
LEMMA ListBounded ==
  ASSUME NEW m \in Managers, Exact(m)
  PROVE  Len(m.list) <= Cardinality(Slots)
<1> DEFINE n == Len(m.list)
           f == [i \in 1 .. n |-> m.list[i].entEntry]
<1>1. n \in Nat /\ f \in [1 .. n -> Slots]
  BY ManagerShape
<1>2. \A i, j \in 1 .. n : f[i] = f[j] => i = j
  BY DEF Exact
<1>3. f \in Injection(1 .. n, Slots)
  BY <1>1, <1>2 DEF Injection, IsInjective
<1>4. Cardinality(1 .. n) <= Cardinality(Slots)
  BY <1>3, FS_Injection, SlotsAssumption
<1>5. Cardinality(1 .. n) = n
  BY <1>1, FS_Interval
<1> QED BY <1>4, <1>5

\* Every index fits: an exact list is not longer than there are slots.
LEMMA InvariantTypes == IInv => TypeOK
<1> SUFFICES ASSUME IInv PROVE TypeOK
  OBVIOUS
<1>0. Book /\ LoopTypes
  BY DEF IInv, Loop
<1>1. Cardinality(Slots) \in Nat
  BY SlotsAssumption, FS_CardinalityType
<1>2. Len(manager.list) \in Nat /\ Len(manager.list) <= Cardinality(Slots)
  BY <1>0, ListBounded, ManagerShape DEF Book, Tables
<1>3. manager.index \in [Slots -> Nat]
  BY <1>0, ManagerShape DEF Book, Tables
<1>4. \A s \in Slots : manager.index[s] \in 0 .. Cardinality(Slots)
  BY <1>0, <1>1, <1>2, <1>3 DEF Book, Exact, ABSENT
<1>5. manager.index \in [Slots -> 0 .. Cardinality(Slots)]
  BY <1>3, <1>4
<1>6. manager \in [index : [Slots -> 0 .. Cardinality(Slots)], list : Seq(Entries)]
  BY <1>0, <1>5 DEF Book, Tables, Managers
<1> QED BY <1>0, <1>6 DEF Book, Tables, LoopTypes, Methods, TypeOK, Schedules

\* Nothing is listed and nothing thinks when the game starts.
LEMMA InitEstablishes == Init => IInv
<1> SUFFICES ASSUME Init PROVE IInv
  OBVIOUS
<1>1. Tables
  <2>1. nextThink \in [Slots -> Schedules]
    BY BoundAssumption DEF Init, Schedules, Ticks, NEVER
  <2>2. manager \in Managers
    BY DEF Init, Managers, ABSENT
  <2> QED BY <2>1, <2>2 DEF Init, Tables
<1>2. \A s \in Slots : ~Thinks(s)
  BY ThinksByContext DEF Init, Thinks
<1>3. Exact(manager) /\ FlagExact /\ Faithful
  BY <1>2 DEF Init, Exact, FlagExact, Faithful
<1>4. LoopTypes
  <2>1. 0 \in 0 .. NumContexts /\ 1 \in 1 .. MaxTick
    BY BoundAssumption, ContextsAssumption
  <2>2. inLoop \in BOOLEAN /\ thinking \in BOOLEAN
    BY Zenon DEF Init
  <2>3. /\ list \in Seq(Slots) /\ chain \in Seq(Slots) /\ method \in Methods
        /\ simulated \subseteq Slots /\ owed \subseteq Slots \X Contexts
    BY DEF Init, Methods
  <2>4. tickcount \in 1 .. MaxTick /\ context \in 0 .. NumContexts
    BY <2>1 DEF Init
  <2> QED BY <2>2, <2>3, <2>4 DEF LoopTypes
<1>5. LoopShape /\ Owing
  BY ContextsAssumption DEF Init, LoopShape, Owing, ContextsEnd
<1> QED BY <1>1, <1>3, <1>4, <1>5 DEF IInv, Book, Loop

-----------------------------------------------------------------------------
(* A change of one entity keeps the books.                                 *)

\* Everything but s is as it was, and the entry of s is right.
LEMMA BookKept ==
  ASSUME Book, Tables', NEW s \in Slots,
         Exact(manager)', Keeps(manager, manager', s),
         \A t \in Slots \ {s} : /\ status'[t] = status[t]
                                /\ nextThink'[t] = nextThink[t]
                                /\ t \in noThink' <=> t \in noThink
                                /\ t \in noSim' <=> t \in noSim,
         s \in noThink' <=> ~Thinks(s)',
         manager'.index[s] # ABSENT <=>
           status'[s] = "live" /\ (Thinks(s)' \/ s \notin noSim'),
         manager'.index[s] # ABSENT => EntryOf(manager', s).nextThinkTick =
           IF s \in noSim' THEN GetFirstThinkTick(nextThink'[s]) ELSE 0
  PROVE  Book'
<1>1. FlagExact'
  BY DEF Book, FlagExact, Thinks
<1>2. ASSUME NEW t \in Slots
      PROVE /\ manager'.index[t] # ABSENT <=>
                 status'[t] = "live" /\ (Thinks(t)' \/ t \notin noSim')
            /\ manager'.index[t] # ABSENT => EntryOf(manager', t).nextThinkTick =
                 IF t \in noSim' THEN GetFirstThinkTick(nextThink'[t]) ELSE 0
  <2>1. CASE t = s
    BY <2>1
  <2>2. CASE t # s
    BY <2>2 DEF Book, Faithful, Keeps, Thinks
  <2> QED BY <2>1, <2>2
<1>3. Faithful'
  BY <1>2 DEF Faithful, EntryOf
<1> QED BY <1>1, <1>3 DEF Book

\* Reschedule keeps the books when the hint tells of a context to come.
LEMMA RescheduleKeepsBook ==
  ASSUME Book, NEW s \in Slots, NEW next \in Schedules, NEW isThinking \in BOOLEAN,
         Reschedule(s, next, isThinking), isThinking => WillThink(next),
         WillThink(next) => isThinking \/ Thinks(s),
         status[s] # "none", UNCHANGED <<status, noSim>>, Tables'
  PROVE  Book'
<1>1. nextThink' = [nextThink EXCEPT ![s] = next] /\ nextThink'[s] = next
  BY DEF Reschedule, Book, Tables
<1>2. /\ s \in noThink' <=> ~WillThink(next)
      /\ \A t \in Slots \ {s} : t \in noThink' <=> t \in noThink
  BY DEF Reschedule, CheckedFlags, Book, FlagExact
<1>3. manager' = EntityChanged(manager, s, next, s \in noThink', s \in noSim)
  BY DEF Reschedule
<1>4. manager \in Managers /\ Exact(manager)
  BY DEF Book, Tables
<1>5. CASE IgnoresChange(s)
  <2>1. manager' = manager /\ status[s] = "marked"
    BY <1>3, <1>5 DEF EntityChanged, IgnoresChange
  <2>2. manager.index[s] = ABSENT
    BY <2>1 DEF Book, Faithful
  <2>3. Exact(manager)' /\ Keeps(manager, manager', s)
    BY <1>4, <2>1 DEF Exact, Keeps
  <2>4. \A t \in Slots \ {s} : nextThink'[t] = nextThink[t]
    BY DEF Reschedule, Book, Tables
  <2>5. Thinks(s)' <=> WillThink(next)
    BY <1>1 DEF Thinks
  <2>6. manager'.index[s] = ABSENT /\ status'[s] # "live"
    BY <2>1, <2>2
  <2> QED BY <1>2, <2>3, <2>4, <2>5, <2>6, BookKept
<1>6. CASE ~IgnoresChange(s)
  <2> DEFINE a == s \in noThink'
             b == s \in noSim
  <2>1. a \in BOOLEAN /\ b \in BOOLEAN
    OBVIOUS
  <2>2. status[s] = "live"
    BY <1>6 DEF IgnoresChange, Book, Tables
  <2>3. manager' = EntityChanged(manager, s, next, a, b)
    BY <1>3, Zenon
  <2>4. a <=> ~WillThink(next)
    BY <1>2
  <2> HIDE DEF a, b
  <2>5. /\ Exact(manager') /\ Keeps(manager, manager', s)
        /\ manager'.index[s] = ABSENT <=> a /\ b
        /\ manager'.index[s] # ABSENT => EntryOf(manager', s).nextThinkTick =
             IF b THEN GetFirstThinkTick(next) ELSE 0
    <3>1. Becomes(manager, manager', s, ~(a /\ b),
                  IF b THEN GetFirstThinkTick(next) ELSE 0)
      BY <1>4, <1>6, <2>1, <2>3, ChangeExact, Zenon
    <3> QED BY <3>1 DEF Becomes
  <2>6. Exact(manager)'
    BY <2>5 DEF Exact
  <2>7. \A t \in Slots \ {s} : nextThink'[t] = nextThink[t]
    BY DEF Reschedule, Book, Tables
  <2>8. Thinks(s)' <=> WillThink(next)
    BY <1>1 DEF Thinks
  <2>9. (a <=> ~Thinks(s)') /\ (b <=> s \in noSim')
    BY <2>4, <2>8 DEF b
  <2>10. /\ manager'.index[s] # ABSENT <=>
              status'[s] = "live" /\ (Thinks(s)' \/ s \notin noSim')
         /\ manager'.index[s] # ABSENT => EntryOf(manager', s).nextThinkTick =
              IF s \in noSim' THEN GetFirstThinkTick(nextThink'[s]) ELSE 0
    BY <1>1, <2>2, <2>5, <2>9
  <2> QED BY <1>2, <2>5, <2>6, <2>7, <2>8, <2>10, BookKept
<1> QED BY <1>5, <1>6

\* Reschedule leaves the manager and the schedules well-typed.
LEMMA RescheduleTypes ==
  ASSUME Book, NEW s \in Slots, NEW next \in Schedules, NEW isThinking \in BOOLEAN,
         Reschedule(s, next, isThinking)
  PROVE  /\ manager' \in Managers /\ noThink' \subseteq Slots
         /\ nextThink' \in [Slots -> Schedules]
<1>1. noThink' \subseteq Slots /\ nextThink' \in [Slots -> Schedules]
  BY DEF Reschedule, CheckedFlags, Book, Tables
<1>2. manager' \in Managers
  <2> DEFINE a == s \in noThink'
             b == s \in noSim
  <2>1. a \in BOOLEAN /\ b \in BOOLEAN
    OBVIOUS
  <2>2. manager' = EntityChanged(manager, s, next, a, b)
    BY Zenon DEF Reschedule
  <2>3. manager \in Managers /\ Exact(manager)
    BY DEF Book, Tables
  <2> HIDE DEF a, b
  <2>4. CASE IgnoresChange(s)
    BY <2>2, <2>3, <2>4 DEF EntityChanged
  <2>5. CASE ~IgnoresChange(s)
    <3>1. Becomes(manager, manager', s, ~(a /\ b),
                  IF b THEN GetFirstThinkTick(next) ELSE 0)
      BY <2>1, <2>2, <2>3, <2>5, ChangeExact, Zenon
    <3> QED BY <3>1 DEF Becomes
  <2> QED BY <2>4, <2>5
<1> QED BY <1>1, <1>2

\* CheckSimulation keeps the books.
LEMMA CheckSimulationKeepsBook ==
  ASSUME Book, NEW s \in Slots, NEW isSimulating \in BOOLEAN,
         CheckSimulation(s, isSimulating), status[s] # "none",
         UNCHANGED <<status, nextThink, noThink>>
  PROVE  Book'
<1> DEFINE a == s \in noThink
           b == s \in noSim'
           next == nextThink[s]
<1>1. /\ noSim' \subseteq Slots
      /\ \A t \in Slots \ {s} : t \in noSim' <=> t \in noSim
      /\ a \in BOOLEAN /\ b \in BOOLEAN /\ next \in Schedules
  BY DEF CheckSimulation, Book, Tables
<1>2. CASE noSim' = noSim
  <2>1. manager' = manager
    BY <1>2 DEF CheckSimulation
  <2> QED BY <1>2, <2>1 DEF Book, Tables, Exact, FlagExact, Faithful, Thinks, EntryOf
<1>3. CASE noSim' # noSim
  <2>1. manager' = EntityChanged(manager, s, next, a, b)
    BY <1>3, Zenon DEF CheckSimulation
  <2>2. s \in noThink' <=> ~Thinks(s)'
    BY DEF Book, FlagExact, Thinks
  <2>3. a <=> ~Thinks(s)'
    BY <2>2
  <2>4. b <=> s \in noSim'
    OBVIOUS
  <2>5. next = nextThink'[s]
    OBVIOUS
  <2>6. manager \in Managers /\ Exact(manager)
    BY DEF Book, Tables
  <2> HIDE DEF a, b, next
  <2>7. CASE IgnoresChange(s)
    <3>1. manager' = manager /\ status[s] = "marked" /\ manager.index[s] = ABSENT
      BY <2>1, <2>7 DEF EntityChanged, IgnoresChange, Book, Faithful
    <3>2. Exact(manager)' /\ Keeps(manager, manager', s)
      BY <2>6, <3>1 DEF Exact, Keeps
    <3>3. Tables'
      BY <1>1, <3>1 DEF Book, Tables
    <3> QED BY <1>1, <2>2, <3>1, <3>2, <3>3, BookKept
  <2>8. CASE ~IgnoresChange(s)
    <3>1. Becomes(manager, manager', s, ~(a /\ b),
                  IF b THEN GetFirstThinkTick(next) ELSE 0)
      BY <1>1, <2>1, <2>6, <2>8, ChangeExact, Zenon
    <3>2. status[s] = "live"
      BY <2>8 DEF IgnoresChange, Book, Tables
    <3>3. /\ manager' \in Managers
          /\ Exact(manager') /\ Keeps(manager, manager', s)
          /\ manager'.index[s] # ABSENT <=> ~(a /\ b)
          /\ manager'.index[s] # ABSENT => EntryOf(manager', s).nextThinkTick =
               IF b THEN GetFirstThinkTick(next) ELSE 0
      BY <3>1 DEF Becomes
    <3>4. Exact(manager)'
      BY <3>3 DEF Exact
    <3>5. Tables'
      BY <1>1, <3>3 DEF Book, Tables
    <3>6. /\ manager'.index[s] # ABSENT <=>
               status'[s] = "live" /\ (Thinks(s)' \/ s \notin noSim')
          /\ manager'.index[s] # ABSENT => EntryOf(manager', s).nextThinkTick =
               IF s \in noSim' THEN GetFirstThinkTick(nextThink'[s]) ELSE 0
      BY <2>3, <2>4, <2>5, <3>2, <3>3
    <3> QED BY <1>1, <2>2, <3>3, <3>4, <3>5, <3>6, BookKept
  <2> QED BY <2>7, <2>8
<1> QED BY <1>2, <1>3

\* What game code does to entities leaves the loop sound when it takes back what
\* it makes undue.
LEMMA LoopKept ==
  ASSUME Loop, UNCHANGED <<inLoop, list, turn, tickcount>>, owed' \subseteq owed,
         simulated' \subseteq Slots, ~inLoop => simulated' = {},
         \A s \in Slots : status[s] # "none" => status'[s] # "none",
         \A o \in owed' : status[o[1]] = "live" =>
           /\ status'[o[1]] = "live"
           /\ nextThink'[o[1]][o[2]] = nextThink[o[1]][o[2]]
           /\ o[1] \in simulated' => o[1] \in simulated
  PROVE  Loop'
<1>0. LoopTypes /\ LoopShape /\ Owing
  BY DEF Loop
<1>1. UNCHANGED <<chain, method, context, thinking, inLoop, list, tickcount>>
  BY DEF turn
<1>2. LoopTypes'
  BY <1>0, <1>1 DEF LoopTypes
<1>3. LoopShape'
  BY <1>0, <1>1 DEF LoopShape, ContextsEnd, LoopTypes
<1>4. ASSUME inLoop, NEW o \in owed'
      PROVE  status'[o[1]] = "live" /\ Due(o[1], o[2])' /\ Ahead(o)'
  <2>1. o \in owed /\ status[o[1]] = "live" /\ Due(o[1], o[2]) /\ Ahead(o)
    BY <1>0, <1>4 DEF Owing
  <2>2. Ahead(o)'
    BY <1>1, <2>1 DEF Ahead, Coming
  <2> QED BY <1>1, <2>1, <2>2 DEF Due
<1>5. Owing'
  BY <1>1, <1>4 DEF Owing
<1> QED BY <1>2, <1>3, <1>5 DEF Loop

\* A sequence without its element at i, not the first.
LEMMA TakenOut ==
  ASSUME NEW q \in Seq(Slots), NEW i \in 2 .. Len(q), NEW r,
         r = [k \in 1 .. Len(q) - 1 |-> IF k < i THEN q[k] ELSE q[k + 1]]
  PROVE  /\ r \in Seq(Slots) /\ Len(r) = Len(q) - 1 /\ Len(q) >= 2
         /\ \A k \in 1 .. Len(q) - 1 : r[k] = IF k < i THEN q[k] ELSE q[k + 1]
<1>1. PICK n \in Nat : n = Len(q) - 1 /\ n >= 1
  <2>1. Len(q) \in Nat /\ Len(q) >= 2
    OBVIOUS
  <2>2. Len(q) - 1 \in Nat /\ Len(q) - 1 >= 1
    BY <2>1
  <2> QED BY <2>2, Zenon
<1>2. \A k \in 1 .. n : q[k] \in Slots /\ q[k + 1] \in Slots
  <2>1. \A k \in 1 .. n : k \in 1 .. Len(q) /\ k + 1 \in 1 .. Len(q)
    BY <1>1
  <2> QED BY <2>1
<1>3. r = [k \in 1 .. n |-> IF k < i THEN q[k] ELSE q[k + 1]]
  BY <1>1
<1>4. \A k \in 1 .. n : (IF k < i THEN q[k] ELSE q[k + 1]) \in Slots
  BY <1>2
<1>5. r \in [1 .. n -> Slots]
  BY <1>3, <1>4
<1>6. r \in Seq(Slots) /\ Len(r) = n
  BY <1>1, <1>5
<1>7. \A k \in 1 .. Len(q) - 1 : r[k] = IF k < i THEN q[k] ELSE q[k + 1]
  BY <1>1, <1>3
<1> QED BY <1>1, <1>6, <1>7

\* SetMoveTypeVPhysics takes the entity out of the chain.
LEMMA SetMoveTypeVPhysicsKeeps ==
  ASSUME IInv, NEW i \in 2 .. Len(chain), SetMoveTypeVPhysics(i)
  PROVE  IInv'
<1> DEFINE s == chain[i]
<1>0. /\ Book /\ LoopTypes /\ LoopShape /\ Owing
      /\ chain \in Seq(Slots) /\ Len(chain) \in Nat
  BY DEF IInv, Loop, LoopTypes
<1>1. /\ CheckSimulation(s, FALSE)
      /\ chain' = [k \in 1 .. Len(chain) - 1 |-> IF k < i THEN chain[k] ELSE chain[k + 1]]
      /\ owed' = {o \in owed : o[1] # s}
      /\ UNCHANGED <<status, nextThink, noThink, tickcount, inLoop, list, simulated,
                     method, context, thinking>>
  BY DEF SetMoveTypeVPhysics
<1>2. s \in Slots /\ status[s] # "none"
  BY <1>0 DEF LoopShape
<1>3. /\ chain' \in Seq(Slots) /\ Len(chain') = Len(chain) - 1
      /\ \A k \in 1 .. Len(chain) - 1 :
           chain'[k] = IF k < i THEN chain[k] ELSE chain[k + 1]
      /\ chain # << >> /\ chain' # << >>
  <2> DEFINE r == chain'
  <2>1. r = [k \in 1 .. Len(chain) - 1 |-> IF k < i THEN chain[k] ELSE chain[k + 1]]
    BY <1>1
  <2> HIDE DEF r
  <2>2. /\ r \in Seq(Slots) /\ Len(r) = Len(chain) - 1 /\ Len(chain) >= 2
        /\ \A k \in 1 .. Len(chain) - 1 : r[k] = IF k < i THEN chain[k] ELSE chain[k + 1]
    BY <1>0, <2>1, TakenOut, Zenon
  <2>3. Len(r) # 0
    BY <1>0, <2>2
  <2> QED BY <1>0, <2>2, <2>3 DEF r
<1> HIDE DEF s
<1>4. Book'
  BY <1>0, <1>1, <1>2, CheckSimulationKeepsBook, Zenon
<1>5. LoopTypes'
  BY <1>0, <1>1, <1>3 DEF LoopTypes
<1>6. LoopShape'
  <2>1. \A k \in 1 .. Len(chain') : status'[chain'[k]] # "none"
    BY <1>0, <1>1, <1>3 DEF LoopShape
  <2> QED BY <1>0, <1>1, <1>3, <2>1 DEF LoopShape, ContextsEnd
<1>7. ASSUME inLoop, NEW o \in owed'
      PROVE  status'[o[1]] = "live" /\ Due(o[1], o[2])' /\ Ahead(o)'
  <2>1. /\ o \in owed /\ o[1] # s /\ status[o[1]] = "live" /\ Due(o[1], o[2])
        /\ Ahead(o)
    BY <1>0, <1>1, <1>7 DEF Owing
  <2>2. ASSUME NEW k \in 1 .. Len(chain), chain[k] = o[1], k = 1 => Coming(o[2])
        PROVE  \E l \in 1 .. Len(chain') : chain'[l] = o[1] /\ (l = 1 => Coming(o[2])')
    <3>1. Coming(o[2])' <=> Coming(o[2])
      BY <1>1 DEF Coming
    <3>2. k # i
      BY <2>1, <2>2 DEF s
    <3>3. CASE k < i
      <4>1. k \in 1 .. Len(chain') /\ chain'[k] = o[1]
        BY <1>0, <1>3, <2>2, <3>3
      <4> QED BY <2>2, <3>1, <4>1
    <3>4. CASE k > i
      <4>1. k - 1 \in 1 .. Len(chain') /\ chain'[k - 1] = o[1] /\ k - 1 # 1
        BY <1>0, <1>3, <2>2, <3>4
      <4> QED BY <4>1
    <3> QED BY <1>0, <3>2, <3>3, <3>4
  <2>3. Ahead(o)'
    BY <1>1, <2>1, <2>2 DEF Ahead
  <2> QED BY <1>1, <2>1, <2>3 DEF Due
<1>8. Owing'
  BY <1>1, <1>7 DEF Owing
<1> QED BY <1>4, <1>5, <1>6, <1>8 DEF IInv, Loop

\* What game code does keeps the invariant.
LEMMA GameStepKeeps == IInv /\ GameStep => IInv'
<1> SUFFICES ASSUME IInv, GameStep PROVE IInv'
  OBVIOUS
<1>0. /\ Book /\ Loop /\ Tables /\ LoopTypes /\ LoopShape /\ Owing
      /\ manager \in Managers /\ Exact(manager)
  BY DEF IInv, Book, Tables, Loop
<1>1. ASSUME NEW s \in Slots, PostConstructor(s)
      PROVE  IInv'
  <2>1. /\ status[s] = "none" /\ status'[s] = "live"
        /\ \A t \in Slots \ {s} : status'[t] = status[t] /\ nextThink'[t] = nextThink[t]
        /\ nextThink'[s] = [c \in Contexts |-> 0]
        /\ UNCHANGED <<manager, owed>>
        /\ s \in noThink' /\ s \in noSim'
        /\ \A t \in Slots \ {s} : /\ t \in noThink' <=> t \in noThink
                                  /\ t \in noSim' <=> t \in noSim
    BY <1>0, <1>1 DEF PostConstructor, Tables
  <2>2. manager'.index[s] = ABSENT
    BY <1>0, <2>1 DEF Book, Faithful
  <2>3. ~Thinks(s)'
    BY <2>1, ThinksByContext DEF Thinks
  <2>4. Tables'
    <3>1. [c \in Contexts |-> 0] \in Schedules
      BY BoundAssumption DEF Schedules, Ticks, NEVER
    <3> QED BY <1>0, <1>1, <2>1, <3>1 DEF PostConstructor, Tables
  <2>5. Exact(manager)' /\ Keeps(manager, manager', s)
    BY <1>0, <2>1 DEF Exact, Keeps
  <2>6. Book'
    BY <1>0, <2>1, <2>2, <2>3, <2>4, <2>5, BookKept
  <2>7. Loop'
    <3>1. \A o \in owed' : status[o[1]] = "live" => o[1] \in Slots \ {s}
      BY <1>0, <2>1 DEF LoopTypes
    <3>2. /\ UNCHANGED <<inLoop, list, turn, tickcount>>
          /\ simulated' = simulated \ {s}
      BY <1>1 DEF PostConstructor
    <3>3. simulated' \subseteq Slots /\ (~inLoop => simulated' = {})
      BY <1>0, <3>2 DEF LoopTypes, LoopShape
    <3>4. \A t \in Slots : status[t] # "none" => status'[t] # "none"
      BY <2>1
    <3>5. \A o \in owed' : status[o[1]] = "live" =>
            /\ status'[o[1]] = "live"
            /\ nextThink'[o[1]][o[2]] = nextThink[o[1]][o[2]]
            /\ o[1] \in simulated' => o[1] \in simulated
      BY <2>1, <3>1, <3>2
    <3> QED BY <1>0, <2>1, <3>2, <3>3, <3>4, <3>5, LoopKept
  <2> QED BY <2>6, <2>7 DEF IInv
<1>2. ASSUME NEW s \in Slots, NEW c \in Contexts, NEW tick \in Ticks \ {0},
             SetNextThink(s, c, tick)
      PROVE  IInv'
  <2> DEFINE next == [nextThink[s] EXCEPT ![c] = tick]
             hint == tick # NEVER
  <2>1. /\ next \in Schedules /\ nextThink[s] \in Schedules
        /\ next[c] = tick
        /\ \A d \in Contexts \ {c} : next[d] = nextThink[s][d]
    BY <1>0 DEF Tables, Schedules
  <2>2. hint \in BOOLEAN /\ (hint <=> tick > 0)
    BY BoundAssumption DEF Ticks, NEVER
  <2>3. hint => WillThink(next)
    BY <2>1, <2>2, ThinksByContext
  <2>4. WillThink(next) => hint \/ Thinks(s)
    <3>1. SUFFICES ASSUME NEW d \in Contexts, next[d] > 0, ~hint PROVE Thinks(s)
      BY ThinksByContext
    <3>2. d # c /\ nextThink[s][d] > 0
      BY <2>1, <2>2, <3>1
    <3> QED BY <3>2, ThinksByContext DEF Thinks
  <2>5. /\ Reschedule(s, next, hint) /\ UNCHANGED <<status, noSim>>
        /\ UNCHANGED <<loop, tickcount>> /\ owed' = owed \ {<<s, c>>}
        /\ status[s] # "none"
    BY <1>2 DEF SetNextThink
  <2> HIDE DEF next, hint
  <2>6. Tables'
    <3>1. /\ manager' \in Managers /\ noThink' \subseteq Slots
          /\ nextThink' \in [Slots -> Schedules]
      BY <1>0, <2>1, <2>2, <2>5, RescheduleTypes, Zenon
    <3> QED BY <1>0, <2>5, <3>1 DEF Tables
  <2>7. Book'
    BY <1>0, <2>1, <2>2, <2>3, <2>4, <2>5, <2>6, RescheduleKeepsBook, Zenon
  <2>8. Loop'
    <3>1. ASSUME NEW o \in owed'
          PROVE  nextThink'[o[1]][o[2]] = nextThink[o[1]][o[2]]
      <4>1. nextThink' = [nextThink EXCEPT ![s] = next]
        BY <2>5 DEF Reschedule
      <4>2. o \in Slots \X Contexts /\ o # <<s, c>>
        BY <1>0, <2>5 DEF LoopTypes
      <4>3. CASE o[1] = s
        BY <1>0, <2>1, <4>1, <4>2, <4>3 DEF Tables
      <4>4. CASE o[1] # s
        BY <1>0, <4>1, <4>2, <4>4 DEF Tables
      <4> QED BY <4>3, <4>4
    <3>2. UNCHANGED <<inLoop, list, turn, tickcount, simulated, status>>
      BY <2>5 DEF loop
    <3>3. simulated' \subseteq Slots /\ (~inLoop => simulated' = {})
      BY <1>0, <3>2 DEF LoopTypes, LoopShape
    <3> QED BY <1>0, <2>5, <3>1, <3>2, <3>3, LoopKept
  <2> QED BY <2>7, <2>8 DEF IInv
<1>3. ASSUME NEW s \in Slots, NEW isSimulating \in BOOLEAN, SetMoveType(s, isSimulating)
      PROVE  IInv'
  <2>1. /\ CheckSimulation(s, isSimulating) /\ status[s] # "none"
        /\ UNCHANGED <<status, nextThink, noThink, tickcount, loop, owed>>
    BY <1>3 DEF SetMoveType
  <2>2. Book'
    BY <1>0, <2>1, CheckSimulationKeepsBook
  <2>3. Loop'
    <3>1. /\ UNCHANGED <<inLoop, list, turn, simulated>> /\ simulated' \subseteq Slots
          /\ ~inLoop => simulated' = {}
      BY <1>0, <2>1 DEF loop, LoopTypes, LoopShape
    <3> QED BY <1>0, <2>1, <3>1, LoopKept
  <2> QED BY <2>2, <2>3 DEF IInv
<1>4. ASSUME NEW s \in Slots, SkipThisFrame(s)
      PROVE  IInv'
  <2>1. /\ simulated' = simulated \cup {s} /\ owed' = {o \in owed : o[1] # s}
        /\ UNCHANGED <<status, nextThink, noThink, noSim, manager, tickcount,
                       inLoop, list, turn>>
    BY <1>4 DEF SkipThisFrame, entities
  <2>2. Book'
    BY <1>0, <2>1 DEF Book, Tables, Exact, FlagExact, Faithful, Thinks, EntryOf
  <2>3. Loop'
    <3>1. simulated' \subseteq Slots /\ inLoop
      BY <1>0, <1>4, <2>1 DEF LoopTypes, SkipThisFrame
    <3> QED BY <1>0, <2>1, <3>1, LoopKept
  <2> QED BY <2>2, <2>3 DEF IInv
<1>5. ASSUME NEW s \in Slots, UTIL_Remove(s)
      PROVE  IInv'
  <2>1. /\ status'[s] = "marked"
        /\ status' \in [Slots -> {"none", "live", "marked"}]
        /\ \A t \in Slots \ {s} : status'[t] = status[t]
        /\ manager' = RemoveEntinfoIndex(manager, s)
        /\ owed' = {o \in owed : o[1] # s}
        /\ UNCHANGED <<nextThink, noThink, noSim, tickcount, loop>>
    BY <1>0, <1>5 DEF UTIL_Remove, Tables
  <2>2. /\ manager' \in Managers /\ Exact(manager')
        /\ Keeps(manager, manager', s) /\ manager'.index[s] = ABSENT
    BY <1>0, <2>1, RemoveExact
  <2>3. Exact(manager)'
    BY <2>2 DEF Exact
  <2>4. Tables'
    BY <1>0, <2>1, <2>2 DEF Tables
  <2>5. s \in noThink' <=> ~Thinks(s)'
    BY <1>0, <2>1 DEF Book, FlagExact, Thinks
  <2>6. Book'
    BY <1>0, <2>1, <2>2, <2>3, <2>4, <2>5, BookKept
  <2>7. Loop'
    <3>1. \A o \in owed' : o[1] \in Slots \ {s}
      BY <1>0, <2>1 DEF LoopTypes
    <3>2. /\ UNCHANGED <<inLoop, list, turn, simulated>> /\ simulated' \subseteq Slots
          /\ ~inLoop => simulated' = {}
      BY <1>0, <2>1 DEF loop, LoopTypes, LoopShape
    <3>3. \A t \in Slots : status[t] # "none" => status'[t] # "none"
      BY <2>1
    <3> QED BY <1>0, <2>1, <3>1, <3>2, <3>3, LoopKept
  <2> QED BY <2>6, <2>7 DEF IInv
<1>6. ASSUME NEW s \in Slots, Free(s)
      PROVE  IInv'
  <2>1. /\ status[s] = "marked" /\ status'[s] = "none" /\ ~inLoop
        /\ status' \in [Slots -> {"none", "live", "marked"}]
        /\ \A t \in Slots \ {s} : status'[t] = status[t]
        /\ UNCHANGED <<nextThink, noThink, noSim, manager, tickcount, loop, owed>>
    BY <1>0, <1>6 DEF Free, Tables
  <2>2. manager'.index[s] = ABSENT
    BY <1>0, <2>1 DEF Book, Faithful
  <2>3. Exact(manager)' /\ Keeps(manager, manager', s)
    BY <1>0, <2>1 DEF Exact, Keeps
  <2>4. Tables'
    BY <1>0, <2>1 DEF Tables
  <2>5. s \in noThink' <=> ~Thinks(s)'
    BY <1>0, <2>1 DEF Book, FlagExact, Thinks
  <2>6. Book'
    BY <1>0, <2>1, <2>2, <2>3, <2>4, <2>5, BookKept
  <2>7. UNCHANGED <<inLoop, list, simulated, chain, method, context, thinking, owed, tickcount>>
    BY <2>1 DEF loop, turn
  <2>8. LoopTypes' /\ Owing'
    BY <1>0, <2>1, <2>7 DEF LoopTypes, Owing
  <2>9. LoopShape'
    BY <1>0, <2>1, <2>7 DEF Loop, LoopShape, ContextsEnd
  <2> QED BY <2>6, <2>8, <2>9 DEF IInv, Loop
<1> QED BY <1>1, <1>2, <1>3, <1>4, <1>5, <1>6, SetMoveTypeVPhysicsKeeps DEF GameStep

-----------------------------------------------------------------------------
(* The think loop.                                                         *)

\* The manager's books do not depend on the state of the loop.
LEMMA BookUnchanged == Book /\ UNCHANGED <<entities, manager>> => Book'
<1> SUFFICES ASSUME Book, UNCHANGED <<entities, manager>> PROVE Book'
  OBVIOUS
<1>1. UNCHANGED <<status, nextThink, noThink, noSim, manager>>
  BY DEF entities
<1> QED BY <1>1 DEF Book, Tables, Exact, FlagExact, Faithful, Thinks, EntryOf

\* The head and the tail of a list.
LEMMA HeadTail ==
  ASSUME NEW q \in Seq(Slots), q # << >>
  PROVE  /\ Len(q) \in Nat \ {0} /\ Head(q) = q[1] /\ Head(q) \in Slots
         /\ Tail(q) \in Seq(Slots) /\ Len(Tail(q)) = Len(q) - 1
         /\ \A i \in 1 .. Len(q) - 1 : Tail(q)[i] = q[i + 1]
OBVIOUS

\* The loop owes the same while the chain and the pass move on, as long as each
\* entity and context that it owed stays ahead.
LEMMA MovesOn ==
  ASSUME IInv, inLoop, LoopTypes', LoopShape',
         UNCHANGED <<entities, manager, tickcount, inLoop, owed>>,
         \A o \in owed : status[o[1]] = "live" /\ Due(o[1], o[2]) /\ Ahead(o) => Ahead(o)'
  PROVE  IInv'
<1>1. Book'
  BY BookUnchanged DEF IInv
<1>2. UNCHANGED <<status, nextThink>>
  BY DEF entities
<1>3. Owing'
  BY <1>2 DEF IInv, Loop, Owing, Due
<1> QED BY <1>1, <1>3 DEF IInv, Loop

\* A pass of PhysicsRunThink may end when nothing is owed for it, except the
\* base context after the pass of all others.
LEMMA PassEndsKeeps ==
  ASSUME IInv, chain # << >>, NEW m \in Methods, PassEnds(m), ~thinking',
         thinking' \in BOOLEAN,
         UNCHANGED <<entities, manager, tickcount, inLoop, list, simulated, owed>>,
         \A o \in owed : /\ o[1] = Head(chain) /\ Coming(o[2])
                         /\ status[o[1]] = "live" /\ Due(o[1], o[2])
                         => m = "all_but_base" /\ o[2] = 0
  PROVE  IInv'
<1>0. /\ LoopTypes /\ LoopShape /\ inLoop
      /\ UNCHANGED <<status, nextThink>>
  BY DEF IInv, Loop, LoopShape, entities
<1>1. /\ Len(chain) \in Nat \ {0} /\ Head(chain) = chain[1]
      /\ Tail(chain) \in Seq(Slots) /\ Len(Tail(chain)) = Len(chain) - 1
      /\ \A i \in 1 .. Len(chain) - 1 : Tail(chain)[i] = chain[i + 1]
  BY <1>0, HeadTail DEF LoopTypes
<1>2. context' = 0 /\ method' \in {"none", "between"} /\ 0 \in 0 .. NumContexts
  BY ContextsAssumption DEF PassEnds, Done
<1>3. /\ chain' \in Seq(Slots) /\ Len(chain') \in Nat
      /\ \A k \in 1 .. Len(chain') : status[chain'[k]] # "none"
      /\ chain' = << >> => method' = "none"
  <2>0. \A k \in 1 .. Len(chain) : status[chain[k]] # "none"
    BY <1>0 DEF LoopShape
  <2>1. CASE BaseFollows(m)
    <3>1. chain' = chain
      BY <2>1 DEF PassEnds
    <3> QED BY <1>0, <2>0, <3>1 DEF LoopTypes
  <2>2. CASE ~BaseFollows(m)
    <3>1. chain' = Tail(chain) /\ method' = "none"
      BY <2>2 DEF PassEnds, Done
    <3>2. \A k \in 1 .. Len(chain) - 1 : k + 1 \in 1 .. Len(chain)
      BY <1>1
    <3> QED BY <1>1, <2>0, <3>1, <3>2
  <2> QED BY <2>1, <2>2
<1>4. LoopTypes'
  <2>1. inLoop' \in BOOLEAN
    BY <1>0, Zenon DEF LoopTypes
  <2> QED BY <1>0, <1>2, <1>3, <2>1 DEF LoopTypes, Methods
<1>5. LoopShape'
  BY <1>0, <1>2, <1>3 DEF LoopShape, ContextsEnd
<1>6. ASSUME NEW o \in owed, status[o[1]] = "live", Due(o[1], o[2]), Ahead(o)
      PROVE  Ahead(o)'
  <2>1. CASE \E i \in 1 .. Len(chain) : chain[i] = o[1] /\ (i = 1 => Coming(o[2]))
    <3>1. PICK i \in 1 .. Len(chain) : chain[i] = o[1] /\ (i = 1 => Coming(o[2]))
      BY <2>1
    <3>2. CASE i = 1
      <4>1. m = "all_but_base" /\ o[2] = 0 /\ o[1] = Head(chain)
        BY <1>1, <1>6, <3>1, <3>2
      <4>2. BaseFollows(m)
        BY <1>6, <4>1 DEF BaseFollows
      <4>3. chain' = chain /\ method' = "between"
        BY <4>2 DEF PassEnds
      <4>4. Coming(o[2])'
        BY <4>1, <4>3 DEF Coming
      <4> QED BY <3>1, <4>3, <4>4 DEF Ahead
    <3>3. CASE i # 1 /\ BaseFollows(m)
      BY <3>1, <3>3 DEF PassEnds, Ahead
    <3>4. CASE i # 1 /\ ~BaseFollows(m)
      <4>1. chain' = Tail(chain) /\ method' = "none"
        BY <3>4 DEF PassEnds, Done
      <4>2. i - 1 \in 1 .. Len(chain') /\ chain'[i - 1] = o[1]
        BY <1>1, <3>1, <3>4, <4>1
      <4> QED BY <4>1, <4>2 DEF Ahead, Coming
    <3> QED BY <3>2, <3>3, <3>4
  <2>2. CASE o[1] \notin simulated /\ \E i \in 1 .. Len(list) : list[i] = o[1]
    BY <2>2 DEF Ahead
  <2> QED BY <1>6, <2>1, <2>2 DEF Ahead
<1> QED BY <1>0, <1>4, <1>5, <1>6, MovesOn

\* The pass of the head goes on, and will still come to whatever it would.
LEMMA PassGoesOn ==
  ASSUME IInv, chain # << >>, LoopTypes', context' <= ContextsEnd',
         method' \notin {"none", "between"}, ~thinking',
         UNCHANGED <<entities, manager, tickcount, inLoop, list, simulated, chain, owed>>,
         \A o \in owed : /\ o[1] = Head(chain) /\ Coming(o[2])
                         /\ status[o[1]] = "live" /\ Due(o[1], o[2])
                         => Coming(o[2])'
  PROVE  IInv'
<1>0. /\ LoopTypes /\ LoopShape /\ inLoop
      /\ UNCHANGED <<status, nextThink>>
  BY DEF IInv, Loop, LoopShape, entities
<1>1. Head(chain) = chain[1]
  BY <1>0, HeadTail DEF LoopTypes
<1>2. LoopShape'
  BY <1>0 DEF LoopShape, LoopTypes
<1>3. ASSUME NEW o \in owed, status[o[1]] = "live", Due(o[1], o[2]), Ahead(o)
      PROVE  Ahead(o)'
  BY <1>1, <1>3 DEF Ahead
<1> QED BY <1>0, <1>2, <1>3, MovesOn

\* Every due context has its entity in the array that the loop copied.
LEMMA ListCopyKeeps == IInv /\ ListCopy => IInv'
<1> SUFFICES ASSUME IInv, ListCopy PROVE IInv'
  OBVIOUS
<1> DEFINE due == {i \in 1 .. Len(manager.list) : Copied(manager.list[i])}
<1>0. /\ Book /\ LoopTypes /\ LoopShape /\ Tables /\ manager \in Managers /\ Exact(manager)
      /\ ~inLoop /\ inLoop' = TRUE
      /\ UNCHANGED <<status, nextThink, noThink, noSim, manager, tickcount,
                     simulated, chain, method, context, thinking>>
      /\ owed' = {o \in Slots \X Contexts : status[o[1]] = "live" /\ Due(o[1], o[2])}
  <2>1. Book /\ Loop /\ Tables /\ manager \in Managers /\ Exact(manager)
    BY DEF IInv, Book, Tables
  <2>2. LoopTypes /\ LoopShape
    BY <2>1 DEF Loop
  <2> QED BY <2>1, <2>2 DEF ListCopy, entities, turn
<1>1. PICK pick \in [1 .. Cardinality(due) -> due] :
        /\ \A i \in due : \E k \in DOMAIN pick : pick[k] = i
        /\ list' = [k \in DOMAIN pick |-> manager.list[pick[k]].entEntry]
  BY DEF ListCopy
<1>2. Cardinality(due) \in Nat
  <2>1. IsFiniteSet(1 .. Len(manager.list))
    BY <1>0, ManagerShape, FS_Interval
  <2> QED BY <2>1, FS_Subset, FS_CardinalityType
<1>3. \A i \in due : i \in 1 .. Len(manager.list) /\ manager.list[i].entEntry \in Slots
  BY <1>0, ManagerShape
<1>4. simulated = {}
  BY <1>0 DEF LoopShape
<1> HIDE DEF due
<1>5. list' \in Seq(Slots) /\ Len(list') = Cardinality(due)
  BY <1>1, <1>2, <1>3
<1>6. \A k \in 1 .. Cardinality(due) : list'[k] = manager.list[pick[k]].entEntry
  BY <1>1
<1>7. LoopTypes'
  <2>1. inLoop' \in BOOLEAN /\ thinking' \in BOOLEAN
    BY <1>0, Zenon DEF LoopTypes
  <2> QED BY <1>0, <1>5, <2>1 DEF LoopTypes
<1>8. Book'
  BY <1>0, BookUnchanged DEF entities
<1>9. LoopShape'
  <2>1. ASSUME NEW k \in 1 .. Len(list') PROVE status'[list'[k]] # "none"
    <3>1. pick[k] \in due /\ list'[k] = manager.list[pick[k]].entEntry
      BY <1>1, <1>5, <1>6
    <3>2. pick[k] \in 1 .. Len(manager.list) /\ list'[k] \in Slots
      BY <1>3, <3>1
    <3>3. manager.index[list'[k]] # ABSENT
      BY <1>0, <3>1, <3>2 DEF Exact, ABSENT
    <3>4. status[list'[k]] = "live"
      BY <1>0, <3>2, <3>3 DEF Book, Faithful
    <3> QED BY <1>0, <3>4
  <2> QED BY <1>0, <2>1 DEF LoopShape, ContextsEnd
<1>10. Owing'
  <2> SUFFICES ASSUME NEW o \in owed'
               PROVE  status'[o[1]] = "live" /\ Due(o[1], o[2])' /\ Ahead(o)'
    BY DEF Owing
  <2> DEFINE s == o[1]
             c == o[2]
             i == manager.index[s]
  <2>1. s \in Slots /\ c \in Contexts /\ status[s] = "live" /\ Due(s, c)
    BY <1>0
  <2>2. nextThink[s] \in Schedules /\ Thinks(s) /\ nextThink[s][c] \in Int
    <3>1. nextThink[s] \in Schedules
      BY <1>0, <2>1 DEF Tables
    <3> QED BY <2>1, <3>1, ThinksByContext, BoundAssumption
            DEF Due, Thinks, Schedules, Ticks, NEVER
  <2>3. i # ABSENT
    BY <1>0, <2>1, <2>2 DEF Book, Faithful
  <2>4. i \in 1 .. Len(manager.list) /\ manager.list[i].entEntry = s
    BY <1>0, <2>1, <2>3 DEF Exact
  <2>5. manager.list[i].nextThinkTick <= tickcount
    <3>1. manager.list[i].nextThinkTick =
            IF s \in noSim THEN GetFirstThinkTick(nextThink[s]) ELSE 0
      BY <1>0, <2>1, <2>3 DEF Book, Faithful, EntryOf
    <3>2. /\ GetFirstThinkTick(nextThink[s]) \in Ticks
          /\ GetFirstThinkTick(nextThink[s]) <= nextThink[s][c]
      BY <2>1, <2>2, FirstThinkTick DEF Due
    <3>3. nextThink[s][c] <= tickcount /\ tickcount \in Nat
      BY <1>0, <2>1 DEF Due, LoopTypes
    <3> HIDE DEF s, i
    <3> QED BY <2>2, <3>1, <3>2, <3>3, BoundAssumption DEF Ticks, NEVER
  <2>6. i \in due
    BY <2>4, <2>5 DEF due, Copied
  <2>7. PICK k \in 1 .. Cardinality(due) : pick[k] = i
    BY <1>1, <2>6
  <2>8. k \in 1 .. Len(list') /\ list'[k] = s
    BY <1>5, <1>6, <2>4, <2>7
  <2>9. Ahead(o)'
    BY <1>0, <1>4, <2>8 DEF Ahead
  <2>10. Due(s, c)'
    BY <1>0, <2>1 DEF Due
  <2> QED BY <1>0, <2>1, <2>9, <2>10
<1> QED BY <1>7, <1>8, <1>9, <1>10 DEF IInv, Loop

\* An entity whose turn it is enters the chain unless it was simulated already.
LEMMA SimulateEntityKeeps == IInv /\ SimulateEntity => IInv'
<1> SUFFICES ASSUME IInv, SimulateEntity PROVE IInv'
  OBVIOUS
<1> DEFINE s == Head(list)
<1>0. /\ LoopTypes /\ LoopShape /\ inLoop
      /\ list # << >> /\ list' = Tail(list) /\ chain = << >>
      /\ UNCHANGED <<entities, manager, tickcount, inLoop, owed>>
      /\ UNCHANGED <<status, method, context, thinking>>
  BY DEF IInv, Loop, LoopShape, SimulateEntity, entities
<1>1. /\ Len(list) \in Nat \ {0} /\ s = list[1] /\ s \in Slots
      /\ list' \in Seq(Slots) /\ Len(list') = Len(list) - 1
      /\ \A i \in 1 .. Len(list) - 1 : list'[i] = list[i + 1]
  BY <1>0, HeadTail DEF LoopTypes
<1>2. status[s] # "none"
  BY <1>0, <1>1 DEF LoopShape
<1>3. PICK up \in Seq(Slots) :
        \/ /\ s \in Edicts \ simulated
           /\ chain' = Append(up, s)
           /\ simulated' = simulated \cup {s} \cup {up[i] : i \in DOMAIN up}
           /\ \A i \in DOMAIN up : status[up[i]] # "none"
        \/ s \in Edicts \cap simulated /\ UNCHANGED <<chain, simulated>>
        \/ s \notin Edicts /\ chain' = <<s>> /\ UNCHANGED simulated
  <2>1. ASSUME NEW up \in MoveParents(s)
        PROVE  up \in Seq(Slots) /\ \A i \in DOMAIN up : status[up[i]] # "none"
    <3> DEFINE others == {t \in Slots \ simulated : t # s /\ status[t] # "none"}
    <3>1. IsFiniteSet(others)
      BY SlotsAssumption, FS_Subset
    <3>2. Cardinality(others) \in Nat
      BY <3>1, FS_CardinalityType
    <3>3. PICK n \in 0 .. Cardinality(others) : up \in [1 .. n -> others]
      BY DEF MoveParents
    <3> QED BY <3>2, <3>3
  <2>2. CASE s \in Edicts \ simulated
    <3>1. PICK up \in MoveParents(s) :
            /\ chain' = Append(up, s)
            /\ simulated' = simulated \cup {s} \cup {up[i] : i \in DOMAIN up}
      BY <2>2 DEF SimulateEntity
    <3> QED BY <2>1, <2>2, <3>1
  <2>3. CASE ~(s \in Edicts \ simulated)
    <3>1. << >> \in Seq(Slots)
      OBVIOUS
    <3>2. \/ s \in Edicts \cap simulated /\ UNCHANGED <<chain, simulated>>
          \/ s \notin Edicts /\ chain' = <<s>> /\ UNCHANGED simulated
      BY <2>3 DEF SimulateEntity
    <3> QED BY <3>1, <3>2, Zenon
  <2> QED BY <2>2, <2>3
<1> HIDE DEF s
<1>4. /\ chain' \in Seq(Slots) /\ simulated' \subseteq Slots
      /\ \A i \in 1 .. Len(chain') : status[chain'[i]] # "none"
      /\ \A t \in simulated' \ simulated : \E i \in 1 .. Len(chain') : chain'[i] = t
      /\ s \notin simulated => \E i \in 1 .. Len(chain') : chain'[i] = s
  <2>1. CASE chain' = Append(up, s)
    <3> DEFINE n == Len(up)
    <3>1. up \in Seq(Slots) /\ n \in Nat /\ DOMAIN up = 1 .. n
      OBVIOUS
    <3>2. /\ chain' \in Seq(Slots) /\ Len(chain') = n + 1 /\ chain'[n + 1] = s
          /\ \A i \in 1 .. n : chain'[i] = up[i] /\ up[i] \in Slots
      BY <1>1, <2>1, <3>1
    <3>4. CASE s \in Edicts \ simulated
      <4>1. /\ simulated' = simulated \cup {s} \cup {up[i] : i \in 1 .. n}
            /\ \A i \in 1 .. n : status[up[i]] # "none"
        BY <1>3, <3>1, <3>4
      <4>2. \A i \in 1 .. Len(chain') : status[chain'[i]] # "none"
        BY <1>0, <1>2, <3>1, <3>2, <4>1
      <4>3. \A i \in 1 .. n : i \in 1 .. Len(chain') /\ n + 1 \in 1 .. Len(chain')
        BY <3>1, <3>2
      <4>4. n + 1 \in 1 .. Len(chain')
        BY <3>1, <3>2
      <4>5. simulated' \subseteq Slots
        BY <1>0, <1>1, <3>2, <4>1 DEF LoopTypes
      <4>6. \A t \in simulated' \ simulated : \E i \in 1 .. Len(chain') : chain'[i] = t
        BY <3>2, <4>1, <4>3, <4>4
      <4> QED BY <3>2, <4>2, <4>4, <4>5, <4>6
    <3>5. CASE ~(s \in Edicts \ simulated)
      <4>1. UNCHANGED simulated /\ (chain' = <<s>> \/ chain' = << >>)
        BY <1>0, <1>3, <3>5
      <4>2. chain' # << >>
        BY <3>1, <3>2
      <4>3. chain' = <<s>>
        BY <4>1, <4>2
      <4>4. /\ <<s>> \in Seq(Slots) /\ Len(<<s>>) = 1 /\ <<s>>[1] = s
            /\ 1 \in 1 .. Len(<<s>>) /\ \A i \in 1 .. Len(<<s>>) : <<s>>[i] = s
        BY <1>1
      <4> QED BY <1>0, <1>2, <4>1, <4>3, <4>4 DEF LoopTypes
    <3> QED BY <3>4, <3>5
  <2>2. CASE UNCHANGED <<chain, simulated>> /\ s \in simulated
    BY <1>0, <2>2 DEF LoopTypes
  <2>3. CASE chain' = <<s>> /\ UNCHANGED simulated
    BY <1>0, <1>1, <1>2, <2>3 DEF LoopTypes
  <2> QED BY <1>3, <2>1, <2>2, <2>3
<1>5. LoopTypes'
  <2>1. inLoop' \in BOOLEAN /\ thinking' \in BOOLEAN
    BY <1>0, Zenon DEF LoopTypes
  <2> QED BY <1>0, <1>1, <1>4, <2>1 DEF LoopTypes
<1>6. LoopShape'
  <2>1. method = "none"
    BY <1>0 DEF LoopShape
  <2>2. \A i \in 1 .. Len(list') : status'[list'[i]] # "none"
    BY <1>0, <1>1 DEF LoopShape
  <2> QED BY <1>0, <1>4, <2>1, <2>2 DEF LoopShape, ContextsEnd
<1>7. ASSUME NEW o \in owed, Ahead(o)
      PROVE  Ahead(o)'
  <2>1. o[1] \notin simulated
    BY <1>0, <1>7 DEF Ahead
  <2>2. PICK i \in 1 .. Len(list) : list[i] = o[1]
    BY <1>0, <1>7 DEF Ahead
  <2>3. method' = "none"
    BY <1>0 DEF LoopShape
  <2>4. CASE \E j \in 1 .. Len(chain') : chain'[j] = o[1]
    BY <2>3, <2>4 DEF Ahead, Coming
  <2>5. CASE ~ \E j \in 1 .. Len(chain') : chain'[j] = o[1]
    <3>1. o[1] # s /\ o[1] \notin simulated'
      BY <1>4, <2>1, <2>5
    <3>2. i - 1 \in 1 .. Len(list') /\ list'[i - 1] = o[1]
      BY <1>1, <2>2, <3>1
    <3> QED BY <3>1, <3>2 DEF Ahead
  <2> QED BY <2>4, <2>5
<1> QED BY <1>0, <1>5, <1>6, <1>7, MovesOn

\* What is due for a context of a listed entity keeps PhysicsRunThink from
\* returning at once.
LEMMA DueThinks ==
  ASSUME Book, NEW s \in Slots, NEW c \in Contexts, Due(s, c)
  PROVE  s \notin noThink
<1>1. Thinks(s)
  BY ThinksByContext DEF Due, Thinks
<1> QED BY <1>1 DEF Book, FlagExact

\* A pass of PhysicsRunThink starts at the first context that it owes, or ends
\* at once for an entity without think function, which is owed nothing.
LEMMA PhysicsRunThinkKeeps == IInv /\ PhysicsRunThink => IInv'
<1> SUFFICES ASSUME IInv, PhysicsRunThink PROVE IInv'
  OBVIOUS
<1>0. /\ Book /\ LoopTypes /\ LoopShape /\ Owing /\ inLoop
      /\ chain # << >> /\ ~thinking
      /\ UNCHANGED <<entities, manager, tickcount, inLoop, list, simulated, thinking, owed>>
  BY DEF IInv, Loop, LoopShape, PhysicsRunThink
<1>1. ~thinking' /\ thinking' \in BOOLEAN /\ inLoop' \in BOOLEAN
  BY <1>0, Zenon DEF LoopTypes
<1>2. PICK m \in IF method = "none" THEN {"all", "all_but_base"}
                 ELSE IF method = "between" THEN {"base_only"} ELSE {} :
        IF Head(chain) \in noThink THEN PassEnds(m)
        ELSE /\ method' = m /\ context' = (IF m = "all_but_base" THEN 1 ELSE 0)
             /\ UNCHANGED chain
  BY DEF PhysicsRunThink
<1>3. /\ m \in Methods \ {"none", "between"}
      /\ \/ method = "none" /\ m \in {"all", "all_but_base"}
         \/ method = "between" /\ m = "base_only"
  <2>1. CASE method = "none"
    <3>1. m \in {"all", "all_but_base"}
      BY <1>2, <2>1
    <3> QED BY <2>1, <3>1 DEF Methods
  <2>2. CASE method = "between"
    <3>1. m \in {"base_only"}
      BY <1>2, <2>2
    <3> QED BY <2>2, <3>1 DEF Methods
  <2>3. CASE method # "none" /\ method # "between"
    <3>1. m \in {}
      BY <1>2, <2>3
    <3> QED BY <3>1
  <2> QED BY <2>1, <2>2, <2>3
<1>4. CASE Head(chain) \in noThink
  <2>1. PassEnds(m) /\ m \in Methods
    BY <1>2, <1>3, <1>4
  <2>2. \A o \in owed : ~ (o[1] = Head(chain) /\ Due(o[1], o[2]))
    BY <1>0, <1>4, DueThinks DEF LoopTypes
  <2> QED BY <1>0, <1>1, <2>1, <2>2, PassEndsKeeps
<1>5. CASE Head(chain) \notin noThink
  <2>1. /\ method' = m /\ UNCHANGED chain
        /\ context' = IF m = "all_but_base" THEN 1 ELSE 0
    BY <1>2, <1>5
  <2>2. context' \in 0 .. NumContexts /\ context' <= ContextsEnd'
    BY <1>3, <2>1, ContextsAssumption DEF ContextsEnd
  <2>3. LoopTypes'
    BY <1>0, <1>1, <1>3, <2>1, <2>2 DEF LoopTypes
  <2>4. ASSUME NEW o \in owed, Coming(o[2])
        PROVE  Coming(o[2])'
    <3>1. o[2] \in Nat
      BY <1>0 DEF LoopTypes, Contexts
    <3>2. CASE method = "none"
      BY <1>1, <1>3, <2>1, <3>1, <3>2 DEF Coming
    <3>3. CASE method = "between"
      BY <1>1, <1>3, <2>1, <2>4, <3>3 DEF Coming
    <3> QED BY <1>3, <3>2, <3>3
  <2>5. method' \notin {"none", "between"}
    BY <1>3, <2>1
  <2> QED BY <1>0, <1>1, <2>1, <2>2, <2>3, <2>4, <2>5, PassGoesOn
<1> QED BY <1>4, <1>5

\* A context is unscheduled, paid off and dispatched in one step.
LEMMA RunSpecificThinkKeeps == IInv /\ RunSpecificThink => IInv'
<1> SUFFICES ASSUME IInv, RunSpecificThink PROVE IInv'
  OBVIOUS
<1> DEFINE s == Head(chain)
           next == [nextThink[s] EXCEPT ![context] = NEVER]
<1>0. /\ Book /\ LoopTypes /\ LoopShape /\ Owing /\ Tables
      /\ method \notin {"none", "between"} /\ ~thinking
      /\ context < ContextsEnd /\ Due(s, context)
      /\ Reschedule(s, next, FALSE) /\ owed' = owed \ {<<s, context>>}
      /\ thinking' = TRUE
      /\ UNCHANGED <<status, noSim, tickcount, inLoop, list, simulated, chain,
                     method, context>>
  BY DEF IInv, Book, Loop, RunSpecificThink, InPass
<1>1. /\ chain # << >> /\ inLoop /\ s \in Slots /\ s = chain[1] /\ 1 \in 1 .. Len(chain)
  BY <1>0, HeadTail DEF LoopTypes, LoopShape
<1>2. context \in Contexts /\ ContextsEnd <= NumContexts
  BY <1>0, ContextsAssumption DEF LoopTypes, Contexts, ContextsEnd
<1>3. status[s] # "none"
  BY <1>0, <1>1 DEF LoopShape
<1>4. /\ nextThink[s] \in Schedules /\ next \in Schedules
      /\ \A d \in Contexts \ {context} : next[d] = nextThink[s][d]
      /\ next[context] = NEVER
  BY <1>0, <1>1, <1>2, BoundAssumption DEF Tables, Schedules, Ticks, NEVER
<1>5. WillThink(next) => Thinks(s)
  <2>1. SUFFICES ASSUME NEW d \in Contexts, next[d] > 0 PROVE Thinks(s)
    BY ThinksByContext
  <2>2. nextThink[s][d] > 0
    BY <1>4, <2>1 DEF NEVER
  <2> QED BY <2>2, ThinksByContext DEF Thinks
<1> HIDE DEF s, next
<1>6. Tables'
  <2>1. /\ manager' \in Managers /\ noThink' \subseteq Slots
        /\ nextThink' \in [Slots -> Schedules]
    BY <1>0, <1>1, <1>4, RescheduleTypes, Zenon
  <2> QED BY <1>0, <2>1 DEF Tables
<1>7. Book'
  BY <1>0, <1>1, <1>3, <1>4, <1>5, <1>6, RescheduleKeepsBook, Zenon
<1>8. LoopTypes'
  <2>1. thinking' \in BOOLEAN /\ inLoop' \in BOOLEAN
    BY <1>0, Zenon DEF LoopTypes
  <2> QED BY <1>0, <2>1 DEF LoopTypes
<1>9. LoopShape'
  BY <1>0, <1>1 DEF LoopShape, ContextsEnd
<1>10. ASSUME NEW o \in owed'
       PROVE  status'[o[1]] = "live" /\ Due(o[1], o[2])' /\ Ahead(o)'
  <2>1. /\ o \in owed /\ o \in Slots \X Contexts /\ o # <<s, context>>
        /\ status[o[1]] = "live" /\ Due(o[1], o[2]) /\ Ahead(o)
    BY <1>0, <1>1, <1>10 DEF LoopTypes, Owing
  <2>2. nextThink'[o[1]][o[2]] = nextThink[o[1]][o[2]]
    <3>1. nextThink' = [nextThink EXCEPT ![s] = next]
      BY <1>0 DEF Reschedule
    <3>2. CASE o[1] = s
      <4>1. o[2] \in Contexts \ {context}
        BY <2>1, <3>2
      <4> QED BY <1>0, <1>1, <1>4, <3>1, <3>2, <4>1 DEF Tables
    <3>3. CASE o[1] # s
      BY <1>0, <2>1, <3>1, <3>3 DEF Tables
    <3> QED BY <3>2, <3>3
  <2>3. ASSUME o[1] = s, Coming(o[2])
        PROVE  Coming(o[2])'
    <3>1. o[2] # context
      BY <2>1, <2>3
    <3>2. o[2] \in Int /\ context \in Int
      BY <1>2, <2>1 DEF Contexts
    <3> QED BY <1>0, <2>3, <3>1, <3>2 DEF Coming
  <2>4. Ahead(o)'
    BY <1>0, <1>1, <2>1, <2>3 DEF Ahead
  <2> QED BY <1>0, <2>1, <2>2, <2>4 DEF Due
<1>11. Owing'
  BY <1>10 DEF Owing
<1> QED BY <1>7, <1>8, <1>9, <1>11 DEF IInv, Loop

\* After a think function comes the next context, or the end of the pass when
\* the entity was removed and is owed nothing any more.
LEMMA ThinkReturnsKeeps == IInv /\ ThinkReturns => IInv'
<1> SUFFICES ASSUME IInv, ThinkReturns PROVE IInv'
  OBVIOUS
<1>0. /\ LoopTypes /\ LoopShape /\ thinking /\ thinking' = FALSE
      /\ UNCHANGED <<entities, manager, tickcount, inLoop, list, simulated, owed>>
  BY DEF IInv, Loop, ThinkReturns
<1>1. /\ method \in Methods \ {"none", "between"} /\ chain # << >>
      /\ context < ContextsEnd
  BY <1>0 DEF LoopTypes, LoopShape
<1>2. ~thinking' /\ thinking' \in BOOLEAN /\ inLoop' \in BOOLEAN
  BY <1>0, Zenon DEF LoopTypes
<1>3. CASE status[Head(chain)] = "marked"
  <2>1. PassEnds(method)
    BY <1>3 DEF ThinkReturns
  <2>2. \A o \in owed : ~ (o[1] = Head(chain) /\ status[o[1]] = "live")
    BY <1>3
  <2> QED BY <1>0, <1>1, <1>2, <2>1, <2>2, PassEndsKeeps
<1>4. CASE status[Head(chain)] # "marked"
  <2>1. context' = context + 1 /\ UNCHANGED <<chain, method>>
    BY <1>4 DEF ThinkReturns
  <2>2. context \in Int /\ ContextsEnd \in Nat /\ ContextsEnd <= NumContexts /\ ContextsEnd' = ContextsEnd
    BY <1>0, <2>1, ContextsAssumption DEF LoopTypes, ContextsEnd
  <2>3. LoopTypes' /\ context' <= ContextsEnd'
    BY <1>0, <1>1, <1>2, <2>1, <2>2, ContextsAssumption DEF LoopTypes
  <2>4. ASSUME NEW o \in owed, Coming(o[2])
        PROVE  Coming(o[2])'
    <3>1. o[2] \in Int
      BY <1>0 DEF LoopTypes, Contexts
    <3> QED BY <1>0, <1>1, <2>1, <2>2, <2>4, <3>1 DEF Coming
  <2> QED BY <1>0, <1>1, <1>2, <2>1, <2>3, <2>4, PassGoesOn
<1> QED BY <1>3, <1>4

\* A context that is not due is owed nothing.
LEMMA SkipContextKeeps == IInv /\ SkipContext => IInv'
<1> SUFFICES ASSUME IInv, SkipContext PROVE IInv'
  OBVIOUS
<1>0. /\ LoopTypes /\ LoopShape /\ method \notin {"none", "between"} /\ ~thinking
      /\ context < ContextsEnd /\ ~Due(Head(chain), context) /\ context' = context + 1
      /\ UNCHANGED <<entities, manager, tickcount, inLoop, list, simulated, chain,
                     method, thinking, owed>>
  BY DEF IInv, Loop, SkipContext, InPass
<1>1. chain # << >> /\ ~thinking' /\ method' \notin {"none", "between"}
  BY <1>0 DEF LoopShape
<1>2. thinking' \in BOOLEAN /\ inLoop' \in BOOLEAN
  BY <1>0, Zenon DEF LoopTypes
<1>3. /\ context \in Int /\ ContextsEnd \in Nat /\ ContextsEnd <= NumContexts
      /\ ContextsEnd' = ContextsEnd
  BY <1>0, ContextsAssumption DEF LoopTypes, ContextsEnd
<1>4. LoopTypes' /\ context' <= ContextsEnd'
  BY <1>0, <1>2, <1>3, ContextsAssumption DEF LoopTypes
<1>5. ASSUME NEW o \in owed, o[1] = Head(chain), Coming(o[2]), Due(o[1], o[2])
      PROVE  Coming(o[2])'
  <2>1. o[2] \in Int /\ o[2] # context
    BY <1>0, <1>5 DEF LoopTypes, Contexts
  <2> QED BY <1>0, <1>3, <1>5, <2>1 DEF Coming
<1> QED BY <1>0, <1>1, <1>4, <1>5, PassGoesOn

\* After its last context a pass has come to everything but the base context.
LEMMA LastContextKeeps == IInv /\ LastContext => IInv'
<1> SUFFICES ASSUME IInv, LastContext PROVE IInv'
  OBVIOUS
<1>0. /\ LoopTypes /\ LoopShape /\ method \notin {"none", "between"} /\ ~thinking
      /\ context = ContextsEnd /\ PassEnds(method)
      /\ UNCHANGED <<entities, manager, tickcount, inLoop, list, simulated, thinking, owed>>
  BY DEF IInv, Loop, LastContext, InPass
<1>1. chain # << >> /\ ~thinking' /\ method \in Methods
  BY <1>0 DEF LoopTypes, LoopShape
<1>2. thinking' \in BOOLEAN
  BY <1>0, Zenon DEF LoopTypes
<1>3. ASSUME NEW o \in owed, Coming(o[2])
      PROVE  method = "all_but_base" /\ o[2] = 0
  <2>1. o[2] \in Nat /\ o[2] < NumContexts
    BY <1>0, ContextsAssumption DEF LoopTypes, Contexts
  <2> QED BY <1>0, <1>3, <2>1, ContextsAssumption DEF Coming, ContextsEnd
<1> QED BY <1>0, <1>1, <1>2, <1>3, PassEndsKeeps

\* The next frame starts with no debts.
LEMMA FrameEndKeeps == IInv /\ FrameEnd => IInv'
<1> SUFFICES ASSUME IInv, FrameEnd PROVE IInv'
  OBVIOUS
<1>1. /\ Book /\ LoopTypes /\ LoopShape
      /\ list = << >> /\ chain = << >>
      /\ inLoop' = FALSE /\ tickcount' = tickcount + 1 /\ tickcount < MaxTick
      /\ simulated' = {}
      /\ UNCHANGED <<entities, manager, list, chain, method, context, thinking, owed>>
      /\ UNCHANGED status
  BY DEF IInv, Loop, FrameEnd, entities, turn
<1>2. Book'
  BY <1>1, BookUnchanged
<1>3. LoopTypes'
  <2>1. inLoop' \in BOOLEAN /\ thinking' \in BOOLEAN
    BY <1>1, Zenon DEF LoopTypes
  <2> QED BY <1>1, <2>1, BoundAssumption DEF LoopTypes
<1>4. LoopShape' /\ Owing'
  BY <1>1 DEF LoopShape, Owing, ContextsEnd
<1> QED BY <1>2, <1>3, <1>4 DEF IInv, Loop

\* The invariant does not depend on anything else.
LEMMA StutterKeeps == IInv /\ UNCHANGED vars => IInv'
<1> SUFFICES ASSUME IInv, UNCHANGED vars PROVE IInv'
  OBVIOUS
<1>1. /\ UNCHANGED <<entities, manager, tickcount, inLoop, list, simulated, chain,
                     method, context, thinking, owed>>
      /\ UNCHANGED <<status, nextThink>>
  BY DEF vars, loop, turn, entities
<1>2. Book'
  BY <1>1, BookUnchanged DEF IInv
<1>3. LoopTypes' /\ LoopShape'
  BY <1>1 DEF IInv, Loop, LoopTypes, LoopShape, ContextsEnd
<1>4. Owing'
  BY <1>1 DEF IInv, Loop, Owing, Ahead, Coming, Due
<1> QED BY <1>2, <1>3, <1>4 DEF IInv, Loop

-----------------------------------------------------------------------------
(* The theorems.                                                           *)

\* Books, loop and debts are kept by every step of the game and of the frame.
THEOREM Invariant == Spec => []IInv
<1>1. Init => IInv
  BY InitEstablishes
<1>2. IInv /\ [Next]_vars => IInv'
  BY GameStepKeeps, ListCopyKeeps, SimulateEntityKeeps, PhysicsRunThinkKeeps,
     RunSpecificThinkKeeps, ThinkReturnsKeeps, SkipContextKeeps, LastContextKeeps,
     FrameEndKeeps, StutterKeeps DEF Next, LoopStep
<1> QED BY <1>1, <1>2, PTL DEF Spec

\* Types, and no more entries in m_simThinkList than there are slots: an index
\* always fits.
THEOREM TypeCorrect == Spec => []TypeOK
<1>1. IInv => TypeOK
  BY InvariantTypes
<1> QED BY <1>1, Invariant, PTL

\* m_entinfoIndex and m_simThinkList name each other, whatever fast removal
\* shifts (RemoveEntinfoIndex).
THEOREM IndexAlwaysExact == Spec => []IndexExact
<1>1. IInv => IndexExact
  BY BookMeans DEF IInv
<1> QED BY <1>1, Invariant, PTL

\* Exactly the live entities that think or simulate are listed, although the
\* flags are kept by hints (CheckHasThinkFunction, EntityChanged).
THEOREM AlwaysListedExactly == Spec => []ListedExactly
<1>1. IInv => ListedExactly
  BY BookMeans DEF IInv
<1> QED BY <1>1, Invariant, PTL

\* The assertion of ListCopy never fails: cached ticks are never stale.
THEOREM CachedTickNeverStale == Spec => []CachedTick
<1>1. IInv => CachedTick
  BY BookMeans DEF IInv
<1> QED BY <1>1, Invariant, PTL

\* Whatever was due when the think loop began has run when it is over, or game
\* code that ran meanwhile rescheduled it, removed the entity or took it out of
\* the frame.
THEOREM ThinksNeverLost == Spec => []NoThinkLost
<1>1. IInv => NoThinkLost
  <2> SUFFICES ASSUME IInv, inLoop, list = << >>, chain = << >>, NEW o \in owed
               PROVE  FALSE
    BY DEF NoThinkLost
  <2>1. Ahead(o)
    BY DEF IInv, Loop, Owing
  <2> QED BY <2>1 DEF Ahead
<1> QED BY <1>1, Invariant, PTL
=============================================================================
