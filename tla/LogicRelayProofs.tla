-------------------------- MODULE LogicRelayProofs --------------------------
(***************************************************************************)
(* Proofs about LogicRelay, for any relays, outputs and inputs.            *)
(*                                                                         *)
(* Base: types, and what an event in the queue may say. WalkOK: what a     *)
(* call of FireOutput has posted, and has still to post. WakesOK: the      *)
(* wake-up on its way to a relay that waits. Sorted, AlwaysKept and        *)
(* SettledOK: where in the queue a relay's events are. QuietOK: when the   *)
(* wake-up of a relay that has fired comes. Each is inductive with Base    *)
(* and, the last two, with those before them.                              *)
(***************************************************************************)
EXTENDS LogicRelay, FiniteSetTheorems, WellFoundedInduction, TLAPS

Events == [in : Int, post : Posts]

\* The actions of the map of output o of relay r.
Declared(r, o) == IF o = "OnTrigger" THEN OnTrigger[r] ELSE OnSpawn[r]

SameAction(x, y) ==
  x.id = y.id /\ x.target = y.target /\ x.input = y.input /\ x.delay = y.delay

\* What an event says that is posted by a relay, or by others to it.
Asked(x) == x.input = "EnableRefire" => x = EnableRefire(x.target)

QueueOK == queue \in Seq(Events) /\ \A i \in DOMAIN queue : Asked(queue[i].post)

\* Each action of an output is one of the map, and is to be fired again.
OutputsOK ==
  /\ outputs \in [Relays -> [Outputs -> Seq(Action)]]
  /\ \A r \in Relays, o \in Outputs : \A i \in DOMAIN outputs[r][o] :
       /\ outputs[r][o][i].times # 0
       /\ \E j \in DOMAIN Declared(r, o) : SameAction(outputs[r][o][i], Declared(r, o)[j])

RelaysOK ==
  /\ disabled \subseteq Relays /\ waiting \subseteq Relays /\ removed \subseteq Relays
  /\ thinking \subseteq Relays /\ fired \subseteq Relays

\* What is being fired is due, and stays the first until it is cancelled.
PhaseOK ==
  /\ phase \in {"before", "between", "firing", "cancelled", "after"} /\ handled \in BOOLEAN
  /\ handled => phase = "firing"
  /\ phase = "firing" => queue # << >> /\ queue[1].in <= 0

\* OnSpawn is fired by a think, OnTrigger by the input that is called.
CallOK ==
  /\ posted \in Seq(Nat)
  /\ call # NULL =>
       /\ call \in OutputCalls /\ call.at \in 1 .. Len(List) + 1
       /\ call.output = "OnSpawn" => phase = "before"
       /\ call.output = "OnTrigger" =>
            phase = "firing" /\ handled /\ call.relay \notin waiting

Base == QueueOK /\ OutputsOK /\ RelaysOK /\ PhaseOK /\ CallOK

LEMMA EventFields == \A x \in Events : x.in \in Int /\ x.post \in Posts
BY DEF Events

-----------------------------------------------------------------------------
(* The schedule.                                                           *)

\* A set of natural numbers that has a member has a least one.
LEMMA LeastNumber ==
  ASSUME NEW T \in SUBSET Nat, T # {}
  PROVE  \E n \in T : \A m \in T : n <= m
<1>1. IsWellFoundedOn(OpToRel(<, Nat), Nat)
  BY NatLessThanWellFounded
<1> DEFINE R == OpToRel(<, Nat)
<1> HIDE DEF R
<1>2. IsWellFoundedOn(R, Nat)
  BY <1>1 DEF R
<1>3. \E x \in T : \A y \in T : ~ (<<y, x>> \in R)
  BY <1>2, WFMin
<1>4. \A x, y \in Nat : <<y, x>> \in R <=> y < x
  BY DEF R, OpToRel
<1>5. PICK n \in T : \A m \in T : ~ (<<m, n>> \in R)
  BY <1>3
<1>6. \A m \in T : n <= m
  <2> SUFFICES ASSUME NEW m \in T PROVE n <= m
    OBVIOUS
  <2>1. n \in Nat /\ m \in Nat
    OBVIOUS
  <2>2. ~ (m < n)
    BY <1>4, <1>5, <2>1
  <2> QED BY <2>1, <2>2
<1> QED BY <1>6

\* The event x has been put into q behind n events: those are not later than x,
\* and the next one is.
InsertedAt(s, q, x, n) ==
  /\ n \in 0 .. Len(q)
  /\ s \in Seq(Events) /\ Len(s) = Len(q) + 1
  /\ \A i \in 1 .. n : s[i] = q[i] /\ q[i].in <= x.in
  /\ s[n + 1] = x
  /\ \A i \in n + 1 .. Len(q) : s[i + 1] = q[i]
  /\ n < Len(q) => q[n + 1].in > x.in

\* AddEvent's loop stops somewhere.
LEMMA PassedSome ==
  ASSUME NEW q \in Seq(Events), NEW t \in Int
  PROVE  /\ Schedule!Passed(q, t) \in 0 .. Len(q)
         /\ \A i \in 1 .. Schedule!Passed(q, t) : q[i].in <= t
         /\ Schedule!Passed(q, t) < Len(q) => q[Schedule!Passed(q, t) + 1].in > t
<1> DEFINE Stop(n) == n < Len(q) => q[n + 1].in > t
           Stops == {n \in 0 .. Len(q) : Stop(n)}
<1>1. Len(q) \in Stops /\ Stops \in SUBSET Nat
  OBVIOUS
<1>2. PICK n \in Stops : \A m \in Stops : n <= m
  <2> HIDE DEF Stops
  <2> QED BY <1>1, LeastNumber
<1>3. \A i \in 1 .. n : q[i].in <= t
  <2> SUFFICES ASSUME NEW i \in 1 .. n PROVE q[i].in <= t
    OBVIOUS
  <2>2. i - 1 \in 0 .. Len(q) /\ i \in 1 .. Len(q) /\ i - 1 < n /\ i - 1 + 1 = i
    BY <1>2
  <2>1. i - 1 \notin Stops
    <3> HIDE DEF Stops
    <3> QED BY <1>1, <1>2, <2>2
  <2>3. q[i].in \in Int
    BY <2>2, EventFields
  <2> QED BY <2>1, <2>2, <2>3
<1>4. \E m \in 0 .. Len(q) :
        /\ \A i \in 1 .. m : q[i].in <= t
        /\ m < Len(q) => q[m + 1].in > t
  BY <1>2, <1>3
<1> QED BY <1>4 DEF Schedule!Passed

LEMMA Inserted ==
  ASSUME NEW q \in Seq(Events), NEW x \in Events
  PROVE  \E n \in 0 .. Len(q) : InsertedAt(Schedule!Insert(q, x), q, x, n)
<1> DEFINE n == Schedule!Passed(q, x.in)
           s == SubSeq(q, 1, n) \o <<x>> \o SubSeq(q, n + 1, Len(q))
<1>1. x.in \in Int
  BY DEF Events
<1>2. /\ n \in 0 .. Len(q)
      /\ \A i \in 1 .. n : q[i].in <= x.in
      /\ n < Len(q) => q[n + 1].in > x.in
  BY <1>1, PassedSome
<1>3. Schedule!Insert(q, x) = s
  BY DEF Schedule!Insert
<1> HIDE DEF n
<1> DEFINE front == SubSeq(q, 1, n)
           back == SubSeq(q, n + 1, Len(q))
<1>4. /\ front \in Seq(Events) /\ Len(front) = n
      /\ \A i \in 1 .. n : front[i] = q[i]
  BY <1>2
<1>5. /\ back \in Seq(Events) /\ Len(back) = Len(q) - n
      /\ \A i \in 1 .. Len(q) - n : back[i] = q[n + i]
  BY <1>2
<1> HIDE DEF front, back
<1> DEFINE most == front \o <<x>>
<1>6. s = most \o back
  BY DEF front, back
<1>11. /\ most \in Seq(Events) /\ Len(most) = n + 1
       /\ \A i \in 1 .. n : most[i] = front[i]
       /\ most[n + 1] = x
  BY <1>2, <1>4
<1> HIDE DEF s, most
<1>12. s \in Seq(Events) /\ Len(s) = Len(most) + Len(back)
  <2>1. most \in Seq(Events) /\ back \in Seq(Events)
    BY <1>5, <1>11
  <2> QED BY <1>6, <2>1
<1>7. s \in Seq(Events) /\ Len(s) = Len(q) + 1
  BY <1>2, <1>5, <1>11, <1>12
<1>8. \A i \in 1 .. n : s[i] = q[i]
  BY <1>2, <1>4, <1>5, <1>6, <1>11
<1>9. s[n + 1] = x
  BY <1>2, <1>4, <1>5, <1>6, <1>11
<1>10. \A i \in n + 1 .. Len(q) : s[i + 1] = q[i]
  <2> SUFFICES ASSUME NEW i \in n + 1 .. Len(q) PROVE s[i + 1] = q[i]
    OBVIOUS
  <2>1. s[i + 1] = back[i - n]
    BY <1>2, <1>4, <1>5, <1>6, <1>11
  <2>2. back[i - n] = q[n + (i - n)]
    BY <1>2, <1>5
  <2> QED BY <1>2, <2>1, <2>2
<1> QED BY <1>2, <1>3, <1>7, <1>8, <1>9, <1>10 DEF InsertedAt

\* The events of q that are not posts of S, in the order they have in q: the
\* k-th of them is number g[k] of q.
ThinnedBy(s, q, S, g) ==
  /\ s \in Seq(Events)
  /\ g \in [1 .. Len(s) -> DOMAIN q]
  /\ \A k \in 1 .. Len(s) : s[k] = q[g[k]] /\ q[g[k]].post \notin S
  /\ \A k, l \in 1 .. Len(s) : k < l => g[k] < g[l]
  /\ \A i \in DOMAIN q : q[i].post \notin S => \E k \in 1 .. Len(s) : g[k] = i

\* Counting its members up to i gives each member of a set of numbers a place.
LEMMA Ranks ==
  ASSUME NEW n \in Nat, NEW I \in SUBSET (1 .. n)
  PROVE  /\ IsFiniteSet(I) /\ Cardinality(I) \in Nat
         /\ \A i \in I : Cardinality({j \in I : j <= i}) \in 1 .. Cardinality(I)
         /\ \A i, l \in I : i < l =>
              Cardinality({j \in I : j <= i}) < Cardinality({j \in I : j <= l})
         /\ \A k \in 1 .. Cardinality(I) :
              \E i \in I : Cardinality({j \in I : j <= i}) = k
<1> DEFINE upTo(i) == {j \in I : j <= i}
           m == Cardinality(I)
<1>1. IsFiniteSet(I) /\ m \in Nat
  <2>1. IsFiniteSet(1 .. n)
    BY FS_Interval
  <2> QED BY <2>1, FS_Subset, FS_CardinalityType
<1>2. \A T \in SUBSET I : IsFiniteSet(T) /\ Cardinality(T) \in Nat /\ Cardinality(T) <= m
  BY <1>1, FS_Subset, FS_CardinalityType
<1>3. \A i, l \in I : i < l => Cardinality(upTo(i)) < Cardinality(upTo(l))
  <2> SUFFICES ASSUME NEW i \in I, NEW l \in I, i < l
               PROVE  Cardinality(upTo(i)) < Cardinality(upTo(l))
    OBVIOUS
  <2>1. upTo(i) \in SUBSET upTo(l) /\ l \in upTo(l) /\ l \notin upTo(i)
    <3>1. \A j \in I : j \in Int
      OBVIOUS
    <3>2. \A j \in I : j <= i => j <= l
      BY <3>1
    <3>3. l <= l /\ ~ (l <= i)
      BY <3>1
    <3> QED BY <3>2, <3>3
  <2>2. IsFiniteSet(upTo(l))
    BY <1>2
  <2>3. upTo(i) # upTo(l)
    BY <2>1
  <2> HIDE DEF upTo
  <2> QED BY <2>1, <2>2, <2>3, FS_Subset, FS_CardinalityType
<1>4. \A i \in I : Cardinality(upTo(i)) \in 1 .. m
  <2> SUFFICES ASSUME NEW i \in I PROVE Cardinality(upTo(i)) \in 1 .. m
    OBVIOUS
  <2>1. i \in upTo(i) /\ upTo(i) \in SUBSET I
    OBVIOUS
  <2>2. Cardinality(upTo(i)) # 0
    BY <2>1, <1>2, FS_EmptySet
  <2> QED BY <2>1, <2>2, <1>2, <1>1
<1> DEFINE f == [i \in I |-> Cardinality(upTo(i))]
<1>5. f \in [I -> 1 .. m]
  BY <1>4
<1>6. \A i, l \in I : f[i] = f[l] => i = l
  BY <1>3, <1>4, <1>1
<1>7. f \in Injection(I, 1 .. m)
  BY <1>5, <1>6 DEF Injection, IsInjective
<1>8. IsFiniteSet(1 .. m) /\ Cardinality(1 .. m) = m
  BY <1>1, FS_Interval
<1> HIDE DEF f
<1>9. f \in Surjection(I, 1 .. m)
  BY <1>7, <1>8, FS_Injection
<1>10. \A k \in 1 .. m : \E i \in I : f[i] = k
  BY <1>9 DEF Surjection
<1> QED BY <1>1, <1>3, <1>4, <1>10 DEF f

\* The schedule counts as this module does.
LEMMA SameCount == \A T : Schedule!Cardinality(T) = Cardinality(T)
BY DEF Schedule!Cardinality, Cardinality

LEMMA Thinned ==
  ASSUME NEW q \in Seq(Events), NEW S
  PROVE  \E g : ThinnedBy(Schedule!Without(q, S), q, S, g)
<1> DEFINE I == {i \in DOMAIN q : q[i].post \notin S}
           m == Cardinality(I)
           g == [k \in 1 .. m |-> Schedule!Nth(I, k)]
           s == [k \in 1 .. m |-> q[Schedule!Nth(I, k)]]
<1>1. I \in SUBSET (1 .. Len(q)) /\ Len(q) \in Nat
  OBVIOUS
<1>2. Schedule!Without(q, S) = s
  BY SameCount DEF Schedule!Without
<1> DEFINE rank(i) == Cardinality({j \in I : j <= i})
<1>3. \A k : Schedule!Nth(I, k) = CHOOSE i \in I : rank(i) = k
  BY SameCount DEF Schedule!Nth
<1>4. /\ m \in Nat
      /\ \A i \in I : rank(i) \in 1 .. m
      /\ \A i, l \in I : i < l => rank(i) < rank(l)
      /\ \A k \in 1 .. m : \E i \in I : rank(i) = k
  <2> HIDE DEF I
  <2> QED BY <1>1, Ranks
<1>5. \A k \in 1 .. m : g[k] \in I /\ rank(g[k]) = k
  <2> HIDE DEF I, rank
  <2> QED BY <1>3, <1>4
<1>6. \A i \in I : i \in Int
  BY <1>1
<1>7. \A k, l \in 1 .. m : k < l => g[k] < g[l]
  <2> HIDE DEF I, rank, g
  <2> SUFFICES ASSUME NEW k \in 1 .. m, NEW l \in 1 .. m, k < l PROVE g[k] < g[l]
    OBVIOUS
  <2>1. g[k] \in I /\ g[l] \in I /\ rank(g[k]) = k /\ rank(g[l]) = l
    BY <1>5
  <2>2. g[k] # g[l] /\ ~ g[l] < g[k]
    BY <2>1, <1>4
  <2> QED BY <2>1, <2>2, <1>6
<1>8. \A i \in I : \E k \in 1 .. m : g[k] = i
  <2> HIDE DEF I, rank, g
  <2> SUFFICES ASSUME NEW i \in I PROVE g[rank(i)] = i
    BY <1>4
  <2>1. rank(i) \in 1 .. m
    BY <1>4
  <2>2. g[rank(i)] \in I /\ rank(g[rank(i)]) = rank(i)
    BY <1>5, <2>1
  <2>3. ~ i < g[rank(i)] /\ ~ g[rank(i)] < i
    BY <2>1, <2>2, <1>4
  <2> QED BY <2>2, <2>3, <1>6
<1>9. s \in Seq(Events) /\ Len(s) = m
  <2>1. \A k \in 1 .. m : s[k] = q[g[k]] /\ g[k] \in DOMAIN q
    BY <1>5
  <2>2. \A k \in 1 .. m : s[k] \in Events
    BY <2>1
  <2> HIDE DEF g, I, m, rank
  <2> QED BY <2>2, <1>4
<1>10. \A k \in 1 .. m : s[k] = q[g[k]] /\ g[k] \in DOMAIN q /\ q[g[k]].post \notin S
  BY <1>5
<1>11. \A i \in DOMAIN q : q[i].post \notin S => \E k \in 1 .. m : g[k] = i
  BY <1>8
<1>12. g \in [1 .. m -> DOMAIN q]
  BY <1>10
<1> HIDE DEF g, s, m, I
<1>13. ThinnedBy(s, q, S, g)
  BY <1>7, <1>9, <1>10, <1>11, <1>12 DEF ThinnedBy
<1> QED BY <1>2, <1>13

\* An event that is due stays the first, for nothing is posted into the past.
LEMMA HeadStays ==
  ASSUME NEW s, NEW q \in Seq(Events), NEW x \in Events, NEW n,
         InsertedAt(s, q, x, n), q # << >>, q[1].in <= x.in
  PROVE  n \in 1 .. Len(q) /\ s # << >> /\ s[1] = q[1]
<1>1. n \in 0 .. Len(q) /\ s \in Seq(Events) /\ Len(s) = Len(q) + 1
  BY DEF InsertedAt
<1>2. Len(q) >= 1
  OBVIOUS
<1>3. q[1].in \in Int /\ x.in \in Int
  BY <1>2, EventFields
<1>4. n # 0
  <2> SUFFICES ASSUME n = 0 PROVE FALSE
    OBVIOUS
  <2>1. q[n + 1].in > x.in
    BY <1>2 DEF InsertedAt
  <2> QED BY <2>1, <1>3
<1>5. n \in 1 .. Len(q)
  BY <1>1, <1>4
<1>6. s[1] = q[1]
  BY <1>5 DEF InsertedAt
<1>7. s # << >>
  BY <1>1, <1>2
<1> QED BY <1>5, <1>6, <1>7

\* Posting keeps what holds of all events.
LEMMA PostKeeps ==
  ASSUME NEW what \in Posts, NEW delay \in Int, QueueOK, Schedule!Post(what, delay),
         Asked(what)
  PROVE  /\ QueueOK' /\ phase' = phase /\ phase # "between"
         /\ \E n \in 0 .. Len(queue) :
              InsertedAt(queue', queue, [in |-> delay, post |-> what], n)
<1> DEFINE x == [in |-> delay, post |-> what]
<1>1. x \in Events
  BY DEF Events
<1>2. /\ queue' = Schedule!Insert(queue, x)
      /\ phase' = phase /\ phase # "between"
  BY DEF Schedule!Post, Schedule!GameRuns
<1>3. queue \in Seq(Events) /\ \A i \in DOMAIN queue : Asked(queue[i].post)
  BY DEF QueueOK
<1>4. x.post = what
  OBVIOUS
<1> HIDE DEF x
<1>5. PICK n \in 0 .. Len(queue) : InsertedAt(queue', queue, x, n)
  BY <1>1, <1>2, <1>3, Inserted
<1>6. queue' \in Seq(Events) /\ Len(queue') = Len(queue) + 1
  BY <1>5 DEF InsertedAt
<1>7. \A i \in 1 .. Len(queue) + 1 : Asked(queue'[i].post)
  <2> SUFFICES ASSUME NEW i \in 1 .. Len(queue) + 1 PROVE Asked(queue'[i].post)
    OBVIOUS
  <2>1. CASE i \in 1 .. n
    BY <2>1, <1>3, <1>5 DEF InsertedAt
  <2>2. CASE i = n + 1
    BY <2>2, <1>4, <1>5 DEF InsertedAt
  <2>3. CASE i > n + 1
    <3>1. i - 1 \in n + 1 .. Len(queue) /\ (i - 1) + 1 = i
      BY <2>3, <1>5
    <3>2. queue'[i] = queue[i - 1]
      BY <3>1, <1>5 DEF InsertedAt
    <3> QED BY <3>1, <3>2, <1>3, <1>5
  <2> QED BY <2>1, <2>2, <2>3, <1>5
<1>8. QueueOK'
  BY <1>6, <1>7 DEF QueueOK
<1> QED BY <1>2, <1>5, <1>8 DEF x

LEMMA PostKeepsPhase ==
  ASSUME NEW what \in Posts, NEW delay \in Nat, QueueOK, PhaseOK,
         Schedule!Post(what, delay), Asked(what), handled' = handled
  PROVE  /\ PhaseOK'
         /\ phase = "firing" => queue # << >> /\ queue' # << >> /\ queue'[1] = queue[1]
<1> DEFINE x == [in |-> delay, post |-> what]
<1>1. x \in Events /\ x.in = delay
  BY DEF Events
<1>2. PICK n \in 0 .. Len(queue) : InsertedAt(queue', queue, x, n)
  BY PostKeeps
<1>3. phase' = phase
  BY DEF Schedule!Post
<1> HIDE DEF x
<1>4. queue \in Seq(Events)
  BY DEF QueueOK
<1>5. ASSUME phase = "firing"
      PROVE  queue # << >> /\ queue' # << >> /\ queue'[1] = queue[1] /\ queue'[1].in <= 0
  <2>1. queue # << >> /\ queue[1].in <= 0
    BY <1>5 DEF PhaseOK
  <2>2. queue[1].in \in Int
    BY <2>1, <1>4, EventFields
  <2>3. queue[1].in <= x.in
    BY <2>1, <2>2, <1>1
  <2> QED BY <2>1, <2>3, <1>1, <1>2, <1>4, HeadStays
<1> QED BY <1>3, <1>5 DEF PhaseOK

-----------------------------------------------------------------------------
(* Outputs.                                                                *)

LEMMA ActionFields ==
  \A x \in Action : /\ x.id \in Nat \ {0} /\ x.target \in Relays \cup {WORLD}
                    /\ x.input \in Inputs /\ x.delay \in Nat
                    /\ x.times \in Nat \cup {EVENT_FIRE_ALWAYS}
BY DEF Action

\* What the map says of an action.
LEMMA DeclaredActions ==
  ASSUME NEW r \in Relays, NEW o \in Outputs
  PROVE  /\ Declared(r, o) \in Seq(Action)
         /\ \A i \in DOMAIN Declared(r, o) :
              /\ Declared(r, o)[i].times # 0
              /\ Declared(r, o)[i].input # "EnableRefire"
<1>1. Declared(r, o) \in {OnTrigger[r], OnSpawn[r]}
  BY DEF Declared
<1> QED BY <1>1, OutputAssumption, InputAssumption

\* WithoutAt takes out one action.
LEMMA WithoutOne ==
  ASSUME NEW list \in Seq(Action), NEW at \in 1 .. Len(list)
  PROVE  /\ WithoutAt(list, at) \in Seq(Action)
         /\ Len(WithoutAt(list, at)) = Len(list) - 1
         /\ \A i \in 1 .. at - 1 : WithoutAt(list, at)[i] = list[i]
         /\ \A i \in at .. Len(list) - 1 : WithoutAt(list, at)[i] = list[i + 1]
<1> DEFINE front == SubSeq(list, 1, at - 1)
           back == SubSeq(list, at + 1, Len(list))
<1>1. /\ front \in Seq(Action) /\ Len(front) = at - 1
      /\ \A i \in 1 .. at - 1 : front[i] = list[i]
  OBVIOUS
<1>2. /\ back \in Seq(Action) /\ Len(back) = Len(list) - at
      /\ \A i \in 1 .. Len(list) - at : back[i] = list[at + i]
  OBVIOUS
<1>3. WithoutAt(list, at) = front \o back
  BY DEF WithoutAt
<1> HIDE DEF front, back
<1>4. WithoutAt(list, at) \in Seq(Action) /\ Len(front \o back) = Len(front) + Len(back)
  <2>1. front \in Seq(Action) /\ back \in Seq(Action)
    BY <1>1, <1>2
  <2> QED BY <1>3, <2>1
<1>5. Len(WithoutAt(list, at)) = Len(list) - 1
  <2>1. Len(list) \in Nat
    OBVIOUS
  <2> QED BY <1>1, <1>2, <1>3, <1>4, <2>1
<1>6. \A i \in 1 .. at - 1 : WithoutAt(list, at)[i] = list[i]
  BY <1>1, <1>2, <1>3
<1>7. \A i \in at .. Len(list) - 1 : WithoutAt(list, at)[i] = list[i + 1]
  <2> SUFFICES ASSUME NEW i \in at .. Len(list) - 1
               PROVE  WithoutAt(list, at)[i] = list[i + 1]
    OBVIOUS
  <2>1. (front \o back)[i] = back[i - at + 1]
    BY <1>1, <1>2
  <2>2. back[i - at + 1] = list[at + (i - at + 1)]
    BY <1>2
  <2>3. at + (i - at + 1) = i + 1
    OBVIOUS
  <2> QED BY <2>1, <2>2, <2>3, <1>3
<1> QED BY <1>4, <1>5, <1>6, <1>7

LEMMA FiredOnce ==
  ASSUME NEW x \in Action, x.times \in Nat \ {0, 1}
  PROVE  LET fewer == [x EXCEPT !.times = x.times - 1]
         IN fewer \in Action /\ fewer.times # 0 /\ SameAction(fewer, x)
<1>1. x.times - 1 \in Nat /\ x.times - 1 # 0
  OBVIOUS
<1> DEFINE t == x.times - 1
<1> HIDE DEF t
<1>2. t \in Nat /\ t # 0
  BY <1>1 DEF t
<1>3. [x EXCEPT !.times = t] \in Action
  BY <1>2 DEF Action
<1>4. [x EXCEPT !.times = t].times = t /\ SameAction([x EXCEPT !.times = t], x)
  BY DEF Action, SameAction
<1> QED BY <1>2, <1>3, <1>4 DEF t

\* The turn takes nothing off the list but the action it has spent, and changes
\* nothing else but how often the action is to be fired.
LEMMA CountedDownList ==
  ASSUME NEW list \in Seq(Action), NEW at \in 1 .. Len(list),
         \A i \in DOMAIN list : list[i].times # 0
  PROVE  /\ CountedDown(list, at) \in Seq(Action)
         /\ Spent(list[at]) =>
              /\ Len(CountedDown(list, at)) = Len(list) - 1
              /\ \A i \in at .. Len(list) - 1 : CountedDown(list, at)[i] = list[i + 1]
         /\ ~ Spent(list[at]) =>
              /\ Len(CountedDown(list, at)) = Len(list)
              /\ \A i \in DOMAIN list : SameAction(CountedDown(list, at)[i], list[i])
         /\ \A i \in DOMAIN CountedDown(list, at) :
              /\ CountedDown(list, at)[i].times # 0
              /\ \E j \in DOMAIN list : SameAction(CountedDown(list, at)[i], list[j])
         /\ \A j \in DOMAIN list : list[j].times = EVENT_FIRE_ALWAYS =>
              \E i \in DOMAIN CountedDown(list, at) : CountedDown(list, at)[i] = list[j]
<1> DEFINE m == CountedDown(list, at)
           n == Len(list)
           fewer == [list[at] EXCEPT !.times = list[at].times - 1]
<1>1. n \in Nat /\ at \in 1 .. n /\ DOMAIN list = 1 .. n
  OBVIOUS
<1>2. list[at] \in Action
  OBVIOUS
<1>3. \A x : SameAction(x, x)
  BY DEF SameAction
<1>4. ASSUME Spent(list[at])
      PROVE  /\ m \in Seq(Action) /\ Len(m) = n - 1
             /\ \A i \in 1 .. at - 1 : m[i] = list[i]
             /\ \A i \in at .. n - 1 : m[i] = list[i + 1]
  BY <1>4, WithoutOne DEF CountedDown
<1>5. CASE Spent(list[at])
  <2> HIDE DEF m, n
  <2>1. ASSUME NEW i \in DOMAIN m
        PROVE  m[i].times # 0 /\ \E j \in DOMAIN list : SameAction(m[i], list[j])
    <3>1. i \in 1 .. n - 1
      BY <1>1, <1>4, <1>5
    <3>2. CASE i < at
      <4>1. m[i] = list[i] /\ i \in DOMAIN list
        BY <3>1, <3>2, <1>1, <1>4, <1>5
      <4> QED BY <4>1, <1>3
    <3>3. CASE ~ (i < at)
      <4>1. m[i] = list[i + 1] /\ i + 1 \in DOMAIN list
        BY <3>1, <3>3, <1>1, <1>4, <1>5
      <4> QED BY <4>1, <1>3
    <3> QED BY <3>2, <3>3
  <2>2. ASSUME NEW j \in DOMAIN list, list[j].times = EVENT_FIRE_ALWAYS
        PROVE  \E i \in DOMAIN m : m[i] = list[j]
    <3>1. j # at
      BY <1>5, <2>2 DEF Spent, EVENT_FIRE_ALWAYS
    <3>2. DOMAIN m = 1 .. n - 1
      BY <1>1, <1>4, <1>5
    <3>3. CASE j < at
      <4>1. j \in 1 .. at - 1 /\ j \in 1 .. n - 1
        BY <3>3, <1>1
      <4> QED BY <4>1, <3>2, <1>4, <1>5
    <3>4. CASE j > at
      <4>1. j - 1 \in at .. n - 1 /\ j - 1 \in 1 .. n - 1 /\ j - 1 + 1 = j
        BY <3>4, <1>1
      <4> QED BY <4>1, <3>2, <1>4, <1>5
    <3> QED BY <3>1, <3>3, <3>4, <1>1
  <2> QED BY <1>4, <1>5, <2>1, <2>2 DEF m, n
<1>6. CASE ~ Spent(list[at]) /\ list[at].times = EVENT_FIRE_ALWAYS
  <2>1. m = list
    BY <1>6 DEF CountedDown
  <2> QED BY <2>1, <1>3, <1>6
<1>7. CASE ~ Spent(list[at]) /\ list[at].times # EVENT_FIRE_ALWAYS
  <2>1. m = [list EXCEPT ![at] = fewer]
    BY <1>7 DEF CountedDown
  <2>2. list[at].times \in Nat \ {0, 1}
    <3>1. list[at].times # 0 /\ list[at].times # 1
      BY <1>1, <1>7 DEF Spent
    <3> QED BY <3>1, <1>2, <1>7, ActionFields
  <2>3. fewer \in Action /\ fewer.times # 0 /\ SameAction(fewer, list[at])
    BY <2>2, <1>2, FiredOnce
  <2> HIDE DEF fewer
  <2>4. m \in Seq(Action) /\ Len(m) = n /\ m[at] = fewer
    BY <2>1, <2>3, <1>1
  <2>5. \A i \in 1 .. n : i # at => m[i] = list[i]
    BY <2>1, <1>1
  <2> HIDE DEF m, n
  <2>6. DOMAIN m = 1 .. n
    BY <2>4
  <2>7. \A i \in 1 .. n : m[i].times # 0 /\ SameAction(m[i], list[i])
    BY <2>3, <2>4, <2>5, <1>1, <1>3
  <2>8. \A j \in 1 .. n : list[j].times = EVENT_FIRE_ALWAYS => m[j] = list[j]
    BY <2>5, <1>7
  <2> QED BY <2>4, <2>6, <2>7, <2>8, <1>1, <1>7 DEF m, n
<1> QED BY <1>5, <1>6, <1>7

\* GetMaxDelay is the greatest delay of the list, or 0.
LEMMA GreatestDelay ==
  ASSUME NEW list \in Seq(Action)
  PROVE  /\ GetMaxDelay(list) \in Nat
         /\ \A i \in DOMAIN list : list[i].delay <= GetMaxDelay(list)
<1> DEFINE D(n) == {0} \cup {list[i].delay : i \in 1 .. n}
           Greatest(n) == \E x \in D(n) : \A y \in D(n) : y <= x
           bad == {n \in 0 .. Len(list) : ~ Greatest(n)}
<1>1. \A i \in 1 .. Len(list) : list[i].delay \in Nat
  BY ActionFields
<1>2. \A n \in 0 .. Len(list) : D(n) \in SUBSET Nat
  BY <1>1
<1>3. Greatest(0)
  OBVIOUS
<1>4. ASSUME NEW n \in 1 .. Len(list), Greatest(n - 1) PROVE Greatest(n)
  <2>1. PICK x \in D(n - 1) : \A y \in D(n - 1) : y <= x
    BY <1>4
  <2>2. D(n) = D(n - 1) \cup {list[n].delay}
    OBVIOUS
  <2>3. n - 1 \in 0 .. Len(list)
    OBVIOUS
  <2>4. x \in Nat /\ list[n].delay \in Nat
    BY <1>1, <1>2, <2>1, <2>3
  <2> HIDE DEF D
  <2>5. CASE list[n].delay <= x
    BY <2>1, <2>2, <2>5
  <2>6. CASE ~ (list[n].delay <= x)
    <3>1. \A y \in D(n - 1) : y <= list[n].delay
      BY <1>2, <2>1, <2>3, <2>4, <2>6
    <3> QED BY <3>1, <2>2, <2>4
  <2> QED BY <2>5, <2>6
<1>5. bad = {}
  <2> SUFFICES ASSUME bad # {} PROVE FALSE
    OBVIOUS
  <2> HIDE DEF Greatest
  <2>1. bad \in SUBSET Nat
    OBVIOUS
  <2>2. PICK n \in bad : \A k \in bad : n <= k
    <3> HIDE DEF bad
    <3> QED BY <2>1, LeastNumber
  <2>3. n \in 0 .. Len(list) /\ n # 0 /\ ~ Greatest(n)
    BY <1>3
  <2>4. n \in 1 .. Len(list) /\ n - 1 \in 0 .. Len(list) /\ ~ (n <= n - 1)
    BY <2>3
  <2>5. Greatest(n - 1)
    BY <2>2, <2>4
  <2> QED BY <2>3, <2>4, <2>5, <1>4
<1>6. Greatest(Len(list))
  <2> HIDE DEF Greatest
  <2>1. Len(list) \in 0 .. Len(list)
    OBVIOUS
  <2> QED BY <1>5, <2>1
<1>7. GetMaxDelay(list) = CHOOSE x \in D(Len(list)) : \A y \in D(Len(list)) : y <= x
  <2>1. {list[i].delay : i \in DOMAIN list} = {list[i].delay : i \in 1 .. Len(list)}
    OBVIOUS
  <2>2. GetMaxDelay(list) = MaxOf(D(Len(list)))
    BY <2>1 DEF GetMaxDelay
  <2> HIDE DEF D
  <2> QED BY <2>2 DEF MaxOf
<1>8. /\ GetMaxDelay(list) \in D(Len(list))
      /\ \A y \in D(Len(list)) : y <= GetMaxDelay(list)
  <2> HIDE DEF D
  <2> QED BY <1>6, <1>7
<1>9. Len(list) \in 0 .. Len(list)
  OBVIOUS
<1>10. \A i \in DOMAIN list : list[i].delay \in D(Len(list))
  OBVIOUS
<1> HIDE DEF D
<1> QED BY <1>2, <1>8, <1>9, <1>10

-----------------------------------------------------------------------------
(* The steps keep Base.                                                    *)

LEMMA BaseInit == Init => Base
<1> SUFFICES ASSUME Init PROVE Base
  OBVIOUS
<1> USE DEF Init, Schedule!Init
<1>1. QueueOK
  BY DEF QueueOK
<1>2. OutputsOK
  <2>1. ASSUME NEW r \in Relays, NEW o \in Outputs
        PROVE  outputs[r][o] = Declared(r, o)
    BY DEF Outputs, Declared
  <2>2. ASSUME NEW r \in Relays PROVE outputs[r] \in [Outputs -> Seq(Action)]
    <3>1. OnTrigger[r] \in Seq(Action) /\ OnSpawn[r] \in Seq(Action)
      BY OutputAssumption
    <3>2. outputs[r] = [OnTrigger |-> OnTrigger[r], OnSpawn |-> OnSpawn[r]]
      OBVIOUS
    <3> QED BY <3>1, <3>2 DEF Outputs
  <2>3. outputs \in [Relays -> [Outputs -> Seq(Action)]]
    BY <2>2
  <2> HIDE DEF Init
  <2>4. ASSUME NEW r \in Relays, NEW o \in Outputs, NEW i \in DOMAIN outputs[r][o]
        PROVE  /\ outputs[r][o][i].times # 0
               /\ \E j \in DOMAIN Declared(r, o) :
                    SameAction(outputs[r][o][i], Declared(r, o)[j])
    BY <2>1, DeclaredActions DEF SameAction
  <2> QED BY <2>3, <2>4 DEF OutputsOK
<1>3. RelaysOK
  BY DEF RelaysOK
<1>4. PhaseOK
  BY DEF PhaseOK
<1>5. CallOK
  BY DEF CallOK
<1> QED BY <1>1, <1>2, <1>3, <1>4, <1>5 DEF Base

\* What one turn of FireOutput's loop works on, and does.
LEMMA FireActionFacts ==
  ASSUME Base, FireAction
  PROVE  /\ call.relay \in Relays /\ call.output \in Outputs /\ call \in OutputCalls
         /\ List \in Seq(Action) /\ call.at \in 1 .. Len(List)
         /\ \A i \in DOMAIN List : List[i].times # 0
         /\ Current \in Action /\ EventOf(Current) \in Posts /\ Asked(EventOf(Current))
         /\ \E j \in DOMAIN Declared(call.relay, call.output) :
              SameAction(Current, Declared(call.relay, call.output)[j])
         /\ Schedule!Post(EventOf(Current), Current.delay)
         /\ outputs' = [outputs EXCEPT ![call.relay] =
              [outputs[call.relay] EXCEPT ![call.output] = CountedDown(List, call.at)]]
         /\ List' = CountedDown(List, call.at)
         /\ call' = [call EXCEPT !.at = NextAt] /\ call' \in OutputCalls
         /\ call'.relay = call.relay /\ call'.output = call.output
         /\ call'.list = call.list /\ call'.at = NextAt
<1> DEFINE r == call.relay
           o == call.output
<1>1. call # NULL /\ call.at <= Len(List)
  BY DEF FireAction
<1>2. call \in OutputCalls /\ call.at \in 1 .. Len(List) + 1
  BY <1>1 DEF Base, CallOK
<1>3. r \in Relays /\ o \in Outputs /\ call.at \in Nat /\ call.list \in Seq(Nat)
  BY <1>2 DEF OutputCalls
<1>4. List = outputs[r][o]
  BY DEF List
<1>5. outputs \in [Relays -> [Outputs -> Seq(Action)]]
  BY DEF Base, OutputsOK
<1>6. List \in Seq(Action)
  BY <1>3, <1>4, <1>5
<1>7. call.at \in 1 .. Len(List)
  BY <1>1, <1>2, <1>6
<1>8. Current = List[call.at]
  BY DEF Current
<1>9. Current \in Action
  BY <1>6, <1>7, <1>8
<1>10. \A i \in DOMAIN List : /\ List[i].times # 0
                              /\ \E j \in DOMAIN Declared(r, o) :
                                   SameAction(List[i], Declared(r, o)[j])
  BY <1>3, <1>4 DEF Base, OutputsOK
<1>11. PICK j \in DOMAIN Declared(r, o) : SameAction(Current, Declared(r, o)[j])
  BY <1>6, <1>7, <1>8, <1>10
<1>12. Current.input # "EnableRefire"
  BY <1>3, <1>11, DeclaredActions DEF SameAction
<1>13. EventOf(Current) \in Posts
  BY <1>3, <1>9, ActionFields DEF EventOf, Posts
<1>14. Asked(EventOf(Current))
  BY <1>12 DEF Asked, EventOf
<1>15. Schedule!Post(EventOf(Current), Current.delay)
  BY DEF FireAction
<1>16. outputs' = [outputs EXCEPT ![r] = [outputs[r] EXCEPT ![o] = CountedDown(List, call.at)]]
  <2>1. outputs' = [outputs EXCEPT ![r][o] = CountedDown(List, call.at)]
    BY DEF FireAction
  <2> QED BY <2>1
<1>17. call' = [call EXCEPT !.at = NextAt]
  BY DEF FireAction
<1>18. NextAt \in Nat
  BY <1>3 DEF NextAt
<1>19. /\ call' \in OutputCalls /\ call'.relay = r /\ call'.output = o
       /\ call'.list = call.list /\ call'.at = NextAt
  BY <1>2, <1>17, <1>18 DEF OutputCalls
<1>20. outputs'[r][o] = CountedDown(List, call.at)
  BY <1>3, <1>5, <1>16
<1>21. List' = CountedDown(List, call.at)
  BY <1>19, <1>20 DEF List
<1> QED BY <1>2, <1>3, <1>6, <1>7, <1>9, <1>10, <1>11, <1>13, <1>14, <1>15, <1>16,
           <1>17, <1>19, <1>21

LEMMA FireActionBase ==
  ASSUME Base, FireAction
  PROVE  Base'
<1> DEFINE r == call.relay
           o == call.output
           at == call.at
<1>1. /\ r \in Relays /\ o \in Outputs
      /\ List \in Seq(Action) /\ at \in 1 .. Len(List)
      /\ \A i \in DOMAIN List : List[i].times # 0
      /\ Current \in Action /\ EventOf(Current) \in Posts /\ Asked(EventOf(Current))
      /\ Schedule!Post(EventOf(Current), Current.delay)
      /\ outputs' = [outputs EXCEPT ![r] = [outputs[r] EXCEPT ![o] = CountedDown(List, at)]]
      /\ List' = CountedDown(List, at)
  BY FireActionFacts
<1>2. /\ call' \in OutputCalls /\ call'.relay = r /\ call'.output = o /\ call'.at = NextAt
  BY FireActionFacts
<1>3. /\ CountedDown(List, at) \in Seq(Action)
      /\ Spent(List[at]) => Len(CountedDown(List, at)) = Len(List) - 1
      /\ ~ Spent(List[at]) => Len(CountedDown(List, at)) = Len(List)
      /\ \A i \in DOMAIN CountedDown(List, at) :
           /\ CountedDown(List, at)[i].times # 0
           /\ \E j \in DOMAIN List : SameAction(CountedDown(List, at)[i], List[j])
  BY <1>1, CountedDownList
<1>4. Current.delay \in Nat /\ Current.id \in Nat
  BY <1>1, ActionFields
<1>5. QueueOK' /\ phase' = phase
  <2>1. Current.delay \in Int /\ QueueOK
    BY <1>4 DEF Base
  <2> QED BY <2>1, <1>1, PostKeeps
<1>6. PhaseOK'
  <2>1. QueueOK /\ PhaseOK /\ handled' = handled
    BY DEF Base, FireAction
  <2> QED BY <2>1, <1>1, <1>4, PostKeepsPhase
<1>7. OutputsOK'
  <2>1. outputs \in [Relays -> [Outputs -> Seq(Action)]]
    BY DEF Base, OutputsOK
  <2>2. outputs' \in [Relays -> [Outputs -> Seq(Action)]]
    BY <1>1, <1>3, <2>1
  <2>3. ASSUME NEW r2 \in Relays, NEW o2 \in Outputs, NEW i \in DOMAIN outputs'[r2][o2]
        PROVE  /\ outputs'[r2][o2][i].times # 0
               /\ \E j \in DOMAIN Declared(r2, o2) :
                    SameAction(outputs'[r2][o2][i], Declared(r2, o2)[j])
    <3>1. CASE r2 = r /\ o2 = o
      <4>1. outputs'[r2][o2] = CountedDown(List, at)
        BY <3>1, <1>1, <2>1
      <4>2. outputs'[r2][o2][i].times # 0
        BY <4>1, <1>3, <2>3
      <4>3. PICK k \in DOMAIN List : SameAction(outputs'[r2][o2][i], List[k])
        BY <4>1, <1>3, <2>3
      <4>4. \E j \in DOMAIN Declared(r2, o2) : SameAction(List[k], Declared(r2, o2)[j])
        BY <3>1, <1>1, <4>3 DEF Base, OutputsOK, List
      <4> QED BY <4>2, <4>3, <4>4 DEF SameAction
    <3>2. CASE ~ (r2 = r /\ o2 = o)
      <4>1. outputs'[r2][o2] = outputs[r2][o2]
        BY <3>2, <1>1, <2>1
      <4> QED BY <4>1, <2>3 DEF Base, OutputsOK
    <3> QED BY <3>1, <3>2
  <2> QED BY <2>2, <2>3 DEF OutputsOK
<1>8. RelaysOK'
  BY DEF Base, RelaysOK, FireAction, relays
<1>9. CallOK'
  <2>1. posted' \in Seq(Nat)
    <3>1. posted \in Seq(Nat) /\ posted' = Append(posted, Current.id)
      BY DEF Base, CallOK, FireAction
    <3> QED BY <3>1, <1>4
  <2>2. call'.at \in 1 .. Len(List') + 1
    <3>1. Len(List) \in Nat /\ Current = List[at]
      BY <1>1 DEF Current
    <3> QED BY <1>1, <1>2, <1>3, <3>1 DEF NextAt
  <2>3. /\ o = "OnSpawn" => phase = "before"
        /\ o = "OnTrigger" => phase = "firing" /\ handled /\ r \notin waiting
    BY DEF Base, CallOK, FireAction
  <2>4. handled' = handled /\ waiting' = waiting
    BY DEF FireAction, relays
  <2> QED BY <1>2, <1>5, <2>1, <2>2, <2>3, <2>4 DEF CallOK
<1> QED BY <1>5, <1>6, <1>7, <1>8, <1>9 DEF Base

\* A wake-up is posted no earlier than the last of what it follows.
LEMMA RefireDelay ==
  ASSUME NEW list \in Seq(Action), NEW d \in RefireDelays(GetMaxDelay(list))
  PROVE  d \in Nat /\ GetMaxDelay(list) <= d
BY GreatestDelay DEF RefireDelays

LEMMA EnableRefireAsked ==
  ASSUME NEW r \in Relays
  PROVE  EnableRefire(r) \in Posts /\ Asked(EnableRefire(r))
<1>1. EnableRefire(r) \in Posts
  BY RelayAssumption DEF EnableRefire, Posts
<1>2. EnableRefire(r).target = r /\ EnableRefire(r).input = "EnableRefire"
  BY DEF EnableRefire
<1> QED BY <1>1, <1>2 DEF Asked

\* What TriggerEnds does, for the output that was fired.
LEMMA TriggerEndsFacts ==
  ASSUME Base, TriggerEnds
  PROVE  /\ call # NULL /\ call.relay \in Relays /\ call.output = "OnTrigger"
         /\ List \in Seq(Action) /\ call.at = Len(List) + 1
         /\ phase = "firing" /\ handled /\ call.relay \notin waiting
         /\ \/ /\ call.relay \in RemoveOnFire
               /\ removed' = removed \cup {call.relay}
               /\ UNCHANGED <<queue, waiting>>
            \/ /\ call.relay \in AllowFastRetrigger
               /\ UNCHANGED <<queue, removed, waiting>>
            \/ /\ call.relay \notin AllowFastRetrigger
               /\ \E d \in Nat : /\ GetMaxDelay(List) <= d
                                 /\ d \in RefireDelays(GetMaxDelay(List))
                                 /\ Schedule!Post(EnableRefire(call.relay), d)
               /\ waiting' = waiting \cup {call.relay}
               /\ removed' = removed
<1>1. call # NULL /\ call.at > Len(List) /\ call.output = "OnTrigger"
  BY DEF TriggerEnds, FireOutputEnds
<1>2. call \in OutputCalls /\ call.at \in 1 .. Len(List) + 1
  BY <1>1 DEF Base, CallOK
<1>3. call.relay \in Relays /\ call.output \in Outputs
  BY <1>2 DEF OutputCalls
<1>4. List \in Seq(Action)
  BY <1>3 DEF Base, OutputsOK, List
<1>5. call.at = Len(List) + 1
  BY <1>1, <1>2, <1>4
<1>6. phase = "firing" /\ handled /\ call.relay \notin waiting
  BY <1>1 DEF Base, CallOK
<1>7. \A d \in RefireDelays(GetMaxDelay(List)) : d \in Nat /\ GetMaxDelay(List) <= d
  BY <1>4, RefireDelay
<1> QED BY <1>1, <1>3, <1>4, <1>5, <1>6, <1>7 DEF TriggerEnds

LEMMA TriggerEndsBase ==
  ASSUME Base, TriggerEnds
  PROVE  Base'
<1>1. /\ call.relay \in Relays /\ phase = "firing" /\ handled
      /\ \/ /\ removed' = removed \cup {call.relay}
            /\ UNCHANGED <<queue, waiting>>
         \/ UNCHANGED <<queue, removed, waiting>>
         \/ /\ \E d \in Nat : Schedule!Post(EnableRefire(call.relay), d)
            /\ waiting' = waiting \cup {call.relay}
            /\ removed' = removed
  BY TriggerEndsFacts
<1>2. call' = NULL /\ posted' = << >> /\ phase' = phase /\ handled' = handled
  BY DEF TriggerEnds
<1>3. UNCHANGED <<disabled, thinking, outputs, fired>>
  BY DEF TriggerEnds
<1>4. QueueOK' /\ PhaseOK'
  <2>1. QueueOK /\ PhaseOK
    BY DEF Base
  <2>2. CASE queue' = queue
    BY <1>2, <2>1, <2>2 DEF QueueOK, PhaseOK
  <2>3. CASE \E d \in Nat : Schedule!Post(EnableRefire(call.relay), d)
    <3>1. PICK d \in Nat : Schedule!Post(EnableRefire(call.relay), d)
      BY <2>3
    <3>2. d \in Int /\ EnableRefire(call.relay) \in Posts /\ Asked(EnableRefire(call.relay))
      BY <1>1, EnableRefireAsked
    <3>3. QueueOK'
      BY <2>1, <3>1, <3>2, PostKeeps
    <3>4. PhaseOK'
      BY <1>2, <2>1, <3>1, <3>2, PostKeepsPhase
    <3> QED BY <3>3, <3>4
  <2> QED BY <1>1, <2>2, <2>3
<1>5. OutputsOK'
  BY <1>3 DEF Base, OutputsOK
<1>6. RelaysOK'
  BY <1>1, <1>3 DEF Base, RelaysOK
<1>7. CallOK'
  BY <1>2 DEF CallOK
<1> QED BY <1>4, <1>5, <1>6, <1>7 DEF Base

LEMMA ThinkEndsBase ==
  ASSUME Base, ThinkEnds
  PROVE  Base'
<1>1. call # NULL
  BY DEF ThinkEnds, FireOutputEnds
<1>2. call.relay \in Relays
  BY <1>1 DEF Base, CallOK, OutputCalls
<1>3. removed' \subseteq Relays
  BY <1>2 DEF Base, RelaysOK, ThinkEnds
<1>4. /\ call' = NULL /\ posted' = << >>
      /\ UNCHANGED <<queue, phase, handled, disabled, waiting, thinking, outputs, fired>>
  BY DEF ThinkEnds
<1> QED BY <1>3, <1>4 DEF Base, QueueOK, OutputsOK, RelaysOK, PhaseOK, CallOK

\* Inputs that only set flags of relays.
LEMMA FlagsBase ==
  ASSUME Base, phase = "firing", call = NULL, handled' = TRUE,
         UNCHANGED <<queue, phase, thinking, outputs, call, posted>>,
         disabled' \subseteq Relays, waiting' \subseteq Relays, removed' \subseteq Relays,
         fired' \subseteq Relays
  PROVE  Base'
BY DEF Base, QueueOK, OutputsOK, RelaysOK, PhaseOK, CallOK

LEMMA SmallInputsBase ==
  ASSUME Base, NEW r \in Relays,
         \/ InputEnable(r) \/ InputDisable(r) \/ InputToggle(r) \/ InputKill(r)
         \/ InputEnableRefire(r)
  PROVE  Base'
<1>1. /\ phase = "firing" /\ call = NULL /\ handled' = TRUE
      /\ UNCHANGED <<queue, phase, thinking, outputs, call, posted, fired>>
  BY DEF InputEnable, InputDisable, InputToggle, InputKill, InputEnableRefire, Receives, Reaches,
         Keep, firing
<1>2. RelaysOK
  BY DEF Base
<1>3. disabled' \subseteq Relays /\ waiting' \subseteq Relays /\ removed' \subseteq Relays
  BY <1>2 DEF InputEnable, InputDisable, InputToggle, InputKill, InputEnableRefire, RelaysOK
<1> QED BY <1>1, <1>2, <1>3, FlagsBase DEF RelaysOK

LEMMA OtherInputBase ==
  ASSUME Base, OtherInput
  PROVE  Base'
<1>1. RelaysOK
  BY DEF Base
<1> QED BY <1>1, FlagsBase DEF OtherInput, relays, firing, RelaysOK

LEMMA IdsTyped ==
  ASSUME NEW list \in Seq(Action)
  PROVE  /\ Ids(list) \in Seq(Nat) /\ Len(Ids(list)) = Len(list)
         /\ \A i \in DOMAIN list : Ids(list)[i] = list[i].id
<1>1. \A i \in DOMAIN list : list[i].id \in Nat
  BY ActionFields
<1> QED BY <1>1 DEF Ids

\* A call begins at the first action of the list.
LEMMA CallBegins ==
  ASSUME OutputsOK, NEW r \in Relays, NEW o \in Outputs, FireOutput(r, o), outputs' = outputs
  PROVE  /\ call' \in OutputCalls /\ call'.relay = r /\ call'.output = o /\ call'.at = 1
         /\ call'.list = Ids(outputs[r][o]) /\ posted' = << >>
         /\ List' = outputs[r][o] /\ outputs[r][o] \in Seq(Action)
         /\ call'.at \in 1 .. Len(List') + 1
<1>1. outputs[r][o] \in Seq(Action)
  BY DEF OutputsOK
<1>2. Ids(outputs[r][o]) \in Seq(Nat)
  BY <1>1, IdsTyped
<1>3. /\ call' = [relay |-> r, output |-> o, at |-> 1, list |-> Ids(outputs[r][o])]
      /\ posted' = << >>
  BY DEF FireOutput
<1>4. /\ call' \in OutputCalls /\ call'.relay = r /\ call'.output = o /\ call'.at = 1
      /\ call'.list = Ids(outputs[r][o])
  BY <1>2, <1>3 DEF OutputCalls
<1>5. List' = outputs[r][o]
  BY <1>4 DEF List
<1> QED BY <1>1, <1>3, <1>4, <1>5

LEMMA InputTriggerBase ==
  ASSUME Base, NEW r \in Relays, InputTrigger(r)
  PROVE  Base'
<1>1. /\ phase = "firing" /\ call = NULL /\ handled' = TRUE
      /\ UNCHANGED <<queue, phase, relays, outputs>>
  BY DEF InputTrigger, Receives, Reaches
<1>2. RelaysOK /\ OutputsOK
  BY DEF Base
<1>3. CASE ~ Enabled(r)
  <2>1. UNCHANGED <<call, posted, fired>>
    BY <1>3 DEF InputTrigger
  <2> QED BY <1>1, <1>2, <2>1, FlagsBase DEF RelaysOK, relays
<1>4. CASE Enabled(r)
  <2>1. FireOutput(r, "OnTrigger") /\ fired' = fired \cup {r} /\ r \notin waiting
    BY <1>4 DEF InputTrigger, Enabled
  <2>2. "OnTrigger" \in Outputs
    BY DEF Outputs
  <2>3. /\ call' \in OutputCalls /\ call'.relay = r /\ call'.output = "OnTrigger"
        /\ call'.at \in 1 .. Len(List') + 1 /\ posted' = << >>
    BY <1>1, <1>2, <2>1, <2>2, CallBegins
  <2>4. CallOK'
    BY <1>1, <2>1, <2>3 DEF CallOK, relays
  <2>5. RelaysOK'
    BY <1>1, <1>2, <2>1 DEF RelaysOK, relays
  <2>6. QueueOK' /\ OutputsOK' /\ PhaseOK'
    BY <1>1 DEF Base, QueueOK, OutputsOK, PhaseOK
  <2> QED BY <2>4, <2>5, <2>6 DEF Base
<1> QED BY <1>3, <1>4

LEMMA ThinkBase ==
  ASSUME Base, NEW r \in Relays, Think(r)
  PROVE  Base'
<1>1. /\ phase = "before" /\ call = NULL /\ FireOutput(r, "OnSpawn")
      /\ thinking' = thinking \ {r}
      /\ UNCHANGED <<queue, phase, handled, disabled, waiting, removed, outputs, fired>>
  BY DEF Think
<1>2. OutputsOK
  BY DEF Base
<1>3. "OnSpawn" \in Outputs
  BY DEF Outputs
<1>4. /\ call' \in OutputCalls /\ call'.relay = r /\ call'.output = "OnSpawn"
      /\ call'.at \in 1 .. Len(List') + 1 /\ posted' = << >>
  BY <1>1, <1>2, <1>3, CallBegins
<1>5. CallOK'
  BY <1>1, <1>4 DEF CallOK
<1> QED BY <1>1, <1>5 DEF Base, QueueOK, OutputsOK, RelaysOK, PhaseOK

\* What the event being fired cancels does not touch it, when nobody cancels
\* what is being fired.
\* CancelPending takes what the relay has posted out of the queue: the event being
\* fired too when it is one of the relay's own.
LEMMA CancelKeeps ==
  ASSUME Base, NEW r \in Relays, InputCancelPending(r)
  PROVE  /\ QueueOK' /\ queue # << >>
         /\ queue[1].post.input = "CancelPending" /\ queue[1].post.target = r
         /\ \/ /\ phase' = "firing" /\ handled' = TRUE
               /\ queue' # << >> /\ queue'[1] = queue[1]
            \/ phase' = "cancelled" /\ handled' = FALSE /\ queue[1].post.caller = r
         /\ \E g : ThinnedBy(queue', queue, SentBy(r), g)
         /\ \A i \in DOMAIN queue : queue[i].post \in SentBy(r) <=> queue[i].post.caller = r
<1>1. /\ phase = "firing" /\ Served.target = r /\ Served.input = "CancelPending"
      /\ queue' = Schedule!Without(queue, SentBy(r))
      /\ phase' = IF Served \in SentBy(r) THEN "cancelled" ELSE phase
      /\ handled' = (phase' = "firing")
  BY DEF InputCancelPending, Reaches, Schedule!Cancel, Served
<1>2. queue \in Seq(Events) /\ queue # << >> /\ \A i \in DOMAIN queue : Asked(queue[i].post)
  BY <1>1 DEF Base, QueueOK, PhaseOK
<1>3. 1 \in DOMAIN queue /\ Served = queue[1].post
  BY <1>2 DEF Served
<1>4. \A i \in DOMAIN queue : queue[i].post \in SentBy(r) <=> queue[i].post.caller = r
  BY DEF SentBy, AllPosts
<1>5. /\ queue[1].post.caller = r => phase' = "cancelled" /\ handled' = FALSE
      /\ queue[1].post.caller # r => phase' = "firing" /\ handled' = TRUE
  BY <1>1, <1>3, <1>4
<1>6. PICK g : ThinnedBy(queue', queue, SentBy(r), g)
  BY <1>1, <1>2, Thinned
<1>7. /\ queue' \in Seq(Events) /\ g \in [1 .. Len(queue') -> DOMAIN queue]
      /\ \A k \in 1 .. Len(queue') : queue'[k] = queue[g[k]]
      /\ \A k, l \in 1 .. Len(queue') : k < l => g[k] < g[l]
  BY <1>6 DEF ThinnedBy
<1>8. ASSUME queue[1].post.caller # r
      PROVE  queue' # << >> /\ queue'[1] = queue[1]
  <2>1. PICK k \in 1 .. Len(queue') : g[k] = 1
    BY <1>3, <1>4, <1>6, <1>8 DEF ThinnedBy
  <2>2. k = 1
    <3> SUFFICES ASSUME k # 1 PROVE FALSE
      OBVIOUS
    <3>1. 1 \in 1 .. Len(queue') /\ 1 < k
      BY <1>7, <2>1
    <3>2. g[1] < g[k] /\ g[1] \in 1 .. Len(queue)
      BY <1>2, <1>7, <2>1, <3>1
    <3> QED BY <2>1, <3>2
  <2> QED BY <1>7, <2>1, <2>2
<1>9. \A i \in DOMAIN queue' : Asked(queue'[i].post)
  BY <1>2, <1>7
<1>10. QueueOK'
  BY <1>7, <1>9 DEF QueueOK
<1>11. \/ /\ phase' = "firing" /\ handled' = TRUE
          /\ queue' # << >> /\ queue'[1] = queue[1]
       \/ phase' = "cancelled" /\ handled' = FALSE /\ queue[1].post.caller = r
  BY <1>5, <1>8
<1> QED BY <1>1, <1>2, <1>3, <1>4, <1>6, <1>10, <1>11

LEMMA InputCancelPendingBase ==
  ASSUME Base, NEW r \in Relays, InputCancelPending(r)
  PROVE  Base'
<1>1. /\ QueueOK'
      /\ \/ phase' = "firing" /\ handled' = TRUE /\ queue' # << >> /\ queue'[1] = queue[1]
         \/ phase' = "cancelled" /\ handled' = FALSE
  BY CancelKeeps
<1>2. /\ phase = "firing" /\ call = NULL
      /\ waiting' = waiting \ {r} /\ fired' = fired \ {r}
      /\ UNCHANGED <<disabled, removed, thinking, outputs, call, posted>>
  BY DEF InputCancelPending, Reaches, StopsWaiting
<1>3. PhaseOK'
  BY <1>1, <1>2 DEF Base, PhaseOK
<1>4. OutputsOK' /\ RelaysOK' /\ CallOK'
  BY <1>2 DEF Base, OutputsOK, RelaysOK, CallOK
<1> QED BY <1>1, <1>3, <1>4 DEF Base

LEMMA OutsidePostFacts ==
  ASSUME Base, OutsidePost
  PROVE  \E what \in Posts, delay \in Nat :
           /\ what.caller = WORLD /\ Asked(what) /\ Schedule!Post(what, delay)
<1>1. PICK x \in Outside, delay \in OutsideDelays :
        Schedule!Post([caller |-> WORLD, target |-> x.target, input |-> x.input,
                       output |-> 0], delay)
  BY DEF OutsidePost
<1> DEFINE what == [caller |-> WORLD, target |-> x.target, input |-> x.input, output |-> 0]
<1>2. /\ x.target \in Relays \cup {WORLD} /\ x.input \in Inputs /\ x.input # "EnableRefire"
  BY InputAssumption
<1>3. what \in Posts /\ what.caller = WORLD
  BY <1>2 DEF Posts
<1>4. delay \in Nat
  BY RelayAssumption
<1>5. Asked(what)
  BY <1>2 DEF Asked
<1> QED BY <1>1, <1>3, <1>4, <1>5

LEMMA OutsidePostBase ==
  ASSUME Base, OutsidePost
  PROVE  Base'
<1>1. PICK what \in Posts, delay \in Nat : Asked(what) /\ Schedule!Post(what, delay)
  BY OutsidePostFacts
<1>2. call = NULL /\ UNCHANGED <<handled, relays, firing>>
  BY DEF OutsidePost
<1>3. QueueOK /\ PhaseOK /\ delay \in Int
  BY DEF Base
<1>4. QueueOK'
  BY <1>1, <1>3, PostKeeps
<1>5. PhaseOK'
  BY <1>1, <1>2, <1>3, PostKeepsPhase
<1>6. OutputsOK' /\ RelaysOK' /\ CallOK'
  BY <1>2 DEF Base, OutputsOK, RelaysOK, CallOK, relays, firing
<1> QED BY <1>4, <1>5, <1>6 DEF Base

LEMMA FiredBase ==
  ASSUME Base, Fired
  PROVE  Base'
<1>1. /\ call = NULL /\ phase = "firing" /\ phase' = "between" /\ queue' = Tail(queue)
      /\ handled' = FALSE /\ UNCHANGED <<relays, firing>>
  BY DEF Fired, Schedule!Fired
<1>2. queue \in Seq(Events) /\ queue # << >> /\ \A i \in DOMAIN queue : Asked(queue[i].post)
  BY <1>1 DEF Base, QueueOK, PhaseOK
<1>3. /\ queue' \in Seq(Events) /\ Len(queue') = Len(queue) - 1
      /\ \A i \in 1 .. Len(queue) - 1 : queue'[i] = queue[i + 1]
  BY <1>1, <1>2
<1>4. ASSUME NEW i \in DOMAIN queue' PROVE Asked(queue'[i].post)
  <2>1. i \in 1 .. Len(queue) - 1 /\ i + 1 \in DOMAIN queue
    BY <1>2, <1>3
  <2> QED BY <1>2, <1>3, <2>1
<1>5. QueueOK'
  BY <1>3, <1>4 DEF QueueOK
<1>6. PhaseOK'
  BY <1>1 DEF PhaseOK
<1>7. OutputsOK' /\ RelaysOK' /\ CallOK'
  BY <1>1 DEF Base, OutputsOK, RelaysOK, CallOK, relays, firing
<1> QED BY <1>5, <1>6, <1>7 DEF Base

\* Time moves on for all events alike.
LEMMA TickFacts ==
  ASSUME QueueOK, Tick
  PROVE  /\ queue' \in Seq(Events) /\ Len(queue') = Len(queue)
         /\ \A i \in DOMAIN queue : /\ queue'[i].post = queue[i].post
                                    /\ queue'[i].in = queue[i].in - FrameTime
         /\ phase = "after" /\ phase' = "before" /\ FrameTime \in Nat
         /\ fired' = {} /\ UNCHANGED <<handled, relays, outputs, call, posted>>
<1>1. queue \in Seq(Events)
  BY DEF QueueOK
<1>2. queue' = [i \in DOMAIN queue |-> [queue[i] EXCEPT !.in = queue[i].in - FrameTime]]
  BY DEF Tick, Schedule!Tick
<1>3. FrameTime \in Nat
  BY TimeAssumption
<1>4. ASSUME NEW x \in Events
      PROVE  LET y == [x EXCEPT !.in = x.in - FrameTime]
             IN y \in Events /\ y.post = x.post /\ y.in = x.in - FrameTime
  <2>1. x.in - FrameTime \in Int
    BY <1>3, EventFields
  <2> DEFINE t == x.in - FrameTime
  <2> HIDE DEF t
  <2>2. t \in Int
    BY <2>1 DEF t
  <2>3. LET y == [x EXCEPT !.in = t] IN y \in Events /\ y.post = x.post /\ y.in = t
    BY <2>2 DEF Events
  <2> QED BY <2>3 DEF t
<1>5. \A i \in DOMAIN queue : /\ queue'[i] \in Events
                              /\ queue'[i].post = queue[i].post
                              /\ queue'[i].in = queue[i].in - FrameTime
  <2> SUFFICES ASSUME NEW i \in DOMAIN queue
               PROVE  /\ queue'[i] \in Events
                      /\ queue'[i].post = queue[i].post
                      /\ queue'[i].in = queue[i].in - FrameTime
    OBVIOUS
  <2>1. queue[i] \in Events
    BY <1>1
  <2>2. queue'[i] = [queue[i] EXCEPT !.in = queue[i].in - FrameTime]
    BY <1>2
  <2> QED BY <2>1, <2>2, <1>4
<1>6. DOMAIN queue' = 1 .. Len(queue) /\ Len(queue) \in Nat
  BY <1>1, <1>2
<1>7. queue' \in Seq(Events) /\ Len(queue') = Len(queue)
  <2> DEFINE d == [i \in DOMAIN queue |-> queue'[i]]
  <2>1. queue' = d
    BY <1>2
  <2>2. d \in [1 .. Len(queue) -> Events]
    BY <1>1, <1>5
  <2> HIDE DEF d
  <2>3. d \in Seq(Events) /\ Len(d) = Len(queue)
    BY <2>2, <1>6
  <2> QED BY <2>1, <2>3
<1>8. /\ phase = "after" /\ phase' = "before"
      /\ fired' = {} /\ UNCHANGED <<handled, relays, outputs, call, posted>>
  BY DEF Tick, Schedule!Tick
<1> QED BY <1>3, <1>5, <1>7, <1>8

LEMMA TickBase ==
  ASSUME Base, Tick
  PROVE  Base'
<1>1. QueueOK
  BY DEF Base
<1>2. /\ queue' \in Seq(Events) /\ Len(queue') = Len(queue)
      /\ \A i \in DOMAIN queue : queue'[i].post = queue[i].post
  BY <1>1, TickFacts
<1>3. /\ phase = "after" /\ phase' = "before"
      /\ fired' = {} /\ UNCHANGED <<handled, relays, outputs, call, posted>>
  BY <1>1, TickFacts
<1>4. DOMAIN queue' = DOMAIN queue
  BY <1>1, <1>2 DEF QueueOK
<1>5. QueueOK'
  BY <1>1, <1>2, <1>4 DEF QueueOK
<1>6. ~handled /\ call = NULL
  BY <1>3 DEF Base, PhaseOK, CallOK, OutputCalls, Outputs
<1>7. PhaseOK' /\ CallOK'
  BY <1>3, <1>6 DEF Base, PhaseOK, CallOK
<1>8. OutputsOK' /\ RelaysOK'
  BY <1>3 DEF Base, OutputsOK, RelaysOK, relays
<1> QED BY <1>5, <1>7, <1>8 DEF Base

\* The steps of ServiceEvents that leave the queue as it is.
LEMMA ServiceBase ==
  ASSUME Base, ServiceEvents \/ Fire \/ ServiceEnd
  PROVE  Base' /\ queue' = queue /\ call = NULL /\ ~ handled
<1>1. /\ queue' = queue /\ phase \in {"before", "between"}
      /\ phase' \in {"between", "firing", "after"}
      /\ phase = "before" => call = NULL
      /\ UNCHANGED <<handled, relays, firing>>
  BY DEF ServiceEvents, Fire, ServiceEnd, Schedule!ServiceEvents, Schedule!Fire,
         Schedule!ServiceEnd
<1>2. call = NULL
  BY <1>1 DEF Base, CallOK, OutputCalls, Outputs
<1>3. ~ handled /\ handled' = FALSE
  BY <1>1 DEF Base, PhaseOK
<1>4. phase' = "firing" => queue # << >> /\ queue[1].in <= 0
  <2>1. ASSUME Fire PROVE queue # << >> /\ Head(queue).in <= 0
    BY <2>1 DEF Fire, Schedule!Fire, Schedule!DueNow
  <2>2. phase' = "firing" => Fire
    BY DEF ServiceEvents, ServiceEnd, Schedule!ServiceEvents, Schedule!ServiceEnd
  <2>3. queue # << >> => Head(queue) = queue[1]
    BY DEF Base, QueueOK
  <2> QED BY <2>1, <2>2, <2>3
<1>5. PhaseOK'
  BY <1>1, <1>3, <1>4 DEF PhaseOK
<1>6. QueueOK' /\ OutputsOK' /\ RelaysOK' /\ CallOK'
  BY <1>1, <1>2 DEF Base, QueueOK, OutputsOK, RelaysOK, CallOK, relays, firing
<1> QED BY <1>1, <1>2, <1>3, <1>5, <1>6 DEF Base

LEMMA BaseStep == Base /\ [Next]_vars => Base'
<1> SUFFICES ASSUME Base, [Next]_vars PROVE Base'
  OBVIOUS
<1>1. CASE FireAction
  BY <1>1, FireActionBase
<1>2. CASE ThinkEnds
  BY <1>2, ThinkEndsBase
<1>3. CASE TriggerEnds
  BY <1>3, TriggerEndsBase
<1>4. CASE \E r \in Relays : Input(r)
  BY <1>4, SmallInputsBase, InputCancelPendingBase, InputTriggerBase DEF Input
<1>5. CASE OtherInput
  BY <1>5, OtherInputBase
<1>6. CASE ServiceEvents \/ Fire \/ ServiceEnd
  BY <1>6, ServiceBase
<1>7. CASE Fired
  BY <1>7, FiredBase
<1>8. CASE Tick
  BY <1>8, TickBase
<1>9. CASE \E r \in Relays : Think(r)
  BY <1>9, ThinkBase
<1>10. CASE OutsidePost
  BY <1>10, OutsidePostBase
<1>11. CASE UNCHANGED vars
  BY <1>11 DEF Base, QueueOK, OutputsOK, RelaysOK, PhaseOK, CallOK, vars, relays, firing,
               List
<1> QED BY <1>1, <1>2, <1>3, <1>4, <1>5, <1>6, <1>7, <1>8, <1>9, <1>10, <1>11
        DEF Next, Undefined, Frame, Service, Output

LEMMA AlwaysBase == Spec => []Base
BY BaseInit, BaseStep, PTL DEF Spec

\* Types of the relays and their outputs; no output keeps an action that has been
\* fired as often as it may.
THEOREM TypeCorrect == Spec => []TypeOK
<1>1. Base => TypeOK
  <2> SUFFICES ASSUME Base PROVE TypeOK
    OBVIOUS
  <2>1. \A i \in DOMAIN queue : queue[i].in \in Int /\ queue[i].post \in Posts
    BY EventFields DEF Base, QueueOK
  <2>2. /\ phase \in {"before", "between", "firing", "cancelled", "after"}
        /\ handled \in BOOLEAN
    BY DEF Base, PhaseOK
  <2>3. {disabled, waiting, removed, thinking, fired} \subseteq SUBSET Relays
    BY DEF Base, RelaysOK
  <2>4. \A r \in Relays, o \in Outputs :
          \A i \in DOMAIN outputs[r][o] : outputs[r][o][i].times # 0
    BY DEF Base, OutputsOK, Outputs
  <2>5. call # NULL => call.relay \in Relays /\ call.at \in 1 .. Len(List) + 1
    BY DEF Base, CallOK, OutputCalls
  <2> QED BY <2>1, <2>2, <2>3, <2>4, <2>5 DEF TypeOK
<1> QED BY <1>1, AlwaysBase, PTL

-----------------------------------------------------------------------------
(* The event being fired.                                                  *)

\* Until the input of an event returns that event is the first of the queue, whatever
\* is posted and cancelled, unless it is a CancelPending that a relay has sent to
\* itself: that one event ServiceEvents removes when it is there no more.
THEOREM OnlyOwnCancelCuts == Spec => OnlyOwnCancel
<1> DEFINE Stays == phase' = "firing" /\ queue' # << >> /\ Head(queue') = Head(queue)
           Cuts == /\ phase' = "cancelled"
                   /\ Served.input = "CancelPending" /\ Served.caller = Served.target
<1>1. Base /\ Base' /\ [Next]_vars => (phase = "firing" /\ phase' # "between" => Stays \/ Cuts)
  <2> SUFFICES ASSUME Base, Base', [Next]_vars, phase = "firing", phase' # "between"
               PROVE  Stays \/ Cuts
    OBVIOUS
  <2>1. /\ queue \in Seq(Events) /\ queue # << >> /\ queue' \in Seq(Events)
        /\ phase' = "firing" => queue' # << >>
    BY DEF Base, QueueOK, PhaseOK
  <2>2. QueueOK /\ PhaseOK
    BY DEF Base
  <2>3. Served = queue[1].post
    BY <2>1 DEF Served
  <2>4. phase' = phase \/ \E r \in Relays : InputCancelPending(r)
    <3>1. FireAction \/ TriggerEnds \/ OutsidePost => phase' = phase
      BY DEF FireAction, TriggerEnds, OutsidePost, Schedule!Post
    <3>2. ~ Fired /\ ~ Tick /\ ~ ServiceEvents /\ ~ Fire /\ ~ ServiceEnd
      BY DEF Fired, Tick, ServiceEvents, Fire, ServiceEnd, Schedule!Fired, Schedule!Tick,
             Schedule!ServiceEvents, Schedule!Fire, Schedule!ServiceEnd
    <3>3. ThinkEnds \/ OtherInput \/ UNCHANGED vars => phase' = phase
      BY DEF ThinkEnds, OtherInput, vars
    <3>4. \A r \in Relays : Think(r) => phase' = phase
      BY DEF Think
    <3>5. \A r \in Relays : Input(r) => InputCancelPending(r) \/ phase' = phase
      BY DEF Input, InputEnable, InputDisable, InputToggle, InputKill, InputEnableRefire,
             InputTrigger, Keep
    <3> QED BY <3>1, <3>2, <3>3, <3>4, <3>5 DEF Next, Undefined, Frame, Service, Output
  <2>5. ASSUME NEW r \in Relays, InputCancelPending(r) PROVE Stays \/ Cuts
    <3>1. /\ queue[1].post.input = "CancelPending" /\ queue[1].post.target = r
          /\ \/ phase' = "firing" /\ queue' # << >> /\ queue'[1] = queue[1]
             \/ phase' = "cancelled" /\ queue[1].post.caller = r
      BY <2>5, CancelKeeps
    <3> QED BY <2>1, <2>3, <3>1
  <2>6. ASSUME phase' = phase PROVE queue'[1] = queue[1]
    <3>1. CASE FireAction
      <4>1. /\ EventOf(Current) \in Posts /\ Asked(EventOf(Current))
            /\ Schedule!Post(EventOf(Current), Current.delay)
            /\ Current \in Action
        BY <3>1, FireActionFacts
      <4>2. Current.delay \in Nat /\ handled' = handled
        BY <3>1, <4>1, ActionFields DEF FireAction
      <4> QED BY <2>2, <4>1, <4>2, PostKeepsPhase
    <3>2. CASE TriggerEnds
      <4>1. CASE queue' = queue
        BY <4>1
      <4>2. CASE queue' # queue
        <5>1. PICK d \in Nat : Schedule!Post(EnableRefire(call.relay), d)
          BY <3>2, <4>2, TriggerEndsFacts
        <5>2. EnableRefire(call.relay) \in Posts /\ Asked(EnableRefire(call.relay))
          BY <3>2, TriggerEndsFacts, EnableRefireAsked
        <5>3. handled' = handled
          BY <3>2 DEF TriggerEnds
        <5> QED BY <2>2, <5>1, <5>2, <5>3, PostKeepsPhase
      <4> QED BY <4>1, <4>2
    <3>3. CASE OutsidePost
      <4>1. PICK what \in Posts, delay \in Nat : Asked(what) /\ Schedule!Post(what, delay)
        BY <3>3, OutsidePostFacts
      <4>2. handled' = handled
        BY <3>3 DEF OutsidePost
      <4> QED BY <2>2, <4>1, <4>2, PostKeepsPhase
    <3>4. CASE \E r \in Relays : InputCancelPending(r)
      BY <3>4, <2>6, CancelKeeps
    <3>5. CASE queue' = queue
      BY <3>5
    <3>6. ~ Fired /\ ~ Tick
      BY DEF Fired, Tick, Schedule!Fired, Schedule!Tick
    <3>7. ThinkEnds \/ OtherInput \/ ServiceEvents \/ Fire \/ ServiceEnd => queue' = queue
      BY DEF ThinkEnds, OtherInput, ServiceEvents, Fire, ServiceEnd,
             Schedule!ServiceEvents, Schedule!Fire, Schedule!ServiceEnd
    <3>8. \A r \in Relays : Think(r) => queue' = queue
      BY DEF Think
    <3>9. \A r \in Relays :
            \/ InputEnable(r) \/ InputDisable(r) \/ InputToggle(r) \/ InputKill(r)
            \/ InputEnableRefire(r) \/ InputTrigger(r)
            => queue' = queue
      BY DEF InputEnable, InputDisable, InputToggle, InputKill, InputEnableRefire,
             InputTrigger, Keep
    <3>10. UNCHANGED vars => queue' = queue
      BY DEF vars
    <3> QED BY <3>1, <3>2, <3>3, <3>4, <3>5, <3>6, <3>7, <3>8, <3>9, <3>10
            DEF Next, Undefined, Frame, Service, Output, Input
  <2>7. CASE phase' = phase
    BY <2>1, <2>6, <2>7
  <2> QED BY <2>4, <2>5, <2>7
<1>2. Base /\ Base' /\ [Next]_vars =>
        [phase = "firing" /\ phase' # "between" =>
           \/ phase' = "firing" /\ queue' # << >> /\ Head(queue') = Head(queue)
           \/ /\ phase' = "cancelled"
              /\ Served.input = "CancelPending" /\ Served.caller = Served.target]_vars
  BY <1>1
<1> QED BY <1>2, AlwaysBase, PTL DEF Spec, OnlyOwnCancel

-----------------------------------------------------------------------------
(* FireOutput posts every action.                                          *)

\* What was posted is the list as far as the walk has come; the rest of it are
\* the actions from the current one to the end, wherever they have moved.
WalkOK ==
  call # NULL =>
    /\ Len(call.list) = Len(posted) + Len(List) - call.at + 1
    /\ \A j \in 1 .. Len(posted) : posted[j] = call.list[j]
    /\ \A j \in call.at .. Len(List) :
         call.list[Len(posted) + j - call.at + 1] = List[j].id

LEMMA WalkTurn ==
  ASSUME Base, FireAction, WalkOK
  PROVE  WalkOK'
<1> DEFINE at == call.at
           k == Len(posted)
           n == Len(List)
           ids == call.list
           m == CountedDown(List, at)
<1>1. /\ List \in Seq(Action) /\ at \in 1 .. Len(List) /\ call \in OutputCalls
      /\ \A i \in DOMAIN List : List[i].times # 0
      /\ Current \in Action /\ List' = m
  BY FireActionFacts
<1>2. call'.list = ids /\ call'.at = NextAt
  BY FireActionFacts
<1>3. /\ m \in Seq(Action)
      /\ Spent(List[at]) => /\ Len(m) = n - 1
                            /\ \A i \in at .. n - 1 : m[i] = List[i + 1]
      /\ ~ Spent(List[at]) => /\ Len(m) = n
                              /\ \A i \in DOMAIN List : SameAction(m[i], List[i])
  BY <1>1, CountedDownList
<1>4. posted \in Seq(Nat) /\ posted' = Append(posted, Current.id) /\ call # NULL
  BY DEF Base, CallOK, FireAction
<1>5. Current = List[at]
  BY DEF Current
<1>6. Current.id \in Nat
  BY <1>1, ActionFields
<1>7. /\ Len(ids) = k + n - at + 1
      /\ \A j \in 1 .. k : posted[j] = ids[j]
      /\ \A j \in at .. n : ids[k + j - at + 1] = List[j].id
  BY <1>4 DEF WalkOK
<1>8. /\ Len(posted') = k + 1 /\ posted'[k + 1] = Current.id
      /\ \A j \in 1 .. k : posted'[j] = posted[j]
  BY <1>4, <1>6
<1>9. k \in Nat /\ n \in Nat /\ at \in 1 .. n /\ DOMAIN List = 1 .. n
  BY <1>1, <1>4
<1> HIDE DEF k, n, at, m, ids
<1>10. ids[k + 1] = List[at].id
  <2>1. k + at - at + 1 = k + 1 /\ at \in at .. n
    BY <1>9
  <2> QED BY <2>1, <1>7
<1>11. \A j \in 1 .. k + 1 : posted'[j] = ids[j]
  <2> SUFFICES ASSUME NEW j \in 1 .. k + 1 PROVE posted'[j] = ids[j]
    OBVIOUS
  <2>1. CASE j = k + 1
    BY <2>1, <1>5, <1>8, <1>10
  <2>2. CASE j # k + 1
    <3>1. j \in 1 .. k
      BY <2>2, <1>9
    <3> QED BY <3>1, <1>7, <1>8
  <2> QED BY <2>1, <2>2
<1>12. CASE Spent(List[at])
  <2>1. NextAt = at
    BY <1>5, <1>12 DEF NextAt, at
  <2>2. Len(ids) = (k + 1) + Len(m) - at + 1
    <3>1. Len(m) = n - 1 /\ Len(ids) = k + n - at + 1
      BY <1>3, <1>7, <1>12
    <3>2. k + n - at + 1 = (k + 1) + (n - 1) - at + 1
      BY <1>9
    <3> QED BY <3>1, <3>2
  <2>3. ASSUME NEW j \in at .. Len(m) PROVE ids[(k + 1) + j - at + 1] = m[j].id
    <3>1. j \in at .. n - 1 /\ j + 1 \in at .. n /\ k + (j + 1) - at + 1 = (k + 1) + j - at + 1
      BY <1>3, <1>9, <1>12
    <3>2. m[j] = List[j + 1]
      BY <3>1, <1>3, <1>12
    <3>3. ids[k + (j + 1) - at + 1] = List[j + 1].id
      BY <3>1, <1>7
    <3> QED BY <3>1, <3>2, <3>3
  <2> QED BY <1>1, <1>2, <1>8, <1>11, <2>1, <2>2, <2>3 DEF WalkOK
<1>13. CASE ~ Spent(List[at])
  <2>1. NextAt = at + 1
    BY <1>5, <1>13 DEF NextAt, at
  <2>2. Len(ids) = (k + 1) + Len(m) - (at + 1) + 1
    BY <1>3, <1>7, <1>9, <1>13
  <2>3. ASSUME NEW j \in at + 1 .. Len(m)
        PROVE  ids[(k + 1) + j - (at + 1) + 1] = m[j].id
    <3>1. j \in at .. n /\ j \in 1 .. n /\ k + j - at + 1 = (k + 1) + j - (at + 1) + 1
      <4>1. Len(m) = n
        BY <1>3, <1>13
      <4>2. j \in at .. n /\ j \in 1 .. n
        BY <1>9, <4>1
      <4> QED BY <1>9, <4>2
    <3>2. m[j].id = List[j].id
      BY <3>1, <1>3, <1>9, <1>13 DEF SameAction
    <3>3. ids[k + j - at + 1] = List[j].id
      BY <3>1, <1>7
    <3> QED BY <3>1, <3>2, <3>3
  <2> QED BY <1>1, <1>2, <1>8, <1>11, <2>1, <2>2, <2>3 DEF WalkOK
<1> QED BY <1>12, <1>13

LEMMA WalkBegins ==
  ASSUME Base, NEW r \in Relays, NEW o \in Outputs, FireOutput(r, o), outputs' = outputs
  PROVE  WalkOK'
<1>1. /\ call'.at = 1 /\ call'.list = Ids(outputs[r][o]) /\ posted' = << >>
      /\ List' = outputs[r][o] /\ outputs[r][o] \in Seq(Action)
  BY CallBegins DEF Base
<1> DEFINE list == outputs[r][o]
<1>2. /\ Ids(list) \in Seq(Nat) /\ Len(Ids(list)) = Len(list)
      /\ \A i \in DOMAIN list : Ids(list)[i] = list[i].id
  BY <1>1, IdsTyped
<1>3. Len(list) \in Nat /\ DOMAIN list = 1 .. Len(list) /\ Len(posted') = 0
  BY <1>1
<1> HIDE DEF list
<1>4. Len(Ids(list)) = 0 + Len(list) - 1 + 1
  BY <1>2, <1>3
<1>5. \A j \in 1 .. Len(list) : Ids(list)[0 + j - 1 + 1] = list[j].id
  <2> SUFFICES ASSUME NEW j \in 1 .. Len(list) PROVE Ids(list)[0 + j - 1 + 1] = list[j].id
    OBVIOUS
  <2>1. 0 + j - 1 + 1 = j
    OBVIOUS
  <2> QED BY <2>1, <1>2, <1>3
<1> QED BY <1>1, <1>3, <1>4, <1>5 DEF WalkOK, list

\* Only the loop and its beginnings and ends change the call.
LEMMA CallSteps ==
  ASSUME Base, [Next]_vars
  PROVE  \/ FireAction \/ ThinkEnds \/ TriggerEnds
         \/ \E r \in Relays : Think(r) \/ (InputTrigger(r) /\ Enabled(r))
         \/ UNCHANGED <<call, posted, outputs>>
<1>1. \A r \in Relays : Input(r) =>
        (InputTrigger(r) /\ Enabled(r)) \/ UNCHANGED <<call, posted, outputs>>
  BY DEF Input, InputEnable, InputDisable, InputToggle, InputKill, InputEnableRefire,
         InputCancelPending, InputTrigger, Keep, firing
<1>2. OtherInput \/ OutsidePost \/ Fire \/ Fired \/ ServiceEnd \/ ServiceEvents \/ Tick
      => UNCHANGED <<call, posted, outputs>>
  BY DEF OtherInput, OutsidePost, Fire, Fired, ServiceEnd, ServiceEvents, Tick, firing
<1>3. UNCHANGED vars => UNCHANGED <<call, posted, outputs>>
  BY DEF vars, firing
<1> QED BY <1>1, <1>2, <1>3 DEF Next, Undefined, Frame, Service, Output

LEMMA WalkStep == Base /\ WalkOK /\ [Next]_vars => WalkOK'
<1> SUFFICES ASSUME Base, WalkOK, [Next]_vars PROVE WalkOK'
  OBVIOUS
<1>1. CASE FireAction
  BY <1>1, WalkTurn
<1>2. CASE ThinkEnds \/ TriggerEnds
  BY <1>2 DEF ThinkEnds, TriggerEnds, WalkOK
<1>3. ASSUME NEW r \in Relays, Think(r) PROVE WalkOK'
  BY <1>3, WalkBegins DEF Think, Outputs
<1>4. ASSUME NEW r \in Relays, InputTrigger(r), Enabled(r) PROVE WalkOK'
  BY <1>4, WalkBegins DEF InputTrigger, Outputs
<1>5. CASE UNCHANGED <<call, posted, outputs>>
  BY <1>5 DEF WalkOK, List
<1> QED BY <1>1, <1>2, <1>3, <1>4, <1>5, CallSteps

LEMMA AlwaysWalk == Spec => [](Base /\ WalkOK)
<1>1. Init => WalkOK
  BY DEF Init, WalkOK
<1> QED BY <1>1, BaseInit, BaseStep, WalkStep, PTL DEF Spec

\* FireOutput has posted, when it returns, each action of the list it was called
\* with, once and in their order, although it takes actions off that list.
THEOREM AllAlwaysPosted == Spec => AllPosted
<1>1. Base /\ WalkOK /\ [Next]_vars /\ call # NULL /\ call' = NULL => posted = call.list
  <2> SUFFICES ASSUME Base, WalkOK, [Next]_vars, call # NULL, call' = NULL
               PROVE  posted = call.list
    OBVIOUS
  <2>1. call \in OutputCalls /\ call.at \in 1 .. Len(List) + 1
    BY DEF Base, CallOK
  <2>2. List \in Seq(Action)
    BY <2>1 DEF OutputCalls, Base, OutputsOK, List
  <2>3. call.at > Len(List)
    <3>1. ~ FireAction
      BY FireActionFacts, RelayAssumption
    <3>2. ThinkEnds \/ TriggerEnds
      <4>1. \A r \in Relays : ~ Think(r) /\ ~ InputTrigger(r)
        BY DEF Think, InputTrigger, Receives, Reaches
      <4>2. ~ UNCHANGED <<call, posted, outputs>>
        OBVIOUS
      <4> QED BY <3>1, <4>1, <4>2, CallSteps
    <3> QED BY <3>2 DEF ThinkEnds, TriggerEnds, FireOutputEnds
  <2>4. call.at = Len(List) + 1 /\ Len(List) \in Nat
    BY <2>1, <2>2, <2>3
  <2>5. posted \in Seq(Nat) /\ call.list \in Seq(Nat)
    BY <2>1 DEF Base, CallOK, OutputCalls
  <2>6. Len(call.list) = Len(posted) + Len(List) - call.at + 1
    BY DEF WalkOK
  <2>7. Len(call.list) = Len(posted)
    BY <2>4, <2>5, <2>6
  <2>8. \A j \in 1 .. Len(posted) : posted[j] = call.list[j]
    BY DEF WalkOK
  <2> QED BY <2>5, <2>7, <2>8
<1> QED BY <1>1, AlwaysWalk, PTL DEF Spec, AllPosted

-----------------------------------------------------------------------------
(* Wake-ups.                                                               *)

\* The places of the wake-ups on their way to r.
Wakes(r) == {i \in DOMAIN queue : queue[i].post = EnableRefire(r) /\ (i = 1 => ~handled)}

WakeOK(r) ==
  /\ \A i, j \in Wakes(r) : i = j
  /\ r \in waiting <=> Wakes(r) # {}

WakesOK == \A r \in Relays \ removed : WakeOK(r)

LEMMA EnableRefireIs ==
  ASSUME NEW r, NEW s
  PROVE  /\ EnableRefire(r).target = r /\ EnableRefire(r).caller = r
         /\ EnableRefire(r).input = "EnableRefire" /\ EnableRefire(r).output = 0
         /\ EnableRefire(r) = EnableRefire(s) => r = s
<1>1. /\ EnableRefire(r).target = r /\ EnableRefire(r).caller = r
      /\ EnableRefire(r).input = "EnableRefire" /\ EnableRefire(r).output = 0
  BY DEF EnableRefire
<1>2. EnableRefire(s).target = s
  BY DEF EnableRefire
<1> QED BY <1>1, <1>2

\* What a new event does to the places of the others.
LEMMA PostPlaces ==
  ASSUME NEW x \in Events, NEW n, QueueOK, InsertedAt(queue', queue, x, n)
  PROVE  /\ n \in 0 .. Len(queue) /\ Len(queue) \in Nat
         /\ DOMAIN queue = 1 .. Len(queue) /\ DOMAIN queue' = 1 .. Len(queue) + 1
         /\ queue'[n + 1] = x
         /\ \A i \in DOMAIN queue : i <= n => queue'[i] = queue[i]
         /\ \A i \in DOMAIN queue : i > n => queue'[i + 1] = queue[i]
         /\ \A k \in DOMAIN queue' : k > n + 1 =>
              k - 1 \in DOMAIN queue /\ k - 1 > n /\ queue'[k] = queue[k - 1]
<1>1. /\ n \in 0 .. Len(queue) /\ Len(queue) \in Nat
      /\ DOMAIN queue = 1 .. Len(queue)
  BY DEF InsertedAt, QueueOK
<1>2. queue'[n + 1] = x /\ DOMAIN queue' = 1 .. Len(queue) + 1
  BY <1>1 DEF InsertedAt
<1>3. \A i \in 1 .. n : queue'[i] = queue[i]
  BY DEF InsertedAt
<1>4. \A i \in n + 1 .. Len(queue) : queue'[i + 1] = queue[i]
  BY DEF InsertedAt
<1>5. \A i \in DOMAIN queue : i <= n => queue'[i] = queue[i]
  BY <1>1, <1>3
<1>6. \A i \in DOMAIN queue : i > n => queue'[i + 1] = queue[i]
  BY <1>1, <1>4
<1>7. ASSUME NEW k \in DOMAIN queue', k > n + 1
      PROVE  k - 1 \in DOMAIN queue /\ k - 1 > n /\ queue'[k] = queue[k - 1]
  <2>1. k - 1 \in 1 .. Len(queue) /\ k - 1 > n /\ k - 1 + 1 = k
    BY <1>1, <1>2, <1>7
  <2> QED BY <1>1, <1>6, <2>1
<1> QED BY <1>1, <1>2, <1>5, <1>6, <1>7

\* An event that is no wake-up of r moves those there are, and no more.
LEMMA PostWakes ==
  ASSUME NEW x \in Events, NEW n, QueueOK, InsertedAt(queue', queue, x, n),
         handled' = handled, handled => n # 0, NEW r, x.post # EnableRefire(r),
         r \in waiting <=> r \in waiting', WakeOK(r)
  PROVE  WakeOK(r)'
<1>1. /\ n \in 0 .. Len(queue) /\ Len(queue) \in Nat
      /\ DOMAIN queue = 1 .. Len(queue) /\ DOMAIN queue' = 1 .. Len(queue) + 1
      /\ queue'[n + 1] = x
      /\ \A i \in DOMAIN queue : i <= n => queue'[i] = queue[i]
      /\ \A i \in DOMAIN queue : i > n => queue'[i + 1] = queue[i]
      /\ \A k \in DOMAIN queue' : k > n + 1 =>
           k - 1 \in DOMAIN queue /\ k - 1 > n /\ queue'[k] = queue[k - 1]
  BY PostPlaces
<1> DEFINE W == Wakes(r)
           V == {k \in DOMAIN queue' : /\ queue'[k].post = EnableRefire(r)
                                       /\ k = 1 => ~handled}
<1>2. Wakes(r)' = V
  <2>1. EnableRefire(r)' = EnableRefire(r)
    BY DEF EnableRefire
  <2> QED BY <2>1 DEF Wakes
<1>3. ASSUME NEW k \in V
      PROVE  \/ k <= n /\ k \in W
             \/ k > n + 1 /\ k - 1 \in W
  <2>1. k # n + 1
    BY <1>1
  <2>2. CASE k <= n
    <3>1. k \in DOMAIN queue /\ queue[k] = queue'[k]
      BY <1>1, <2>2
    <3> QED BY <3>1, <2>2 DEF Wakes
  <2>3. CASE k > n + 1
    <3>1. k - 1 \in DOMAIN queue /\ k - 1 > n /\ queue'[k] = queue[k - 1]
      BY <1>1, <2>3
    <3>2. k - 1 = 1 => ~handled
      BY <1>1, <3>1
    <3> QED BY <3>1, <3>2, <2>3 DEF Wakes
  <2> QED BY <1>1, <2>1, <2>2, <2>3
<1>4. ASSUME NEW i \in W PROVE V # {}
  <2>1. i \in DOMAIN queue /\ queue[i].post = EnableRefire(r) /\ (i = 1 => ~handled)
    BY DEF Wakes
  <2>2. CASE i <= n
    <3>1. i \in DOMAIN queue' /\ queue'[i] = queue[i]
      BY <1>1, <2>1, <2>2
    <3>2. i \in V
      BY <2>1, <3>1
    <3> QED BY <3>2
  <2>3. CASE i > n
    <3>1. i + 1 \in DOMAIN queue' /\ queue'[i + 1] = queue[i] /\ i + 1 # 1
      BY <1>1, <2>1, <2>3
    <3>2. i + 1 \in V
      BY <2>1, <3>1
    <3> QED BY <3>2
  <2> QED BY <1>1, <2>1, <2>2, <2>3
<1>5. \A k \in V : k \in Int
  BY <1>1
<1>6. W \subseteq Int
  BY <1>1 DEF Wakes
<1> HIDE DEF V, W
<1>7. \A i, j \in W : i = j
  BY DEF WakeOK, W
<1>8. ASSUME NEW k \in V, NEW l \in V PROVE k = l
  <2>1. (k <= n /\ k \in W) \/ (k > n + 1 /\ k - 1 \in W)
    BY <1>3
  <2>2. (l <= n /\ l \in W) \/ (l > n + 1 /\ l - 1 \in W)
    BY <1>3
  <2>3. n \in Int /\ k \in Int /\ l \in Int
    BY <1>1, <1>5
  <2>4. CASE k \in W /\ l \in W
    BY <2>4, <1>7
  <2>5. CASE k - 1 \in W /\ l - 1 \in W
    <3>1. k - 1 = l - 1
      BY <2>5, <1>7
    <3> QED BY <3>1, <2>3
  <2>6. CASE k <= n /\ k \in W /\ l > n + 1 /\ l - 1 \in W
    <3>1. k = l - 1
      BY <2>6, <1>7
    <3> QED BY <3>1, <2>3, <2>6
  <2>7. CASE l <= n /\ l \in W /\ k > n + 1 /\ k - 1 \in W
    <3>1. l = k - 1
      BY <2>7, <1>7
    <3> QED BY <3>1, <2>3, <2>7
  <2> QED BY <2>1, <2>2, <2>4, <2>5, <2>6, <2>7
<1>9. V # {} <=> W # {}
  BY <1>3, <1>4
<1> QED BY <1>2, <1>8, <1>9 DEF WakeOK, W

\* Posts while something is handled are put behind it.
LEMMA PostsBehind ==
  ASSUME Base, handled, NEW x \in Events, x.in \in Nat, NEW n,
         InsertedAt(queue', queue, x, n)
  PROVE  n \in 1 .. Len(queue)
<1>1. queue \in Seq(Events) /\ queue # << >> /\ queue[1].in <= 0
  BY DEF Base, QueueOK, PhaseOK
<1>2. queue[1].in \in Int
  BY <1>1, EventFields
<1>3. queue[1].in <= x.in
  BY <1>1, <1>2
<1> QED BY <1>1, <1>3, HeadStays

LEMMA SameWakes ==
  ASSUME NEW r, WakeOK(r), r \in waiting <=> r \in waiting',
         DOMAIN queue' = DOMAIN queue,
         \A i \in DOMAIN queue : queue'[i].post = queue[i].post,
         \/ handled' = handled
         \/ 1 \in DOMAIN queue => queue[1].post # EnableRefire(r)
  PROVE  WakeOK(r)'
<1>1. Wakes(r)' = Wakes(r)
  <2>1. EnableRefire(r)' = EnableRefire(r)
    BY DEF EnableRefire
  <2> QED BY <2>1 DEF Wakes
<1> QED BY <1>1 DEF WakeOK

LEMMA FireActionWakes ==
  ASSUME Base, FireAction, NEW r \in Relays, WakeOK(r)
  PROVE  WakeOK(r)'
<1> DEFINE x == [in |-> Current.delay, post |-> EventOf(Current)]
<1>1. /\ EventOf(Current) \in Posts /\ Asked(EventOf(Current)) /\ Current \in Action
      /\ Schedule!Post(EventOf(Current), Current.delay)
  BY FireActionFacts
<1>2. Current.delay \in Nat /\ Current.id # 0
  BY <1>1, ActionFields
<1>3. QueueOK /\ Current.delay \in Int
  BY <1>2 DEF Base
<1>4. PICK n \in 0 .. Len(queue) : InsertedAt(queue', queue, x, n)
  BY <1>1, <1>3, PostKeeps
<1>5. x \in Events /\ x.in \in Nat /\ x.post.output # 0
  BY <1>1, <1>2, <1>3 DEF Events, EventOf
<1>6. handled' = handled /\ waiting' = waiting
  BY DEF FireAction, relays
<1> HIDE DEF x
<1>7. handled => n # 0
  BY <1>4, <1>5, PostsBehind
<1>8. x.post # EnableRefire(r)
  BY <1>5, EnableRefireIs
<1> QED BY <1>3, <1>4, <1>5, <1>6, <1>7, <1>8, PostWakes

LEMMA OutsidePostWakes ==
  ASSUME Base, OutsidePost, NEW r \in Relays, WakeOK(r)
  PROVE  WakeOK(r)'
<1>1. PICK what \in Posts, delay \in Nat :
        what.caller = WORLD /\ Asked(what) /\ Schedule!Post(what, delay)
  BY OutsidePostFacts
<1> DEFINE x == [in |-> delay, post |-> what]
<1>2. QueueOK /\ delay \in Int
  BY DEF Base
<1>3. PICK n \in 0 .. Len(queue) : InsertedAt(queue', queue, x, n)
  BY <1>1, <1>2, PostKeeps
<1>4. x \in Events /\ x.in \in Nat /\ x.post = what
  BY <1>2 DEF Events
<1>5. handled' = handled /\ waiting' = waiting
  BY DEF OutsidePost, relays
<1> HIDE DEF x
<1>6. handled => n # 0
  BY <1>3, <1>4, PostsBehind
<1>7. x.post # EnableRefire(r)
  BY <1>1, <1>4, EnableRefireIs, RelayAssumption
<1> QED BY <1>2, <1>3, <1>4, <1>5, <1>6, <1>7, PostWakes

\* A relay that begins to wait has posted the wake-up it had not got.
LEMMA TriggerEndsWakes ==
  ASSUME Base, TriggerEnds, NEW r \in Relays, r \notin removed', WakeOK(r)
  PROVE  WakeOK(r)'
<1> DEFINE c == call.relay
<1>1. handled' = handled
  BY DEF TriggerEnds
<1>2. CASE queue' = queue /\ (r \in waiting <=> r \in waiting')
  BY <1>1, <1>2, SameWakes
<1>3. CASE ~ (queue' = queue /\ (r \in waiting <=> r \in waiting'))
  <2>1. PICK d \in Nat : Schedule!Post(EnableRefire(c), d)
    BY <1>3, TriggerEndsFacts
  <2>2. /\ waiting' = waiting \cup {c}
        /\ c \in Relays /\ c \notin waiting /\ handled
    BY <1>3, TriggerEndsFacts
  <2> DEFINE x == [in |-> d, post |-> EnableRefire(c)]
  <2>3. QueueOK /\ d \in Int /\ EnableRefire(c) \in Posts /\ Asked(EnableRefire(c))
    BY <2>2, EnableRefireAsked DEF Base
  <2>4. PICK n \in 0 .. Len(queue) : InsertedAt(queue', queue, x, n)
    BY <2>1, <2>3, PostKeeps
  <2>5. x \in Events /\ x.in \in Nat /\ x.post = EnableRefire(c)
    BY <2>3 DEF Events
  <2> HIDE DEF x
  <2>6. n \in 1 .. Len(queue)
    BY <2>2, <2>4, <2>5, PostsBehind
  <2>7. CASE r # c
    <3>1. x.post # EnableRefire(r)
      BY <2>5, <2>7, EnableRefireIs
    <3>2. n # 0 /\ (r \in waiting <=> r \in waiting')
      BY <2>2, <2>6, <2>7
    <3> QED BY <1>1, <2>3, <2>4, <2>5, <3>1, <3>2, PostWakes
  <2>8. CASE r = c
    <3>1. Wakes(r) = {}
      BY <2>2, <2>8 DEF WakeOK
    <3>2. /\ n \in 0 .. Len(queue) /\ Len(queue) \in Nat
          /\ DOMAIN queue = 1 .. Len(queue) /\ DOMAIN queue' = 1 .. Len(queue) + 1
          /\ queue'[n + 1] = x
          /\ \A i \in DOMAIN queue : i <= n => queue'[i] = queue[i]
          /\ \A k \in DOMAIN queue' : k > n + 1 =>
               k - 1 \in DOMAIN queue /\ k - 1 > n /\ queue'[k] = queue[k - 1]
      BY <2>3, <2>4, <2>5, PostPlaces
    <3>3. Wakes(r)' = {k \in DOMAIN queue' : /\ queue'[k].post = EnableRefire(r)
                                             /\ k = 1 => ~handled}
      <4>1. EnableRefire(r)' = EnableRefire(r)
        BY DEF EnableRefire
      <4> QED BY <1>1, <4>1 DEF Wakes
    <3>4. n + 1 \in Wakes(r)'
      BY <2>5, <2>6, <2>8, <3>2, <3>3
    <3>5. ASSUME NEW k \in Wakes(r)' PROVE k = n + 1
      <4>1. k \in DOMAIN queue' /\ queue'[k].post = EnableRefire(r) /\ k # 1
        BY <2>2, <3>3
      <4>2. CASE k <= n
        <5>1. k \in DOMAIN queue /\ queue[k].post = EnableRefire(r)
          BY <3>2, <4>1, <4>2
        <5>2. k \in Wakes(r)
          BY <4>1, <5>1 DEF Wakes
        <5> QED BY <3>1, <5>2
      <4>3. CASE k > n + 1
        <5>1. k - 1 \in DOMAIN queue /\ queue[k - 1].post = EnableRefire(r) /\ k - 1 # 1
          BY <2>6, <3>2, <4>1, <4>3
        <5>2. k - 1 \in Wakes(r)
          BY <5>1 DEF Wakes
        <5> QED BY <3>1, <5>2
      <4> QED BY <3>2, <4>1, <4>2, <4>3
    <3>6. r \in waiting'
      BY <2>2, <2>8
    <3>7. \A i, j \in Wakes(r)' : i = j
      BY <3>5
    <3> QED BY <3>4, <3>6, <3>7 DEF WakeOK
  <2> QED BY <2>7, <2>8
<1> QED BY <1>2, <1>3

LEMMA FiredWakes ==
  ASSUME Base, Fired, NEW r \in Relays, WakeOK(r)
  PROVE  WakeOK(r)'
<1>1. /\ queue' = Tail(queue) /\ phase = "firing" /\ handled /\ handled' = FALSE
      /\ waiting' = waiting
  BY DEF Fired, Schedule!Fired, relays
<1>2. queue \in Seq(Events) /\ queue # << >>
  BY <1>1 DEF Base, QueueOK, PhaseOK
<1>3. /\ DOMAIN queue' = 1 .. Len(queue) - 1 /\ DOMAIN queue = 1 .. Len(queue)
      /\ Len(queue) \in Nat
      /\ \A i \in 1 .. Len(queue) - 1 : queue'[i] = queue[i + 1]
  BY <1>1, <1>2
<1>4. EnableRefire(r)' = EnableRefire(r)
  BY DEF EnableRefire
<1>5. ASSUME NEW k \in Wakes(r)' PROVE k \in Int /\ k + 1 \in Wakes(r)
  <2>1. k \in 1 .. Len(queue) - 1 /\ queue'[k].post = EnableRefire(r)
    BY <1>3, <1>4 DEF Wakes
  <2>2. k + 1 \in DOMAIN queue /\ queue[k + 1].post = EnableRefire(r) /\ k + 1 # 1
    BY <1>3, <2>1
  <2> QED BY <2>1, <2>2 DEF Wakes
<1>6. ASSUME NEW i \in Wakes(r) PROVE Wakes(r)' # {}
  <2>1. i \in DOMAIN queue /\ queue[i].post = EnableRefire(r) /\ i # 1
    BY <1>1 DEF Wakes
  <2>2. i - 1 \in 1 .. Len(queue) - 1 /\ i - 1 + 1 = i
    BY <1>3, <2>1
  <2>3. queue'[i - 1] = queue[i]
    BY <1>3, <2>2
  <2>4. i - 1 \in DOMAIN queue' /\ queue'[i - 1].post = EnableRefire(r)
    BY <1>3, <2>1, <2>2, <2>3
  <2>5. i - 1 \in Wakes(r)'
    BY <1>1, <1>4, <2>4 DEF Wakes
  <2> QED BY <2>5
<1>7. ASSUME NEW k \in Wakes(r)', NEW l \in Wakes(r)' PROVE k = l
  <2>1. k + 1 = l + 1
    BY <1>5 DEF WakeOK
  <2> QED BY <1>5, <2>1
<1>8. r \in waiting' <=> Wakes(r)' # {}
  BY <1>1, <1>5, <1>6 DEF WakeOK
<1> QED BY <1>7, <1>8 DEF WakeOK

\* CancelPending takes the wake-up of the relay that gets it, and no other.
LEMMA InputCancelPendingWakes ==
  ASSUME Base, NEW r \in Relays, InputCancelPending(r), NEW s \in Relays, WakeOK(s)
  PROVE  WakeOK(s)'
<1>1. /\ queue # << >> /\ queue[1].post.input = "CancelPending"
      /\ \A i \in DOMAIN queue : queue[i].post \in SentBy(r) <=> queue[i].post.caller = r
  BY CancelKeeps
<1>2. PICK g : ThinnedBy(queue', queue, SentBy(r), g)
  BY CancelKeeps
<1>3. /\ waiting' = waiting \ {r} /\ ~ handled
      /\ handled' => queue'[1] = queue[1]
  BY CancelKeeps DEF InputCancelPending, Reaches, StopsWaiting
<1> DEFINE n == Len(queue')
<1>4. /\ DOMAIN queue' = 1 .. n /\ n \in Nat
      /\ g \in [1 .. n -> DOMAIN queue]
      /\ \A k \in 1 .. n : queue'[k] = queue[g[k]] /\ queue[g[k]].post \notin SentBy(r)
      /\ \A k, l \in 1 .. n : k < l => g[k] < g[l]
      /\ \A i \in DOMAIN queue : queue[i].post \notin SentBy(r) => \E k \in 1 .. n : g[k] = i
  BY <1>2 DEF ThinnedBy
<1>5. EnableRefire(s)' = EnableRefire(s)
  BY DEF EnableRefire
<1> HIDE DEF n
<1>6. \A i \in DOMAIN queue : i \in Int
  BY DEF Base, QueueOK
<1>7. Wakes(s)' = {k \in 1 .. n : queue'[k].post = EnableRefire(s)}
  <2>1. handled' => queue'[1].post # EnableRefire(s)
    BY <1>1, <1>3, EnableRefireIs
  <2> QED BY <1>4, <1>5, <2>1 DEF Wakes
<1>8. CASE s = r
  <2>1. \A k \in 1 .. n : queue'[k].post.caller # r
    BY <1>1, <1>4
  <2>2. Wakes(s)' = {}
    BY <1>7, <1>8, <2>1, EnableRefireIs
  <2> QED BY <1>3, <1>8, <2>2 DEF WakeOK
<1>9. CASE s # r
  <2>1. ASSUME NEW k \in Wakes(s)' PROVE k \in 1 .. n /\ g[k] \in Wakes(s)
    <3>1. k \in 1 .. n /\ queue[g[k]].post = EnableRefire(s) /\ g[k] \in DOMAIN queue
      BY <1>4, <1>7
    <3> QED BY <1>3, <3>1 DEF Wakes
  <2>2. ASSUME NEW i \in Wakes(s) PROVE Wakes(s)' # {}
    <3>1. i \in DOMAIN queue /\ queue[i].post = EnableRefire(s)
      BY DEF Wakes
    <3>2. queue[i].post \notin SentBy(r)
      BY <1>1, <1>9, <3>1, EnableRefireIs
    <3>3. PICK k \in 1 .. n : g[k] = i
      BY <1>4, <3>1, <3>2
    <3> QED BY <1>4, <1>7, <3>1, <3>3
  <2>3. ASSUME NEW k \in Wakes(s)', NEW l \in Wakes(s)' PROVE k = l
    <3>1. g[k] = g[l] /\ k \in 1 .. n /\ l \in 1 .. n /\ g[k] \in Int
      BY <1>4, <1>6, <2>1 DEF WakeOK
    <3>2. ~ k < l /\ ~ l < k
      BY <1>4, <3>1
    <3> QED BY <1>4, <3>1, <3>2
  <2>4. s \in waiting' <=> Wakes(s)' # {}
    BY <1>3, <1>9, <2>1, <2>2 DEF WakeOK
  <2> QED BY <2>3, <2>4 DEF WakeOK
<1> QED BY <1>8, <1>9

\* The wake-up that arrives was the only one.
LEMMA InputEnableRefireWakes ==
  ASSUME Base, NEW r \in Relays, InputEnableRefire(r), NEW s \in Relays, WakeOK(s)
  PROVE  WakeOK(s)'
<1>1. /\ phase = "firing" /\ ~handled /\ handled' = TRUE /\ waiting' = waiting \ {r}
      /\ Served.target = r /\ Served.input = "EnableRefire" /\ queue' = queue
  BY DEF InputEnableRefire, Receives, Reaches, Keep
<1>2. queue \in Seq(Events) /\ queue # << >> /\ \A i \in DOMAIN queue : Asked(queue[i].post)
  BY <1>1 DEF Base, QueueOK, PhaseOK
<1>3. 1 \in DOMAIN queue /\ Served = queue[1].post
  BY <1>2 DEF Served
<1>4. queue[1].post = EnableRefire(r)
  BY <1>1, <1>2, <1>3 DEF Asked
<1>5. CASE s = r
  <2>1. 1 \in Wakes(s)
    BY <1>1, <1>3, <1>4, <1>5 DEF Wakes
  <2>2. EnableRefire(s)' = EnableRefire(s)
    BY DEF EnableRefire
  <2>3. \A k \in Wakes(s)' : k \in Wakes(s) /\ k # 1
    BY <1>1, <2>2 DEF Wakes
  <2>4. Wakes(s)' = {}
    BY <2>1, <2>3 DEF WakeOK
  <2> QED BY <1>1, <1>5, <2>4 DEF WakeOK
<1>6. CASE s # r
  <2>1. queue[1].post # EnableRefire(s)
    BY <1>4, <1>6, EnableRefireIs
  <2>2. s \in waiting <=> s \in waiting'
    BY <1>1, <1>6
  <2> QED BY <1>1, <2>1, <2>2, SameWakes
<1> QED BY <1>5, <1>6

\* Other inputs have nothing to do with wake-ups.
LEMMA OtherInputWakes ==
  ASSUME Base, NEW s \in Relays \ removed, WakeOK(s),
         \/ OtherInput
         \/ \E r \in Relays : \/ InputEnable(r) \/ InputDisable(r) \/ InputToggle(r)
                              \/ InputKill(r) \/ InputTrigger(r)
  PROVE  WakeOK(s)'
<1>1. /\ phase = "firing" /\ queue' = queue /\ waiting' = waiting
  BY DEF OtherInput, InputEnable, InputDisable, InputToggle, InputKill, InputTrigger,
         Receives, Reaches, Keep, relays
<1>2. Served # EnableRefire(s)
  <2>1. CASE OtherInput
    <3>1. Served.target # s
      BY <2>1, RelayAssumption DEF OtherInput
    <3> QED BY <3>1, EnableRefireIs
  <2>2. CASE ~ OtherInput
    <3>1. Served.input # "EnableRefire"
      BY <2>2 DEF InputEnable, InputDisable, InputToggle, InputKill, InputTrigger, Receives, Reaches
    <3> QED BY <3>1, EnableRefireIs
  <2> QED BY <2>1, <2>2
<1>3. queue # << >> /\ queue \in Seq(Events)
  BY <1>1 DEF Base, PhaseOK, QueueOK
<1>4. Served = queue[1].post
  BY <1>3 DEF Served
<1> QED BY <1>1, <1>2, <1>4, SameWakes

LEMMA WakesStep == Base /\ WakesOK /\ [Next]_vars => WakesOK'
<1> SUFFICES ASSUME Base, WakesOK, [Next]_vars, NEW r \in Relays, r \notin removed'
             PROVE  WakeOK(r)'
  BY DEF WakesOK
<1>1. removed \subseteq removed'
  BY DEF Next, Undefined, Frame, Service, Output, Input, FireAction, ThinkEnds, TriggerEnds, InputEnable,
         InputDisable, InputToggle, InputKill, InputEnableRefire, InputCancelPending,
         InputTrigger, OtherInput, OutsidePost, ServiceEvents, Fire, Fired, ServiceEnd, Tick,
         Think, Keep, relays, firing, vars
<1>2. r \notin removed /\ WakeOK(r)
  BY <1>1 DEF WakesOK
<1>3. CASE FireAction
  BY <1>2, <1>3, FireActionWakes
<1>4. CASE TriggerEnds
  BY <1>2, <1>4, TriggerEndsWakes
<1>5. CASE OutsidePost
  BY <1>2, <1>5, OutsidePostWakes
<1>6. CASE Fired
  BY <1>2, <1>6, FiredWakes
<1>7. ASSUME NEW s \in Relays, Input(s) PROVE WakeOK(r)'
  BY <1>2, <1>7, InputCancelPendingWakes, InputEnableRefireWakes, OtherInputWakes DEF Input
<1>8. CASE OtherInput
  BY <1>2, <1>8, OtherInputWakes
<1>9. CASE Tick
  <2>1. QueueOK
    BY DEF Base
  <2>2. /\ DOMAIN queue' = DOMAIN queue
        /\ \A i \in DOMAIN queue : queue'[i].post = queue[i].post
        /\ handled' = handled /\ waiting' = waiting
    BY <1>9, <2>1, TickFacts DEF QueueOK, relays
  <2> QED BY <1>2, <2>2, SameWakes
<1>10. CASE ServiceEvents \/ Fire \/ ServiceEnd \/ ThinkEnds \/ UNCHANGED vars
  <2>1. queue' = queue /\ handled' = handled /\ waiting' = waiting
    BY <1>10 DEF ServiceEvents, Fire, ServiceEnd, ThinkEnds, vars, relays,
       Schedule!ServiceEvents, Schedule!Fire, Schedule!ServiceEnd
  <2> QED BY <1>2, <2>1, SameWakes
<1>11. ASSUME NEW s \in Relays, Think(s) PROVE WakeOK(r)'
  <2>1. queue' = queue /\ handled' = handled /\ waiting' = waiting
    BY <1>11 DEF Think
  <2> QED BY <1>2, <2>1, SameWakes
<1> QED BY <1>3, <1>4, <1>5, <1>6, <1>7, <1>8, <1>9, <1>10, <1>11
        DEF Next, Undefined, Frame, Service, Output

LEMMA AlwaysWakes == Spec => [](Base /\ WakesOK)
<1>1. Init => WakesOK
  BY DEF Init, Schedule!Init, WakesOK, WakeOK, Wakes
<1> QED BY <1>1, BaseInit, BaseStep, WakesStep, PTL DEF Spec

\* A relay waits for a refire exactly as long as one wake-up, and only one, is on its
\* way to it (InputTrigger, InputEnableRefire, InputCancelPending).
THEOREM AlwaysRefirePending == Spec => []RefirePending
<1>1. Base /\ WakesOK => RefirePending
  <2> SUFFICES ASSUME WakesOK, NEW r \in Relays \ removed
               PROVE  Cardinality(Wakes(r)) = IF r \in waiting THEN 1 ELSE 0
    BY DEF RefirePending, Wakes
  <2>1. WakeOK(r)
    BY DEF WakesOK
  <2>2. CASE r \in waiting
    <3>1. PICK w \in Wakes(r) : TRUE
      BY <2>1, <2>2 DEF WakeOK
    <3>2. Wakes(r) = {w}
      BY <2>1, <3>1 DEF WakeOK
    <3> QED BY <2>2, <3>2, FS_Singleton
  <2>3. CASE r \notin waiting
    <3>1. Wakes(r) = {}
      BY <2>1, <2>3 DEF WakeOK
    <3> QED BY <2>3, <3>1, FS_EmptySet
  <2> QED BY <2>2, <2>3
<1> QED BY <1>1, AlwaysWakes, PTL

-----------------------------------------------------------------------------
(* What a relay has posted is fired before it fires again.                 *)

\* The delays of the map come true: the greatest delay of each OnTrigger is one of
\* an action that is always fired, and so never taken off the list.
LastKept ==
  \A r \in Relays : \A i \in DOMAIN OnTrigger[r] : OnTrigger[r][i].delay # 0 =>
    \E j \in DOMAIN OnTrigger[r] : /\ OnTrigger[r][j].times = EVENT_FIRE_ALWAYS
                                   /\ OnTrigger[r][i].delay <= OnTrigger[r][j].delay

Sorted == \A i, j \in DOMAIN queue : i <= j => queue[i].in <= queue[j].in

AlwaysKept ==
  \A r \in Relays : \A j \in DOMAIN OnTrigger[r] :
    OnTrigger[r][j].times = EVENT_FIRE_ALWAYS =>
      \E k \in DOMAIN outputs[r]["OnTrigger"] : outputs[r]["OnTrigger"][k] = OnTrigger[r][j]

\* x was posted by output OnTrigger of r.
Own(r, x) == x.caller = r /\ \E k \in DOMAIN OnTrigger[r] : x.output = OnTrigger[r][k].id

Triggering(r) == call # NULL /\ call.relay = r /\ call.output = "OnTrigger"

\* No later than what OnTrigger of r will always post.
Soon(r, t) ==
  \/ t <= 0
  \/ \E j \in DOMAIN OnTrigger[r] : /\ OnTrigger[r][j].times = EVENT_FIRE_ALWAYS
                                    /\ t <= OnTrigger[r][j].delay

\* While r fires, its events are not later than the wake-up will be; while it waits
\* they are before the wake-up; otherwise there are none.
Settled(r) ==
  /\ Triggering(r) =>
       \A i \in DOMAIN queue : Own(r, queue[i].post) => Soon(r, queue[i].in)
  /\ r \in waiting =>
       \A i \in DOMAIN queue, w \in Wakes(r) : Own(r, queue[i].post) => i < w
  /\ r \notin waiting /\ ~Triggering(r) =>
       \A i \in DOMAIN queue : ~Own(r, queue[i].post)

SettledOK == \A r \in Relays \ (removed \cup AllowFastRetrigger) : Settled(r)

\* r fires, or its wake-up is not due.
Quiet(r) == Triggering(r) \/ (r \in waiting /\ \A w \in Wakes(r) : queue[w].in >= 1)

QuietOK == \A r \in fired \ (removed \cup AllowFastRetrigger) : Quiet(r)

\* The queue after a step is some of the queue before it, in the same order, and at
\* most the new event at the places of new; the wake-ups of r are old ones.
Carried(r, b, new) ==
  /\ \A k \in DOMAIN queue' \ new :
       b[k] \in DOMAIN queue /\ queue'[k].post = queue[b[k]].post
  /\ \A k, l \in DOMAIN queue' \ new : b[k] < b[l] => k < l
  /\ \A w \in Wakes(r)' : w \notin new /\ b[w] \in Wakes(r)

SameTimes(b, new) == \A k \in DOMAIN queue' \ new : queue'[k].in = queue[b[k]].in

LEMMA CarriedSettled ==
  ASSUME NEW r, NEW b, NEW new, Carried(r, b, new), Settled(r),
         \A k \in new \cap DOMAIN queue' : ~Own(r, queue'[k].post),
         r \in waiting <=> r \in waiting', Triggering(r)' <=> Triggering(r),
         Triggering(r) => SameTimes(b, new)
  PROVE  Settled(r)'
<1>1. \A k \in DOMAIN queue' : Own(r, queue'[k].post) =>
        /\ k \notin new /\ b[k] \in DOMAIN queue /\ Own(r, queue[b[k]].post)
  BY DEF Carried
<1>2. Triggering(r)' =>
        \A k \in DOMAIN queue' : Own(r, queue'[k].post) => Soon(r, queue'[k].in)
  BY <1>1 DEF Settled, SameTimes
<1>3. r \in waiting' =>
        \A k \in DOMAIN queue', w \in Wakes(r)' : Own(r, queue'[k].post) => k < w
  <2> SUFFICES ASSUME r \in waiting', NEW k \in DOMAIN queue', NEW w \in Wakes(r)',
                      Own(r, queue'[k].post)
               PROVE  k < w
    OBVIOUS
  <2>1. w \in DOMAIN queue' \ new /\ b[w] \in Wakes(r)
    BY DEF Carried, Wakes
  <2>2. b[k] < b[w]
    BY <1>1, <2>1 DEF Settled
  <2> QED BY <1>1, <2>1, <2>2 DEF Carried
<1>4. r \notin waiting' /\ ~Triggering(r)' =>
        \A k \in DOMAIN queue' : ~Own(r, queue'[k].post)
  BY <1>1 DEF Settled
<1>5. \A x : Own(r, x)' <=> Own(r, x)
  BY DEF Own
<1>6. \A t : Soon(r, t)' <=> Soon(r, t)
  BY DEF Soon
<1> QED BY <1>2, <1>3, <1>4, <1>5, <1>6 DEF Settled, Own, Soon

LEMMA CarriedQuiet ==
  ASSUME NEW r, NEW b, NEW new, Carried(r, b, new), SameTimes(b, new), Quiet(r),
         r \in waiting <=> r \in waiting', Triggering(r) => Triggering(r)'
  PROVE  Quiet(r)'
<1>1. CASE Triggering(r)
  BY <1>1 DEF Quiet
<1>2. CASE ~Triggering(r)
  <2>1. r \in waiting' /\ \A w \in Wakes(r) : queue[w].in >= 1
    BY <1>2 DEF Quiet
  <2>2. ASSUME NEW w \in Wakes(r)' PROVE queue'[w].in >= 1
    <3>1. w \in DOMAIN queue' \ new /\ b[w] \in Wakes(r)
      BY DEF Carried, Wakes
    <3> QED BY <2>1, <3>1 DEF SameTimes
  <2> QED BY <2>1, <2>2 DEF Quiet
<1> QED BY <1>1, <1>2

\* A post, of anything but a wake-up of r.
LEMMA PostCarries ==
  ASSUME NEW x \in Events, NEW n, QueueOK, InsertedAt(queue', queue, x, n),
         handled' = handled, handled => n # 0, NEW r, x.post # EnableRefire(r)
  PROVE  \E b : /\ Carried(r, b, {n + 1}) /\ SameTimes(b, {n + 1})
<1> DEFINE b == [k \in DOMAIN queue' |-> IF k <= n THEN k ELSE k - 1]
<1>1. /\ n \in 0 .. Len(queue) /\ Len(queue) \in Nat
      /\ DOMAIN queue = 1 .. Len(queue) /\ DOMAIN queue' = 1 .. Len(queue) + 1
      /\ queue'[n + 1] = x
      /\ \A i \in DOMAIN queue : i <= n => queue'[i] = queue[i]
      /\ \A k \in DOMAIN queue' : k > n + 1 =>
           k - 1 \in DOMAIN queue /\ k - 1 > n /\ queue'[k] = queue[k - 1]
  BY PostPlaces
<1>2. ASSUME NEW k \in DOMAIN queue' \ {n + 1}
      PROVE  b[k] \in DOMAIN queue /\ queue'[k] = queue[b[k]] /\ (b[k] = 1 => k = 1 \/ n = 0)
  <2>1. CASE k <= n
    <3>1. k \in DOMAIN queue /\ b[k] = k
      BY <1>1, <2>1
    <3> QED BY <1>1, <2>1, <3>1
  <2>2. CASE k > n + 1
    <3>1. b[k] = k - 1 /\ k - 1 \in DOMAIN queue /\ queue'[k] = queue[k - 1] /\ k - 1 > n
      BY <1>1, <2>2
    <3> QED BY <1>1, <3>1
  <2> QED BY <1>1, <2>1, <2>2
<1>3. ASSUME NEW k \in DOMAIN queue' \ {n + 1}, NEW l \in DOMAIN queue' \ {n + 1}, b[k] < b[l]
      PROVE  k < l
  BY <1>1, <1>3
<1> HIDE DEF b
<1>4. ASSUME NEW w \in Wakes(r)' PROVE w \notin {n + 1} /\ b[w] \in Wakes(r)
  <2>1. EnableRefire(r)' = EnableRefire(r)
    BY DEF EnableRefire
  <2>2. w \in DOMAIN queue' /\ queue'[w].post = EnableRefire(r) /\ (w = 1 => ~handled)
    BY <2>1 DEF Wakes
  <2>3. w # n + 1
    BY <1>1, <2>2
  <2>4. b[w] \in DOMAIN queue /\ queue[b[w]].post = EnableRefire(r) /\ (b[w] = 1 => ~handled)
    BY <1>2, <2>2, <2>3
  <2> QED BY <2>3, <2>4 DEF Wakes
<1> QED BY <1>2, <1>3, <1>4 DEF Carried, SameTimes

\* A step that leaves the posts alone.
LEMMA SameCarries ==
  ASSUME NEW r, DOMAIN queue' = DOMAIN queue, QueueOK,
         \A i \in DOMAIN queue : queue'[i].post = queue[i].post,
         handled => handled'
  PROVE  \E b : /\ Carried(r, b, {})
                /\ (\A i \in DOMAIN queue : queue'[i].in = queue[i].in) => SameTimes(b, {})
<1> DEFINE b == [k \in DOMAIN queue |-> k]
<1>1. \A k \in DOMAIN queue : b[k] = k
  OBVIOUS
<1>2. EnableRefire(r)' = EnableRefire(r)
  BY DEF EnableRefire
<1> HIDE DEF b
<1>3. \A w \in Wakes(r)' : b[w] \in Wakes(r)
  BY <1>1, <1>2 DEF Wakes
<1> QED BY <1>1, <1>3 DEF Carried, SameTimes

LEMMA FiredCarries ==
  ASSUME Base, Fired, NEW r
  PROVE  \E b : Carried(r, b, {}) /\ SameTimes(b, {})
<1> DEFINE b == [k \in DOMAIN queue' |-> k + 1]
<1>1. /\ queue' = Tail(queue) /\ phase = "firing" /\ handled /\ handled' = FALSE
  BY DEF Fired, Schedule!Fired, relays
<1>2. queue \in Seq(Events) /\ queue # << >>
  BY <1>1 DEF Base, QueueOK, PhaseOK
<1>3. /\ DOMAIN queue' = 1 .. Len(queue) - 1 /\ DOMAIN queue = 1 .. Len(queue)
      /\ Len(queue) \in Nat
      /\ \A i \in 1 .. Len(queue) - 1 : queue'[i] = queue[i + 1]
  BY <1>1, <1>2
<1>4. EnableRefire(r)' = EnableRefire(r)
  BY DEF EnableRefire
<1>5. \A k \in DOMAIN queue' : b[k] = k + 1 /\ b[k] \in DOMAIN queue /\ queue'[k] = queue[b[k]]
  BY <1>3
<1>6. \A k \in DOMAIN queue' : b[k] # 1 /\ k \in Int
  BY <1>3
<1> HIDE DEF b
<1>7. \A w \in Wakes(r)' : b[w] \in Wakes(r)
  BY <1>4, <1>5, <1>6 DEF Wakes
<1>8. \A k, l \in DOMAIN queue' : b[k] < b[l] => k < l
  BY <1>5, <1>6
<1> QED BY <1>5, <1>7, <1>8 DEF Carried, SameTimes

LEMMA CancelCarries ==
  ASSUME Base, NEW r \in Relays, InputCancelPending(r), NEW s \in Relays
  PROVE  \E b : Carried(s, b, {}) /\ SameTimes(b, {})
<1>1. PICK g : ThinnedBy(queue', queue, SentBy(r), g)
  BY CancelKeeps
<1>2. ~ handled
  BY DEF InputCancelPending, Reaches
<1> DEFINE n == Len(queue')
<1>3. /\ DOMAIN queue' = 1 .. n /\ n \in Nat
      /\ g \in [1 .. n -> DOMAIN queue]
      /\ \A k \in 1 .. n : queue'[k] = queue[g[k]]
      /\ \A k, l \in 1 .. n : k < l => g[k] < g[l]
  BY <1>1 DEF ThinnedBy
<1> HIDE DEF n
<1>4. \A i \in DOMAIN queue : i \in Int
  BY DEF Base, QueueOK
<1>5. ASSUME NEW k \in 1 .. n, NEW l \in 1 .. n, g[k] < g[l] PROVE k < l
  <2>1. ~ l < k /\ l # k
    BY <1>3, <1>4, <1>5
  <2> QED BY <1>3, <2>1
<1>6. ASSUME NEW w \in Wakes(s)' PROVE g[w] \in Wakes(s)
  <2>1. EnableRefire(s)' = EnableRefire(s)
    BY DEF EnableRefire
  <2>2. w \in 1 .. n /\ queue[g[w]].post = EnableRefire(s)
    BY <1>3, <2>1 DEF Wakes
  <2> QED BY <1>2, <1>3, <2>2 DEF Wakes
<1> QED BY <1>3, <1>5, <1>6 DEF Carried, SameTimes

\* The queue is in order of time.
LEMMA SortedPost ==
  ASSUME NEW x \in Events, NEW n, QueueOK, Sorted, InsertedAt(queue', queue, x, n)
  PROVE  Sorted'
<1>1. /\ n \in 0 .. Len(queue) /\ Len(queue) \in Nat
      /\ DOMAIN queue = 1 .. Len(queue) /\ DOMAIN queue' = 1 .. Len(queue) + 1
      /\ queue'[n + 1] = x
      /\ \A i \in DOMAIN queue : i <= n => queue'[i] = queue[i]
      /\ \A k \in DOMAIN queue' : k > n + 1 =>
           k - 1 \in DOMAIN queue /\ k - 1 > n /\ queue'[k] = queue[k - 1]
  BY PostPlaces
<1>2. /\ \A i \in 1 .. n : queue[i].in <= x.in
      /\ n < Len(queue) => queue[n + 1].in > x.in
  BY DEF InsertedAt
<1>3. x.in \in Int /\ \A i \in DOMAIN queue : queue[i].in \in Int
  BY EventFields DEF QueueOK
<1>4. ASSUME NEW k \in DOMAIN queue', k > n + 1 PROVE x.in <= queue'[k].in
  <2>1. k - 1 \in DOMAIN queue /\ n + 1 \in DOMAIN queue /\ n + 1 <= k - 1 /\ n < Len(queue)
    BY <1>1, <1>4
  <2>2. queue[n + 1].in <= queue[k - 1].in
    BY <2>1 DEF Sorted
  <2>3. queue'[k].in = queue[k - 1].in
    BY <1>1, <1>4
  <2> QED BY <1>2, <1>3, <2>1, <2>2, <2>3
<1>5. ASSUME NEW i \in DOMAIN queue', NEW j \in DOMAIN queue', i <= j
      PROVE  queue'[i].in <= queue'[j].in
  <2>1. CASE j <= n
    <3>1. i \in DOMAIN queue /\ j \in DOMAIN queue /\ i <= n
      BY <1>1, <1>5, <2>1
    <3>2. queue'[i] = queue[i] /\ queue'[j] = queue[j]
      BY <1>1, <2>1, <3>1
    <3> QED BY <1>5, <3>1, <3>2 DEF Sorted
  <2>2. CASE j = n + 1
    <3>1. CASE i = j
      BY <1>1, <1>3, <2>2, <3>1
    <3>2. CASE i # j
      <4>1. i \in 1 .. n /\ i \in DOMAIN queue /\ queue'[i] = queue[i]
        BY <1>1, <1>5, <2>2, <3>2
      <4> QED BY <1>1, <1>2, <2>2, <4>1
    <3> QED BY <3>1, <3>2
  <2>3. CASE j > n + 1
    <3>1. j - 1 \in DOMAIN queue /\ queue'[j] = queue[j - 1]
      BY <1>1, <2>3
    <3>2. x.in <= queue'[j].in
      BY <1>4, <2>3
    <3>3. CASE i <= n
      <4>1. i \in 1 .. n /\ i \in DOMAIN queue /\ queue'[i] = queue[i]
        BY <1>1, <3>3
      <4>2. queue[i].in <= x.in
        BY <1>2, <4>1
      <4> QED BY <1>3, <3>1, <3>2, <4>1, <4>2
    <3>4. CASE i = n + 1
      BY <1>1, <3>2, <3>4
    <3>5. CASE i > n + 1
      <4>1. i - 1 \in DOMAIN queue /\ queue'[i] = queue[i - 1] /\ i - 1 <= j - 1
        BY <1>1, <1>5, <3>5
      <4> QED BY <3>1, <4>1 DEF Sorted
    <3> QED BY <1>1, <3>3, <3>4, <3>5
  <2> QED BY <1>1, <2>1, <2>2, <2>3
<1> QED BY <1>5 DEF Sorted

\* Every step that changes the queue is one of these.
LEMMA QueueSteps ==
  ASSUME Base, [Next]_vars
  PROVE  \/ \E x \in Events, n \in 0 .. Len(queue) : InsertedAt(queue', queue, x, n)
         \/ \E r \in Relays : InputCancelPending(r)
         \/ Fired \/ Tick \/ queue' = queue
<1>1. ASSUME NEW what \in Posts, NEW delay \in Nat, Asked(what), Schedule!Post(what, delay)
      PROVE  \E x \in Events, n \in 0 .. Len(queue) : InsertedAt(queue', queue, x, n)
  <2>1. QueueOK /\ delay \in Int
    BY DEF Base
  <2>2. PICK n \in 0 .. Len(queue) :
          InsertedAt(queue', queue, [in |-> delay, post |-> what], n)
    BY <1>1, <2>1, PostKeeps
  <2>3. [in |-> delay, post |-> what] \in Events
    BY <2>1 DEF Events
  <2> QED BY <2>2, <2>3
<1>2. CASE FireAction
  <2>1. /\ EventOf(Current) \in Posts /\ Asked(EventOf(Current)) /\ Current \in Action
        /\ Schedule!Post(EventOf(Current), Current.delay)
    BY <1>2, FireActionFacts
  <2> QED BY <2>1, <1>1, ActionFields
<1>3. CASE TriggerEnds /\ queue' # queue
  <2>1. PICK d \in Nat : Schedule!Post(EnableRefire(call.relay), d)
    BY <1>3, TriggerEndsFacts
  <2>2. EnableRefire(call.relay) \in Posts /\ Asked(EnableRefire(call.relay))
    BY <1>3, TriggerEndsFacts, EnableRefireAsked
  <2> QED BY <2>1, <2>2, <1>1
<1>4. CASE OutsidePost
  BY <1>4, <1>1, OutsidePostFacts
<1>5. ThinkEnds \/ OtherInput \/ ServiceEvents \/ Fire \/ ServiceEnd => queue' = queue
  BY DEF ThinkEnds, OtherInput, ServiceEvents, Fire, ServiceEnd,
         Schedule!ServiceEvents, Schedule!Fire, Schedule!ServiceEnd
<1>6. \A r \in Relays : Think(r) => queue' = queue
  BY DEF Think
<1>7. \A r \in Relays : Input(r) => InputCancelPending(r) \/ queue' = queue
  BY DEF Input, InputEnable, InputDisable, InputToggle, InputKill, InputEnableRefire,
         InputTrigger, Keep
<1>8. UNCHANGED vars => queue' = queue
  BY DEF vars
<1> QED BY <1>2, <1>3, <1>4, <1>5, <1>6, <1>7, <1>8 DEF Next, Undefined, Frame, Service, Output

LEMMA SortedStep == Base /\ Sorted /\ [Next]_vars => Sorted'
<1> SUFFICES ASSUME Base, Sorted, [Next]_vars PROVE Sorted'
  OBVIOUS
<1>1. QueueOK
  BY DEF Base
<1>2. ASSUME NEW x \in Events, NEW n \in 0 .. Len(queue), InsertedAt(queue', queue, x, n)
      PROVE  Sorted'
  BY <1>1, <1>2, SortedPost
<1>3. ASSUME NEW r \in Relays, InputCancelPending(r) PROVE Sorted'
  <2>1. PICK g : ThinnedBy(queue', queue, SentBy(r), g)
    BY <1>3, CancelKeeps
  <2> DEFINE n == Len(queue')
  <2>2. /\ DOMAIN queue' = 1 .. n /\ n \in Nat
        /\ g \in [1 .. n -> DOMAIN queue]
        /\ \A k \in 1 .. n : queue'[k] = queue[g[k]]
        /\ \A k, l \in 1 .. n : k < l => g[k] < g[l]
    BY <2>1 DEF ThinnedBy
  <2>3. \A i \in DOMAIN queue : i \in Int
    BY <1>1 DEF QueueOK
  <2> HIDE DEF n
  <2>4. ASSUME NEW k \in 1 .. n, NEW l \in 1 .. n, k <= l PROVE g[k] <= g[l]
    <3>1. k < l \/ k = l
      BY <2>2, <2>4
    <3> QED BY <2>2, <2>3, <3>1
  <2> QED BY <2>2, <2>4 DEF Sorted
<1>4. CASE Fired
  <2>1. queue' = Tail(queue) /\ phase = "firing"
    BY <1>4 DEF Fired, Schedule!Fired
  <2>2. queue \in Seq(Events) /\ queue # << >>
    BY <2>1 DEF Base, QueueOK, PhaseOK
  <2>3. /\ DOMAIN queue' = 1 .. Len(queue) - 1 /\ DOMAIN queue = 1 .. Len(queue)
        /\ Len(queue) \in Nat
        /\ \A i \in 1 .. Len(queue) - 1 : queue'[i] = queue[i + 1]
    BY <2>1, <2>2
  <2>4. ASSUME NEW i \in DOMAIN queue', NEW j \in DOMAIN queue', i <= j
        PROVE  queue'[i].in <= queue'[j].in
    <3>1. i + 1 \in DOMAIN queue /\ j + 1 \in DOMAIN queue /\ i + 1 <= j + 1
      BY <2>3, <2>4
    <3> QED BY <2>3, <3>1 DEF Sorted
  <2> QED BY <2>4 DEF Sorted
<1>5. CASE Tick
  <2>1. /\ DOMAIN queue' = DOMAIN queue /\ FrameTime \in Nat
        /\ \A i \in DOMAIN queue : queue'[i].in = queue[i].in - FrameTime
    BY <1>1, <1>5, TickFacts DEF QueueOK
  <2>2. \A i \in DOMAIN queue : queue[i].in \in Int
    BY <1>1, EventFields DEF QueueOK
  <2>3. ASSUME NEW i \in DOMAIN queue, NEW j \in DOMAIN queue, i <= j
        PROVE  queue'[i].in <= queue'[j].in
    <3>1. queue[i].in <= queue[j].in
      BY <2>3 DEF Sorted
    <3> QED BY <2>1, <2>2, <3>1
  <2> QED BY <2>1, <2>3 DEF Sorted
<1>6. CASE queue' = queue
  BY <1>6 DEF Sorted
<1> QED BY <1>2, <1>3, <1>4, <1>5, <1>6, QueueSteps

LEMMA AlwaysKeptStep == Base /\ AlwaysKept /\ [Next]_vars => AlwaysKept'
<1> SUFFICES ASSUME Base, AlwaysKept, [Next]_vars,
                    NEW r \in Relays, NEW j \in DOMAIN OnTrigger[r],
                    OnTrigger[r][j].times = EVENT_FIRE_ALWAYS
             PROVE  \E k \in DOMAIN outputs'[r]["OnTrigger"] :
                      outputs'[r]["OnTrigger"][k] = OnTrigger[r][j]
  BY DEF AlwaysKept
<1>1. PICK i \in DOMAIN outputs[r]["OnTrigger"] : outputs[r]["OnTrigger"][i] = OnTrigger[r][j]
  BY DEF AlwaysKept
<1>2. CASE FireAction
  <2>1. /\ call.relay \in Relays /\ call.output \in Outputs
        /\ List \in Seq(Action) /\ call.at \in 1 .. Len(List)
        /\ \A k \in DOMAIN List : List[k].times # 0
        /\ outputs' = [outputs EXCEPT ![call.relay] =
             [outputs[call.relay] EXCEPT ![call.output] = CountedDown(List, call.at)]]
    BY <1>2, FireActionFacts
  <2>2. outputs \in [Relays -> [Outputs -> Seq(Action)]]
    BY DEF Base, OutputsOK
  <2>3. CASE call.relay = r /\ call.output = "OnTrigger"
    <3>1. outputs'[r]["OnTrigger"] = CountedDown(List, call.at)
      BY <2>1, <2>2, <2>3
    <3>2. List = outputs[r]["OnTrigger"]
      BY <2>3 DEF List
    <3> QED BY <1>1, <2>1, <3>1, <3>2, CountedDownList
  <2>4. CASE ~ (call.relay = r /\ call.output = "OnTrigger")
    <3>1. "OnTrigger" \in Outputs
      BY DEF Outputs
    <3>2. outputs'[r]["OnTrigger"] = outputs[r]["OnTrigger"]
      BY <2>1, <2>2, <2>4, <3>1
    <3> QED BY <1>1, <3>2
  <2> QED BY <2>3, <2>4
<1>3. CASE outputs' = outputs
  BY <1>1, <1>3
<1>4. FireAction \/ outputs' = outputs
  BY CallSteps DEF ThinkEnds, TriggerEnds, Think, InputTrigger
<1> QED BY <1>2, <1>3, <1>4

\* What is posted while r does not fire OnTrigger is not its own.
LEMMA OwnPosts ==
  ASSUME Base, FireAction, NEW r \in Relays
  PROVE  /\ Own(r, EventOf(Current)) => Triggering(r)
         /\ Triggering(r) =>
              \E j \in DOMAIN OnTrigger[r] : Current.delay = OnTrigger[r][j].delay
         /\ Triggering(r)' <=> Triggering(r)
<1>1. /\ call.relay \in Relays /\ call.output \in Outputs
      /\ \E j \in DOMAIN Declared(call.relay, call.output) :
           SameAction(Current, Declared(call.relay, call.output)[j])
  BY FireActionFacts
<1>2. /\ call' \in OutputCalls /\ call'.relay = call.relay /\ call'.output = call.output
  BY FireActionFacts
<1>3. call # NULL /\ call' # NULL
  BY <1>2, RelayAssumption DEF FireAction
<1>4. PICK j \in DOMAIN Declared(call.relay, call.output) :
        SameAction(Current, Declared(call.relay, call.output)[j])
  BY <1>1
<1>5. ASSUME Own(r, EventOf(Current)), ~ Triggering(r) PROVE FALSE
  <2>1. call.relay = r
    BY <1>5 DEF Own, EventOf
  <2>2. PICK k \in DOMAIN OnTrigger[r] : Current.id = OnTrigger[r][k].id
    BY <1>5 DEF Own, EventOf
  <2>3. call.output = "OnSpawn"
    BY <1>1, <1>3, <1>5, <2>1 DEF Triggering, Outputs
  <2>4. j \in DOMAIN OnSpawn[r] /\ Current.id = OnSpawn[r][j].id
    BY <1>4, <2>1, <2>3 DEF Declared, SameAction
  <2> QED BY <2>2, <2>4, OutputAssumption
<1>6. ASSUME Triggering(r)
      PROVE  \E k \in DOMAIN OnTrigger[r] : Current.delay = OnTrigger[r][k].delay
  <2>1. Declared(call.relay, call.output) = OnTrigger[r]
    BY <1>6 DEF Triggering, Declared
  <2> QED BY <1>4, <2>1 DEF SameAction
<1>7. Triggering(r)' <=> Triggering(r)
  BY <1>2, <1>3 DEF Triggering
<1> QED BY <1>5, <1>6, <1>7

\* FireAction carries the queue, but for the new event.
LEMMA FireActionCarries ==
  ASSUME Base, FireAction, NEW r \in Relays
  PROVE  \E b, n : /\ Carried(r, b, {n + 1}) /\ SameTimes(b, {n + 1})
                   /\ n + 1 \in DOMAIN queue'
                   /\ queue'[n + 1] = [in |-> Current.delay, post |-> EventOf(Current)]
<1> DEFINE x == [in |-> Current.delay, post |-> EventOf(Current)]
<1>1. /\ EventOf(Current) \in Posts /\ Asked(EventOf(Current)) /\ Current \in Action
      /\ Schedule!Post(EventOf(Current), Current.delay)
  BY FireActionFacts
<1>2. Current.delay \in Nat /\ Current.id # 0
  BY <1>1, ActionFields
<1>3. QueueOK /\ Current.delay \in Int
  BY <1>2 DEF Base
<1>4. PICK n \in 0 .. Len(queue) : InsertedAt(queue', queue, x, n)
  BY <1>1, <1>3, PostKeeps
<1>5. x \in Events /\ x.in \in Nat /\ x.post.output # 0
  BY <1>1, <1>2, <1>3 DEF Events, EventOf
<1>6. handled' = handled
  BY DEF FireAction
<1> HIDE DEF x
<1>7. handled => n # 0
  BY <1>4, <1>5, PostsBehind
<1>8. x.post # EnableRefire(r)
  BY <1>5, EnableRefireIs
<1>9. PICK b : Carried(r, b, {n + 1}) /\ SameTimes(b, {n + 1})
  BY <1>3, <1>4, <1>5, <1>6, <1>7, <1>8, PostCarries
<1>10. n + 1 \in DOMAIN queue' /\ queue'[n + 1] = x
  BY <1>3, <1>4, <1>5, PostPlaces
<1> QED BY <1>9, <1>10 DEF x

LEMMA FireActionSettled ==
  ASSUME Base, LastKept, FireAction, NEW r \in Relays, Settled(r)
  PROVE  Settled(r)'
<1>1. PICK b, n : /\ Carried(r, b, {n + 1}) /\ SameTimes(b, {n + 1})
                  /\ queue'[n + 1] = [in |-> Current.delay, post |-> EventOf(Current)]
  BY FireActionCarries
<1>2. /\ queue'[n + 1].post = EventOf(Current) /\ queue'[n + 1].in = Current.delay
  BY <1>1
<1>3. Triggering(r)' <=> Triggering(r)
  BY OwnPosts
<1>4. waiting' = waiting
  BY DEF FireAction, relays
<1>5. CASE ~ Triggering(r)
  <2>1. \A k \in {n + 1} \cap DOMAIN queue' : ~Own(r, queue'[k].post)
    BY <1>2, <1>5, OwnPosts
  <2> QED BY <1>1, <1>3, <1>4, <1>5, <2>1, CarriedSettled
<1>6. CASE Triggering(r)
  <2>1. r \notin waiting'
    BY <1>4, <1>6 DEF Triggering, Base, CallOK
  <2>2. Soon(r, Current.delay)
    <3>1. PICK i \in DOMAIN OnTrigger[r] : Current.delay = OnTrigger[r][i].delay
      BY <1>6, OwnPosts
    <3> QED BY <3>1 DEF LastKept, Soon
  <2>3. ASSUME NEW k \in DOMAIN queue', Own(r, queue'[k].post) PROVE Soon(r, queue'[k].in)
    <3>1. CASE k = n + 1
      BY <1>2, <2>2, <3>1
    <3>2. CASE k # n + 1
      <4>1. /\ b[k] \in DOMAIN queue /\ queue'[k].post = queue[b[k]].post
            /\ queue'[k].in = queue[b[k]].in
        BY <1>1, <3>2 DEF Carried, SameTimes
      <4> QED BY <1>6, <2>3, <4>1 DEF Settled
    <3> QED BY <3>1, <3>2
  <2> QED BY <1>3, <1>6, <2>1, <2>3 DEF Settled, Own, Soon
<1> QED BY <1>5, <1>6

LEMMA FireActionQuiet ==
  ASSUME Base, FireAction, NEW r \in Relays, Quiet(r)
  PROVE  Quiet(r)'
<1>1. PICK b, n : Carried(r, b, {n + 1}) /\ SameTimes(b, {n + 1})
  BY FireActionCarries
<1>2. Triggering(r)' <=> Triggering(r)
  BY OwnPosts
<1>3. waiting' = waiting
  BY DEF FireAction, relays
<1> QED BY <1>1, <1>2, <1>3, CarriedQuiet

LEMMA OutsidePostSettled ==
  ASSUME Base, OutsidePost, NEW r \in Relays
  PROVE  /\ Settled(r) => Settled(r)'
         /\ Quiet(r) => Quiet(r)'
<1>1. PICK what \in Posts, delay \in Nat :
        what.caller = WORLD /\ Asked(what) /\ Schedule!Post(what, delay)
  BY OutsidePostFacts
<1> DEFINE x == [in |-> delay, post |-> what]
<1>2. QueueOK /\ delay \in Int
  BY DEF Base
<1>3. PICK n \in 0 .. Len(queue) : InsertedAt(queue', queue, x, n)
  BY <1>1, <1>2, PostKeeps
<1>4. x \in Events /\ x.in \in Nat /\ x.post = what
  BY <1>2 DEF Events
<1>5. handled' = handled /\ waiting' = waiting /\ call' = call
  BY DEF OutsidePost, relays, firing
<1> HIDE DEF x
<1>6. handled => n # 0
  BY <1>3, <1>4, PostsBehind
<1>7. x.post # EnableRefire(r) /\ ~Own(r, x.post)
  BY <1>1, <1>4, EnableRefireIs, RelayAssumption DEF Own
<1>8. PICK b : Carried(r, b, {n + 1}) /\ SameTimes(b, {n + 1})
  BY <1>2, <1>3, <1>4, <1>5, <1>6, <1>7, PostCarries
<1>9. \A k \in {n + 1} \cap DOMAIN queue' : ~Own(r, queue'[k].post)
  BY <1>2, <1>3, <1>4, <1>7, PostPlaces
<1>10. Triggering(r)' <=> Triggering(r)
  BY <1>5 DEF Triggering
<1> QED BY <1>5, <1>8, <1>9, <1>10, CarriedSettled, CarriedQuiet

\* The wake-up is posted behind everything the relay has posted.
LEMMA TriggerEndsSettled ==
  ASSUME Base, Sorted, AlwaysKept, WakesOK, TriggerEnds,
         NEW r \in Relays, r \notin removed', r \notin AllowFastRetrigger
  PROVE  /\ Settled(r) => Settled(r)'
         /\ ServerTime < 16384 /\ (r \in fired => Quiet(r)) => (r \in fired => Quiet(r)')
<1> DEFINE c == call.relay
<1>1. /\ handled' = handled /\ call' = NULL /\ fired' = fired
      /\ call # NULL /\ call.output = "OnTrigger" /\ c \in Relays /\ c \notin waiting /\ handled
  BY TriggerEndsFacts DEF TriggerEnds
<1>2. ~Triggering(r)' /\ (Triggering(r) <=> r = c)
  BY <1>1 DEF Triggering
<1>3. r \notin removed
  BY TriggerEndsFacts
<1>4. QueueOK
  BY DEF Base
<1>5. CASE queue' = queue /\ waiting' = waiting
  <2>1. r # c
    BY <1>1, <1>5, TriggerEndsFacts
  <2>2. PICK b : Carried(r, b, {}) /\ SameTimes(b, {})
    BY <1>1, <1>4, <1>5, SameCarries
  <2>3. Triggering(r)' <=> Triggering(r)
    BY <1>2, <2>1
  <2> QED BY <1>5, <2>2, <2>3, CarriedSettled, CarriedQuiet
<1>6. CASE ~ (queue' = queue /\ waiting' = waiting)
  <2>1. PICK d \in Nat : /\ GetMaxDelay(List) <= d
                         /\ d \in RefireDelays(GetMaxDelay(List))
                         /\ Schedule!Post(EnableRefire(c), d)
    BY <1>6, TriggerEndsFacts
  <2>2. waiting' = waiting \cup {c}
    BY <1>6, TriggerEndsFacts
  <2> DEFINE x == [in |-> d, post |-> EnableRefire(c)]
  <2>3. QueueOK /\ d \in Int /\ EnableRefire(c) \in Posts /\ Asked(EnableRefire(c))
    BY <1>1, EnableRefireAsked DEF Base
  <2>4. PICK n \in 0 .. Len(queue) : InsertedAt(queue', queue, x, n)
    BY <2>1, <2>3, PostKeeps
  <2>5. x \in Events /\ x.in = d /\ x.post = EnableRefire(c)
    BY <2>3 DEF Events
  <2> HIDE DEF x
  <2>6. n \in 1 .. Len(queue)
    BY <1>1, <2>4, <2>5, PostsBehind
  <2>7. queue'[n + 1] = x /\ n + 1 \in DOMAIN queue'
    BY <2>3, <2>4, <2>5, PostPlaces
  <2>8. ~Own(r, x.post)
    <3>1. \A k \in DOMAIN OnTrigger[r] : OnTrigger[r][k].id # 0
      <4>1. OnTrigger[r] \in Seq(Action)
        BY OutputAssumption
      <4> QED BY <4>1, ActionFields
    <3>2. x.post.output = 0
      BY <2>5, EnableRefireIs
    <3> QED BY <3>1, <3>2 DEF Own
  <2>9. CASE r # c
    <3>1. x.post # EnableRefire(r)
      BY <2>5, <2>9, EnableRefireIs
    <3>2. n # 0
      BY <2>6
    <3>3. PICK b : Carried(r, b, {n + 1}) /\ SameTimes(b, {n + 1})
      BY <1>1, <2>3, <2>4, <2>5, <3>1, <3>2, PostCarries
    <3>4. \A k \in {n + 1} \cap DOMAIN queue' : ~Own(r, queue'[k].post)
      BY <2>7, <2>8
    <3>5. (Triggering(r)' <=> Triggering(r)) /\ (r \in waiting <=> r \in waiting')
      BY <1>2, <2>2, <2>9
    <3> QED BY <3>3, <3>4, <3>5, CarriedSettled, CarriedQuiet
  <2>10. CASE r = c
    <3>1. WakeOK(r)'
      BY <1>3, TriggerEndsWakes DEF WakesOK
    <3>2. n + 1 \in Wakes(r)'
      <4>1. EnableRefire(r)' = EnableRefire(r)
        BY DEF EnableRefire
      <4>2. n + 1 # 1
        BY <2>6
      <4> QED BY <2>5, <2>7, <2>10, <4>1, <4>2 DEF Wakes
    <3>3. \A w \in Wakes(r)' : w = n + 1
      BY <3>1, <3>2 DEF WakeOK
    <3>4. r \in waiting'
      BY <2>2, <2>10
    <3>5. ASSUME Settled(r), NEW k \in DOMAIN queue', Own(r, queue'[k].post) PROVE k < n + 1
      <4>1. /\ DOMAIN queue = 1 .. Len(queue) /\ DOMAIN queue' = 1 .. Len(queue) + 1
            /\ \A i \in DOMAIN queue' : i > n + 1 =>
                 i - 1 \in DOMAIN queue /\ i - 1 > n /\ queue'[i] = queue[i - 1]
        BY <2>3, <2>4, <2>5, PostPlaces
      <4>2. k # n + 1
        BY <2>7, <2>8, <3>5
      <4>3. ASSUME k > n + 1 PROVE FALSE
        <5>1. /\ k - 1 \in DOMAIN queue /\ k - 1 > n /\ Own(r, queue[k - 1].post)
          BY <3>5, <4>1, <4>3
        <5>2. Soon(r, queue[k - 1].in)
          BY <1>2, <2>10, <3>5, <5>1 DEF Settled
        <5>3. \A j \in DOMAIN OnTrigger[r] :
                OnTrigger[r][j].times = EVENT_FIRE_ALWAYS => OnTrigger[r][j].delay <= d
          <6> SUFFICES ASSUME NEW j \in DOMAIN OnTrigger[r],
                              OnTrigger[r][j].times = EVENT_FIRE_ALWAYS
                       PROVE  OnTrigger[r][j].delay <= d
            OBVIOUS
          <6>1. PICK i \in DOMAIN outputs[r]["OnTrigger"] :
                  outputs[r]["OnTrigger"][i] = OnTrigger[r][j]
            BY DEF AlwaysKept
          <6>2. List = outputs[r]["OnTrigger"] /\ List \in Seq(Action)
            BY <1>1, <2>10, TriggerEndsFacts DEF List
          <6>3. List[i].delay <= GetMaxDelay(List) /\ GetMaxDelay(List) \in Nat
            BY <6>1, <6>2, GreatestDelay
          <6>4. List[i].delay \in Nat
            BY <6>1, <6>2, ActionFields
          <6> QED BY <2>1, <6>1, <6>2, <6>3, <6>4
        <5>4. queue[k - 1].in \in Int /\ \A j \in DOMAIN OnTrigger[r] : OnTrigger[r][j].delay \in Nat
          <6>1. OnTrigger[r] \in Seq(Action)
            BY OutputAssumption
          <6> QED BY <2>3, <5>1, <6>1, ActionFields, EventFields DEF QueueOK
        <5>5. queue[k - 1].in <= d
          BY <5>2, <5>3, <5>4, <2>1 DEF Soon
        <5>6. n < Len(queue) /\ n + 1 \in DOMAIN queue /\ n + 1 <= k - 1
          BY <2>6, <4>1, <5>1
        <5>7. queue[n + 1].in > d
          BY <2>4, <2>5, <5>6 DEF InsertedAt
        <5>8. queue[n + 1].in <= queue[k - 1].in
          BY <5>1, <5>6 DEF Sorted
        <5>9. queue[n + 1].in \in Int
          BY <2>3, <5>6, EventFields DEF QueueOK
        <5> QED BY <2>3, <5>4, <5>5, <5>7, <5>8, <5>9
      <4> QED BY <2>6, <4>1, <4>2, <4>3
    <3>6. Settled(r) => Settled(r)'
      BY <1>2, <3>3, <3>4, <3>5 DEF Settled, Own
    <3>7. ASSUME ServerTime < 16384 PROVE Quiet(r)'
      <4>1. d = GetMaxDelay(List) + 1
        BY <2>1, <3>7 DEF RefireDelays
      <4>2. List \in Seq(Action)
        BY TriggerEndsFacts
      <4>3. d >= 1
        BY <4>1, <4>2, GreatestDelay
      <4> QED BY <2>5, <2>7, <3>3, <3>4, <4>3 DEF Quiet
    <3> QED BY <3>6, <3>7
  <2> QED BY <2>9, <2>10
<1> QED BY <1>5, <1>6

\* Steps that leave the queue alone, and what the relay is at.
LEMMA StillSettled ==
  ASSUME Base, NEW r, queue' = queue, handled => handled',
         r \in waiting <=> r \in waiting', Triggering(r)' <=> Triggering(r)
  PROVE  /\ Settled(r) => Settled(r)'
         /\ Quiet(r) => Quiet(r)'
<1>1. QueueOK
  BY DEF Base
<1>2. PICK b : Carried(r, b, {}) /\ SameTimes(b, {})
  BY <1>1, SameCarries
<1> QED BY <1>2, CarriedSettled, CarriedQuiet

LEMMA FiredSettled ==
  ASSUME Base, Fired, NEW r \in Relays
  PROVE  /\ Settled(r) => Settled(r)'
         /\ Quiet(r) => Quiet(r)'
<1>1. PICK b : Carried(r, b, {}) /\ SameTimes(b, {})
  BY FiredCarries
<1>2. waiting' = waiting /\ call' = call
  BY DEF Fired, relays, firing
<1>3. Triggering(r)' <=> Triggering(r)
  BY <1>2 DEF Triggering
<1> QED BY <1>1, <1>2, <1>3, CarriedSettled, CarriedQuiet

\* Time moves on when no call is under way, and clears fired.
LEMMA TickSettled ==
  ASSUME Base, Tick, NEW r \in Relays, Settled(r)
  PROVE  Settled(r)'
<1>1. QueueOK /\ phase = "after"
  BY DEF Base, Tick, Schedule!Tick
<1>2. /\ DOMAIN queue' = DOMAIN queue
      /\ \A i \in DOMAIN queue : queue'[i].post = queue[i].post
      /\ handled' = handled /\ waiting' = waiting /\ call' = call
  BY <1>1, TickFacts DEF QueueOK, Tick, relays
<1>3. ~Triggering(r)
  BY <1>1 DEF Triggering, Base, CallOK
<1>4. ~Triggering(r)'
  BY <1>2, <1>3 DEF Triggering
<1>5. PICK b : Carried(r, b, {})
  BY <1>1, <1>2, SameCarries
<1> QED BY <1>2, <1>3, <1>4, <1>5, CarriedSettled

\* What the relay has posted is cancelled with its wake-up.
LEMMA InputCancelPendingSettled ==
  ASSUME Base, NEW r \in Relays, InputCancelPending(r), NEW s \in Relays
  PROVE  /\ Settled(s) => Settled(s)'
         /\ (s \in fired => Quiet(s)) => (s \in fired' => Quiet(s)')
<1>1. call = NULL /\ call' = call /\ waiting' = waiting \ {r} /\ fired' = fired \ {r}
  BY DEF InputCancelPending, Reaches, StopsWaiting
<1>2. ~Triggering(s) /\ ~Triggering(s)'
  BY <1>1 DEF Triggering
<1>3. CASE s # r
  <2>1. PICK b : Carried(s, b, {}) /\ SameTimes(b, {})
    BY CancelCarries
  <2>2. s \in waiting <=> s \in waiting'
    BY <1>1, <1>3
  <2> QED BY <1>1, <1>2, <1>3, <2>1, <2>2, CarriedSettled, CarriedQuiet
<1>4. CASE s = r
  <2>1. PICK g : ThinnedBy(queue', queue, SentBy(r), g)
    BY CancelKeeps
  <2>2. \A i \in DOMAIN queue : queue[i].post \in SentBy(r) <=> queue[i].post.caller = r
    BY CancelKeeps
  <2>3. ASSUME NEW k \in DOMAIN queue' PROVE queue'[k].post.caller # r
    <3>1. /\ k \in 1 .. Len(queue') /\ g[k] \in DOMAIN queue
          /\ queue'[k] = queue[g[k]] /\ queue[g[k]].post \notin SentBy(r)
      BY <2>1 DEF ThinnedBy
    <3> QED BY <2>2, <3>1
  <2>4. s \notin waiting' /\ s \notin fired'
    BY <1>1, <1>4
  <2>5. \A k \in DOMAIN queue' : ~Own(s, queue'[k].post)
    BY <1>4, <2>3 DEF Own
  <2> QED BY <1>2, <2>4, <2>5 DEF Settled, Own
<1> QED BY <1>3, <1>4

\* All that the relay has posted was before the wake-up that arrives.
LEMMA InputEnableRefireSettled ==
  ASSUME Base, NEW r \in Relays, InputEnableRefire(r),
         NEW s \in Relays \ removed, WakeOK(s)
  PROVE  /\ Settled(s) => Settled(s)'
         /\ (s \in fired => Quiet(s)) => (s \in fired' => Quiet(s)')
<1>1. /\ phase = "firing" /\ ~handled /\ waiting' = waiting \ {r} /\ call = NULL
      /\ Served.target = r /\ Served.input = "EnableRefire"
      /\ queue' = queue /\ call' = call /\ fired' = fired
  BY DEF InputEnableRefire, Receives, Reaches, Keep, firing
<1>2. ~Triggering(s) /\ ~Triggering(s)'
  BY <1>1 DEF Triggering
<1>3. CASE s # r
  <2>1. s \in waiting <=> s \in waiting'
    BY <1>1, <1>3
  <2> QED BY <1>1, <1>2, <2>1, StillSettled
<1>4. CASE s = r
  <2>1. queue \in Seq(Events) /\ queue # << >> /\ queue[1].in <= 0
    BY <1>1 DEF Base, QueueOK, PhaseOK
  <2>2. 1 \in DOMAIN queue /\ Served = queue[1].post
    BY <2>1 DEF Served
  <2>3. queue[1].post = EnableRefire(r)
    BY <1>1, <2>2 DEF Asked, Base, QueueOK
  <2>4. 1 \in Wakes(s)
    BY <1>1, <1>4, <2>2, <2>3 DEF Wakes
  <2>5. s \in waiting
    BY <2>4 DEF WakeOK
  <2>6. Settled(s) => \A i \in DOMAIN queue : ~Own(s, queue[i].post)
    <3>1. \A i \in DOMAIN queue : i \in Int /\ ~ (i < 1)
      BY <2>1
    <3> QED BY <2>4, <2>5, <3>1 DEF Settled
  <2>7. s \notin waiting'
    BY <1>1, <1>4
  <2>8. Settled(s) => Settled(s)'
    BY <1>1, <1>2, <2>6, <2>7 DEF Settled, Own
  <2>9. ~Quiet(s)
    <3>1. queue[1].in \in Int
      BY <2>1, <2>2, EventFields
    <3> QED BY <1>2, <2>1, <2>4, <3>1 DEF Quiet
  <2> QED BY <1>1, <2>8, <2>9
<1> QED BY <1>3, <1>4

\* A relay that starts to fire has nothing on its way.
LEMMA InputTriggerSettled ==
  ASSUME Base, NEW r \in Relays, InputTrigger(r), NEW s \in Relays
  PROVE  /\ Settled(s) => Settled(s)'
         /\ (s \in fired => Quiet(s)) => (s \in fired' => Quiet(s)')
<1>1. /\ call = NULL /\ handled' = TRUE /\ queue' = queue /\ waiting' = waiting
  BY DEF InputTrigger, Receives, Reaches, relays
<1>2. ~Triggering(s)
  BY <1>1 DEF Triggering
<1>3. CASE ~ Enabled(r)
  <2>1. call' = call /\ fired' = fired
    BY <1>3 DEF InputTrigger
  <2>2. ~Triggering(s)'
    BY <1>1, <2>1 DEF Triggering
  <2> QED BY <1>1, <1>2, <2>1, <2>2, StillSettled
<1>4. CASE Enabled(r)
  <2>1. /\ FireOutput(r, "OnTrigger") /\ fired' = fired \cup {r} /\ r \notin waiting
        /\ outputs' = outputs
    BY <1>4 DEF InputTrigger, Enabled
  <2>2. call' \in OutputCalls /\ call'.relay = r /\ call'.output = "OnTrigger"
    BY <2>1, CallBegins DEF Base, Outputs
  <2>3. call' # NULL
    BY <2>2, RelayAssumption
  <2>4. Triggering(s)' <=> s = r
    BY <2>2, <2>3 DEF Triggering
  <2>5. CASE s # r
    <3>1. s \in fired' => s \in fired
      BY <2>1, <2>5
    <3> QED BY <1>1, <1>2, <2>4, <2>5, <3>1, StillSettled
  <2>6. CASE s = r
    <3>1. Settled(s) => \A i \in DOMAIN queue : ~Own(s, queue[i].post)
      BY <1>2, <2>1, <2>6 DEF Settled
    <3>2. s \notin waiting'
      BY <1>1, <2>1, <2>6
    <3>3. Settled(s) => Settled(s)'
      BY <1>1, <2>4, <2>6, <3>1, <3>2 DEF Settled, Own
    <3>4. Quiet(s)'
      BY <2>4, <2>6 DEF Quiet
    <3> QED BY <3>3, <3>4
  <2> QED BY <2>5, <2>6
<1> QED BY <1>3, <1>4

\* Other steps that are neither a call of OnTrigger nor a post.
LEMMA OtherSettled ==
  ASSUME Base, NEW r \in Relays,
         \/ \E s \in Relays : \/ InputEnable(s) \/ InputDisable(s) \/ InputToggle(s)
                              \/ InputKill(s) \/ Think(s)
         \/ OtherInput \/ ThinkEnds \/ ServiceEvents \/ Fire \/ ServiceEnd
         \/ UNCHANGED vars
  PROVE  /\ Settled(r) => Settled(r)'
         /\ Quiet(r) => Quiet(r)'
         /\ fired' = fired
<1>1. queue' = queue /\ waiting' = waiting /\ (handled => handled') /\ fired' = fired
  BY DEF InputEnable, InputDisable, InputToggle, InputKill, Receives, Reaches, Keep, OtherInput,
         Think, ThinkEnds, ServiceEvents, Fire, ServiceEnd, Schedule!ServiceEvents,
         Schedule!Fire, Schedule!ServiceEnd, relays, firing, vars
<1>2. (r \in waiting <=> r \in waiting') /\ fired' = fired
  BY <1>1
<1>3. ASSUME Triggering(r)' <=> Triggering(r)
      PROVE  /\ Settled(r) => Settled(r)'
             /\ Quiet(r) => Quiet(r)'
  <2>1. queue' = queue /\ (handled => handled')
    BY <1>1
  <2> QED BY <1>2, <1>3, <2>1, StillSettled
<1>4. CASE call' = call
  <2>1. Triggering(r)' <=> Triggering(r)
    BY <1>4 DEF Triggering
  <2> QED BY <1>2, <1>3, <2>1
<1>5. CASE call' # call
  <2>1. ThinkEnds \/ \E s \in Relays : Think(s)
    BY <1>5 DEF InputEnable, InputDisable, InputToggle, InputKill, Receives, Reaches, Keep, OtherInput,
       ServiceEvents, Fire, ServiceEnd, firing, vars
  <2>2. ASSUME ThinkEnds PROVE ~Triggering(r) /\ ~Triggering(r)'
    BY <2>2 DEF ThinkEnds, FireOutputEnds, Triggering
  <2>3. ASSUME NEW s \in Relays, Think(s) PROVE ~Triggering(r) /\ ~Triggering(r)'
    BY <2>3 DEF Think, FireOutput, Triggering
  <2>4. Triggering(r)' <=> Triggering(r)
    BY <2>1, <2>2, <2>3
  <2> QED BY <1>2, <1>3, <2>4
<1> QED BY <1>4, <1>5

LEMMA RemovedGrows == [Next]_vars => removed \subseteq removed'
BY DEF Next, Undefined, Frame, Service, Output, Input, FireAction, ThinkEnds, TriggerEnds, InputEnable,
       InputDisable, InputToggle, InputKill, InputEnableRefire, InputCancelPending,
       InputTrigger, OtherInput, OutsidePost, ServiceEvents, Fire, Fired, ServiceEnd, Tick,
       Think, Keep, relays, firing, vars

LEMMA SettledStep ==
  Base /\ Sorted /\ AlwaysKept /\ WakesOK /\ SettledOK /\ LastKept /\ [Next]_vars => SettledOK'
<1> SUFFICES ASSUME Base, Sorted, AlwaysKept, WakesOK, SettledOK, LastKept, [Next]_vars,
                    NEW r \in Relays, r \notin removed', r \notin AllowFastRetrigger
             PROVE  Settled(r)'
  BY DEF SettledOK
<1>1. r \notin removed /\ Settled(r) /\ WakeOK(r)
  BY RemovedGrows DEF SettledOK, WakesOK
<1>2. CASE FireAction
  BY <1>1, <1>2, FireActionSettled
<1>3. CASE TriggerEnds
  BY <1>1, <1>3, TriggerEndsSettled
<1>4. CASE OutsidePost
  BY <1>1, <1>4, OutsidePostSettled
<1>5. CASE Fired
  BY <1>1, <1>5, FiredSettled
<1>6. CASE Tick
  BY <1>1, <1>6, TickSettled
<1>7. ASSUME NEW s \in Relays, Input(s) PROVE Settled(r)'
  BY <1>1, <1>7, InputCancelPendingSettled, InputEnableRefireSettled, InputTriggerSettled,
     OtherSettled DEF Input
<1>8. ASSUME NEW s \in Relays, Think(s) PROVE Settled(r)'
  BY <1>1, <1>8, OtherSettled
<1>9. CASE OtherInput \/ ThinkEnds \/ ServiceEvents \/ Fire \/ ServiceEnd \/ UNCHANGED vars
  BY <1>1, <1>9, OtherSettled
<1> QED BY <1>2, <1>3, <1>4, <1>5, <1>6, <1>7, <1>8, <1>9 DEF Next, Undefined, Frame, Service, Output

LEMMA QuietStep ==
  Base /\ Sorted /\ AlwaysKept /\ WakesOK /\ QuietOK /\ ServerTime < 16384 /\ [Next]_vars
  => QuietOK'
<1> SUFFICES ASSUME Base, Sorted, AlwaysKept, WakesOK, QuietOK, ServerTime < 16384,
                    [Next]_vars
             PROVE  QuietOK'
  OBVIOUS
<1>0. fired' \subseteq Relays
  BY BaseStep DEF Base, RelaysOK
<1> SUFFICES ASSUME NEW r \in Relays, r \notin removed', r \notin AllowFastRetrigger,
                    r \in fired'
             PROVE  Quiet(r)'
  BY <1>0 DEF QuietOK
<1>1. r \notin removed /\ WakeOK(r) /\ (r \in fired => Quiet(r))
  BY RemovedGrows DEF QuietOK, WakesOK
<1>2. CASE FireAction
  <2>1. fired' = fired
    BY <1>2 DEF FireAction
  <2> QED BY <1>1, <1>2, <2>1, FireActionQuiet
<1>3. CASE TriggerEnds
  <2>1. fired' = fired
    BY <1>3 DEF TriggerEnds
  <2> QED BY <1>1, <1>3, <2>1, TriggerEndsSettled
<1>4. CASE OutsidePost
  <2>1. fired' = fired
    BY <1>4 DEF OutsidePost, firing
  <2> QED BY <1>1, <1>4, <2>1, OutsidePostSettled
<1>5. CASE Fired
  <2>1. fired' = fired
    BY <1>5 DEF Fired, firing
  <2> QED BY <1>1, <1>5, <2>1, FiredSettled
<1>6. CASE Tick
  BY <1>6 DEF Tick
<1>7. ASSUME NEW s \in Relays, Input(s) PROVE Quiet(r)'
  BY <1>1, <1>7, InputCancelPendingSettled, InputEnableRefireSettled, InputTriggerSettled,
     OtherSettled DEF Input
<1>8. ASSUME NEW s \in Relays, Think(s) PROVE Quiet(r)'
  BY <1>1, <1>8, OtherSettled
<1>9. CASE OtherInput \/ ThinkEnds \/ ServiceEvents \/ Fire \/ ServiceEnd \/ UNCHANGED vars
  BY <1>1, <1>9, OtherSettled
<1> QED BY <1>2, <1>3, <1>4, <1>5, <1>6, <1>7, <1>8, <1>9 DEF Next, Undefined, Frame, Service, Output

LEMMA SettledInit == Init => Sorted /\ AlwaysKept /\ WakesOK /\ SettledOK /\ QuietOK
<1> SUFFICES ASSUME Init PROVE Sorted /\ AlwaysKept /\ WakesOK /\ SettledOK /\ QuietOK
  OBVIOUS
<1>1. /\ queue = << >> /\ call = NULL /\ fired = {} /\ waiting = {}
      /\ outputs = [r \in Relays |-> [OnTrigger |-> OnTrigger[r], OnSpawn |-> OnSpawn[r]]]
  BY DEF Init, Schedule!Init
<1>2. \A r \in Relays : outputs[r]["OnTrigger"] = OnTrigger[r]
  BY <1>1
<1>3. DOMAIN queue = {} /\ \A r : Wakes(r) = {}
  BY <1>1 DEF Wakes
<1>4. Sorted /\ WakesOK /\ SettledOK /\ QuietOK
  BY <1>1, <1>3 DEF Sorted, WakesOK, WakeOK, SettledOK, Settled, Triggering, QuietOK
<1>5. AlwaysKept
  BY <1>2 DEF AlwaysKept
<1> QED BY <1>4, <1>5

\* A call of OnTrigger begins with an input Trigger, which does not reach a removed relay.
LEMMA StartsBy ==
  ASSUME Base, [Next]_vars, NEW r \in Relays, Starts(r)
  PROVE  r \notin removed /\ r \notin waiting /\ ~Triggering(r) /\ queue' = queue
<1>1. call = NULL /\ call' # NULL /\ call'.relay = r /\ call'.output = "OnTrigger"
  BY DEF Starts
<1>2. PICK s \in Relays : Think(s) \/ (InputTrigger(s) /\ Enabled(s))
  <2>1. ~FireAction /\ ~ThinkEnds /\ ~TriggerEnds /\ ~UNCHANGED <<call, posted, outputs>>
    BY <1>1 DEF FireAction, ThinkEnds, TriggerEnds
  <2> QED BY <2>1, CallSteps
<1>3. \/ call'.relay = s /\ call'.output = "OnSpawn" /\ Think(s)
      \/ call'.relay = s /\ InputTrigger(s) /\ Enabled(s)
  BY <1>2 DEF Think, InputTrigger, FireOutput
<1>4. s = r /\ InputTrigger(r) /\ Enabled(r)
  BY <1>1, <1>3
<1>5. Served.input = "Trigger" /\ (r \in removed => Served = EnableRefire(r)) /\ queue' = queue
  BY <1>4 DEF InputTrigger, Receives, Reaches
<1>6. r \notin removed
  BY <1>5, EnableRefireIs
<1> QED BY <1>1, <1>4, <1>5, <1>6 DEF Enabled, Triggering

\* "it cannot be refired until after the last output has been fired": when a relay fires
\* OnTrigger, nothing that OnTrigger posted before is in the queue (InputTrigger), where
\* the greatest delay is one of an action that is always fired.
THEOREM LastOutputAlwaysFirst ==
  ASSUME LastKept
  PROVE  Spec => LastOutputFirst
<1> DEFINE Inv == Base /\ Sorted /\ AlwaysKept /\ WakesOK /\ SettledOK
<1>1. Init => Inv
  BY BaseInit, SettledInit
<1>2. Inv /\ [Next]_vars => Inv'
  BY BaseStep, SortedStep, AlwaysKeptStep, WakesStep, SettledStep
<1>3. ASSUME Inv, [Next]_vars, NEW r \in Relays \ AllowFastRetrigger, Starts(r),
             NEW i \in 2 .. Len(queue), queue[i].post.caller = r, NEW k \in DOMAIN OnTrigger[r]
      PROVE  queue[i].post.output # OnTrigger[r][k].id
  <2>1. r \notin removed /\ r \notin waiting /\ ~Triggering(r)
    BY <1>3, StartsBy
  <2>2. Settled(r)
    BY <1>3, <2>1 DEF SettledOK
  <2>3. i \in DOMAIN queue
    BY <1>3 DEF Base, QueueOK
  <2> QED BY <1>3, <2>1, <2>2, <2>3 DEF Settled, Own
<1>4. Inv /\ [Next]_vars => [\A r \in Relays \ AllowFastRetrigger : Starts(r) =>
        \A i \in 2 .. Len(queue) : queue[i].post.caller = r =>
          \A k \in DOMAIN OnTrigger[r] : queue[i].post.output # OnTrigger[r][k].id]_vars
  BY <1>3
<1> QED BY <1>1, <1>2, <1>4, PTL DEF Spec, LastOutputFirst

\* EnableRefire is there "to prevent rapid refire": without a CancelPending in between a
\* relay fires OnTrigger once at one server time, while 0.001 is more than the distance
\* of two neighbouring server times.
THEOREM NeverRapidRefire ==
  ASSUME ServerTime < 16384
  PROVE  Spec => NoRapidRefire
<1> DEFINE Inv == Base /\ Sorted /\ AlwaysKept /\ WakesOK /\ QuietOK
<1>1. Init => Inv
  BY BaseInit, SettledInit
<1>2. Inv /\ [Next]_vars => Inv'
  BY BaseStep, SortedStep, AlwaysKeptStep, WakesStep, QuietStep
<1>3. ASSUME Inv, [Next]_vars, NEW r \in Relays \ AllowFastRetrigger, Starts(r)
      PROVE  r \notin fired
  <2>1. r \notin removed /\ r \notin waiting /\ ~Triggering(r)
    BY <1>3, StartsBy
  <2> QED BY <1>3, <2>1 DEF QuietOK, Quiet
<1>4. Inv /\ [Next]_vars =>
        [\A r \in Relays \ AllowFastRetrigger : Starts(r) => r \notin fired]_vars
  BY <1>3
<1> QED BY <1>1, <1>2, <1>4, PTL DEF Spec, NoRapidRefire
=============================================================================
