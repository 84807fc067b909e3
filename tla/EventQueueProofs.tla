-------------------------- MODULE EventQueueProofs --------------------------
(***************************************************************************)
(* For any number of events, inputs and frames: the links always visit the *)
(* events in their order, so events fire in order and never early, nothing *)
(* due is left behind, a cancelling loop misses nothing, and every step is *)
(* a step of EventSchedule or changes nothing there.                       *)
(***************************************************************************)
EXTENDS EventQueueRefinement, FiniteSetTheorems, WellFoundedInduction, TLAPS

-----------------------------------------------------------------------------
(* The inductive invariant.                                                *)

\* The AddEvent calls whose events are queued come one after another.
TotalOrder ==
  /\ \A d, e \in queued : d # e => <<d, e>> \in before \/ <<e, d>> \in before
  /\ \A d, e \in queued : ~(<<d, e>> \in before /\ <<e, d>> \in before)
  /\ \A d, e, f \in queued :
       <<d, e>> \in before /\ <<e, f>> \in before => <<d, f>> \in before

List == ListTypes /\ TotalOrder /\ InOrder

\* Where the walking calls stand, and that they and ServiceEvents keep apart.
Calls ==
  /\ walk \in {"none", "restore"} => cursor = NULL
  /\ walk # "none" => phase # "between"
  /\ walk \in {"save", "restore"} => phase \notin {"firing", "cancelled"}
  /\ walk = "cancel" /\ phase = "firing" => ~Matches(pe, key)

\* A cancelling loop has yet to come to every event that it names.
Ahead ==
  walk = "cancel" => \A e \in queued : Matches(e, key) =>
    cursor # NULL /\ (e = cursor \/ Earlier(cursor, e))

IInv == TypeOK /\ List /\ PointersLive /\ Calls /\ Ahead

\* "Earlier" after a step.
EarlierThen(d, e) ==
  \/ fireTime'[d] < fireTime'[e]
  \/ fireTime'[d] = fireTime'[e] /\ <<d, e>> \in before'

-----------------------------------------------------------------------------
(* The order of the events.                                                *)

\* "Earlier" orders the queued events.
LEMMA EarlierOrders ==
  ASSUME ListTypes, TotalOrder
  PROVE  /\ \A d \in queued : ~Earlier(d, d)
         /\ \A d, e \in queued : ~(Earlier(d, e) /\ Earlier(e, d))
         /\ \A d, e \in queued : d = e \/ Earlier(d, e) \/ Earlier(e, d)
         /\ \A d, e, f \in queued : Earlier(d, e) /\ Earlier(e, f) => Earlier(d, f)
<1>1. \A d \in queued : fireTime[d] \in Int
  BY DEF ListTypes
<1>2. \A d, e \in queued : ~(Earlier(d, e) /\ Earlier(e, d))
  <2> TAKE d, e \in queued
  <2>1. fireTime[d] \in Int /\ fireTime[e] \in Int
    BY <1>1
  <2>2. ~(<<d, e>> \in before /\ <<e, d>> \in before)
    BY DEF TotalOrder
  <2> QED BY <2>1, <2>2 DEF Earlier
<1>3. \A d, e \in queued : d = e \/ Earlier(d, e) \/ Earlier(e, d)
  <2> TAKE d, e \in queued
  <2>1. fireTime[d] \in Int /\ fireTime[e] \in Int
    BY <1>1
  <2>2. d = e \/ <<d, e>> \in before \/ <<e, d>> \in before
    BY DEF TotalOrder
  <2> QED BY <2>1, <2>2 DEF Earlier
<1>4. \A d, e, f \in queued : Earlier(d, e) /\ Earlier(e, f) => Earlier(d, f)
  <2> TAKE d, e, f \in queued
  <2>1. fireTime[d] \in Int /\ fireTime[e] \in Int /\ fireTime[f] \in Int
    BY <1>1
  <2>2. <<d, e>> \in before /\ <<e, f>> \in before => <<d, f>> \in before
    BY DEF TotalOrder
  <2> QED BY <2>1, <2>2 DEF Earlier
<1> QED BY <1>2, <1>3, <1>4

\* The first event of the list is the earliest of all.
LEMMA FirstIsEarliest ==
  ASSUME List, NEW e \in queued
  PROVE  next[HEAD] \in queued /\ (e = next[HEAD] \/ Earlier(next[HEAD], e))
BY DEF List, InOrder

-----------------------------------------------------------------------------
(* The operations on the list.                                             *)

\* RemoveEvent takes one event out and leaves the order of the others alone.
LEMMA RemoveOrder ==
  ASSUME List, NEW e \in queued, RemoveEvent(e)
  PROVE  /\ queued' = queued \ {e}
         /\ \A d, f \in queued' : EarlierThen(d, f) <=> Earlier(d, f)
         /\ \A d \in queued' : fireTime'[d] = fireTime[d] /\ post'[d] = post[d]
<1>1. queued' = queued \ {e}
  BY DEF RemoveEvent
<1>2. \A d \in queued' : fireTime'[d] = fireTime[d] /\ post'[d] = post[d]
  BY <1>1 DEF RemoveEvent, List, ListTypes
<1>3. \A d, f \in queued' : <<d, f>> \in before' <=> <<d, f>> \in before
  BY <1>1 DEF RemoveEvent
<1> QED BY <1>1, <1>2, <1>3 DEF Earlier, EarlierThen

\* RemoveEvent keeps the list in order.
LEMMA RemoveKeepsList ==
  ASSUME List, NEW e \in queued, RemoveEvent(e)
  PROVE  List'
<1> USE DEF List
<1>1. queued' = queued \ {e}
  BY RemoveOrder
<1>2. HEAD \notin queued /\ NULL \notin queued /\ NULL # HEAD /\ e \in Events /\ NULL \notin Posts
  BY AddressAssumption, PostsAssumption DEF ListTypes
<1> DEFINE p == prev[e]  n == next[e]
<1>3. /\ p \in queued \cup {HEAD} /\ next[p] = e /\ p # e
      /\ n # NULL => n \in queued /\ prev[n] = e /\ Earlier(e, n) /\ n # e /\ n # p
  <2>1. p \in queued \cup {HEAD} /\ next[p] = e
    BY DEF InOrder
  <2>2. p # HEAD => Earlier(p, e)
    BY <2>1, <1>2 DEF InOrder
  <2>3. n # NULL => n \in queued /\ prev[n] = e /\ Earlier(e, n)
    BY <1>2 DEF InOrder
  <2> QED BY <2>1, <2>2, <2>3, <1>2, EarlierOrders
<1>4. /\ next' = [next EXCEPT ![p] = n, ![e] = NULL]
      /\ prev' = IF n = NULL THEN [prev EXCEPT ![e] = NULL]
                 ELSE [prev EXCEPT ![n] = p, ![e] = NULL]
  BY DEF RemoveEvent, Bypassed
<1>5. /\ next'[p] = n /\ next'[e] = NULL
      /\ \A d \in queued' \cup {HEAD} : d # p => next'[d] = next[d]
  BY <1>1, <1>2, <1>3, <1>4 DEF ListTypes
<1>6. /\ n # NULL => prev'[n] = p
      /\ \A d \in queued' : d # n => prev'[d] = prev[d]
      /\ prev'[e] = NULL
  BY <1>1, <1>2, <1>3, <1>4 DEF ListTypes
<1>7. \A d \in queued \cup {HEAD} : next[d] = e => d = p
  BY <1>2 DEF InOrder
<1>8. \A d \in queued : prev[d] = e => d = n
  BY <1>2 DEF InOrder
<1>9. ListTypes'
  <2>1. next' \in [Events \cup {HEAD} -> queued' \cup {NULL}]
    BY <1>1, <1>2, <1>3, <1>4, <1>7 DEF ListTypes
  <2>2. prev' \in [Events -> queued' \cup {HEAD, NULL}]
    BY <1>1, <1>2, <1>3, <1>4, <1>8 DEF ListTypes
  <2>3. /\ fireTime' \in [Events -> Int]
        /\ post' \in [Events -> Posts \cup {NULL}]
        /\ queued' \subseteq Events
    BY <1>1 DEF ListTypes, RemoveEvent
  <2>4. before' \subseteq queued' \X queued'
    BY <1>1 DEF ListTypes, RemoveEvent
  <2>5. \A d \in queued' : post'[d] # NULL
    BY <1>1, RemoveOrder DEF ListTypes
  <2>6. \A d \in Events \ queued' : next'[d] = NULL /\ prev'[d] = NULL /\ post'[d] = NULL
    <3> TAKE d \in Events \ queued'
    <3>1. CASE d = e
      BY <3>1, <1>2, <1>5, <1>6 DEF RemoveEvent, ListTypes
    <3>2. CASE d # e
      <4>1. next[d] = NULL /\ prev[d] = NULL /\ post[d] = NULL /\ d # p /\ d # n
        BY <3>2, <1>1, <1>2, <1>3, AddressAssumption DEF ListTypes
      <4> QED BY <4>1, <3>2, <1>4 DEF RemoveEvent, ListTypes
    <3> QED BY <3>1, <3>2
  <2> QED BY <2>1, <2>2, <2>3, <2>4, <2>5, <2>6 DEF ListTypes
<1>10. TotalOrder'
  <2>1. \A d, f \in queued' : <<d, f>> \in before' <=> <<d, f>> \in before
    BY <1>1 DEF RemoveEvent
  <2> QED BY <1>1, <2>1 DEF TotalOrder
<1>11. InOrder'
  <2>1. ASSUME NEW d \in queued' \cup {HEAD}, next'[d] # NULL
        PROVE  next'[d] \in queued' /\ prev'[next'[d]] = d /\ (d # HEAD => EarlierThen(d, next'[d]))
    <3>1. CASE d = p
      BY <2>1, <3>1, <1>1, <1>2, <1>3, <1>5, <1>6, RemoveOrder, EarlierOrders DEF InOrder
    <3>2. CASE d # p
      <4>1. next'[d] = next[d] /\ next[d] \in queued /\ prev[next[d]] = d
        BY <2>1, <3>2, <1>1, <1>5 DEF InOrder
      <4>2. next[d] # e /\ next[d] # n
        BY <4>1, <3>2, <1>1, <1>2, <1>3, <1>7, <2>1
      <4> QED BY <4>1, <4>2, <1>1, <1>6, RemoveOrder, <2>1 DEF InOrder
    <3> QED BY <3>1, <3>2
  <2>2. ASSUME NEW f \in queued'
        PROVE  prev'[f] \in queued' \cup {HEAD} /\ next'[prev'[f]] = f
    <3>1. CASE f = n
      BY <3>1, <2>2, <1>1, <1>2, <1>3, <1>5, <1>6
    <3>2. CASE f # n
      <4>1. prev'[f] = prev[f] /\ prev[f] \in queued \cup {HEAD} /\ next[prev[f]] = f
        BY <3>2, <2>2, <1>1, <1>6 DEF InOrder
      <4>2. prev[f] # e /\ prev[f] # p
        BY <4>1, <3>2, <2>2, <1>1, <1>3, <1>8
      <4> QED BY <4>1, <4>2, <1>1, <1>5
    <3> QED BY <3>1, <3>2
  <2>3. ASSUME NEW d \in queued' \cup {HEAD}, NEW f \in queued', d = HEAD \/ EarlierThen(d, f)
        PROVE  next'[d] # NULL /\ (f = next'[d] \/ EarlierThen(next'[d], f))
    <3>1. d = HEAD \/ Earlier(d, f)
      BY <2>3, <1>1, RemoveOrder
    <3>2. next[d] # NULL /\ (f = next[d] \/ Earlier(next[d], f))
      BY <3>1, <2>3, <1>1 DEF InOrder
    <3>3. CASE d = p
      <4>1. Earlier(e, f)
        BY <3>2, <3>3, <1>3, <1>1, <2>3
      <4>2. n # NULL /\ (f = n \/ Earlier(n, f))
        BY <4>1, <1>1 DEF InOrder
      <4> QED BY <4>2, <3>3, <1>1, <1>3, <1>5, RemoveOrder
    <3>4. CASE d # p
      <4>1. next'[d] = next[d] /\ next[d] \in queued /\ next[d] # e
        BY <3>2, <3>4, <2>3, <1>1, <1>5, <1>7 DEF InOrder
      <4> QED BY <4>1, <3>2, <1>1, RemoveOrder
    <3> QED BY <3>3, <3>4
  <2> QED BY <2>1, <2>2, <2>3 DEF InOrder, Earlier, EarlierThen
<1> QED BY <1>9, <1>10, <1>11
-----------------------------------------------------------------------------
\* Linking the new node e behind the node d, where AddEvent's loop ended, keeps
\* the list in order: what fires no later than t is d and what precedes it.
LEMMA InsertKeepsList ==
  ASSUME List, NEW what \in Posts, NEW t \in Int,
         NEW e \in Events \ queued, NEW d \in queued \cup {HEAD},
         Stops(d, t), Inserted(e, d),
         fireTime' = [fireTime EXCEPT ![e] = t],
         post' = [post EXCEPT ![e] = what],
         queued' = queued \cup {e},
         before' = before \cup {<<f, e>> : f \in queued}
  PROVE  List'
<1> USE DEF List
<1> DEFINE n == next[d]
<1>1. /\ HEAD \notin queued /\ NULL \notin queued /\ NULL \notin Events /\ HEAD \notin Events
      /\ NULL # HEAD /\ what # NULL /\ queued \subseteq Events
  BY AddressAssumption, PostsAssumption DEF ListTypes
<1>2. /\ d # HEAD => fireTime[d] <= t
      /\ n # NULL => n \in queued /\ prev[n] = d /\ fireTime[n] > t
  BY DEF Stops, InOrder
<1>3. \A f \in queued : fireTime[f] \in Int /\ fireTime'[f] = fireTime[f] /\ f # e
  BY DEF ListTypes
<1>4. fireTime'[e] = t
  BY DEF ListTypes
<1>5. \A f, g \in queued : <<f, g>> \in before' <=> <<f, g>> \in before
  BY <1>3
<1>6. \A f \in queued : <<f, e>> \in before' /\ <<e, f>> \notin before'
  BY <1>3 DEF ListTypes
<1>7. <<e, e>> \notin before'
  BY <1>3 DEF ListTypes
<1>8. \A f, g \in queued : EarlierThen(f, g) <=> Earlier(f, g)
  BY <1>3, <1>5 DEF Earlier, EarlierThen
<1>9. \A f \in queued : /\ EarlierThen(f, e) <=> fireTime[f] <= t
                        /\ EarlierThen(e, f) <=> fireTime[f] > t
  BY <1>3, <1>4, <1>6 DEF EarlierThen
<1>10. ~EarlierThen(e, e)
  BY <1>4, <1>7 DEF EarlierThen
<1>11. \A f, g \in queued : Earlier(f, g) => fireTime[f] <= fireTime[g]
  BY <1>3 DEF Earlier
<1>12. \A f \in queued : d = HEAD \/ Earlier(d, f) =>
         n # NULL /\ (f = n \/ Earlier(n, f)) /\ fireTime[f] > t
  <2> TAKE f \in queued
  <2> HAVE d = HEAD \/ Earlier(d, f)
  <2>1. n # NULL /\ (f = n \/ Earlier(n, f))
    BY DEF InOrder
  <2>2. fireTime[n] <= fireTime[f]
    BY <2>1, <1>2, <1>3, <1>11
  <2> QED BY <2>1, <2>2, <1>2, <1>3
<1>13. \A f \in queued : ~(d = HEAD \/ Earlier(d, f)) =>
         d \in queued /\ (f = d \/ Earlier(f, d)) /\ fireTime[f] <= t
  <2> TAKE f \in queued
  <2> HAVE ~(d = HEAD \/ Earlier(d, f))
  <2>1. d \in queued /\ (f = d \/ Earlier(f, d))
    BY EarlierOrders
  <2>2. fireTime[f] <= fireTime[d]
    BY <2>1, <1>3, <1>11
  <2> QED BY <2>1, <2>2, <1>1, <1>2, <1>3
<1>14. /\ next' = [next EXCEPT ![e] = n, ![d] = e]
       /\ prev' = IF n = NULL THEN [prev EXCEPT ![e] = d]
                  ELSE [prev EXCEPT ![e] = d, ![n] = e]
  BY DEF Inserted
<1>15. /\ next'[d] = e /\ next'[e] = n
       /\ \A g \in queued \cup {HEAD} : g # d => next'[g] = next[g]
  BY <1>1, <1>14 DEF ListTypes
<1>16. /\ prev'[e] = d /\ (n # NULL => prev'[n] = e)
       /\ \A g \in queued : g # n => prev'[g] = prev[g]
  BY <1>1, <1>2, <1>3, <1>14 DEF ListTypes
<1>17. ListTypes'
  <2>1. next' \in [Events \cup {HEAD} -> queued' \cup {NULL}]
    BY <1>1, <1>2, <1>14 DEF ListTypes
  <2>2. prev' \in [Events -> queued' \cup {HEAD, NULL}]
    BY <1>1, <1>2, <1>14 DEF ListTypes
  <2>3. /\ fireTime' \in [Events -> Int]
        /\ post' \in [Events -> Posts \cup {NULL}]
        /\ queued' \subseteq Events
    BY DEF ListTypes
  <2>4. before' \subseteq queued' \X queued'
    BY DEF ListTypes
  <2>5. \A g \in queued' : post'[g] # NULL
    BY <1>1 DEF ListTypes
  <2>6. \A g \in Events \ queued' : next'[g] = NULL /\ prev'[g] = NULL /\ post'[g] = NULL
    BY <1>1, <1>2, <1>14 DEF ListTypes
  <2> QED BY <2>1, <2>2, <2>3, <2>4, <2>5, <2>6 DEF ListTypes
<1>18. TotalOrder'
  <2>1. \A g, f \in queued' : g # f => <<g, f>> \in before' \/ <<f, g>> \in before'
    BY <1>5, <1>6 DEF TotalOrder
  <2>2. \A g, f \in queued' : ~(<<g, f>> \in before' /\ <<f, g>> \in before')
    BY <1>5, <1>6, <1>7 DEF TotalOrder
  <2>3. \A g, f, h \in queued' :
          <<g, f>> \in before' /\ <<f, h>> \in before' => <<g, h>> \in before'
    <3> TAKE g, f, h \in queued'
    <3> HAVE <<g, f>> \in before' /\ <<f, h>> \in before'
    <3>1. g \in queued /\ f \in queued
      BY <1>6, <1>7
    <3>2. CASE h = e
      BY <1>6, <3>1, <3>2
    <3>3. CASE h # e
      <4>1. h \in queued
        BY <3>3
      <4>2. <<g, f>> \in before /\ <<f, h>> \in before
        BY <1>5, <3>1, <4>1
      <4>3. <<g, h>> \in before
        BY <3>1, <4>1, <4>2 DEF TotalOrder
      <4> QED BY <1>5, <3>1, <4>1, <4>3
    <3> QED BY <3>2, <3>3
  <2> QED BY <2>1, <2>2, <2>3 DEF TotalOrder
<1>19. InOrder'
  <2>1. ASSUME NEW g \in queued' \cup {HEAD}, next'[g] # NULL
        PROVE  next'[g] \in queued' /\ prev'[next'[g]] = g /\ (g # HEAD => EarlierThen(g, next'[g]))
    <3>1. CASE g = d
      BY <3>1, <1>1, <1>2, <1>9, <1>15, <1>16
    <3>2. CASE g = e
      BY <2>1, <3>2, <1>2, <1>9, <1>15, <1>16
    <3>3. CASE g # d /\ g # e
      <4>1. g \in queued \cup {HEAD} /\ next'[g] = next[g]
        BY <3>3, <1>15
      <4>2. next[g] \in queued /\ prev[next[g]] = g /\ (g # HEAD => Earlier(g, next[g]))
        BY <2>1, <4>1 DEF InOrder
      <4>3. next[g] # n
        BY <4>2, <3>3, <1>1, <1>2
      <4> QED BY <4>1, <4>2, <4>3, <1>8, <1>16
    <3> QED BY <3>1, <3>2, <3>3
  <2>2. ASSUME NEW f \in queued'
        PROVE  prev'[f] \in queued' \cup {HEAD} /\ next'[prev'[f]] = f
    <3>1. CASE f = e
      BY <3>1, <1>15, <1>16
    <3>2. CASE f = n /\ f # e
      BY <3>2, <1>1, <1>2, <1>15, <1>16
    <3>3. CASE f # e /\ f # n
      <4>1. f \in queued /\ prev'[f] = prev[f]
        BY <3>3, <1>16
      <4>2. prev[f] \in queued \cup {HEAD} /\ next[prev[f]] = f
        BY <4>1 DEF InOrder
      <4> QED BY <4>1, <4>2, <3>3, <1>15
    <3> QED BY <3>1, <3>2, <3>3
  <2>3. ASSUME NEW g \in queued' \cup {HEAD}, NEW f \in queued', g = HEAD \/ EarlierThen(g, f)
        PROVE  next'[g] # NULL /\ (f = next'[g] \/ EarlierThen(next'[g], f))
    <3>1. CASE g = d
      <4>1. next'[g] = e /\ e # NULL
        BY <3>1, <1>1, <1>15
      <4>2. CASE f # e
        <5>1. f \in queued /\ (d = HEAD \/ Earlier(d, f))
          BY <2>3, <3>1, <4>2, <1>8
        <5> QED BY <5>1, <4>1, <1>9, <1>12
      <4> QED BY <4>1, <4>2
    <3>2. CASE g = e
      <4>1. f \in queued /\ fireTime[f] > t
        BY <2>3, <3>2, <1>1, <1>9, <1>10
      <4>2. d = HEAD \/ Earlier(d, f)
        BY <4>1, <1>3, <1>13
      <4> QED BY <4>1, <4>2, <3>2, <1>2, <1>8, <1>12, <1>15
    <3>3. CASE g # d /\ g # e /\ f # e
      <4>1. g \in queued \cup {HEAD} /\ f \in queued /\ next'[g] = next[g]
        BY <3>3, <1>15
      <4>2. next[g] \in queued /\ (f = next[g] \/ Earlier(next[g], f))
        BY <4>1, <2>3, <1>8 DEF InOrder
      <4> QED BY <4>1, <4>2, <1>1, <1>8
    <3>4. CASE g # d /\ g # e /\ f = e
      <4>1. g \in queued \cup {HEAD} /\ next'[g] = next[g]
        BY <3>4, <1>15
      <4>2. d \in queued /\ (g = HEAD \/ Earlier(g, d))
        <5>1. CASE g = HEAD
          BY <5>1, <3>4
        <5>2. CASE g # HEAD
          <6>1. g \in queued /\ fireTime[g] <= t
            BY <5>2, <4>1, <2>3, <3>4, <1>9
          <6> QED BY <6>1, <1>3, <1>12, <1>13, <3>4
        <5> QED BY <5>1, <5>2
      <4>3. next[g] \in queued /\ (d = next[g] \/ Earlier(next[g], d))
        BY <4>1, <4>2 DEF InOrder
      <4>4. fireTime[next[g]] <= t
        BY <4>2, <4>3, <1>1, <1>2, <1>3, <1>11
      <4> QED BY <4>1, <4>3, <4>4, <3>4, <1>1, <1>9
    <3> QED BY <3>1, <3>2, <3>3, <3>4
  <2> QED BY <2>1, <2>2, <2>3 DEF InOrder, Earlier, EarlierThen
<1> QED BY <1>17, <1>18, <1>19

\* AddEvent keeps the list in order and everything that is in it.
LEMMA AddKeepsList ==
  ASSUME List, NEW what \in Posts, NEW t \in Int, AddEvent(what, t)
  PROVE  List' /\ queued \subseteq queued'
<1>1. PICK e \in Events \ queued, d \in queued \cup {HEAD} :
        /\ Stops(d, t)
        /\ Inserted(e, d)
        /\ fireTime' = [fireTime EXCEPT ![e] = t]
        /\ post' = [post EXCEPT ![e] = what]
        /\ queued' = queued \cup {e}
        /\ before' = before \cup {<<f, e>> : f \in queued}
  BY DEF AddEvent
<1> QED BY <1>1, InsertKeepsList

\* Clear leaves an empty list.
LEMMA ClearKeepsList ==
  ASSUME Clear
  PROVE  List' /\ queued' = {}
<1>1. /\ next' = [e \in Events \cup {HEAD} |-> NULL]
      /\ prev' = [e \in Events |-> NULL]
      /\ fireTime' = [e \in Events |-> 0]
      /\ post' = [e \in Events |-> NULL]
      /\ queued' = {} /\ before' = {}
  BY DEF Clear, HeadReset, NoLinks
<1>2. ListTypes' /\ TotalOrder'
  BY <1>1 DEF ListTypes, TotalOrder
<1>3. InOrder'
  BY <1>1 DEF InOrder
<1> QED BY <1>1, <1>2, <1>3 DEF List
-----------------------------------------------------------------------------
(* The invariant.                                                          *)

LEMMA InitEstablishes == Init => IInv
<1> SUFFICES ASSUME Init PROVE IInv
  OBVIOUS
<1>1. TypeOK
  BY TimeAssumption DEF Init, TypeOK, ListTypes
<1>2. List
  BY <1>1 DEF Init, List, TypeOK, TotalOrder, InOrder
<1>3. PointersLive /\ Calls /\ Ahead
  BY DEF Init, PointersLive, Calls, Ahead
<1> QED BY <1>1, <1>2, <1>3 DEF IInv

\* The parts of the invariant that are not about the list itself.
Others ==
  /\ now \in 0 .. MaxTime
  /\ phase \in {"before", "between", "firing", "cancelled", "after"}
  /\ walk \in {"none", "cancel", "save", "restore"}
  /\ walk = "cancel" => key \in Keys
  /\ file \in Seq([in : Int, post : Posts]) /\ loading \in Seq([in : Int, post : Posts])

LEMMA TypeParts == TypeOK <=> ListTypes /\ Others
BY DEF TypeOK, Others

\* A step that leaves the list alone keeps it in order.
LEMMA ListKept ==
  ASSUME List, UNCHANGED list
  PROVE  /\ List' /\ queued' = queued /\ next' = next
         /\ post' = post /\ fireTime' = fireTime /\ before' = before
BY DEF list, List, ListTypes, TotalOrder, InOrder, Earlier

\* The calls of game code keep the invariant.
LEMMA PostKeeps ==
  ASSUME IInv, NEW what \in Posts, NEW delay \in Delays, PostEvent(what, delay)
  PROVE  IInv'
<1> USE DEF IInv
<1>1. now + delay \in Int
  BY TimeAssumption DEF TypeOK
<1>2. List' /\ queued \subseteq queued'
  BY <1>1, AddKeepsList DEF PostEvent
<1>3. walk = "none" /\ UNCHANGED <<frame, walking, file, loading>>
  BY DEF PostEvent, GameRuns
<1>4. Others'
  BY <1>3, TypeParts DEF Others, frame, walking
<1>5. PointersLive' /\ Calls' /\ Ahead'
  BY <1>2, <1>3 DEF PointersLive, Calls, Ahead, frame, walking
<1> QED BY <1>2, <1>4, <1>5, TypeParts DEF List, ListTypes, TypeOK, Others

LEMMA ClearKeeps ==
  ASSUME IInv, Clear, BetweenFrames,
         UNCHANGED <<frame, key, cursor, file>>,
         walk' \in {"none", "restore"}, loading' \in {loading, file}
  PROVE  IInv'
<1> USE DEF IInv
<1>1. List' /\ queued' = {}
  BY ClearKeepsList
<1>2. Others'
  BY TypeParts DEF Others, frame
<1>3. PointersLive' /\ Calls' /\ Ahead'
  BY <1>1 DEF PointersLive, Calls, Ahead, BetweenFrames, frame
<1> QED BY <1>1, <1>2, <1>3 DEF List, TypeOK, Others

LEMMA CancelKeeps ==
  ASSUME IInv, NEW k \in Keys, Cancel(k)
  PROVE  IInv'
<1> USE DEF IInv
<1>1. List' /\ queued' = queued /\ next' = next /\ post' = post
      /\ fireTime' = fireTime /\ before' = before
  BY ListKept DEF Cancel
<1>2. /\ walk' = "cancel" /\ key' = k /\ cursor' = next[HEAD]
      /\ phase' = (IF phase = "firing" /\ Matches(pe, k) THEN "cancelled" ELSE phase)
      /\ pe' = pe /\ phase # "between" /\ now' = now
      /\ UNCHANGED <<file, loading>>
  BY DEF Cancel, GameRuns
<1>3. Others'
  BY <1>2, TypeParts DEF Others
<1>4. cursor' \in queued' \cup {NULL}
  BY <1>1, <1>2 DEF List, ListTypes
<1>5. PointersLive'
  BY <1>1, <1>2, <1>4 DEF PointersLive
<1>6. Calls'
  BY <1>1, <1>2 DEF Calls, Matches
<1>7. Ahead'
  <2> SUFFICES ASSUME NEW e \in queued
               PROVE  cursor' # NULL /\ (e = cursor' \/ EarlierThen(cursor', e))
    BY <1>1 DEF Ahead, Earlier, EarlierThen
  <2>1. next[HEAD] \in queued /\ (e = next[HEAD] \/ Earlier(next[HEAD], e))
    BY FirstIsEarliest
  <2> QED BY <2>1, <1>1, <1>2, AddressAssumption DEF Earlier, EarlierThen, List, ListTypes
<1> QED BY <1>1, <1>3, <1>5, <1>6, <1>7 DEF List, TypeOK, Others

\* One turn of a cancelling loop: what it has yet to come to is still ahead.
LEMMA CancelStepKeeps ==
  ASSUME IInv, CancelStep
  PROVE  IInv'
<1> USE DEF IInv
<1>1. /\ walk = "cancel" /\ cursor \in queued /\ cursor' = next[cursor]
      /\ UNCHANGED <<frame, walk, key, file, loading>>
  BY DEF CancelStep, Following, PointersLive
<1>2. /\ List' /\ \A e \in queued' : e \in queued /\ post'[e] = post[e]
      /\ \A d, e \in queued' : Earlier(d, e) => EarlierThen(d, e)
      /\ queued' = IF Matches(cursor, key) THEN queued \ {cursor} ELSE queued
  <2>1. CASE Matches(cursor, key)
    <3>1. RemoveEvent(cursor)
      BY <2>1 DEF CancelStep
    <3> QED BY <3>1, <2>1, <1>1, RemoveKeepsList, RemoveOrder
  <2>2. CASE ~Matches(cursor, key)
    <3>1. UNCHANGED list
      BY <2>2 DEF CancelStep
    <3> QED BY <3>1, <2>2, ListKept DEF Earlier, EarlierThen
  <2> QED BY <2>1, <2>2
<1>3. Others'
  BY <1>1, TypeParts DEF Others, frame
<1>4. NULL \notin queued /\ HEAD \notin queued
  BY AddressAssumption DEF List, ListTypes
<1>5. next[cursor] \in (queued \ {cursor}) \cup {NULL}
  <2>1. next[cursor] # NULL => next[cursor] \in queued /\ Earlier(cursor, next[cursor])
    BY <1>1, <1>4 DEF List, InOrder
  <2> QED BY <2>1, <1>1, EarlierOrders DEF List
<1>6. phase = "firing" => pe \in queued'
  <2>1. phase = "firing" => pe \in queued /\ ~Matches(pe, key)
    BY <1>1 DEF Calls, PointersLive
  <2> QED BY <2>1, <1>2
<1>7. PointersLive'
  BY <1>1, <1>2, <1>5, <1>6 DEF PointersLive, frame
<1>8. \A e \in queued' : Matches(e, key)' <=> Matches(e, key)
  BY <1>1, <1>2 DEF Matches
<1>9. Calls'
  BY <1>1, <1>6, <1>8, <1>4 DEF Calls, frame
<1>10. Ahead'
  <2> SUFFICES ASSUME NEW e \in queued', Matches(e, key)
               PROVE  cursor' # NULL /\ (e = cursor' \/ EarlierThen(cursor', e))
    BY <1>8 DEF Ahead, Earlier, EarlierThen
  <2>1. e \in queued /\ e # cursor
    BY <1>2
  <2>2. Earlier(cursor, e)
    BY <2>1, <1>1 DEF Ahead
  <2>3. next[cursor] # NULL /\ (e = next[cursor] \/ Earlier(next[cursor], e))
    BY <2>1, <2>2, <1>1 DEF List, InOrder
  <2>4. next[cursor] \in queued'
    BY <2>3, <1>2, <1>5
  <2> QED BY <2>3, <2>4, <1>1, <1>2
<1> QED BY <1>2, <1>3, <1>7, <1>9, <1>10 DEF List, TypeOK, Others

LEMMA SavedWell ==
  ASSUME IInv, SaveStep
  PROVE  file' \in Seq([in : Int, post : Posts]) /\ cursor' \in queued \cup {NULL}
<1>1. cursor \in queued
  BY DEF IInv, PointersLive, SaveStep
<1>2. SavedTime(cursor) \in Int
  BY <1>1 DEF SavedTime, IInv, TypeOK, ListTypes
<1>3. post[cursor] \in Posts
  BY <1>1 DEF IInv, TypeOK, ListTypes
<1>4. next[cursor] \in queued \cup {NULL}
  BY <1>1 DEF IInv, TypeOK, ListTypes
<1> DEFINE x == [in |-> SavedTime(cursor), post |-> post[cursor]]
<1>5. x \in [in : Int, post : Posts]
  BY <1>2, <1>3
<1>6. file \in Seq([in : Int, post : Posts]) /\ file' = Append(file, x) /\ cursor' = next[cursor]
  BY DEF SaveStep, IInv, TypeOK
<1> HIDE DEF x
<1> QED BY <1>4, <1>5, <1>6

\* The calls that only read the list, and the ends of all calls.
LEMMA ReadsKeep ==
  ASSUME IInv, CancelEnd \/ Save \/ SaveStep \/ SaveEnd \/ RestoreEnd
  PROVE  IInv'
<1> USE DEF IInv
<1>1. List' /\ queued' = queued /\ next' = next /\ post' = post /\ UNCHANGED frame
  BY ListKept DEF CancelEnd, Save, SaveStep, SaveEnd, RestoreEnd
<1>2. Others'
  <2>1. CASE SaveStep
    BY <2>1, SavedWell, TypeParts DEF SaveStep, Others, frame
  <2>2. CASE CancelEnd \/ SaveEnd \/ RestoreEnd
    BY <2>2, TypeParts DEF CancelEnd, SaveEnd, RestoreEnd, Others, frame
  <2>3. CASE Save
    BY <2>3, TypeParts DEF Save, Others, frame
  <2> QED BY <2>1, <2>2, <2>3
<1>3. PointersLive'
  <2>1. cursor' \in queued' \cup {NULL}
    BY <1>1, SavedWell DEF CancelEnd, Save, SaveEnd, RestoreEnd, PointersLive, List, ListTypes
  <2> QED BY <2>1, <1>1 DEF PointersLive, frame
<1>4. Calls' /\ Ahead'
  BY <1>1 DEF Calls, Ahead, CancelEnd, Save, SaveStep, SaveEnd, RestoreEnd, frame, BetweenFrames
<1> QED BY <1>1, <1>2, <1>3, <1>4 DEF List, TypeOK, Others

LEMMA RestoreStepKeeps ==
  ASSUME IInv, RestoreStep
  PROVE  IInv'
<1> USE DEF IInv
<1>1. loading \in Seq([in : Int, post : Posts]) /\ loading # << >>
  BY DEF RestoreStep, TypeOK
<1>2. Head(loading) \in [in : Int, post : Posts] /\ Tail(loading) \in Seq([in : Int, post : Posts])
  <2> DEFINE Saves == [in : Int, post : Posts]
  <2> HIDE DEF Saves
  <2>1. loading \in Seq(Saves) /\ loading # << >>
    BY <1>1 DEF Saves
  <2>2. Head(loading) \in Saves /\ Tail(loading) \in Seq(Saves)
    BY <2>1
  <2> QED BY <2>2 DEF Saves
<1>3. now + Head(loading).in \in Int /\ Head(loading).post \in Posts
  BY <1>2 DEF TypeOK
<1>4. List' /\ queued \subseteq queued'
  BY <1>3, AddKeepsList DEF RestoreStep
<1>5. walk = "restore" /\ UNCHANGED <<frame, walking, file>> /\ loading' = Tail(loading)
  BY DEF RestoreStep
<1>6. Others'
  BY <1>2, <1>5, TypeParts DEF Others, frame, walking
<1>7. PointersLive' /\ Calls' /\ Ahead'
  BY <1>4, <1>5 DEF PointersLive, Calls, Ahead, frame, walking
<1> QED BY <1>4, <1>6, <1>7 DEF List, TypeOK, Others

\* The frame keeps the invariant.
LEMMA FrameKeeps ==
  ASSUME IInv, Tick \/ ServiceEvents \/ Fire \/ ServiceEnd
  PROVE  IInv'
<1> USE DEF IInv
<1>1. List' /\ queued' = queued /\ UNCHANGED <<walking, file, loading>>
  BY ListKept DEF Tick, ServiceEvents, Fire, ServiceEnd
<1>2. walk = "none" /\ cursor = NULL
  BY DEF Calls, Tick, ServiceEvents, Fire, ServiceEnd, GameRuns, TypeOK
<1>3. Others'
  BY <1>1, TypeParts, TimeAssumption
     DEF Others, Tick, ServiceEvents, Fire, ServiceEnd, walking
<1>4. Calls' /\ Ahead'
  BY <1>1, <1>2 DEF Calls, Ahead, walking
<1>5. PointersLive'
  <2>1. CASE Fire
    BY <2>1, <1>1, <1>2, AddressAssumption
       DEF Fire, DueNow, PointersLive, List, ListTypes, walking
  <2>2. CASE Tick \/ ServiceEvents \/ ServiceEnd
    BY <2>2, <1>1 DEF Tick, ServiceEvents, ServiceEnd, PointersLive, walking
  <2> QED BY <2>1, <2>2
<1> QED BY <1>1, <1>3, <1>4, <1>5 DEF List, TypeOK, Others

LEMMA FiredKeeps ==
  ASSUME IInv, Fired
  PROVE  IInv'
<1> USE DEF IInv
<1>1. walk = "none" /\ cursor = NULL /\ pe \in queued
  BY DEF Fired, GameRuns, Calls, PointersLive
<1>2. List'
  BY <1>1, RemoveKeepsList DEF Fired
<1>3. Others'
  BY TypeParts DEF Fired, Others, walking
<1>4. PointersLive' /\ Calls' /\ Ahead'
  BY <1>1 DEF Fired, Restart, PointersLive, Calls, Ahead, walking
<1> QED BY <1>2, <1>3, <1>4 DEF List, TypeOK, Others

LEMMA StepKeeps == IInv /\ [Next]_vars => IInv'
<1> SUFFICES ASSUME IInv, [Next]_vars PROVE IInv'
  OBVIOUS
<1>1. ASSUME NEW what \in Posts, NEW delay \in Delays, PostEvent(what, delay) PROVE IInv'
  BY <1>1, PostKeeps
<1>2. CASE ClearQueue
  BY <1>2, ClearKeeps DEF ClearQueue, BetweenFrames, walking
<1>3. ASSUME NEW k \in Keys, Cancel(k) PROVE IInv'
  BY <1>3, CancelKeeps
<1>4. CASE Restore
  BY <1>4, ClearKeeps DEF Restore
<1>5. CASE CancelStep
  BY <1>5, CancelStepKeeps
<1>6. CASE CancelEnd \/ Save \/ SaveStep \/ SaveEnd \/ RestoreEnd
  BY <1>6, ReadsKeep
<1>7. CASE RestoreStep
  BY <1>7, RestoreStepKeeps
<1>8. CASE Tick \/ ServiceEvents \/ Fire \/ ServiceEnd
  BY <1>8, FrameKeeps
<1>9. CASE Fired
  BY <1>9, FiredKeeps
<1>10. CASE UNCHANGED vars
  <2>1. List' /\ queued' = queued /\ post' = post /\ fireTime' = fireTime /\ before' = before
    BY <1>10, ListKept DEF vars, IInv
  <2>2. UNCHANGED <<now, phase, pe, walk, key, cursor, file, loading>>
    BY <1>10 DEF vars, frame, walking
  <2>3. Others'
    BY <2>2, TypeParts DEF IInv, Others
  <2>4. PointersLive' /\ Calls' /\ Ahead'
    BY <2>1, <2>2 DEF IInv, PointersLive, Calls, Ahead, Matches, Earlier
  <2> QED BY <2>1, <2>3, <2>4 DEF IInv, List, TypeOK, Others
<1> QED BY <1>1, <1>2, <1>3, <1>4, <1>5, <1>6, <1>7, <1>8, <1>9, <1>10
        DEF Next, Walk, Frame

-----------------------------------------------------------------------------
(* The results.                                                            *)

\* The strengthened invariant holds of every behaviour.
THEOREM Invariant == Spec => []IInv
<1>1. Init => IInv
  BY InitEstablishes
<1>2. IInv /\ [Next]_vars => IInv'
  BY StepKeeps
<1> QED BY <1>1, <1>2, PTL DEF Spec

\* Nodes that are not allocated hold nothing and no link leads to them.
THEOREM TypeCorrect == Spec => []TypeOK
BY Invariant, PTL DEF IInv

\* The links of the queue always visit all its events in firing order.
THEOREM AlwaysInOrder == Spec => []InOrder
<1>1. IInv => InOrder
  BY DEF IInv, List
<1> QED BY <1>1, Invariant, PTL

\* No loop over the queue ever stands on an event that has been deleted.
THEOREM PointersNeverStale == Spec => []PointersLive
BY Invariant, PTL DEF IInv

\* Events fire in order of time and of posting, and never early.
THEOREM EventsFireInOrder == Spec => FiresInOrder
<1>1. ASSUME IInv, [Next]_vars, phase' = "firing", phase # "firing"
      PROVE  /\ pe' \in queued /\ fireTime[pe'] <= now
             /\ \A e \in queued : e = pe' \/ Earlier(pe', e)
  <2>1. phase' # phase
    BY <1>1
  <2>2. Fire
    BY <1>1, <2>1 DEF Next, Walk, Frame, PostEvent, ClearQueue, Cancel, Save, Restore,
       CancelStep, CancelEnd, SaveStep, SaveEnd, RestoreStep, RestoreEnd, Tick,
       ServiceEvents, Fired, ServiceEnd, vars, frame
  <2>3. next[HEAD] \in queued /\ fireTime[next[HEAD]] <= now /\ pe' = next[HEAD]
    BY <2>2, <1>1 DEF Fire, DueNow, Due, IInv, List, InOrder
  <2> QED BY <2>3, <1>1, FirstIsEarliest DEF IInv
<1>2. IInv /\ [Next]_vars =>
        [phase' = "firing" /\ phase # "firing" =>
           /\ pe' \in queued /\ fireTime[pe'] <= now
           /\ \A e \in queued : e = pe' \/ Earlier(pe', e)]_vars
  BY <1>1
<1> QED BY <1>2, Invariant, PTL DEF Spec, FiresInOrder

\* ServiceEvents ends only when no event is due.
THEOREM NothingDueIsLeft == Spec => NothingDueLeft
<1>1. ASSUME IInv, [Next]_vars, phase = "between", phase' = "after", NEW e \in queued
      PROVE  fireTime[e] > now
  <2>1. phase' # phase
    BY <1>1
  <2>2. ServiceEnd
    BY <1>1, <2>1 DEF Next, Walk, Frame, PostEvent, ClearQueue, Cancel, Save, Restore,
       CancelStep, CancelEnd, SaveStep, SaveEnd, RestoreStep, RestoreEnd, Tick,
       ServiceEvents, Fire, Fired, vars, frame
  <2>3. next[HEAD] \in queued /\ (e = next[HEAD] \/ Earlier(next[HEAD], e))
    BY <1>1, FirstIsEarliest DEF IInv
  <2>4. fireTime[next[HEAD]] \in Int /\ fireTime[e] \in Int /\ now \in Int
    BY <1>1, <2>3 DEF IInv, TypeOK, ListTypes
  <2>5. ~(fireTime[next[HEAD]] <= now)
    BY <2>2, <2>3, <1>1, AddressAssumption DEF ServiceEnd, DueNow, Due, IInv, List, ListTypes
  <2> QED BY <2>3, <2>4, <2>5 DEF Earlier
<1>2. IInv /\ [Next]_vars =>
        [phase = "between" /\ phase' = "after" => \A e \in queued : fireTime[e] > now]_vars
  BY <1>1
<1> QED BY <1>2, Invariant, PTL DEF Spec, NothingDueLeft

\* A cancelling call returns only when nothing that it names is left.
THEOREM CancelsEverything == Spec => CancelsAll
<1>1. ASSUME IInv, [Next]_vars, walk = "cancel", walk' = "none", NEW e \in queued
      PROVE  ~Matches(e, key)
  <2>1. walk' # walk
    BY <1>1
  <2>2. CancelEnd
    BY <1>1, <2>1 DEF Next, Walk, Frame, PostEvent, ClearQueue, Cancel, Save, Restore,
       CancelStep, SaveStep, SaveEnd, RestoreStep, RestoreEnd, Tick,
       ServiceEvents, Fire, Fired, ServiceEnd, GameRuns, vars, walking
  <2> QED BY <2>2, <1>1 DEF CancelEnd, IInv, Ahead
<1>2. IInv /\ [Next]_vars =>
        [walk = "cancel" /\ walk' = "none" => \A e \in queued : ~Matches(e, key)]_vars
  BY <1>1
<1> QED BY <1>2, Invariant, PTL DEF Spec, CancelsAll

-----------------------------------------------------------------------------
(* Lists in an order, and the links that lead along them.                  *)

\* A set of natural numbers that has a member has a least one.
LEMMA LeastNumber ==
  ASSUME NEW T \in SUBSET Nat, T # {}
  PROVE  \E n \in T : \A m \in T : n <= m
<1>1. IsWellFoundedOn(OpToRel(<, Nat), Nat)
  BY NatLessThanWellFounded
<1> DEFINE R == OpToRel(<, Nat)
<1> HIDE DEF R
<1>2. IsWellFoundedOn(R, Nat)
  BY <1>1 DEF R
<1>3. \E x \in T : \A y \in T : ~ (<<y, x>> \in R)
  BY <1>2, WFMin
<1>4. \A x, y \in Nat : <<y, x>> \in R <=> y < x
  BY DEF R, OpToRel
<1>5. PICK n \in T : \A m \in T : ~ (<<m, n>> \in R)
  BY <1>3
<1>6. \A m \in T : n <= m
  <2> SUFFICES ASSUME NEW m \in T PROVE n <= m
    OBVIOUS
  <2>1. n \in Nat /\ m \in Nat
    OBVIOUS
  <2>2. ~ (m < n)
    BY <1>4, <1>5, <2>1
  <2> QED BY <2>1, <2>2
<1> QED BY <1>6

\* f is what the recursive definition in Met describes.
Follows(f, nx) ==
  f = [k \in 0 .. Cardinality(Events) |->
         IF k = 0 THEN HEAD ELSE After(nx, f[k - 1])]

LEMMA MetFollows ==
  ASSUME NEW nx, NEW w, Follows(w, nx)
  PROVE  \E at : /\ Follows(at, nx)
                 /\ Met(nx) = [k \in 1 .. Cardinality({i \in 1 .. Cardinality(Events) : at[i] # NULL})
                                 |-> at[k]]
<1> DEFINE at == CHOOSE f : f = [k \in 0 .. Cardinality(Events) |->
         IF k = 0 THEN HEAD ELSE After(nx, f[k - 1])]
<1>1. Follows(at, nx)
  BY DEF Follows
<1>2. Met(nx) = [k \in 1 .. Cardinality({i \in 1 .. Cardinality(Events) : at[i] # NULL}) |-> at[k]]
  BY DEF Met
<1> QED BY <1>1, <1>2

\* Links that lead along c are met in its order.
LEMMA MetAlong ==
  ASSUME NEW nx, NEW m \in Nat, m <= Cardinality(Events), NEW c \in [1 .. m -> Events],
         nx[HEAD] = IF m = 0 THEN NULL ELSE c[1],
         \A k \in 1 .. m : nx[c[k]] = IF k = m THEN NULL ELSE c[k + 1]
  PROVE  Met(nx) = c
<1> DEFINE N == Cardinality(Events)
           w == [k \in 0 .. N |-> IF k = 0 THEN HEAD ELSE IF k <= m THEN c[k] ELSE NULL]
<1>1. N \in Nat /\ HEAD # NULL /\ \A k \in 1 .. m : c[k] # NULL
  BY MemoryAssumption, AddressAssumption, FS_CardinalityType
<1> HIDE DEF N
<1>2. ASSUME NEW k \in 1 .. N
      PROVE  w[k] = After(nx, w[k - 1])
  <2>1. k - 1 \in 0 .. N
    BY <1>1
  <2>2. CASE k = 1
    BY <1>1, <2>2 DEF After
  <2>3. CASE k # 1 /\ k - 1 <= m
    <3>1. w[k - 1] = c[k - 1] /\ k - 1 \in 1 .. m
      BY <1>1, <2>1, <2>3
    <3>2. nx[c[k - 1]] = IF k - 1 = m THEN NULL ELSE c[k - 1 + 1]
      BY <3>1
    <3>3. k - 1 = m <=> ~(k <= m)
      BY <1>1, <2>3
    <3>4. k - 1 + 1 = k /\ k # 0 /\ w[k] = IF k <= m THEN c[k] ELSE NULL
      BY <1>1
    <3> HIDE DEF w
    <3> QED BY <1>1, <3>1, <3>2, <3>3, <3>4 DEF After
  <2>4. CASE ~(k - 1 <= m)
    <3>1. w[k - 1] = NULL /\ w[k] = NULL
      BY <1>1, <2>1, <2>4
    <3> QED BY <3>1 DEF After
  <2> QED BY <2>2, <2>3, <2>4
<1>3. w[0] = HEAD /\ DOMAIN w = 0 .. N
  BY <1>1
<1>4. Follows(w, nx)
  <2> DEFINE v == [k \in 0 .. N |-> IF k = 0 THEN HEAD ELSE After(nx, w[k - 1])]
  <2>1. ASSUME NEW k \in 0 .. N PROVE w[k] = v[k]
    <3>1. CASE k = 0
      BY <1>3, <3>1
    <3>2. CASE k # 0
      <4>1. k \in 1 .. N
        BY <1>1, <3>2
      <4> HIDE DEF w
      <4> QED BY <1>2, <3>2, <4>1
    <3> QED BY <3>1, <3>2
  <2>2. w = v
    BY <2>1
  <2> HIDE DEF w
  <2> QED BY <2>2 DEF Follows, N
<1> HIDE DEF w
<1>5. PICK at : /\ Follows(at, nx)
                /\ Met(nx) = [k \in 1 .. Cardinality({i \in 1 .. N : at[i] # NULL}) |-> at[k]]
  BY <1>4, MetFollows DEF N
<1>6. ASSUME NEW k \in 0 .. N PROVE at[k] = w[k]
  <2> SUFFICES ASSUME at[k] # w[k] PROVE FALSE
    OBVIOUS
  <2> DEFINE T == {i \in 0 .. N : at[i] # w[i]}
  <2>1. T \in SUBSET Nat /\ T # {}
    BY <1>1
  <2>2. PICK n \in T : \A i \in T : n <= i
    BY <2>1, LeastNumber
  <2>3. /\ at[0] = HEAD
        /\ \A i \in 1 .. N : at[i] = After(nx, at[i - 1])
    <3>1. at = [i \in 0 .. N |->
                  IF i = 0 THEN HEAD ELSE After(nx, at[i - 1])]
      BY <1>5 DEF Follows, N
    <3>2. 0 \in 0 .. N /\ \A i \in 1 .. N : i \in 0 .. N /\ i # 0
      BY <1>1
    <3> QED BY <3>1, <3>2
  <2>4. n # 0
    BY <1>3, <2>3
  <2>5. n \in 1 .. N /\ n - 1 \in 0 .. N /\ ~(n <= n - 1)
    BY <1>1, <2>4
  <2>6. at[n - 1] = w[n - 1]
    BY <2>2, <2>5
  <2> QED BY <1>2, <2>3, <2>5, <2>6
<1>7. {i \in 1 .. N : at[i] # NULL} = 1 .. m
  <2>1. m <= N
    BY DEF N
  <2>2. \A i \in 1 .. N : w[i] # NULL <=> i <= m
    BY <1>1 DEF w
  <2>3. \A i \in 1 .. N : at[i] = w[i]
    BY <1>1, <1>6
  <2>4. \A i \in 1 .. N : at[i] # NULL <=> i <= m
    BY <2>2, <2>3
  <2>5. \A i \in 1 .. m : i \in 1 .. N /\ i <= m
    BY <1>1, <2>1
  <2>6. \A i \in 1 .. N : i <= m => i \in 1 .. m
    BY <1>1
  <2> QED BY <2>4, <2>5, <2>6
<1>8. Cardinality(1 .. m) = m
  BY FS_Interval
<1>9. \A k \in 1 .. m : at[k] = c[k]
  <2>1. \A k \in 1 .. m : k \in 0 .. N /\ w[k] = c[k]
    BY <1>1 DEF w, N
  <2> QED BY <1>6, <2>1
<1>10. Met(nx) = [k \in 1 .. m |-> at[k]]
  BY <1>5, <1>7, <1>8
<1> QED BY <1>9, <1>10

-----------------------------------------------------------------------------
\* c lists the set S, of m elements, in the order R.
Enumerates(c, m, S, R) ==
  /\ m \in Nat /\ c \in [1 .. m -> S]
  /\ \A x \in S : \E k \in 1 .. m : c[k] = x
  /\ \A k, l \in 1 .. m : k < l => <<c[k], c[l]>> \in R

Strict(S, R) ==
  \A x, y \in S : ~(<<x, y>> \in R /\ <<y, x>> \in R)

\* The order tells the places.
LEMMA Places ==
  ASSUME NEW c, NEW m, NEW S, NEW R, Strict(S, R), Enumerates(c, m, S, R)
  PROVE  /\ \A k, l \in 1 .. m : <<c[k], c[l]>> \in R <=> k < l
         /\ \A k, l \in 1 .. m : c[k] = c[l] => k = l
<1>1. m \in Nat /\ \A k \in 1 .. m : c[k] \in S
  BY DEF Enumerates
<1>2. \A k, l \in 1 .. m : k < l => <<c[k], c[l]>> \in R
  BY DEF Enumerates
<1>3. \A x, y \in S : ~(<<x, y>> \in R /\ <<y, x>> \in R)
  BY DEF Strict
<1>4. \A x \in S : <<x, x>> \notin R
  BY <1>3
<1>5. ASSUME NEW k \in 1 .. m, NEW l \in 1 .. m, c[k] = c[l] PROVE k = l
  <2>1. ~(k < l) /\ ~(l < k)
    BY <1>1, <1>2, <1>4, <1>5
  <2> QED BY <1>1, <2>1
<1>6. ASSUME NEW k \in 1 .. m, NEW l \in 1 .. m, <<c[k], c[l]>> \in R PROVE k < l
  <2>1. ~(l < k) /\ k # l
    BY <1>1, <1>2, <1>3, <1>4, <1>6
  <2> QED BY <1>1, <2>1
<1> QED BY <1>2, <1>5, <1>6

LEMMA Count ==
  ASSUME NEW c, NEW m, NEW S, NEW R, Strict(S, R), Enumerates(c, m, S, R)
  PROVE  IsFiniteSet(S) /\ Cardinality(S) = m
<1>1. m \in Nat /\ c \in [1 .. m -> S] /\ \A x \in S : \E k \in 1 .. m : c[k] = x
  BY DEF Enumerates
<1>2. \A k, l \in 1 .. m : c[k] = c[l] => k = l
  BY Places
<1>3. c \in Bijection(1 .. m, S)
  BY <1>1, <1>2 DEF Bijection, Injection, Surjection, IsInjective
<1>4. ExistsBijection(1 .. m, S)
  BY <1>3 DEF ExistsBijection
<1> QED BY <1>1, <1>4, FS_CountingElements, FS_NatBijection

\* There is one such list.
LEMMA OneOrder ==
  ASSUME NEW S, NEW R, Strict(S, R), NEW b, NEW c, NEW m, NEW n,
         Enumerates(b, m, S, R), Enumerates(c, n, S, R)
  PROVE  b = c /\ m = n
<1>1. m = n
  BY Count
<1>2. /\ m \in Nat /\ b \in [1 .. m -> S] /\ c \in [1 .. m -> S]
      /\ \A x \in S : (\E k \in 1 .. m : b[k] = x) /\ (\E k \in 1 .. m : c[k] = x)
  BY <1>1 DEF Enumerates
<1>3. \A k, l \in 1 .. m : /\ <<b[k], b[l]>> \in R <=> k < l
                           /\ <<c[k], c[l]>> \in R <=> k < l
                           /\ b[k] = b[l] => k = l
                           /\ c[k] = c[l] => k = l
  BY <1>1, Places
<1>4. ASSUME NEW k \in 1 .. m, b[k] # c[k] PROVE FALSE
  <2> DEFINE T == {i \in 1 .. m : b[i] # c[i]}
  <2>1. T \in SUBSET Nat /\ T # {}
    <3>1. k \in T
      BY <1>4
    <3>2. m \in Nat
      BY <1>2
    <3> QED BY <3>1, <3>2
  <2>2. PICK i \in T : \A j \in T : i <= j
    BY <2>1, LeastNumber
  <2>3. i \in 1 .. m /\ b[i] # c[i] /\ \A j \in 1 .. m : j < i => b[j] = c[j]
    BY <1>2, <2>2
  <2>4. PICK j \in 1 .. m : c[j] = b[i]
    BY <1>2, <2>3
  <2>5. PICK l \in 1 .. m : b[l] = c[i]
    BY <1>2, <2>3
  <2>6. i < j
    <3>1. ~(j < i)
      <4> SUFFICES ASSUME j < i PROVE FALSE
        OBVIOUS
      <4>1. b[j] = b[i]
        BY <2>3, <2>4
      <4>2. j = i
        BY <1>3, <2>3, <4>1
      <4> QED BY <2>3, <2>4, <4>2
    <3>2. j # i
      BY <2>3, <2>4
    <3> QED BY <1>2, <3>1, <3>2, <2>3
  <2>7. i < l
    <3>1. ~(l < i)
      <4> SUFFICES ASSUME l < i PROVE FALSE
        OBVIOUS
      <4>1. c[l] = c[i]
        BY <2>3, <2>5
      <4>2. l = i
        BY <1>3, <2>3, <4>1
      <4> QED BY <2>3, <2>5, <4>2
    <3>2. l # i
      BY <2>3, <2>5
    <3> QED BY <1>2, <3>1, <3>2, <2>3
  <2>8. <<c[i], b[i]>> \in R
    BY <1>3, <2>3, <2>4, <2>6
  <2>9. <<b[i], c[i]>> \in R
    BY <1>3, <2>3, <2>5, <2>7
  <2>10. b[i] \in S /\ c[i] \in S
    BY <1>2, <2>3
  <2> QED BY <2>8, <2>9, <2>10 DEF Strict
<1> QED BY <1>1, <1>2, <1>4

\* The list without what stood at place p.
LEMMA Gap ==
  ASSUME NEW c, NEW m, NEW S, NEW R, NEW R2, NEW p \in 1 .. m,
         Strict(S, R), Enumerates(c, m, S, R),
         \A x, y \in S \ {c[p]} : <<x, y>> \in R => <<x, y>> \in R2
  PROVE  Enumerates([k \in 1 .. m - 1 |-> IF k < p THEN c[k] ELSE c[k + 1]],
                    m - 1, S \ {c[p]}, R2)
<1> DEFINE b == [k \in 1 .. m - 1 |-> IF k < p THEN c[k] ELSE c[k + 1]]
           o(k) == IF k < p THEN k ELSE k + 1
<1>1. /\ m \in Nat /\ m - 1 \in Nat /\ c \in [1 .. m -> S]
      /\ \A x \in S : \E k \in 1 .. m : c[k] = x
      /\ \A k, l \in 1 .. m : k < l => <<c[k], c[l]>> \in R
  BY DEF Enumerates
<1>2. \A k, l \in 1 .. m : c[k] = c[l] => k = l
  BY Places
<1>3. \A k \in 1 .. m - 1 : o(k) \in 1 .. m /\ o(k) # p /\ b[k] = c[o(k)]
  BY <1>1
<1>4. \A k, l \in 1 .. m - 1 : k < l => o(k) < o(l)
  BY <1>1
<1>5. \A k \in 1 .. m : k # p => \E l \in 1 .. m - 1 : o(l) = k
  <2> SUFFICES ASSUME NEW k \in 1 .. m, k # p PROVE \E l \in 1 .. m - 1 : o(l) = k
    OBVIOUS
  <2>1. CASE k < p
    BY <1>1, <2>1
  <2>2. CASE p < k
    <3>1. k - 1 \in 1 .. m - 1 /\ o(k - 1) = k
      BY <1>1, <2>2
    <3> QED BY <3>1
  <2> QED BY <1>1, <2>1, <2>2
<1>6. b = [k \in 1 .. m - 1 |-> b[k]]
  OBVIOUS
<1> HIDE DEF o, b
<1>7. \A k \in 1 .. m - 1 : b[k] \in S \ {c[p]}
  BY <1>1, <1>2, <1>3
<1>8. b \in [1 .. m - 1 -> S \ {c[p]}]
  BY <1>6, <1>7
<1>9. \A x \in S \ {c[p]} : \E k \in 1 .. m - 1 : b[k] = x
  <2> SUFFICES ASSUME NEW x \in S \ {c[p]} PROVE \E k \in 1 .. m - 1 : b[k] = x
    OBVIOUS
  <2>1. PICK k \in 1 .. m : c[k] = x
    BY <1>1
  <2>2. PICK l \in 1 .. m - 1 : o(l) = k
    BY <1>5, <2>1
  <2> QED BY <1>3, <2>1, <2>2
<1>10. \A k, l \in 1 .. m - 1 : k < l => <<b[k], b[l]>> \in R2
  <2> SUFFICES ASSUME NEW k \in 1 .. m - 1, NEW l \in 1 .. m - 1, k < l
               PROVE  <<b[k], b[l]>> \in R2
    OBVIOUS
  <2>1. <<c[o(k)], c[o(l)]>> \in R
    BY <1>1, <1>3, <1>4
  <2>2. <<b[k], b[l]>> \in R
    BY <1>3, <2>1
  <2> QED BY <1>7, <2>2
<1> QED BY <1>1, <1>8, <1>9, <1>10 DEF Enumerates, b

\* The list with e behind the place n.
LEMMA Wedge ==
  ASSUME NEW c, NEW m, NEW S, NEW R, NEW R2, NEW e, NEW n \in 0 .. m,
         Enumerates(c, m, S, R),
         \A x, y \in S : <<x, y>> \in R => <<x, y>> \in R2,
         \A k \in 1 .. m : IF k <= n THEN <<c[k], e>> \in R2 ELSE <<e, c[k]>> \in R2
  PROVE  Enumerates([k \in 1 .. m + 1 |-> IF k <= n THEN c[k]
                                          ELSE IF k = n + 1 THEN e ELSE c[k - 1]],
                    m + 1, S \cup {e}, R2)
<1> DEFINE b == [k \in 1 .. m + 1 |-> IF k <= n THEN c[k]
                                      ELSE IF k = n + 1 THEN e ELSE c[k - 1]]
<1>1. /\ m \in Nat /\ m + 1 \in Nat /\ c \in [1 .. m -> S]
      /\ \A x \in S : \E k \in 1 .. m : c[k] = x
      /\ \A k, l \in 1 .. m : k < l => <<c[k], c[l]>> \in R
  BY DEF Enumerates
<1>2. /\ \A k \in 1 .. n : b[k] = c[k] /\ k \in 1 .. m
      /\ b[n + 1] = e
      /\ \A k \in n + 2 .. m + 1 : b[k] = c[k - 1] /\ k - 1 \in 1 .. m /\ k - 1 > n
  BY <1>1
<1>3. \A k \in 1 .. m + 1 : k \in 1 .. n \/ k = n + 1 \/ k \in n + 2 .. m + 1
  BY <1>1
<1>4. b = [k \in 1 .. m + 1 |-> b[k]]
  OBVIOUS
<1>5. \A k \in 1 .. m : \E l \in 1 .. m + 1 : b[l] = c[k]
  <2> SUFFICES ASSUME NEW k \in 1 .. m PROVE \E l \in 1 .. m + 1 : b[l] = c[k]
    OBVIOUS
  <2>1. CASE k <= n
    <3>1. k \in 1 .. m + 1 /\ b[k] = c[k]
      BY <1>1, <2>1
    <3> QED BY <3>1
  <2>2. CASE ~(k <= n)
    <3>1. k + 1 \in 1 .. m + 1 /\ b[k + 1] = c[k + 1 - 1] /\ k + 1 - 1 = k
      BY <1>1, <2>2
    <3> QED BY <3>1
  <2> QED BY <2>1, <2>2
<1>6. n + 1 \in 1 .. m + 1
  BY <1>1
<1> HIDE DEF b
<1>7. \A k \in 1 .. m + 1 : b[k] \in S \cup {e}
  BY <1>1, <1>2, <1>3
<1>8. b \in [1 .. m + 1 -> S \cup {e}]
  BY <1>4, <1>7
<1>9. \A x \in S \cup {e} : \E k \in 1 .. m + 1 : b[k] = x
  <2>1. \A x \in S : \E k \in 1 .. m + 1 : b[k] = x
    BY <1>1, <1>5
  <2> QED BY <1>2, <1>6, <2>1
<1>10. \A k, l \in 1 .. m + 1 : k < l => <<b[k], b[l]>> \in R2
  <2> SUFFICES ASSUME NEW k \in 1 .. m + 1, NEW l \in 1 .. m + 1, k < l
               PROVE  <<b[k], b[l]>> \in R2
    OBVIOUS
  <2>1. CASE k = n + 1
    <3>1. l \in n + 2 .. m + 1
      BY <1>1, <2>1
    <3>2. l - 1 \in 1 .. m /\ ~(l - 1 <= n) /\ b[l] = c[l - 1]
      BY <1>1, <1>2, <3>1
    <3> QED BY <1>2, <2>1, <3>2
  <2>2. CASE l = n + 1
    <3>1. k \in 1 .. n
      BY <1>1, <2>2
    <3>2. k \in 1 .. m /\ k <= n /\ b[k] = c[k]
      BY <1>1, <1>2, <3>1
    <3> QED BY <1>2, <2>2, <3>2
  <2>3. CASE k # n + 1 /\ l # n + 1
    <3> DEFINE o(i) == IF i <= n THEN i ELSE i - 1
    <3>1. \A i \in 1 .. m + 1 : i # n + 1 => o(i) \in 1 .. m /\ b[i] = c[o(i)]
      <4> SUFFICES ASSUME NEW i \in 1 .. m + 1, i # n + 1
                   PROVE  o(i) \in 1 .. m /\ b[i] = c[o(i)]
        OBVIOUS
      <4>1. CASE i <= n
        <5>1. i \in 1 .. n
          BY <1>1, <4>1
        <5> QED BY <1>2, <4>1, <5>1
      <4>2. CASE ~(i <= n)
        <5>1. i \in n + 2 .. m + 1
          BY <1>1, <4>2
        <5> QED BY <1>2, <4>2, <5>1
      <4> QED BY <4>1, <4>2
    <3>2. o(k) < o(l)
      BY <1>1, <2>3
    <3> HIDE DEF o
    <3>3. <<b[k], b[l]>> \in R
      BY <1>1, <2>3, <3>1, <3>2
    <3>4. b[k] \in S /\ b[l] \in S
      BY <1>1, <2>3, <3>1
    <3> QED BY <3>3, <3>4
  <2> QED BY <2>1, <2>2, <2>3
<1> QED BY <1>1, <1>8, <1>9, <1>10 DEF Enumerates, b

\* The links of the set S lead from HEAD through it in the order R.
Linked(nx, S, R) ==
  /\ \A d \in S \cup {HEAD} : nx[d] \in S \cup {NULL}
  /\ \A d \in S : nx[d] # NULL => <<d, nx[d]>> \in R
  /\ \A d \in S \cup {HEAD}, e \in S : d = HEAD \/ <<d, e>> \in R =>
       nx[d] # NULL /\ (e = nx[d] \/ <<nx[d], e>> \in R)

LEMMA LinkPlaces ==
  ASSUME NEW nx, NEW c, NEW m, NEW S \in SUBSET Events, NEW R,
         Strict(S, R), Linked(nx, S, R), Enumerates(c, m, S, R)
  PROVE  /\ nx[HEAD] = IF m = 0 THEN NULL ELSE c[1]
         /\ \A k \in 1 .. m : nx[c[k]] = IF k = m THEN NULL ELSE c[k + 1]
         /\ Met(nx) = c
<1>1. /\ m \in Nat /\ c \in [1 .. m -> S]
      /\ \A x \in S : \E k \in 1 .. m : c[k] = x
  BY DEF Enumerates
<1>2. \A k, l \in 1 .. m : /\ <<c[k], c[l]>> \in R <=> k < l
                           /\ c[k] = c[l] => k = l
  BY Places
<1>3. HEAD \notin S /\ NULL \notin S
  BY AddressAssumption
<1>4. nx[HEAD] = IF m = 0 THEN NULL ELSE c[1]
  <2>1. CASE m = 0
    <3>1. S = {}
      BY <1>1, <2>1
    <3> QED BY <2>1, <3>1 DEF Linked
  <2>2. CASE m # 0
    <3>1. 1 \in 1 .. m /\ c[1] \in S
      BY <1>1, <2>2
    <3>2. nx[HEAD] \in S /\ (c[1] = nx[HEAD] \/ <<nx[HEAD], c[1]>> \in R)
      BY <3>1 DEF Linked
    <3>3. PICK j \in 1 .. m : c[j] = nx[HEAD]
      BY <1>1, <3>2
    <3>4. ~(j < 1)
      BY <1>1
    <3> QED BY <1>2, <2>2, <3>1, <3>2, <3>3, <3>4
  <2> QED BY <2>1, <2>2
<1>5. ASSUME NEW k \in 1 .. m
      PROVE  nx[c[k]] = IF k = m THEN NULL ELSE c[k + 1]
  <2>1. c[k] \in S /\ nx[c[k]] \in S \cup {NULL}
    BY <1>1 DEF Linked
  <2>2. CASE k = m
    <3> SUFFICES ASSUME nx[c[k]] # NULL PROVE FALSE
      BY <2>2
    <3>1. nx[c[k]] \in S /\ <<c[k], nx[c[k]]>> \in R
      BY <2>1 DEF Linked
    <3>2. PICK j \in 1 .. m : c[j] = nx[c[k]]
      BY <1>1, <3>1
    <3>3. k < j
      BY <1>2, <3>1, <3>2
    <3> QED BY <1>1, <2>2, <3>3
  <2>3. CASE k # m
    <3>1. k + 1 \in 1 .. m /\ k < k + 1
      BY <1>1, <2>3
    <3>2. c[k + 1] \in S /\ <<c[k], c[k + 1]>> \in R
      BY <1>1, <1>2, <3>1
    <3>3. nx[c[k]] # NULL /\ (c[k + 1] = nx[c[k]] \/ <<nx[c[k]], c[k + 1]>> \in R)
      BY <2>1, <3>2 DEF Linked
    <3>4. nx[c[k]] \in S /\ <<c[k], nx[c[k]]>> \in R
      BY <2>1, <3>3 DEF Linked
    <3>5. PICK j \in 1 .. m : c[j] = nx[c[k]]
      BY <1>1, <3>4
    <3>6. k < j
      BY <1>2, <3>4, <3>5
    <3>7. ~(j < k + 1)
      BY <1>1, <3>6
    <3> QED BY <1>2, <2>3, <3>1, <3>3, <3>5, <3>7
  <2> QED BY <2>2, <2>3
<1>6. m <= Cardinality(Events) /\ c \in [1 .. m -> Events]
  <2>1. Cardinality(S) <= Cardinality(Events)
    BY MemoryAssumption, FS_Subset
  <2>2. Cardinality(S) = m
    BY Count
  <2> QED BY <1>1, <2>1, <2>2
<1>7. Met(nx) = c
  BY <1>1, <1>4, <1>5, <1>6, MetAlong
<1> QED BY <1>4, <1>5, <1>7

\* Counting its members up to i gives each member of a set of numbers a place.
LEMMA Ranks ==
  ASSUME NEW n \in Nat, NEW I \in SUBSET (1 .. n)
  PROVE  /\ IsFiniteSet(I) /\ Cardinality(I) \in Nat
         /\ \A i \in I : Cardinality({j \in I : j <= i}) \in 1 .. Cardinality(I)
         /\ \A i, l \in I : i < l =>
              Cardinality({j \in I : j <= i}) < Cardinality({j \in I : j <= l})
         /\ \A k \in 1 .. Cardinality(I) :
              \E i \in I : Cardinality({j \in I : j <= i}) = k
<1> DEFINE upTo(i) == {j \in I : j <= i}
           m == Cardinality(I)
<1>1. IsFiniteSet(I) /\ m \in Nat
  <2>1. IsFiniteSet(1 .. n)
    BY FS_Interval
  <2> QED BY <2>1, FS_Subset, FS_CardinalityType
<1>2. \A T \in SUBSET I : IsFiniteSet(T) /\ Cardinality(T) \in Nat /\ Cardinality(T) <= m
  BY <1>1, FS_Subset, FS_CardinalityType
<1>3. \A i, l \in I : i < l => Cardinality(upTo(i)) < Cardinality(upTo(l))
  <2> SUFFICES ASSUME NEW i \in I, NEW l \in I, i < l
               PROVE  Cardinality(upTo(i)) < Cardinality(upTo(l))
    OBVIOUS
  <2>1. upTo(i) \in SUBSET upTo(l) /\ l \in upTo(l) /\ l \notin upTo(i)
    <3>1. \A j \in I : j \in Int
      OBVIOUS
    <3>2. \A j \in I : j <= i => j <= l
      BY <3>1
    <3>3. l <= l /\ ~ (l <= i)
      BY <3>1
    <3> QED BY <3>2, <3>3
  <2>2. IsFiniteSet(upTo(l))
    BY <1>2
  <2>3. upTo(i) # upTo(l)
    BY <2>1
  <2> HIDE DEF upTo
  <2> QED BY <2>1, <2>2, <2>3, FS_Subset, FS_CardinalityType
<1>4. \A i \in I : Cardinality(upTo(i)) \in 1 .. m
  <2> SUFFICES ASSUME NEW i \in I PROVE Cardinality(upTo(i)) \in 1 .. m
    OBVIOUS
  <2>1. i \in upTo(i) /\ upTo(i) \in SUBSET I
    OBVIOUS
  <2>2. Cardinality(upTo(i)) # 0
    BY <2>1, <1>2, FS_EmptySet
  <2> QED BY <2>1, <2>2, <1>2, <1>1
<1> DEFINE f == [i \in I |-> Cardinality(upTo(i))]
<1>5. f \in [I -> 1 .. m]
  BY <1>4
<1>6. \A i, l \in I : f[i] = f[l] => i = l
  BY <1>3, <1>4, <1>1
<1>7. f \in Injection(I, 1 .. m)
  BY <1>5, <1>6 DEF Injection, IsInjective
<1>8. IsFiniteSet(1 .. m) /\ Cardinality(1 .. m) = m
  BY <1>1, FS_Interval
<1> HIDE DEF f
<1>9. f \in Surjection(I, 1 .. m)
  BY <1>7, <1>8, FS_Injection
<1>10. \A k \in 1 .. m : \E i \in I : f[i] = k
  BY <1>9 DEF Surjection
<1> QED BY <1>1, <1>3, <1>4, <1>10 DEF f

\* The schedule counts as this module does.
LEMMA SameCount == \A T : Schedule!Cardinality(T) = Cardinality(T)
BY DEF Schedule!Cardinality, Cardinality


\* The places of I, one after another.
Selects(g, I) ==
  /\ g \in [1 .. Cardinality(I) -> I]
  /\ \A q : Only(q, I) = [k \in 1 .. Cardinality(I) |-> q[g[k]]]

\* Only(c, I) is the list of what c has at the places I.
LEMMA Picked ==
  ASSUME NEW c, NEW m, NEW S, NEW R, NEW I \in SUBSET (1 .. m), Enumerates(c, m, S, R)
  PROVE  /\ Enumerates(Only(c, I), Cardinality(I), {c[i] : i \in I}, R)
         /\ \E g : Selects(g, I)
<1> DEFINE rank(i) == Cardinality({j \in I : j <= i})
           N == Cardinality(I)
           g == [k \in 1 .. N |-> CHOOSE i \in I : rank(i) = k]
<1>1. /\ m \in Nat /\ c \in [1 .. m -> S]
      /\ \A k, l \in 1 .. m : k < l => <<c[k], c[l]>> \in R
  BY DEF Enumerates
<1>2. /\ N \in Nat
      /\ \A i \in I : rank(i) \in 1 .. N
      /\ \A i, l \in I : i < l => rank(i) < rank(l)
      /\ \A k \in 1 .. N : \E i \in I : rank(i) = k
  BY <1>1, Ranks
<1>3. \A q : Only(q, I) = [k \in 1 .. N |-> q[g[k]]]
  BY DEF Only
<1>14. \A i \in I : i \in Int
  <2>1. \A i \in 1 .. m : i \in Int
    BY <1>1
  <2> QED BY <2>1
<1> HIDE DEF rank, N
<1>4. \A k \in 1 .. N : g[k] \in I /\ rank(g[k]) = k
  BY <1>2
<1>5. g \in [1 .. N -> I]
  BY <1>4
<1> HIDE DEF g
<1>6. \A k, l \in 1 .. N : k < l => g[k] < g[l]
  <2> SUFFICES ASSUME NEW k \in 1 .. N, NEW l \in 1 .. N, k < l PROVE g[k] < g[l]
    OBVIOUS
  <2>1. g[k] \in Int /\ g[l] \in Int
    BY <1>4, <1>14
  <2>2. ~(g[l] < g[k])
    <3>1. g[l] < g[k] => rank(g[l]) < rank(g[k])
      BY <1>2, <1>4
    <3>2. ~(l < k)
      BY <1>2
    <3> QED BY <1>4, <3>1, <3>2
  <2>3. g[k] # g[l]
    BY <1>2, <1>4
  <2> QED BY <2>1, <2>2, <2>3
<1>7. \A i \in I : g[rank(i)] = i
  <2> SUFFICES ASSUME NEW i \in I PROVE g[rank(i)] = i
    OBVIOUS
  <2>1. g[rank(i)] \in I /\ rank(g[rank(i)]) = rank(i)
    BY <1>2, <1>4
  <2>2. i \in Int /\ g[rank(i)] \in Int
    BY <1>14, <2>1
  <2>3. rank(i) \in Int
    BY <1>2
  <2> DEFINE j == g[rank(i)]
  <2>5. (j < i => rank(j) < rank(i)) /\ (i < j => rank(i) < rank(j))
    BY <1>2, <2>1
  <2>6. rank(j) = rank(i)
    BY <2>1
  <2> HIDE DEF j
  <2>4. ~(j < i) /\ ~(i < j)
    BY <2>3, <2>5, <2>6
  <2> QED BY <2>2, <2>4 DEF j
<1> DEFINE b == [k \in 1 .. N |-> c[g[k]]]
<1>8. Only(c, I) = b
  BY <1>3
<1>9. b \in [1 .. N -> {c[i] : i \in I}]
  BY <1>4
<1>10. \A x \in {c[i] : i \in I} : \E k \in 1 .. N : b[k] = x
  <2> SUFFICES ASSUME NEW i \in I PROVE \E k \in 1 .. N : b[k] = c[i]
    OBVIOUS
  <2>1. rank(i) \in 1 .. N
    BY <1>2
  <2>2. b[rank(i)] = c[g[rank(i)]]
    BY <2>1
  <2> QED BY <1>7, <2>1, <2>2
<1>11. \A k, l \in 1 .. N : k < l => <<b[k], b[l]>> \in R
  BY <1>1, <1>4, <1>6
<1> HIDE DEF b
<1>12. Enumerates(Only(c, I), N, {c[i] : i \in I}, R)
  BY <1>2, <1>8, <1>9, <1>10, <1>11 DEF Enumerates
<1>13. Selects(g, I)
  BY <1>3, <1>5 DEF Selects, N
<1> QED BY <1>12, <1>13 DEF N

LEMMA Listing ==
  ASSUME NEW m \in Nat, NEW S, NEW c \in [1 .. m -> S]
  PROVE  c \in Seq(S) /\ Len(c) = m /\ DOMAIN c = 1 .. m
OBVIOUS

-----------------------------------------------------------------------------
(* The chain of the queued events.                                         *)

Order == {p \in queued \X queued : Earlier(p[1], p[2])}

Size == Cardinality(queued)

Listed == Enumerates(Chain, Size, queued, Order)

OrderThen == {p \in queued' \X queued' : EarlierThen(p[1], p[2])}

LEMMA OrderPrimed == Order' = OrderThen
BY DEF Order, OrderThen, Earlier, EarlierThen

LEMMA Ordered ==
  \A d, e \in queued : <<d, e>> \in Order <=> Earlier(d, e)
BY DEF Order

LEMMA OrderedThen ==
  \A d, e \in queued' : <<d, e>> \in Order' <=> EarlierThen(d, e)
BY OrderPrimed DEF OrderThen

LEMMA ListLinks ==
  List => queued \in SUBSET Events /\ Strict(queued, Order) /\ Linked(next, queued, Order)
<1> SUFFICES ASSUME List
             PROVE  queued \in SUBSET Events /\ Strict(queued, Order) /\ Linked(next, queued, Order)
  OBVIOUS
<1>1. queued \in SUBSET Events
  BY DEF List, ListTypes
<1>2. Strict(queued, Order)
  BY EarlierOrders, Ordered DEF List, Strict
<1>3. \A d \in queued \cup {HEAD} : next[d] \in queued \cup {NULL}
  BY <1>1 DEF List, ListTypes
<1>4. \A d \in queued : d # HEAD
  BY <1>1, AddressAssumption
<1>5. \A d \in queued : next[d] # NULL => <<d, next[d]>> \in Order
  BY <1>3, <1>4, Ordered DEF List, InOrder
<1>6. ASSUME NEW d \in queued \cup {HEAD}, NEW e \in queued, d = HEAD \/ <<d, e>> \in Order
      PROVE  next[d] # NULL /\ (e = next[d] \/ <<next[d], e>> \in Order)
  <2>1. d = HEAD \/ Earlier(d, e)
    BY <1>6, <1>4, Ordered
  <2>2. next[d] # NULL /\ (e = next[d] \/ Earlier(next[d], e))
    BY <2>1 DEF List, InOrder
  <2> QED BY <1>3, <2>2, Ordered
<1> QED BY <1>1, <1>2, <1>3, <1>5, <1>6 DEF Linked

LEMMA ListLinksThen ==
  List' => queued' \in SUBSET Events /\ Strict(queued', Order') /\ Linked(next', queued', Order')
<1>1. List' => (queued \in SUBSET Events /\ Strict(queued, Order) /\ Linked(next, queued, Order))'
  BY ListLinks, PTL
<1> QED BY <1>1 DEF Strict, Linked

\* The chain is the list of the queued events that has their order.
LEMMA ChainNow ==
  ASSUME List, Listed
  PROVE  /\ Size \in Nat /\ Chain \in [1 .. Size -> queued]
         /\ \A e \in queued : \E k \in 1 .. Size : Chain[k] = e
         /\ \A k, l \in 1 .. Size : Earlier(Chain[k], Chain[l]) <=> k < l
         /\ \A k, l \in 1 .. Size : Chain[k] = Chain[l] => k = l
         /\ next[HEAD] = IF Size = 0 THEN NULL ELSE Chain[1]
         /\ \A k \in 1 .. Size : next[Chain[k]] = IF k = Size THEN NULL ELSE Chain[k + 1]
<1>1. queued \in SUBSET Events /\ Strict(queued, Order) /\ Linked(next, queued, Order)
  BY ListLinks
<1>2. Enumerates(Chain, Size, queued, Order)
  BY DEF Listed
<1>3. /\ Size \in Nat /\ Chain \in [1 .. Size -> queued]
      /\ \A e \in queued : \E k \in 1 .. Size : Chain[k] = e
  BY <1>2 DEF Enumerates
<1>4. \A k, l \in 1 .. Size : /\ <<Chain[k], Chain[l]>> \in Order <=> k < l
                              /\ Chain[k] = Chain[l] => k = l
  BY <1>1, <1>2, Places
<1>5. \A k, l \in 1 .. Size : Earlier(Chain[k], Chain[l]) <=> k < l
  BY <1>3, <1>4, Ordered
<1>6. next[HEAD] = IF Size = 0 THEN NULL ELSE Chain[1]
  BY <1>1, <1>2, LinkPlaces
<1>7. \A k \in 1 .. Size : next[Chain[k]] = IF k = Size THEN NULL ELSE Chain[k + 1]
  <2> DEFINE nx == next  c == Chain  m == Size  S == queued  R == Order
  <2>1. S \in SUBSET Events /\ Strict(S, R) /\ Linked(nx, S, R) /\ Enumerates(c, m, S, R)
    BY <1>1, <1>2
  <2> HIDE DEF nx, c, m, S, R
  <2>2. \A k \in 1 .. m : nx[c[k]] = IF k = m THEN NULL ELSE c[k + 1]
    BY <2>1, LinkPlaces
  <2> QED BY <2>2 DEF nx, c, m, S, R
<1> QED BY <1>3, <1>4, <1>5, <1>6, <1>7

LEMMA ChainThen ==
  ASSUME List', NEW c, NEW m, Enumerates(c, m, queued', Order')
  PROVE  Chain' = c /\ Size' = m /\ Listed'
<1>1. queued' \in SUBSET Events /\ Strict(queued', Order') /\ Linked(next', queued', Order')
  BY ListLinksThen
<1>2. Met(next') = c
  BY <1>1, LinkPlaces
<1>3. Cardinality(queued') = m
  BY <1>1, Count
<1>4. Chain' = c
  BY <1>2 DEF Chain, Met
<1>5. Size' = m
  BY <1>3 DEF Size
<1> QED BY <1>4, <1>5 DEF Listed, Enumerates

\* RemoveEvent takes out what stands at one place.
LEMMA ChainTaken ==
  ASSUME List, List', Listed, NEW p \in 1 .. Size, RemoveEvent(Chain[p])
  PROVE  /\ Listed' /\ Size' = Size - 1
         /\ Chain' = [k \in 1 .. Size - 1 |-> IF k < p THEN Chain[k] ELSE Chain[k + 1]]
<1>1. queued \in SUBSET Events /\ Strict(queued, Order) /\ Chain[p] \in queued
  BY ListLinks, ChainNow
<1>2. /\ queued' = queued \ {Chain[p]}
      /\ \A d, f \in queued' : EarlierThen(d, f) <=> Earlier(d, f)
  BY <1>1, RemoveOrder
<1>3. \A x, y \in queued \ {Chain[p]} : <<x, y>> \in Order => <<x, y>> \in Order'
  BY <1>2, Ordered, OrderedThen
<1>4. Enumerates([k \in 1 .. Size - 1 |-> IF k < p THEN Chain[k] ELSE Chain[k + 1]],
                 Size - 1, queued', Order')
  BY <1>1, <1>2, <1>3, Gap DEF Listed
<1> QED BY <1>4, ChainThen

\* AddEvent puts a new event behind all those that are not later.
LEMMA ChainAdded ==
  ASSUME List, List', Listed, NEW what, NEW t \in Int, AddEvent(what, t)
  PROVE  \E n \in 0 .. Size, e \in Events \ queued :
           /\ Listed' /\ Size' = Size + 1
           /\ Chain' = [k \in 1 .. Size + 1 |-> IF k <= n THEN Chain[k]
                                                ELSE IF k = n + 1 THEN e ELSE Chain[k - 1]]
           /\ \A k \in 1 .. Size : IF k <= n THEN fireTime[Chain[k]] <= t
                                   ELSE fireTime[Chain[k]] > t
           /\ fireTime'[e] = t /\ post'[e] = what
           /\ \A f \in queued : fireTime'[f] = fireTime[f] /\ post'[f] = post[f]
<1>1. PICK e \in Events \ queued, d \in queued \cup {HEAD} :
        /\ Stops(d, t)
        /\ fireTime' = [fireTime EXCEPT ![e] = t]
        /\ post' = [post EXCEPT ![e] = what]
        /\ queued' = queued \cup {e}
        /\ before' = before \cup {<<f, e>> : f \in queued}
  BY DEF AddEvent
<1>2. /\ Size \in Nat /\ Chain \in [1 .. Size -> queued]
      /\ \A f \in queued : \E k \in 1 .. Size : Chain[k] = f
      /\ \A k, l \in 1 .. Size : Earlier(Chain[k], Chain[l]) <=> k < l
      /\ next[HEAD] = IF Size = 0 THEN NULL ELSE Chain[1]
      /\ \A k \in 1 .. Size : next[Chain[k]] = IF k = Size THEN NULL ELSE Chain[k + 1]
  BY ChainNow
<1>3. /\ fireTime'[e] = t /\ post'[e] = what
      /\ \A f \in queued : fireTime'[f] = fireTime[f] /\ post'[f] = post[f]
      /\ \A f \in queued : fireTime[f] \in Int
      /\ HEAD \notin queued /\ NULL \notin queued
      /\ before \subseteq queued \X queued
  BY <1>1, AddressAssumption DEF List, ListTypes
<1>4. \A k, l \in 1 .. Size : k < l => fireTime[Chain[k]] <= fireTime[Chain[l]]
  <2> SUFFICES ASSUME NEW k \in 1 .. Size, NEW l \in 1 .. Size, k < l
               PROVE  fireTime[Chain[k]] <= fireTime[Chain[l]]
    OBVIOUS
  <2>1. Earlier(Chain[k], Chain[l]) /\ Chain[k] \in queued /\ Chain[l] \in queued
    BY <1>2
  <2>2. fireTime[Chain[k]] \in Int /\ fireTime[Chain[l]] \in Int
    BY <1>3, <2>1
  <2> QED BY <2>1, <2>2 DEF Earlier
<1>5. \E n \in 0 .. Size : \A k \in 1 .. Size :
        IF k <= n THEN fireTime[Chain[k]] <= t ELSE fireTime[Chain[k]] > t
  <2>1. CASE d = HEAD
    <3>1. \A k \in 1 .. Size : fireTime[Chain[k]] > t
      <4> SUFFICES ASSUME NEW k \in 1 .. Size PROVE fireTime[Chain[k]] > t
        OBVIOUS
      <4>1. Size # 0 /\ 1 \in 1 .. Size /\ (k = 1 \/ 1 < k)
        BY <1>2
      <4>2. next[d] = Chain[1] /\ Chain[1] \in queued /\ Chain[k] \in queued
        BY <1>2, <2>1, <4>1
      <4>3. fireTime[Chain[1]] > t
        BY <1>1, <1>3, <4>2 DEF Stops
      <4>4. k = 1 \/ fireTime[Chain[1]] <= fireTime[Chain[k]]
        BY <1>4, <4>1
      <4> QED BY <1>3, <4>2, <4>3, <4>4
    <3>2. 0 \in 0 .. Size /\ \A k \in 1 .. Size : ~(k <= 0)
      BY <1>2
    <3> QED BY <3>1, <3>2
  <2>2. CASE d # HEAD
    <3>1. d \in queued
      BY <2>2
    <3>2. PICK n \in 1 .. Size : Chain[n] = d
      BY <1>2, <3>1
    <3>3. fireTime[Chain[n]] <= t
      BY <1>1, <2>2, <3>2 DEF Stops
    <3>4. n < Size => fireTime[Chain[n + 1]] > t
      <4> HAVE n < Size
      <4>1. next[d] = Chain[n + 1] /\ n + 1 \in 1 .. Size
        BY <1>2, <3>2
      <4>2. next[d] \in queued
        BY <1>2, <4>1
      <4> QED BY <1>1, <1>3, <4>1, <4>2 DEF Stops
    <3>5. ASSUME NEW k \in 1 .. Size
          PROVE  IF k <= n THEN fireTime[Chain[k]] <= t ELSE fireTime[Chain[k]] > t
      <4>1. Chain[k] \in queued /\ fireTime[Chain[k]] \in Int /\ fireTime[Chain[n]] \in Int
        BY <1>2, <1>3
      <4>2. CASE k <= n
        <5>1. k = n \/ fireTime[Chain[k]] <= fireTime[Chain[n]]
          BY <1>2, <1>4, <4>2
        <5> QED BY <3>3, <4>1, <4>2, <5>1
      <4>3. CASE ~(k <= n)
        <5>1. n < Size /\ n + 1 \in 1 .. Size /\ (k = n + 1 \/ n + 1 < k)
          BY <1>2, <4>3
        <5>2. k = n + 1 \/ fireTime[Chain[n + 1]] <= fireTime[Chain[k]]
          BY <1>4, <5>1
        <5>3. fireTime[Chain[n + 1]] \in Int
          BY <1>2, <1>3, <5>1
        <5> QED BY <3>4, <4>1, <4>3, <5>1, <5>2, <5>3
      <4> QED BY <4>2, <4>3
    <3>6. n \in 0 .. Size
      BY <1>2
    <3> QED BY <3>5, <3>6
  <2> QED BY <2>1, <2>2
<1>6. PICK n \in 0 .. Size : \A k \in 1 .. Size :
        IF k <= n THEN fireTime[Chain[k]] <= t ELSE fireTime[Chain[k]] > t
  BY <1>5
<1>7. \A x, y \in queued : <<x, y>> \in Order => <<x, y>> \in Order'
  <2>1. \A x, y \in queued : Earlier(x, y) => EarlierThen(x, y)
    BY <1>1, <1>3 DEF Earlier, EarlierThen
  <2> QED BY <1>1, <2>1, Ordered, OrderedThen
<1>8. ASSUME NEW k \in 1 .. Size
      PROVE  IF k <= n THEN <<Chain[k], e>> \in Order' ELSE <<e, Chain[k]>> \in Order'
  <2>1. Chain[k] \in queued /\ Chain[k] \in queued' /\ e \in queued'
    BY <1>1, <1>2
  <2>2. fireTime'[Chain[k]] = fireTime[Chain[k]] /\ fireTime[Chain[k]] \in Int
    BY <1>3, <2>1
  <2>3. CASE k <= n
    <3>1. fireTime'[Chain[k]] <= fireTime'[e] /\ <<Chain[k], e>> \in before'
      BY <1>1, <1>3, <1>6, <2>1, <2>2, <2>3
    <3>2. EarlierThen(Chain[k], e)
      BY <1>3, <2>2, <3>1 DEF EarlierThen
    <3> QED BY <2>1, <2>3, <3>2, OrderedThen
  <2>4. CASE ~(k <= n)
    <3>1. fireTime'[e] < fireTime'[Chain[k]]
      BY <1>3, <1>6, <2>2, <2>4
    <3>2. EarlierThen(e, Chain[k])
      BY <3>1 DEF EarlierThen
    <3> QED BY <2>1, <2>4, <3>2, OrderedThen
  <2> QED BY <2>3, <2>4
<1>9. Enumerates([k \in 1 .. Size + 1 |-> IF k <= n THEN Chain[k]
                                          ELSE IF k = n + 1 THEN e ELSE Chain[k - 1]],
                 Size + 1, queued', Order')
  BY <1>1, <1>7, <1>8, Wedge DEF Listed
<1>10. /\ Listed' /\ Size' = Size + 1
       /\ Chain' = [k \in 1 .. Size + 1 |-> IF k <= n THEN Chain[k]
                                            ELSE IF k = n + 1 THEN e ELSE Chain[k - 1]]
  BY <1>9, ChainThen
<1> QED BY <1>3, <1>6, <1>10

LEMMA ChainEmpty ==
  ASSUME List', queued' = {}
  PROVE  Listed' /\ Size' = 0 /\ Chain' = << >>
<1>1. Enumerates(<< >>, 0, queued', Order')
  BY DEF Enumerates
<1> QED BY <1>1, ChainThen

LEMMA ChainSame ==
  ASSUME Listed, UNCHANGED list
  PROVE  Listed' /\ Size' = Size /\ Chain' = Chain
<1>1. Chain' = Chain /\ queued' = queued
  BY DEF list, Chain, Met
<1>2. Size' = Size
  BY <1>1 DEF Size
<1>3. Order' = Order
  BY OrderPrimed DEF list, Order, OrderThen, Earlier, EarlierThen
<1> QED BY <1>1, <1>2, <1>3 DEF Listed, Enumerates

-----------------------------------------------------------------------------
(* The schedule.                                                           *)

Entries == [in : Int, post : Posts]

\* Adding x behind the n entries that are not later.
LEMMA InsertedBehind ==
  ASSUME NEW q \in Seq(Entries), NEW x \in Entries, NEW n \in 0 .. Len(q),
         \A k \in 1 .. Len(q) : IF k <= n THEN q[k].in <= x.in ELSE q[k].in > x.in
  PROVE  Schedule!Insert(q, x) = [k \in 1 .. Len(q) + 1 |->
                                    IF k <= n THEN q[k] ELSE IF k = n + 1 THEN x ELSE q[k - 1]]
<1>1. Schedule!Passed(q, x.in) = n
  <2> DEFINE Fits(m) == /\ \A i \in 1 .. m : q[i].in <= x.in
                        /\ m < Len(q) => q[m + 1].in > x.in
  <2>0. /\ Len(q) \in Nat /\ x.in \in Int
        /\ \A k \in 1 .. Len(q) : q[k].in \in Int
    <3>1. \A k \in 1 .. Len(q) : q[k] \in Entries
      OBVIOUS
    <3> QED BY <3>1 DEF Entries
  <2>1. Fits(n)
    <3>1. \A i \in 1 .. n : i \in 1 .. Len(q) /\ i <= n
      BY <2>0
    <3>2. n < Len(q) => n + 1 \in 1 .. Len(q) /\ ~(n + 1 <= n)
      BY <2>0
    <3> QED BY <3>1, <3>2
  <2>2. ASSUME NEW m \in 0 .. Len(q), Fits(m) PROVE m = n
    <3>1. ~(m < n)
      <4> SUFFICES ASSUME m < n PROVE FALSE
        OBVIOUS
      <4>1. m < Len(q) /\ m + 1 \in 1 .. Len(q) /\ m + 1 <= n
        BY <2>0
      <4>2. q[m + 1].in <= x.in /\ q[m + 1].in > x.in
        BY <2>2, <4>1
      <4> QED BY <2>0, <4>1, <4>2
    <3>2. ~(n < m)
      <4> SUFFICES ASSUME n < m PROVE FALSE
        OBVIOUS
      <4>1. n + 1 \in 1 .. m /\ n + 1 \in 1 .. Len(q) /\ ~(n + 1 <= n)
        BY <2>0
      <4>2. q[n + 1].in <= x.in /\ q[n + 1].in > x.in
        BY <2>2, <4>1
      <4> QED BY <2>0, <4>1, <4>2
    <3> QED BY <2>0, <3>1, <3>2
  <2>3. Schedule!Passed(q, x.in) = CHOOSE m \in 0 .. Len(q) : Fits(m)
    BY DEF Schedule!Passed
  <2> HIDE DEF Fits
  <2> QED BY <2>1, <2>2, <2>3
<1> DEFINE front == SubSeq(q, 1, n)
           most == front \o <<x>>
           back == SubSeq(q, n + 1, Len(q))
           s == most \o back
<1>2. Schedule!Insert(q, x) = s
  BY <1>1 DEF Schedule!Insert
<1>3. /\ front \in Seq(Entries) /\ Len(front) = n
      /\ \A i \in 1 .. n : front[i] = q[i]
  OBVIOUS
<1>4. /\ back \in Seq(Entries) /\ Len(back) = Len(q) - n
      /\ \A i \in 1 .. Len(q) - n : back[i] = q[n + i]
  OBVIOUS
<1> HIDE DEF front, back
<1>5. /\ most \in Seq(Entries) /\ Len(most) = n + 1
      /\ \A i \in 1 .. n : most[i] = q[i]
      /\ most[n + 1] = x
  BY <1>3
<1> HIDE DEF most
<1>6. s \in Seq(Entries) /\ Len(s) = Len(q) + 1
  BY <1>4, <1>5
<1>7. \A k \in 1 .. n + 1 : s[k] = most[k]
  BY <1>4, <1>5
<1>8. \A k \in n + 2 .. Len(q) + 1 : s[k] = q[k - 1]
  <2> SUFFICES ASSUME NEW k \in n + 2 .. Len(q) + 1 PROVE s[k] = q[k - 1]
    OBVIOUS
  <2>1. s[k] = back[k - (n + 1)]
    BY <1>4, <1>5
  <2>2. k - (n + 1) \in 1 .. Len(q) - n /\ n + (k - (n + 1)) = k - 1
    OBVIOUS
  <2> QED BY <1>4, <2>1, <2>2
<1> HIDE DEF s
<1>9. \A k \in 1 .. Len(q) + 1 :
        s[k] = IF k <= n THEN q[k] ELSE IF k = n + 1 THEN x ELSE q[k - 1]
  <2> SUFFICES ASSUME NEW k \in 1 .. Len(q) + 1
               PROVE  s[k] = IF k <= n THEN q[k] ELSE IF k = n + 1 THEN x ELSE q[k - 1]
    OBVIOUS
  <2>1. CASE k <= n
    <3>1. k \in 1 .. n /\ k \in 1 .. n + 1
      BY <2>1
    <3> QED BY <1>5, <1>7, <2>1, <3>1
  <2>2. CASE k = n + 1
    <3>1. ~(k <= n) /\ k \in 1 .. n + 1
      BY <2>2
    <3> QED BY <1>5, <1>7, <2>2, <3>1
  <2>3. CASE ~(k <= n) /\ k # n + 1
    <3>1. k \in n + 2 .. Len(q) + 1
      BY <2>3
    <3> QED BY <1>8, <2>3, <3>1
  <2> QED BY <2>1, <2>2, <2>3
<1>10. s = [k \in 1 .. Len(q) + 1 |-> s[k]]
  BY <1>6
<1> QED BY <1>2, <1>9, <1>10

-----------------------------------------------------------------------------
(* What the refinement rests on.                                           *)

\* The event being fired is the first, and due.
FirstFires == phase = "firing" => Size # 0 /\ Chain[1] = pe /\ fireTime[pe] <= now

FileSorted == \A j, k \in 1 .. Len(file) : j < k => file[j].in <= file[k].in

\* Save has written the events in front of its cursor.
Saving == walk = "save" =>
  /\ Len(file) <= Size
  /\ \A k \in 1 .. Len(file) : file[k] = Event(Chain[k])
  /\ cursor = IF Len(file) = Size THEN NULL ELSE Chain[Len(file) + 1]

\* Restore has rebuilt the events in front of those it has yet to read.
Restoring == walk = "restore" =>
  /\ Len(file) = Size + Len(loading)
  /\ \A k \in 1 .. Size : file[k] = Event(Chain[k])
  /\ \A k \in 1 .. Len(loading) : loading[k] = file[Size + k]

Mapped == Listed /\ FirstFires /\ FileSorted /\ Saving /\ Restoring

RInv == IInv /\ Mapped

EventThen(e) == [in |-> fireTime'[e] - now', post |-> post'[e]]

LEMMA EventsNow ==
  ASSUME RInv
  PROVE  /\ EventsOf(Chain) = [k \in 1 .. Size |-> Event(Chain[k])]
         /\ \A e \in queued : Event(e) \in Entries
         /\ EventsOf(Chain) \in Seq(Entries) /\ Len(EventsOf(Chain)) = Size
         /\ DOMAIN EventsOf(Chain) = 1 .. Size
<1>1. List /\ Listed /\ now \in Int
  BY DEF RInv, IInv, Mapped, TypeOK
<1>2. Size \in Nat /\ Chain \in [1 .. Size -> queued]
  BY <1>1, ChainNow
<1>3. EventsOf(Chain) = [k \in 1 .. Size |-> Event(Chain[k])]
  <2>1. DOMAIN Chain = 1 .. Size
    BY <1>2
  <2> QED BY <2>1 DEF EventsOf
<1>4. \A e \in queued : Event(e) \in Entries
  <2> TAKE e \in queued
  <2>1. fireTime[e] \in Int /\ post[e] \in Posts
    BY <1>1 DEF List, ListTypes
  <2>2. fireTime[e] - now \in Int
    BY <1>1, <2>1
  <2> QED BY <2>1, <2>2 DEF Event, Entries
<1>5. EventsOf(Chain) \in [1 .. Size -> Entries]
  BY <1>2, <1>3, <1>4
<1> QED BY <1>2, <1>3, <1>4, <1>5, Listing

LEMMA EventsShape ==
  RInv => EventsOf(Chain) = [k \in 1 .. Size |-> Event(Chain[k])] /\ DOMAIN Chain = 1 .. Size
<1> SUFFICES ASSUME RInv
             PROVE  EventsOf(Chain) = [k \in 1 .. Size |-> Event(Chain[k])] /\ DOMAIN Chain = 1 .. Size
  OBVIOUS
<1>1. Chain \in [1 .. Size -> queued]
  BY ChainNow DEF RInv, IInv, Mapped
<1> QED BY <1>1, EventsNow

LEMMA EventsThen ==
  RInv' => /\ EventsOf(Chain)' = [k \in 1 .. Size' |-> EventThen(Chain'[k])]
           /\ DOMAIN Chain' = 1 .. Size'
<1>1. RInv' => (EventsOf(Chain) = [k \in 1 .. Size |-> Event(Chain[k])] /\ DOMAIN Chain = 1 .. Size)'
  BY EventsShape, PTL
<1> QED BY <1>1 DEF Event, EventThen

-----------------------------------------------------------------------------
(* One lemma for each call and each step of the frame.                     *)

\* PostEvent is Post.
LEMMA PostMaps ==
  ASSUME RInv, IInv', NEW what \in Posts, NEW delay \in Delays, PostEvent(what, delay)
  PROVE  Mapped' /\ Schedule!Post(what, delay)
<1>1. /\ GameRuns /\ AddEvent(what, now + delay)
      /\ UNCHANGED <<frame, walking, file, loading>>
  BY DEF PostEvent
<1>2. List /\ List' /\ Listed /\ now \in Int /\ delay \in Nat
  BY TimeAssumption DEF RInv, IInv, Mapped, TypeOK
<1>3. now + delay \in Int
  BY <1>2
<1>4. PICK n \in 0 .. Size, e \in Events \ queued :
        /\ Listed' /\ Size' = Size + 1
        /\ Chain' = [k \in 1 .. Size + 1 |-> IF k <= n THEN Chain[k]
                                             ELSE IF k = n + 1 THEN e ELSE Chain[k - 1]]
        /\ \A k \in 1 .. Size : IF k <= n THEN fireTime[Chain[k]] <= now + delay
                                ELSE fireTime[Chain[k]] > now + delay
        /\ fireTime'[e] = now + delay /\ post'[e] = what
        /\ \A f \in queued : fireTime'[f] = fireTime[f] /\ post'[f] = post[f]
  BY <1>1, <1>2, <1>3, ChainAdded
<1>5. Size \in Nat /\ Chain \in [1 .. Size -> queued]
  BY <1>2, ChainNow
<1>6. walk = "none" /\ walk' = "none" /\ now' = now /\ phase' = phase /\ pe' = pe /\ file' = file
  BY <1>1 DEF GameRuns, frame, walking
<1>7. \A f \in queued : fireTime[f] \in Int
  BY <1>2 DEF List, ListTypes
<1>8. FirstFires'
  <2> SUFFICES ASSUME phase = "firing"
               PROVE  Size' # 0 /\ Chain'[1] = pe /\ fireTime'[pe] <= now
    BY <1>6 DEF FirstFires
  <2>1. Size # 0 /\ Chain[1] = pe /\ fireTime[pe] <= now
    BY DEF RInv, Mapped, FirstFires
  <2>2. 1 \in 1 .. Size /\ 1 \in 1 .. Size + 1 /\ pe \in queued
    BY <1>5, <2>1
  <2>3. fireTime[Chain[1]] <= now + delay
    BY <1>2, <1>7, <2>1, <2>2
  <2>4. 1 <= n
    BY <1>2, <1>4, <1>7, <2>1, <2>2, <2>3
  <2> QED BY <1>4, <1>5, <2>1, <2>2, <2>4
<1>9. Mapped'
  BY <1>4, <1>6, <1>8 DEF RInv, Mapped, FileSorted, Saving, Restoring
<1> DEFINE q == EventsOf(Chain)
           x == [in |-> delay, post |-> what]
<1>10. /\ q = [k \in 1 .. Size |-> Event(Chain[k])]
       /\ q \in Seq(Entries) /\ Len(q) = Size
  BY EventsNow
<1>11. x \in Entries
  BY <1>2 DEF Entries
<1>12. \A k \in 1 .. Len(q) : IF k <= n THEN q[k].in <= x.in ELSE q[k].in > x.in
  <2> SUFFICES ASSUME NEW k \in 1 .. Size
               PROVE  IF k <= n THEN q[k].in <= delay ELSE q[k].in > delay
    BY <1>10
  <2>1. q[k].in = fireTime[Chain[k]] - now /\ fireTime[Chain[k]] \in Int
    BY <1>5, <1>7, <1>10 DEF Event
  <2> QED BY <1>2, <1>4, <2>1
<1>13. EventsOf(Chain)' = [k \in 1 .. Size + 1 |-> EventThen(Chain'[k])]
  BY <1>4, <1>9, EventsThen DEF RInv
<1>14. \A f \in queued : EventThen(f) = Event(f)
  BY <1>4, <1>6 DEF Event, EventThen
<1>15. EventThen(e) = x
  BY <1>2, <1>4, <1>6 DEF EventThen
<1>16. Schedule!Insert(q, x) = [k \in 1 .. Size + 1 |->
                                  IF k <= n THEN q[k] ELSE IF k = n + 1 THEN x ELSE q[k - 1]]
  <2> HIDE DEF q, x
  <2>1. q \in Seq(Entries) /\ Len(q) = Size /\ n \in 0 .. Len(q)
    BY <1>10
  <2>2. Schedule!Insert(q, x) = [k \in 1 .. Len(q) + 1 |->
                                   IF k <= n THEN q[k] ELSE IF k = n + 1 THEN x ELSE q[k - 1]]
    BY <1>11, <1>12, <2>1, InsertedBehind
  <2> QED BY <2>1, <2>2
<1>17. ASSUME NEW k \in 1 .. Size + 1
       PROVE  EventThen(Chain'[k]) = IF k <= n THEN q[k] ELSE IF k = n + 1 THEN x ELSE q[k - 1]
  <2> HIDE DEF x
  <2>1. CASE k <= n
    <3>1. k \in 1 .. Size /\ Chain'[k] = Chain[k] /\ Chain[k] \in queued
      BY <1>4, <1>5, <2>1
    <3> QED BY <1>10, <1>14, <2>1, <3>1
  <2>2. CASE k = n + 1
    <3>1. Chain'[k] = e /\ ~(k <= n)
      BY <1>4, <1>5, <2>2
    <3> QED BY <1>15, <2>2, <3>1
  <2>3. CASE ~(k <= n) /\ k # n + 1
    <3>1. k - 1 \in 1 .. Size /\ Chain'[k] = Chain[k - 1] /\ Chain[k - 1] \in queued
      BY <1>4, <1>5, <2>3
    <3> QED BY <1>10, <1>14, <2>3, <3>1
  <2> QED BY <2>1, <2>2, <2>3
<1>18. EventsOf(Chain)' = Schedule!Insert(q, x)
  BY <1>13, <1>16, <1>17
<1>19. Pending = q /\ Pending' = EventsOf(Chain)' /\ Saved = file /\ Saved' = file
  BY <1>6 DEF Pending, Saved
<1>20. Schedule!Post(what, delay)
  BY <1>1, <1>6, <1>18, <1>19 DEF Schedule!Post, Schedule!GameRuns, GameRuns
<1> QED BY <1>9, <1>20

\* ClearQueue is Clear.
LEMMA ClearMaps ==
  ASSUME RInv, IInv', ClearQueue
  PROVE  Mapped' /\ Schedule!Clear
<1>1. /\ phase \in {"before", "after"} /\ queued' = {}
      /\ walk = "none" /\ walk' = "none" /\ phase' = phase /\ file' = file
  BY DEF ClearQueue, Clear, BetweenFrames, frame, walking
<1>2. Listed' /\ Size' = 0 /\ Chain' = << >>
  BY <1>1, ChainEmpty DEF IInv
<1>3. Mapped'
  BY <1>1, <1>2 DEF RInv, Mapped, FirstFires, FileSorted, Saving, Restoring
<1>4. EventsOf(Chain)' = << >>
  BY <1>2 DEF EventsOf
<1>5. Pending' = << >> /\ Saved = file /\ Saved' = file
  BY <1>1, <1>4 DEF Pending, Saved
<1> QED BY <1>1, <1>3, <1>5 DEF Schedule!Clear, Schedule!BetweenFrames

\* What Kept leaves: the events that the cancelling call does not name, in the
\* order of the queue.
Stays == {e \in queued : ~Matches(e, key)}

KeptChain == Only(Chain, {k \in DOMAIN Chain : ~Matches(Chain[k], key)})

LEMMA KeptShape ==
  ASSUME RInv
  PROVE  /\ Enumerates(KeptChain, Cardinality(Stays), Stays, Order)
         /\ Kept(Chain) = [k \in 1 .. Cardinality(Stays) |-> Event(KeptChain[k])]
<1> DEFINE I == {k \in DOMAIN Chain : ~Matches(Chain[k], key)}
           m == Cardinality(I)
<1>1. /\ Size \in Nat /\ Chain \in [1 .. Size -> queued]
      /\ \A e \in queued : \E k \in 1 .. Size : Chain[k] = e
      /\ Enumerates(Chain, Size, queued, Order)
  BY ChainNow DEF RInv, IInv, Mapped, Listed
<1>2. I \in SUBSET (1 .. Size) /\ DOMAIN Chain = 1 .. Size
  BY <1>1
<1>3. Enumerates(KeptChain, m, {Chain[i] : i \in I}, Order) /\ \E g : Selects(g, I)
  <2>1. KeptChain = Only(Chain, I)
    BY DEF KeptChain
  <2> HIDE DEF I
  <2>2. Enumerates(Only(Chain, I), m, {Chain[i] : i \in I}, Order)
    BY <1>1, <1>2, Picked
  <2>3. \E g : Selects(g, I)
    BY <1>1, <1>2, Picked
  <2> QED BY <2>1, <2>2, <2>3
<1>4. {Chain[i] : i \in I} = Stays
  <2>1. \A i \in I : Chain[i] \in Stays
    BY <1>1, <1>2 DEF Stays
  <2>2. \A e \in Stays : \E i \in I : Chain[i] = e
    BY <1>1, <1>2 DEF Stays
  <2> HIDE DEF I
  <2> QED BY <2>1, <2>2
<1>5. Strict(queued, Order)
  BY ListLinks DEF RInv, IInv
<1>6. Strict(Stays, Order)
  BY <1>5 DEF Strict, Stays
<1>7. m = Cardinality(Stays)
  BY <1>3, <1>4, <1>6, Count
<1>8. PICK g : g \in [1 .. m -> I] /\ \A q : Only(q, I) = [k \in 1 .. m |-> q[g[k]]]
  BY <1>3 DEF Selects
<1>9. Kept(Chain) = Only(EventsOf(Chain), I) /\ KeptChain = Only(Chain, I)
  BY DEF Kept, KeptChain
<1>10. \A i \in I : EventsOf(Chain)[i] = Event(Chain[i])
  BY <1>2, EventsNow
<1> HIDE DEF I, m
<1>11. /\ Kept(Chain) = [k \in 1 .. m |-> EventsOf(Chain)[g[k]]]
       /\ KeptChain = [k \in 1 .. m |-> Chain[g[k]]]
  BY <1>8, <1>9
<1>12. \A k \in 1 .. m : EventsOf(Chain)[g[k]] = Event(KeptChain[k])
  BY <1>8, <1>10, <1>11
<1>13. Kept(Chain) = [k \in 1 .. m |-> Event(KeptChain[k])]
  BY <1>11, <1>12
<1> QED BY <1>3, <1>4, <1>7, <1>13

\* A list of the events that stay is the one that Kept leaves.
LEMMA KeptIs ==
  RInv => \A c, m : Enumerates(c, m, Stays, Order) =>
            Kept(Chain) = [k \in 1 .. m |-> Event(c[k])]
<1> SUFFICES ASSUME RInv, NEW c, NEW m, Enumerates(c, m, Stays, Order)
             PROVE  Kept(Chain) = [k \in 1 .. m |-> Event(c[k])]
  OBVIOUS
<1>1. Strict(Stays, Order)
  BY ListLinks DEF RInv, IInv, Strict, Stays
<1>2. Enumerates(KeptChain, Cardinality(Stays), Stays, Order)
  BY KeptShape
<1>3. c = KeptChain /\ m = Cardinality(Stays)
  BY <1>1, <1>2, OneOrder
<1> QED BY <1>3, KeptShape

LEMMA KeptThen ==
  RInv' => \A c, m : Enumerates(c, m, Stays', Order') =>
             Kept(Chain)' = [k \in 1 .. m |-> EventThen(c[k])]
<1>1. RInv' => (\A c, m : Enumerates(c, m, Stays, Order) =>
                  Kept(Chain) = [k \in 1 .. m |-> Event(c[k])])'
  BY KeptIs, PTL
<1> QED BY <1>1 DEF Enumerates, Event, EventThen

\* A step that leaves the list and the time alone.
LEMMA SameEvents ==
  ASSUME Listed, UNCHANGED list, now' = now
  PROVE  EventsOf(Chain)' = EventsOf(Chain)
<1>1. Chain' = Chain
  BY ChainSame
<1>2. fireTime' = fireTime /\ post' = post
  BY DEF list
<1> QED BY <1>1, <1>2 DEF EventsOf, Event

\* CancelEvents or CancelEventOn is Cancel, as a whole.
LEMMA CancelMaps ==
  ASSUME RInv, IInv', NEW k \in Keys, Cancel(k)
  PROVE  Mapped' /\ Schedule!Cancel(Named(k))
<1>1. /\ walk = "none" /\ phase # "between" /\ walk' = "cancel" /\ key' = k
      /\ phase' = IF phase = "firing" /\ Matches(pe, k) THEN "cancelled" ELSE phase
      /\ UNCHANGED <<list, file, loading>>
      /\ now' = now /\ pe' = pe /\ file' = file /\ fireTime' = fireTime
      /\ post' = post
  BY DEF Cancel, GameRuns, list
<1>2. Listed' /\ Size' = Size /\ Chain' = Chain
  BY <1>1, ChainSame DEF RInv, Mapped
<1>3. FirstFires'
  BY <1>1, <1>2 DEF RInv, Mapped, FirstFires
<1>4. Mapped'
  BY <1>1, <1>2, <1>3 DEF RInv, Mapped, FileSorted, Saving, Restoring
<1> DEFINE q == EventsOf(Chain)
           I == {i \in DOMAIN Chain : ~Matches(Chain[i], k)}
           stays == {i \in DOMAIN q : q[i].post \notin Named(k)}
<1>5. /\ Size \in Nat /\ Chain \in [1 .. Size -> queued] /\ q = [i \in 1 .. Size |-> Event(Chain[i])]
      /\ DOMAIN q = 1 .. Size
      /\ \A e \in queued : post[e] \in Posts
  BY ChainNow, EventsNow DEF RInv, IInv, Mapped, List, ListTypes
<1>6. \A p \in Posts, e \in queued : p = post[e] => (p \in Named(k) <=> Matches(e, k))
  BY DEF Named, Matches
<1>7. \A i \in 1 .. Size : q[i].post = post[Chain[i]]
  BY <1>5 DEF Event
<1>8. \A i \in 1 .. Size : q[i].post \in Named(k) <=> Matches(Chain[i], k)
  BY <1>5, <1>6, <1>7
<1>9. stays = I
  <2>1. DOMAIN Chain = 1 .. Size
    BY <1>5
  <2> HIDE DEF q
  <2> QED BY <1>5, <1>8, <2>1
<1>10. Schedule!Without(q, Named(k)) = Only(q, I)
  <2>1. Schedule!Without(q, Named(k)) =
          [j \in 1 .. Cardinality(stays) |->
             q[CHOOSE i \in stays : Cardinality({l \in stays : l <= i}) = j]]
    BY DEF Schedule!Without, Schedule!Nth, Schedule!Cardinality, Cardinality
  <2> HIDE DEF q, stays, I
  <2> QED BY <1>9, <2>1 DEF Only
<1>11. Pending' = Only(q, I)
  <2>1. EventsOf(Chain)' = q
    BY <1>1, SameEvents DEF RInv, Mapped
  <2>2. Pending' = Kept(Chain)'
    BY <1>1 DEF Pending
  <2>3. Kept(Chain)' = Only(EventsOf(Chain)', {i \in DOMAIN Chain' : ~Matches(Chain[i], key)'})
    BY DEF Kept, Only
  <2>4. {i \in DOMAIN Chain' : ~Matches(Chain[i], key)'} = I
    BY <1>1, <1>2 DEF Matches
  <2> QED BY <2>1, <2>2, <2>3, <2>4
<1>12. Pending = q /\ Saved = file /\ Saved' = file
  BY <1>1 DEF Pending, Saved
<1>13. phase = "firing" => (Head(q).post \in Named(k) <=> Matches(pe, k))
  <2> HAVE phase = "firing"
  <2>1. pe # NULL /\ Size # 0 /\ Chain[1] = pe /\ 1 \in 1 .. Size
    BY <1>5 DEF RInv, IInv, PointersLive, Mapped, FirstFires
  <2>2. Head(q) = q[1]
    BY <1>5, <2>1
  <2> QED BY <1>8, <2>1, <2>2
<1>14. Schedule!Cancel(Named(k))
  <2> HIDE DEF q, I
  <2>1. phase' = IF phase = "firing" /\ Head(Pending).post \in Named(k) THEN "cancelled" ELSE phase
    BY <1>1, <1>12, <1>13
  <2> QED BY <1>1, <1>10, <1>11, <1>12, <2>1 DEF Schedule!Cancel, Schedule!GameRuns
<1> QED BY <1>4, <1>14

\* What the cancelling loop does changes nothing more.
LEMMA CancelStepMaps ==
  ASSUME RInv, IInv', CancelStep
  PROVE  Mapped' /\ UNCHANGED Schedule!schedule
<1>1. /\ walk = "cancel" /\ walk' = "cancel" /\ key' = key /\ cursor # NULL
      /\ now' = now /\ phase' = phase /\ pe' = pe /\ file' = file
      /\ IF Matches(cursor, key) THEN RemoveEvent(cursor) ELSE UNCHANGED list
  BY DEF CancelStep, frame
<1>2. List /\ List' /\ Listed /\ cursor \in queued
  BY <1>1 DEF RInv, IInv, Mapped, PointersLive
<1>3. Saved = file /\ Saved' = file /\ Pending = Kept(Chain) /\ Pending' = Kept(Chain)'
  BY <1>1 DEF Saved, Pending
<1>4. CASE ~Matches(cursor, key)
  <2>1. UNCHANGED list /\ fireTime' = fireTime /\ post' = post
    BY <1>1, <1>4 DEF list
  <2>2. Listed' /\ Size' = Size /\ Chain' = Chain
    BY <1>2, <2>1, ChainSame
  <2>3. Mapped'
    BY <1>1, <2>1, <2>2 DEF RInv, Mapped, FirstFires, FileSorted, Saving, Restoring
  <2>4. EventsOf(Chain)' = EventsOf(Chain)
    BY <1>1, <1>2, <2>1, SameEvents
  <2>5. {i \in DOMAIN Chain' : ~Matches(Chain[i], key)'} = {i \in DOMAIN Chain : ~Matches(Chain[i], key)}
    BY <1>1, <2>1, <2>2 DEF Matches
  <2>6. Kept(Chain)' = Only(EventsOf(Chain)', {i \in DOMAIN Chain' : ~Matches(Chain[i], key)'})
    BY DEF Kept, Only
  <2>7. Kept(Chain)' = Kept(Chain)
    BY <2>4, <2>5, <2>6 DEF Kept
  <2> QED BY <1>1, <1>3, <2>3, <2>7 DEF Schedule!schedule
<1>5. CASE Matches(cursor, key)
  <2>1. RemoveEvent(cursor)
    BY <1>1, <1>5
  <2>2. /\ Size \in Nat /\ Chain \in [1 .. Size -> queued]
        /\ \E p \in 1 .. Size : Chain[p] = cursor
        /\ \A i, l \in 1 .. Size : Chain[i] = Chain[l] => i = l
    BY <1>2, ChainNow
  <2>3. PICK p \in 1 .. Size : Chain[p] = cursor
    BY <2>2
  <2>4. /\ Listed' /\ Size' = Size - 1
        /\ Chain' = [i \in 1 .. Size - 1 |-> IF i < p THEN Chain[i] ELSE Chain[i + 1]]
    BY <1>2, <2>1, <2>3, ChainTaken
  <2>5. /\ queued' = queued \ {cursor}
        /\ \A d, f \in queued' : EarlierThen(d, f) <=> Earlier(d, f)
        /\ \A d \in queued' : fireTime'[d] = fireTime[d] /\ post'[d] = post[d]
    BY <1>2, <2>1, RemoveOrder
  <2>6. FirstFires'
    <3> SUFFICES ASSUME phase = "firing"
                 PROVE  Size' # 0 /\ Chain'[1] = pe /\ fireTime'[pe] <= now
      BY <1>1 DEF FirstFires
    <3>1. Size # 0 /\ Chain[1] = pe /\ fireTime[pe] <= now /\ pe # NULL /\ ~Matches(pe, key)
      BY <1>1 DEF RInv, IInv, PointersLive, Calls, Mapped, FirstFires
    <3>2. 1 \in 1 .. Size /\ p # 1 /\ pe \in queued'
      BY <1>5, <2>2, <2>3, <2>5, <3>1
    <3>3. 1 < p /\ 1 \in 1 .. Size - 1 /\ Size - 1 # 0
      BY <2>2, <3>2
    <3> QED BY <2>4, <2>5, <3>1, <3>2, <3>3
  <2>7. Mapped'
    BY <1>1, <2>4, <2>6 DEF RInv, Mapped, FileSorted, Saving, Restoring
  <2>8. Stays' = Stays
    <3>1. \A e \in queued' : Matches(e, key)' <=> Matches(e, key)
      BY <1>1, <2>5 DEF Matches
    <3>2. Stays' = {e \in queued' : ~Matches(e, key)'}
      BY DEF Stays
    <3> QED BY <1>5, <2>5, <3>1, <3>2 DEF Stays
  <2>9. \A x, y \in Stays : <<x, y>> \in Order' <=> <<x, y>> \in Order
    <3>1. \A x \in Stays : x \in queued /\ x \in queued'
      BY <1>5, <2>5 DEF Stays
    <3> QED BY <2>5, <3>1, Ordered, OrderedThen
  <2> DEFINE c == KeptChain
             m == Cardinality(Stays)
  <2>10. Enumerates(c, m, Stays, Order) /\ Kept(Chain) = [i \in 1 .. m |-> Event(c[i])]
    BY KeptShape
  <2> HIDE DEF c, m
  <2>11. Enumerates(c, m, Stays', Order')
    BY <2>8, <2>9, <2>10 DEF Enumerates
  <2>12. Kept(Chain)' = [i \in 1 .. m |-> EventThen(c[i])]
    BY <2>7, <2>11, KeptThen DEF RInv
  <2>13. \A i \in 1 .. m : EventThen(c[i]) = Event(c[i])
    <3>1. \A i \in 1 .. m : c[i] \in queued'
      BY <1>5, <2>5, <2>10 DEF Enumerates, Stays
    <3> QED BY <1>1, <2>5, <3>1 DEF Event, EventThen
  <2>14. Kept(Chain)' = Kept(Chain)
    BY <2>10, <2>12, <2>13
  <2> QED BY <1>1, <1>3, <2>7, <2>14 DEF Schedule!schedule
<1> QED BY <1>4, <1>5

LEMMA CancelEndMaps ==
  ASSUME RInv, IInv', CancelEnd
  PROVE  Mapped' /\ UNCHANGED Schedule!schedule
<1>1. /\ walk = "cancel" /\ walk' = "none" /\ cursor = NULL
      /\ now' = now /\ phase' = phase /\ pe' = pe /\ file' = file
      /\ UNCHANGED list /\ fireTime' = fireTime /\ post' = post
  BY DEF CancelEnd, frame, list
<1>2. Listed' /\ Size' = Size /\ Chain' = Chain /\ EventsOf(Chain)' = EventsOf(Chain)
  BY <1>1, ChainSame, SameEvents DEF RInv, Mapped
<1>3. Mapped'
  BY <1>1, <1>2 DEF RInv, Mapped, FirstFires, FileSorted, Saving, Restoring
<1>4. Stays = queued
  BY <1>1 DEF RInv, IInv, Ahead, Stays
<1>5. Enumerates(Chain, Size, Stays, Order)
  BY <1>4 DEF RInv, Mapped, Listed
<1>6. Kept(Chain) = [k \in 1 .. Size |-> Event(Chain[k])]
  BY <1>5, KeptIs
<1>7. Kept(Chain) = EventsOf(Chain)
  BY <1>6, EventsNow
<1>8. Pending = Kept(Chain) /\ Pending' = EventsOf(Chain)' /\ Saved = file /\ Saved' = file
  BY <1>1 DEF Pending, Saved
<1> QED BY <1>1, <1>2, <1>3, <1>7, <1>8 DEF Schedule!schedule

\* The queue is sorted.
LEMMA EventsSorted ==
  ASSUME RInv, NEW j \in 1 .. Size, NEW k \in 1 .. Size, j < k
  PROVE  Event(Chain[j]).in <= Event(Chain[k]).in
<1>1. Earlier(Chain[j], Chain[k]) /\ Chain[j] \in queued /\ Chain[k] \in queued
  BY ChainNow DEF RInv, IInv, Mapped
<1>2. fireTime[Chain[j]] \in Int /\ fireTime[Chain[k]] \in Int /\ now \in Int
  BY <1>1 DEF RInv, IInv, TypeOK, List, ListTypes
<1>3. fireTime[Chain[j]] <= fireTime[Chain[k]]
  BY <1>1, <1>2 DEF Earlier
<1> QED BY <1>2, <1>3 DEF Event

\* Save is Save, as a whole.
LEMMA SaveMaps ==
  ASSUME RInv, IInv', Save
  PROVE  Mapped' /\ Schedule!Save
<1>1. /\ walk = "none" /\ walk' = "save" /\ phase \in {"before", "after"}
      /\ cursor' = next[HEAD] /\ file' = << >>
      /\ now' = now /\ phase' = phase /\ pe' = pe
      /\ UNCHANGED list
  BY DEF Save, BetweenFrames, frame
<1>2. Listed' /\ Size' = Size /\ Chain' = Chain /\ EventsOf(Chain)' = EventsOf(Chain)
  BY <1>1, ChainSame, SameEvents DEF RInv, Mapped
<1>3. Size \in Nat /\ next[HEAD] = IF Size = 0 THEN NULL ELSE Chain[1]
  BY ChainNow DEF RInv, IInv, Mapped
<1>4. Saving'
  BY <1>1, <1>2, <1>3 DEF Saving
<1>5. Mapped'
  BY <1>1, <1>2, <1>4 DEF RInv, Mapped, FirstFires, FileSorted, Restoring
<1>6. /\ Pending = EventsOf(Chain) /\ Pending' = EventsOf(Chain)'
      /\ Saved = file /\ Saved' = Pending'
  BY <1>1 DEF Pending, Saved
<1> QED BY <1>1, <1>2, <1>5, <1>6 DEF Schedule!Save, Schedule!BetweenFrames

LEMMA SaveStepMaps ==
  ASSUME RInv, IInv', SaveStep
  PROVE  Mapped' /\ UNCHANGED Schedule!schedule
<1> DEFINE n == Len(file)
           x == [in |-> SavedTime(cursor), post |-> post[cursor]]
<1>1. /\ walk = "save" /\ walk' = "save" /\ cursor # NULL /\ cursor' = next[cursor]
      /\ file' = Append(file, x)
      /\ now' = now /\ phase' = phase /\ pe' = pe
      /\ UNCHANGED list /\ fireTime' = fireTime /\ post' = post
  BY DEF SaveStep, frame, list
<1>2. Listed' /\ Size' = Size /\ Chain' = Chain /\ EventsOf(Chain)' = EventsOf(Chain)
  BY <1>1, ChainSame, SameEvents DEF RInv, Mapped
<1>3. /\ Size \in Nat /\ Chain \in [1 .. Size -> queued]
      /\ \A k \in 1 .. Size : next[Chain[k]] = IF k = Size THEN NULL ELSE Chain[k + 1]
  BY ChainNow DEF RInv, IInv, Mapped
<1>4. file \in Seq(Entries) /\ n \in Nat
  BY DEF RInv, IInv, TypeOK, Entries
<1>5. /\ n <= Size
      /\ \A k \in 1 .. n : file[k] = Event(Chain[k])
      /\ cursor = IF n = Size THEN NULL ELSE Chain[n + 1]
  BY <1>1 DEF RInv, Mapped, Saving
<1>6. n < Size /\ n + 1 \in 1 .. Size /\ cursor = Chain[n + 1]
  BY <1>1, <1>3, <1>4, <1>5
<1>7. x = Event(Chain[n + 1])
  BY <1>6 DEF Event, SavedTime
<1>8. x \in Entries
  BY <1>3, <1>6, <1>7, EventsNow
<1> HIDE DEF x
<1>9. /\ Len(file') = n + 1
      /\ \A k \in 1 .. n + 1 : file'[k] = Event(Chain[k]) /\ k \in 1 .. Size
  <2>1. Len(file') = n + 1 /\ file'[n + 1] = x /\ \A k \in 1 .. n : file'[k] = file[k]
    BY <1>1, <1>4, <1>8
  <2>2. \A k \in 1 .. n + 1 : (k \in 1 .. n \/ k = n + 1) /\ k \in 1 .. Size
    BY <1>3, <1>4, <1>6
  <2> QED BY <1>5, <1>7, <2>1, <2>2
<1>10. FileSorted'
  <2>1. \A j, k \in 1 .. n + 1 : j < k => file'[j].in <= file'[k].in
    BY <1>9, EventsSorted
  <2> QED BY <1>9, <2>1 DEF FileSorted
<1>11. \A e : Event(e)' = Event(e)
  BY <1>1 DEF Event
<1>12. Saving'
  <2>1. Len(file') <= Size
    BY <1>3, <1>4, <1>6, <1>9
  <2>2. cursor' = IF n + 1 = Size THEN NULL ELSE Chain[n + 1 + 1]
    BY <1>1, <1>3, <1>6
  <2>3. \A k \in 1 .. Len(file') : file'[k] = Event(Chain[k])'
    BY <1>1, <1>2, <1>9 DEF Event
  <2> QED BY <1>2, <1>9, <2>1, <2>2, <2>3 DEF Saving
<1>13. Mapped'
  BY <1>1, <1>2, <1>10, <1>12 DEF RInv, Mapped, FirstFires, Restoring
<1>14. /\ Pending = EventsOf(Chain) /\ Pending' = EventsOf(Chain)'
       /\ Saved = Pending /\ Saved' = Pending'
  BY <1>1 DEF Pending, Saved
<1> QED BY <1>1, <1>2, <1>13, <1>14 DEF Schedule!schedule

\* Entry by entry the file is the queue.
LEMMA FileIsQueue ==
  ASSUME RInv, Len(file) = Size, \A k \in 1 .. Size : file[k] = Event(Chain[k])
  PROVE  file = EventsOf(Chain)
<1>1. file \in Seq(Entries)
  BY DEF RInv, IInv, TypeOK, Entries
<1>2. file = [k \in 1 .. Len(file) |-> file[k]]
  BY <1>1
<1> QED BY <1>2, EventsNow

LEMMA SaveEndMaps ==
  ASSUME RInv, IInv', SaveEnd
  PROVE  Mapped' /\ UNCHANGED Schedule!schedule
<1>1. /\ walk = "save" /\ walk' = "none" /\ cursor = NULL /\ file' = file
      /\ now' = now /\ phase' = phase /\ pe' = pe
      /\ UNCHANGED list /\ fireTime' = fireTime /\ post' = post
  BY DEF SaveEnd, frame, list
<1>2. Listed' /\ Size' = Size /\ Chain' = Chain /\ EventsOf(Chain)' = EventsOf(Chain)
  BY <1>1, ChainSame, SameEvents DEF RInv, Mapped
<1>3. Mapped'
  BY <1>1, <1>2 DEF RInv, Mapped, FirstFires, FileSorted, Saving, Restoring
<1>4. Size \in Nat /\ Chain \in [1 .. Size -> queued] /\ NULL \notin queued
  BY ChainNow, AddressAssumption DEF RInv, IInv, Mapped, List, ListTypes
<1>5. Len(file) \in Nat
  BY DEF RInv, IInv, TypeOK
<1>6. /\ Len(file) <= Size
      /\ \A k \in 1 .. Len(file) : file[k] = Event(Chain[k])
      /\ cursor = IF Len(file) = Size THEN NULL ELSE Chain[Len(file) + 1]
  BY <1>1 DEF RInv, Mapped, Saving
<1>7. Len(file) = Size
  <2> SUFFICES ASSUME Len(file) # Size PROVE FALSE
    OBVIOUS
  <2>1. Len(file) + 1 \in 1 .. Size
    BY <1>4, <1>5, <1>6
  <2>2. Chain[Len(file) + 1] \in queued
    BY <1>4, <2>1
  <2> QED BY <1>1, <1>4, <1>6, <2>2
<1>8. file = EventsOf(Chain)
  BY <1>6, <1>7, FileIsQueue
<1>9. /\ Pending = EventsOf(Chain) /\ Pending' = EventsOf(Chain)'
      /\ Saved = Pending /\ Saved' = file
  BY <1>1 DEF Pending, Saved
<1> QED BY <1>1, <1>2, <1>3, <1>8, <1>9 DEF Schedule!schedule

\* Restore is Restore, as a whole.
LEMMA RestoreMaps ==
  ASSUME RInv, IInv', Restore
  PROVE  Mapped' /\ Schedule!Restore
<1>1. /\ walk = "none" /\ walk' = "restore" /\ phase \in {"before", "after"}
      /\ loading' = file /\ file' = file /\ queued' = {}
      /\ now' = now /\ phase' = phase /\ pe' = pe
  BY DEF Restore, Clear, BetweenFrames, frame
<1>2. Listed' /\ Size' = 0 /\ Chain' = << >>
  BY <1>1, ChainEmpty DEF IInv
<1>3. Len(file) \in Nat
  BY DEF RInv, IInv, TypeOK
<1>4. Restoring'
  <2>1. Len(file') = Size' + Len(loading')
    BY <1>1, <1>2, <1>3
  <2>2. \A k \in 1 .. Size' : file'[k] = Event(Chain[k])'
    BY <1>2
  <2>3. \A k \in 1 .. Len(loading') : loading'[k] = file'[Size' + k]
    BY <1>1, <1>2, <1>3
  <2> QED BY <2>1, <2>2, <2>3 DEF Restoring
<1>5. Mapped'
  BY <1>1, <1>2, <1>4 DEF RInv, Mapped, FirstFires, FileSorted, Saving
<1>6. Pending' = file /\ Saved = file /\ Saved' = file
  BY <1>1 DEF Pending, Saved
<1> QED BY <1>1, <1>5, <1>6 DEF Schedule!Restore, Schedule!BetweenFrames

LEMMA RestoreStepMaps ==
  ASSUME RInv, IInv', RestoreStep
  PROVE  Mapped' /\ UNCHANGED Schedule!schedule
<1> DEFINE x == loading[1]
<1>1. /\ walk = "restore" /\ walk' = "restore" /\ file' = file /\ loading # << >>
      /\ AddEvent(Head(loading).post, now + Head(loading).in) /\ loading' = Tail(loading)
      /\ now' = now /\ phase' = phase /\ pe' = pe
  BY DEF RestoreStep, frame, walking
<1>2. List /\ List' /\ Listed /\ now \in Int
  BY DEF RInv, IInv, Mapped, TypeOK
<1>3. /\ file \in Seq(Entries) /\ loading \in Seq(Entries)
      /\ Len(file) \in Nat /\ Len(loading) \in Nat /\ Len(loading) # 0
  BY <1>1 DEF RInv, IInv, TypeOK, Entries
<1>4. /\ x \in Entries /\ Head(loading) = x /\ x.in \in Int /\ x.post \in Posts
      /\ Len(loading') = Len(loading) - 1
      /\ \A k \in 1 .. Len(loading) - 1 : loading'[k] = loading[k + 1]
  <2>1. x \in Entries /\ Head(loading) = x
    BY <1>3
  <2>2. Len(loading') = Len(loading) - 1 /\ \A k \in 1 .. Len(loading) - 1 : loading'[k] = loading[k + 1]
    BY <1>1, <1>3
  <2> QED BY <2>1, <2>2 DEF Entries
<1>5. /\ Len(file) = Size + Len(loading)
      /\ \A k \in 1 .. Size : file[k] = Event(Chain[k])
      /\ \A k \in 1 .. Len(loading) : loading[k] = file[Size + k]
  BY <1>1 DEF RInv, Mapped, Restoring
<1>6. Size \in Nat /\ Chain \in [1 .. Size -> queued] /\ \A f \in queued : fireTime[f] \in Int
  BY <1>2, ChainNow DEF List, ListTypes
<1> HIDE DEF x
<1>7. PICK n \in 0 .. Size, e \in Events \ queued :
        /\ Listed' /\ Size' = Size + 1
        /\ Chain' = [k \in 1 .. Size + 1 |-> IF k <= n THEN Chain[k]
                                             ELSE IF k = n + 1 THEN e ELSE Chain[k - 1]]
        /\ \A k \in 1 .. Size : IF k <= n THEN fireTime[Chain[k]] <= now + x.in
                                ELSE fireTime[Chain[k]] > now + x.in
        /\ fireTime'[e] = now + x.in /\ post'[e] = x.post
        /\ \A f \in queued : fireTime'[f] = fireTime[f] /\ post'[f] = post[f]
  <2>1. now + x.in \in Int /\ AddEvent(x.post, now + x.in)
    BY <1>1, <1>2, <1>4
  <2> QED BY <1>2, <2>1, ChainAdded
<1>8. x = file[Size + 1] /\ Size + 1 \in 1 .. Len(file)
  <2>1. 1 \in 1 .. Len(loading)
    BY <1>3
  <2> QED BY <1>3, <1>5, <1>6, <2>1 DEF x
<1>9. n = Size
  <2> SUFFICES ASSUME n # Size PROVE FALSE
    OBVIOUS
  <2>1. n + 1 \in 1 .. Size /\ ~(n + 1 <= n) /\ n + 1 < Size + 1 /\ n + 1 \in 1 .. Len(file)
    BY <1>3, <1>5, <1>6
  <2>2. fireTime[Chain[n + 1]] > now + x.in /\ fireTime[Chain[n + 1]] \in Int
    BY <1>6, <1>7, <2>1
  <2>3. file[n + 1].in = fireTime[Chain[n + 1]] - now
    <3>1. file[n + 1] = Event(Chain[n + 1])
      BY <1>5, <2>1
    <3> QED BY <3>1 DEF Event
  <2>4. file[n + 1].in <= file[Size + 1].in
    BY <1>8, <2>1 DEF RInv, Mapped, FileSorted
  <2> QED BY <1>2, <1>4, <1>8, <2>2, <2>3, <2>4
<1>10. /\ \A k \in 1 .. Size : Chain'[k] = Chain[k] /\ Chain[k] \in queued
       /\ Chain'[Size + 1] = e
  BY <1>6, <1>7, <1>9
<1>11. EventThen(e) = x
  <2>1. EventThen(e) = [in |-> x.in, post |-> x.post]
    BY <1>1, <1>2, <1>4, <1>7 DEF EventThen
  <2> QED BY <1>4, <2>1 DEF Entries
<1>12. \A k \in 1 .. Size + 1 : file'[k] = EventThen(Chain'[k])
  <2> SUFFICES ASSUME NEW k \in 1 .. Size + 1 PROVE file'[k] = EventThen(Chain'[k])
    OBVIOUS
  <2>1. CASE k = Size + 1
    BY <1>1, <1>8, <1>10, <1>11, <2>1
  <2>2. CASE k # Size + 1
    <3>1. k \in 1 .. Size
      BY <1>6, <2>2
    <3>2. EventThen(Chain[k]) = Event(Chain[k])
      BY <1>1, <1>7, <1>10, <3>1 DEF Event, EventThen
    <3> QED BY <1>1, <1>5, <1>10, <3>1, <3>2
  <2> QED BY <2>1, <2>2
<1>13. Restoring'
  <2>1. Len(file') = Size' + Len(loading')
    BY <1>1, <1>3, <1>4, <1>5, <1>6, <1>7
  <2>2. \A k \in 1 .. Size' : file'[k] = Event(Chain[k])'
    BY <1>7, <1>12 DEF Event, EventThen
  <2>3. \A k \in 1 .. Len(loading') : loading'[k] = file'[Size' + k]
    <3> SUFFICES ASSUME NEW k \in 1 .. Len(loading) - 1 PROVE loading[k + 1] = file[Size + 1 + k]
      BY <1>1, <1>4, <1>7
    <3>1. k + 1 \in 1 .. Len(loading) /\ Size + (k + 1) = Size + 1 + k
      BY <1>3, <1>6
    <3> QED BY <1>5, <3>1
  <2> QED BY <2>1, <2>2, <2>3 DEF Restoring
<1>14. phase # "firing"
  BY <1>1 DEF RInv, IInv, Calls
<1>15. Mapped'
  BY <1>1, <1>7, <1>13, <1>14 DEF RInv, Mapped, FirstFires, FileSorted, Saving
<1>16. Pending = file /\ Pending' = file' /\ Saved = file /\ Saved' = file'
  BY <1>1 DEF Pending, Saved
<1> QED BY <1>1, <1>15, <1>16 DEF Schedule!schedule

LEMMA RestoreEndMaps ==
  ASSUME RInv, IInv', RestoreEnd
  PROVE  Mapped' /\ UNCHANGED Schedule!schedule
<1>1. /\ walk = "restore" /\ walk' = "none" /\ loading = << >> /\ file' = file
      /\ now' = now /\ phase' = phase /\ pe' = pe
      /\ UNCHANGED list /\ fireTime' = fireTime /\ post' = post
  BY DEF RestoreEnd, frame, list
<1>2. Listed' /\ Size' = Size /\ Chain' = Chain /\ EventsOf(Chain)' = EventsOf(Chain)
  BY <1>1, ChainSame, SameEvents DEF RInv, Mapped
<1>3. Mapped'
  BY <1>1, <1>2 DEF RInv, Mapped, FirstFires, FileSorted, Saving, Restoring
<1>4. Size \in Nat
  BY ChainNow DEF RInv, IInv, Mapped
<1>5. Len(file) = Size /\ \A k \in 1 .. Size : file[k] = Event(Chain[k])
  BY <1>1, <1>4 DEF RInv, Mapped, Restoring
<1>6. file = EventsOf(Chain)
  BY <1>5, FileIsQueue
<1>7. Pending = file /\ Pending' = EventsOf(Chain)' /\ Saved = file /\ Saved' = file
  BY <1>1 DEF Pending, Saved
<1> QED BY <1>1, <1>2, <1>3, <1>6, <1>7 DEF Schedule!schedule

LEMMA TickMaps ==
  ASSUME RInv, RInv', Tick
  PROVE  Schedule!Tick
<1>1. /\ walk = "none" /\ walk' = "none" /\ file' = file
      /\ phase = "after" /\ phase' = "before" /\ now' = now + 1 /\ UNCHANGED list
      /\ fireTime' = fireTime /\ post' = post
  BY DEF Tick, GameRuns, walking, list
<1>2. Size' = Size /\ Chain' = Chain
  BY <1>1, ChainSame DEF RInv, Mapped
<1> DEFINE q == EventsOf(Chain)
<1>3. q = [k \in 1 .. Size |-> Event(Chain[k])] /\ DOMAIN q = 1 .. Size
  BY EventsNow
<1>4. EventsOf(Chain)' = [k \in 1 .. Size |-> EventThen(Chain[k])]
  BY <1>2, EventsThen
<1>5. \A k \in 1 .. Size : EventThen(Chain[k]) = [q[k] EXCEPT !.in = @ - 1]
  <2> SUFFICES ASSUME NEW k \in 1 .. Size
               PROVE  EventThen(Chain[k]) = [q[k] EXCEPT !.in = @ - 1]
    OBVIOUS
  <2>1. Chain[k] \in queued
    BY ChainNow DEF RInv, IInv, Mapped
  <2>2. fireTime[Chain[k]] \in Int /\ now \in Int
    BY <2>1 DEF RInv, IInv, TypeOK, List, ListTypes
  <2>3. q[k] = [in |-> fireTime[Chain[k]] - now, post |-> post[Chain[k]]]
    BY <1>3 DEF Event
  <2>4. EventThen(Chain[k]) = [in |-> fireTime[Chain[k]] - (now + 1), post |-> post[Chain[k]]]
    BY <1>1 DEF EventThen
  <2>5. fireTime[Chain[k]] - (now + 1) = fireTime[Chain[k]] - now - 1
    BY <2>2
  <2> HIDE DEF q
  <2> QED BY <2>3, <2>4, <2>5
<1> HIDE DEF q
<1>6. EventsOf(Chain)' = [k \in DOMAIN q |-> [q[k] EXCEPT !.in = @ - 1]]
  BY <1>3, <1>4, <1>5
<1>7. Pending = q /\ Pending' = EventsOf(Chain)' /\ Saved = file /\ Saved' = file
  BY <1>1 DEF Pending, Saved, q
<1> QED BY <1>1, <1>6, <1>7 DEF Schedule!Tick

\* Between two events the schedule looks at the same first event.
LEMMA SameDue ==
  ASSUME RInv, phase = "between"
  PROVE  /\ walk = "none" /\ Pending = EventsOf(Chain) /\ Saved = file
         /\ DueNow <=> Schedule!DueNow
         /\ DueNow => Size # 0 /\ Chain[1] = next[HEAD] /\ fireTime[Chain[1]] <= now
<1>1. walk = "none"
  BY DEF RInv, IInv, Calls
<1>2. Pending = EventsOf(Chain) /\ Saved = file
  BY <1>1 DEF Pending, Saved
<1>3. /\ Size \in Nat /\ Chain \in [1 .. Size -> queued]
      /\ next[HEAD] = IF Size = 0 THEN NULL ELSE Chain[1]
      /\ NULL \notin queued
  BY ChainNow, AddressAssumption DEF RInv, IInv, Mapped, List, ListTypes
<1> DEFINE q == EventsOf(Chain)
<1>4. /\ q \in Seq(Entries) /\ Len(q) = Size /\ q = [k \in 1 .. Size |-> Event(Chain[k])]
  BY EventsNow
<1>5. CASE Size = 0
  <2>1. q = << >>
    BY <1>4, <1>5
  <2> QED BY <1>1, <1>2, <1>3, <1>5, <2>1 DEF DueNow, Schedule!DueNow
<1>6. CASE Size # 0
  <2>1. 1 \in 1 .. Size /\ Chain[1] \in queued /\ next[HEAD] = Chain[1]
    BY <1>3, <1>6
  <2>2. q # << >> /\ Head(q) = q[1]
    <3>1. q \in Seq(Entries) /\ Len(q) # 0
      BY <1>4, <1>6
    <3> HIDE DEF q
    <3> QED BY <3>1
  <2>3. Head(q) = Event(Chain[1])
    BY <1>4, <2>1, <2>2
  <2>4. fireTime[Chain[1]] \in Int /\ now \in Int
    BY <2>1 DEF RInv, IInv, TypeOK, List, ListTypes
  <2>5. Head(q).in <= 0 <=> fireTime[Chain[1]] <= now
    BY <2>3, <2>4 DEF Event
  <2>6. DueNow <=> fireTime[Chain[1]] <= now
    BY <1>3, <2>1 DEF DueNow, Due
  <2> HIDE DEF q
  <2>7. DueNow <=> Schedule!DueNow
    BY <1>2, <2>2, <2>5, <2>6 DEF Schedule!DueNow, q
  <2> QED BY <1>1, <1>2, <1>6, <2>1, <2>6, <2>7
<1> QED BY <1>5, <1>6

LEMMA FiredMaps ==
  ASSUME RInv, IInv', Fired
  PROVE  Mapped' /\ Schedule!Fired
<1>1. /\ walk = "none" /\ walk' = "none" /\ file' = file /\ now' = now
      /\ phase = "firing" /\ phase' = "between" /\ RemoveEvent(pe)
  BY DEF Fired, GameRuns, walking
<1>2. List /\ List' /\ Listed /\ Size # 0 /\ Chain[1] = pe
  BY <1>1 DEF RInv, IInv, Mapped, FirstFires
<1>3. Size \in Nat /\ Chain \in [1 .. Size -> queued] /\ 1 \in 1 .. Size /\ pe \in queued
  BY <1>2, ChainNow
<1>4. /\ Listed' /\ Size' = Size - 1
      /\ Chain' = [k \in 1 .. Size - 1 |-> IF k < 1 THEN Chain[k] ELSE Chain[k + 1]]
  BY <1>1, <1>2, <1>3, ChainTaken
<1>5. Mapped'
  BY <1>1, <1>4 DEF RInv, Mapped, FirstFires, FileSorted, Saving, Restoring
<1> DEFINE q == EventsOf(Chain)
<1>6. q = [k \in 1 .. Size |-> Event(Chain[k])] /\ q \in Seq(Entries) /\ Len(q) = Size
  BY EventsNow
<1>7. EventsOf(Chain)' = [k \in 1 .. Size - 1 |-> EventThen(Chain'[k])]
  BY <1>4, <1>5, EventsThen DEF RInv
<1>8. ASSUME NEW k \in 1 .. Size - 1 PROVE EventThen(Chain'[k]) = q[k + 1]
  <2>1. k + 1 \in 1 .. Size /\ Chain'[k] = Chain[k + 1]
    BY <1>3, <1>4
  <2>2. Chain'[k] \in queued'
    <3>1. \A j \in 1 .. Size' : Chain'[j] \in queued'
      BY <1>4 DEF Listed, Enumerates
    <3> QED BY <1>4, <3>1
  <2>3. fireTime'[Chain'[k]] = fireTime[Chain'[k]] /\ post'[Chain'[k]] = post[Chain'[k]]
    BY <1>1, <1>2, <1>3, <2>2, RemoveOrder
  <2> QED BY <1>1, <1>6, <2>1, <2>3 DEF Event, EventThen
<1> HIDE DEF q
<1>9. Tail(q) = [k \in 1 .. Size - 1 |-> q[k + 1]]
  BY <1>3, <1>6
<1>10. EventsOf(Chain)' = Tail(q)
  BY <1>7, <1>8, <1>9
<1>11. Pending = q /\ Pending' = EventsOf(Chain)' /\ Saved = file /\ Saved' = file
  BY <1>1 DEF Pending, Saved, q
<1> QED BY <1>1, <1>5, <1>10, <1>11 DEF Schedule!Fired

\* A step of the frame is the same step of the schedule.
LEMMA FrameMaps ==
  ASSUME RInv, IInv', Frame
  PROVE  Mapped' /\ Schedule!Frame
<1>1. CASE Tick
  <2>1. /\ UNCHANGED <<list, walk, cursor, file, loading>> /\ phase' # "firing" /\ walk' = "none"
        /\ file' = file
    BY <1>1 DEF Tick, GameRuns, walking
  <2>2. Mapped'
    BY <2>1, ChainSame DEF RInv, Mapped, FirstFires, FileSorted, Saving, Restoring
  <2> QED BY <1>1, <2>2, TickMaps DEF RInv, Schedule!Frame
<1>2. CASE ServiceEvents
  <2>1. /\ UNCHANGED list /\ now' = now /\ file' = file /\ walk = "none" /\ walk' = "none"
        /\ phase = "before" /\ phase' = "between"
    BY <1>2 DEF ServiceEvents, GameRuns, walking
  <2>2. Listed' /\ EventsOf(Chain)' = EventsOf(Chain)
    BY <2>1, ChainSame, SameEvents DEF RInv, Mapped
  <2>3. Mapped'
    BY <2>1, <2>2 DEF RInv, Mapped, FirstFires, FileSorted, Saving, Restoring
  <2>4. Pending' = Pending /\ Saved' = Saved
    BY <2>1, <2>2 DEF Pending, Saved
  <2> QED BY <2>1, <2>3, <2>4 DEF Schedule!ServiceEvents, Schedule!Frame
<1>3. CASE Fire
  <2>1. /\ UNCHANGED list /\ now' = now /\ file' = file /\ walk' = walk /\ fireTime' = fireTime
        /\ phase = "between" /\ phase' = "firing" /\ DueNow /\ pe' = next[HEAD]
    BY <1>3 DEF Fire, walking, list
  <2>2. /\ walk = "none" /\ Pending = EventsOf(Chain) /\ Saved = file /\ Schedule!DueNow
        /\ Size # 0 /\ Chain[1] = next[HEAD] /\ fireTime[Chain[1]] <= now
    BY <2>1, SameDue
  <2>3. Listed' /\ Size' = Size /\ Chain' = Chain /\ EventsOf(Chain)' = EventsOf(Chain)
    BY <2>1, ChainSame, SameEvents DEF RInv, Mapped
  <2>4. FirstFires'
    BY <2>1, <2>2, <2>3 DEF FirstFires
  <2>5. Mapped'
    BY <2>1, <2>2, <2>3, <2>4 DEF RInv, Mapped, FileSorted, Saving, Restoring
  <2>6. Pending' = Pending /\ Saved' = Saved
    BY <2>1, <2>2, <2>3 DEF Pending, Saved
  <2> QED BY <2>1, <2>2, <2>5, <2>6 DEF Schedule!Fire, Schedule!Frame
<1>4. CASE Fired
  BY <1>4, FiredMaps DEF Schedule!Frame
<1>5. CASE ServiceEnd
  <2>1. /\ UNCHANGED list /\ now' = now /\ file' = file /\ walk' = walk
        /\ phase = "between" /\ phase' = "after" /\ ~DueNow
    BY <1>5 DEF ServiceEnd, walking
  <2>2. walk = "none" /\ Pending = EventsOf(Chain) /\ Saved = file /\ ~Schedule!DueNow
    BY <2>1, SameDue
  <2>3. Listed' /\ EventsOf(Chain)' = EventsOf(Chain)
    BY <2>1, ChainSame, SameEvents DEF RInv, Mapped
  <2>4. Mapped'
    BY <2>1, <2>2, <2>3 DEF RInv, Mapped, FirstFires, FileSorted, Saving, Restoring
  <2>5. Pending' = Pending /\ Saved' = Saved
    BY <2>1, <2>2, <2>3 DEF Pending, Saved
  <2> QED BY <2>1, <2>2, <2>4, <2>5 DEF Schedule!ServiceEnd, Schedule!Frame
<1> QED BY <1>1, <1>2, <1>3, <1>4, <1>5 DEF Frame

-----------------------------------------------------------------------------
(* The refinement.                                                         *)

LEMMA InitMaps ==
  ASSUME Init
  PROVE  Mapped /\ Schedule!Init
<1>1. IInv
  BY InitEstablishes
<1>2. queued = {} /\ walk = "none" /\ phase = "before" /\ file = << >>
  BY DEF Init
<1>3. queued \in SUBSET Events /\ Strict(queued, Order) /\ Linked(next, queued, Order)
  BY <1>1, ListLinks DEF IInv
<1>4. Enumerates(<< >>, 0, queued, Order)
  BY <1>2 DEF Enumerates
<1>5. Met(next) = << >> /\ Cardinality(queued) = 0
  BY <1>3, <1>4, LinkPlaces, Count
<1>6. Chain = << >> /\ Size = 0
  BY <1>5 DEF Chain, Size
<1>7. Mapped
  BY <1>2, <1>4, <1>6 DEF Mapped, Listed, FirstFires, FileSorted, Saving, Restoring
<1>8. EventsOf(Chain) = << >>
  BY <1>6 DEF EventsOf
<1> QED BY <1>2, <1>7, <1>8 DEF Schedule!Init, Pending, Saved

LEMMA StutterMaps ==
  ASSUME RInv, UNCHANGED vars
  PROVE  Mapped' /\ UNCHANGED Schedule!schedule
<1>1. /\ UNCHANGED list /\ now' = now /\ phase' = phase /\ pe' = pe /\ walk' = walk /\ key' = key
      /\ cursor' = cursor /\ file' = file /\ loading' = loading
      /\ fireTime' = fireTime /\ post' = post
  BY DEF vars, frame, walking, list
<1>2. Listed' /\ Size' = Size /\ Chain' = Chain /\ EventsOf(Chain)' = EventsOf(Chain)
  BY <1>1, ChainSame, SameEvents DEF RInv, Mapped
<1>3. \A e : Event(e)' = Event(e)
  BY <1>1 DEF Event
<1>4. Mapped'
  BY <1>1, <1>2 DEF RInv, Mapped, FirstFires, FileSorted, Saving, Restoring, Event
<1>5. {i \in DOMAIN Chain' : ~Matches(Chain[i], key)'} = {i \in DOMAIN Chain : ~Matches(Chain[i], key)}
  BY <1>1, <1>2 DEF Matches
<1>6. Kept(Chain)' = Only(EventsOf(Chain)', {i \in DOMAIN Chain' : ~Matches(Chain[i], key)'})
  BY DEF Kept, Only
<1>7. Kept(Chain)' = Kept(Chain)
  BY <1>2, <1>5, <1>6 DEF Kept
<1>8. Pending' = Pending /\ Saved' = Saved
  BY <1>1, <1>2, <1>7 DEF Pending, Saved
<1> QED BY <1>1, <1>4, <1>8 DEF Schedule!schedule

LEMMA StepMaps ==
  RInv /\ [Next]_vars => RInv' /\ [ScheduleNext]_Schedule!schedule
<1> SUFFICES ASSUME RInv, [Next]_vars
             PROVE  RInv' /\ [ScheduleNext]_Schedule!schedule
  OBVIOUS
<1>1. IInv'
  BY StepKeeps DEF RInv
<1>2. CASE UNCHANGED vars
  BY <1>1, <1>2, StutterMaps DEF RInv
<1>3. CASE \E what \in Posts, delay \in Delays : PostEvent(what, delay)
  BY <1>1, <1>3, PostMaps DEF RInv, ScheduleNext
<1>4. CASE ClearQueue
  BY <1>1, <1>4, ClearMaps DEF RInv, ScheduleNext
<1>5. CASE \E k \in Keys : Cancel(k)
  BY <1>1, <1>5, CancelMaps DEF RInv, ScheduleNext
<1>6. CASE Save
  BY <1>1, <1>6, SaveMaps DEF RInv, ScheduleNext
<1>7. CASE Restore
  BY <1>1, <1>7, RestoreMaps DEF RInv, ScheduleNext
<1>8. CASE Walk
  BY <1>1, <1>8, CancelStepMaps, CancelEndMaps, SaveStepMaps, SaveEndMaps,
     RestoreStepMaps, RestoreEndMaps DEF RInv, Walk
<1>9. CASE Frame
  BY <1>1, <1>9, FrameMaps DEF RInv, ScheduleNext
<1> QED BY <1>2, <1>3, <1>4, <1>5, <1>6, <1>7, <1>8, <1>9 DEF Next

\* CEventQueue implements EventSchedule: the nodes along the links are the
\* waiting events of the schedule, and every call and every step of ServiceEvents
\* does to them what the schedule says, or nothing.
THEOREM QueueImplementsSchedule == Spec => ImplementsSchedule
<1>1. Init => RInv /\ Schedule!Init
  BY InitEstablishes, InitMaps DEF RInv
<1> QED BY <1>1, StepMaps, PTL DEF Spec, ImplementsSchedule
=============================================================================
