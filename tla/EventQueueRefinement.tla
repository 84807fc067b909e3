------------------------ MODULE EventQueueRefinement ------------------------
(***************************************************************************)
(* EventQueue implements EventSchedule: the nodes met from m_Events are the *)
(* abstract queue. A cancelling call takes effect when it is made, and so  *)
(* do Save and Restore.                                                    *)
(***************************************************************************)
EXTENDS EventQueue, FiniteSets

ASSUME MemoryAssumption == IsFiniteSet(Events)

After(nx, d) == IF d = NULL THEN NULL ELSE nx[d]

\* The nodes met from m_Events along the links nx.
Met(nx) ==
  LET at[k \in 0 .. Cardinality(Events)] == IF k = 0 THEN HEAD ELSE After(nx, at[k - 1])
      met == {k \in 1 .. Cardinality(Events) : at[k] # NULL}
  IN [k \in 1 .. Cardinality(met) |-> at[k]]

Chain == Met(next)

Event(e) == [in |-> fireTime[e] - now, post |-> post[e]]

\* What is left of q at the places I.
Only(q, I) ==
  LET nth(k) == CHOOSE i \in I : Cardinality({j \in I : j <= i}) = k
  IN [k \in 1 .. Cardinality(I) |-> q[nth(k)]]

EventsOf(c) == [k \in DOMAIN c |-> Event(c[k])]

\* What a cancelling loop is going to leave of c.
Kept(c) == Only(EventsOf(c), {k \in DOMAIN c : ~Matches(c[k], key)})

Pending ==
  IF walk = "restore" THEN file
  ELSE IF walk = "cancel" THEN Kept(Chain)
  ELSE EventsOf(Chain)

Saved == IF walk = "save" THEN Pending ELSE file

Schedule == INSTANCE EventSchedule WITH queue <- Pending, file <- Saved, FrameTime <- 1

Named(k) == {p \in Posts : IF k.by = "caller" THEN p.caller = k.ent
                           ELSE p.target = k.ent /\ p.input \in k.inputs}

\* What a walking call does after its first step changes nothing.
ScheduleNext ==
  \/ UNCHANGED Schedule!schedule
  \/ \E what \in Posts, delay \in Delays : Schedule!Post(what, delay)
  \/ Schedule!Clear
  \/ \E S \in {Named(k) : k \in Keys} : Schedule!Cancel(S)
  \/ Schedule!Save \/ Schedule!Restore
  \/ Schedule!Frame

\* CEventQueue keeps the promises of EventSchedule: nothing is lost, duplicated
\* or reordered by any order of additions, cancellations and services, and a
\* restored queue fires in the order of the saved one.
ImplementsSchedule == Schedule!Init /\ [][ScheduleNext]_Schedule!schedule
=============================================================================
