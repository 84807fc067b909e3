---------------------------- MODULE EventSchedule ----------------------------
(***************************************************************************)
(* What CEventQueue promises, without its links: a sequence of events, in  *)
(* order of fire time and, for one time, in the order they were added. An  *)
(* event is what was posted and the time left until it is due.             *)
(* Each frame services the queue once, before the time moves on.           *)
(***************************************************************************)
EXTENDS Integers, Sequences, FiniteSets

CONSTANT FrameTime  \* from one frame to the next

VARIABLES
  queue,  \* the events that wait, and the one being fired at the head
  phase,  \* as in EventQueue
  file    \* what was saved

schedule == <<queue, phase, file>>

Init == queue = << >> /\ phase = "before" /\ file = << >>

\* How many events AddEvent passes by before it meets a later one, or the end.
Passed(q, t) ==
  CHOOSE n \in 0 .. Len(q) :
    /\ \A i \in 1 .. n : q[i].in <= t
    /\ n < Len(q) => q[n + 1].in > t

\* q with event x added.
Insert(q, x) ==
  LET n == Passed(q, x.in)
  IN SubSeq(q, 1, n) \o <<x>> \o SubSeq(q, n + 1, Len(q))

\* The k-th number of I, a set of numbers.
Nth(I, k) == CHOOSE i \in I : Cardinality({j \in I : j <= i}) = k

\* q without what was posted like one of S.
Without(q, S) ==
  LET stays == {i \in DOMAIN q : q[i].post \notin S}
  IN [k \in 1 .. Cardinality(stays) |-> q[Nth(stays, k)]]

GameRuns == phase # "between"
BetweenFrames == phase \in {"before", "after"}

Post(what, delay) ==
  /\ GameRuns
  /\ UNCHANGED <<phase, file>>
  /\ queue' = Insert(queue, [in |-> delay, post |-> what])

Clear ==
  /\ BetweenFrames
  /\ queue' = << >>
  /\ UNCHANGED <<phase, file>>

\* Everything that was posted like one of S, the event being fired included:
\* the schedule says nothing of how that frame goes on.
Cancel(S) ==
  /\ GameRuns
  /\ phase' = IF phase = "firing" /\ Head(queue).post \in S THEN "cancelled" ELSE phase
  /\ queue' = Without(queue, S)
  /\ UNCHANGED file

Save ==
  /\ BetweenFrames
  /\ file' = queue
  /\ UNCHANGED <<queue, phase>>

Restore ==
  /\ BetweenFrames
  /\ queue' = file
  /\ UNCHANGED <<phase, file>>

Tick ==
  /\ phase = "after" /\ phase' = "before"
  /\ queue' = [i \in DOMAIN queue |-> [queue[i] EXCEPT !.in = @ - FrameTime]]
  /\ UNCHANGED file

ServiceEvents ==
  /\ phase = "before" /\ phase' = "between"
  /\ UNCHANGED <<queue, file>>

DueNow == queue # << >> /\ Head(queue).in <= 0

Fire ==
  /\ phase = "between" /\ DueNow
  /\ phase' = "firing"
  /\ UNCHANGED <<queue, file>>

Fired ==
  /\ phase = "firing" /\ phase' = "between"
  /\ queue' = Tail(queue)
  /\ UNCHANGED file

ServiceEnd ==
  /\ phase = "between" /\ ~DueNow
  /\ phase' = "after"
  /\ UNCHANGED <<queue, file>>

Frame == Tick \/ ServiceEvents \/ Fire \/ Fired \/ ServiceEnd
=============================================================================
