----------------------------- MODULE EventQueue -----------------------------
(***************************************************************************)
(* CEventQueue (game/server/cbase.cpp): the entity I/O events that wait    *)
(* for their fire time, in a doubly linked list that hangs from the member *)
(* m_Events. AddEvent keeps the list sorted; ServiceEvents, once a frame,  *)
(* fires what is due and starts again from the head after every event,     *)
(* because the input it called may have added events or cancelled others;  *)
(* the cancelling calls and Save walk the same links; Restore rebuilds the *)
(* list from the saved fire times, which are relative to the server time.  *)
(*                                                                         *)
(* Time is counted in frames. Left out: the developer's single step        *)
(* (Debug_IsPaused), and how the targets of an event are found: firing an  *)
(* event runs game code, which may make any calls on the queue.            *)
(***************************************************************************)
EXTENDS Integers, Sequences

CONSTANTS
  Events,   \* addresses of EventQueuePrioritizedEvent_t
  HEAD,     \* the address of m_Events
  NULL,
  Ents,
  Inputs,
  Posts,    \* who posts what: records of a caller, a direct target, an input
  Delays,   \* fireDelay values
  MaxTime   \* bound of the model: the last frame

ASSUME AddressAssumption == HEAD \notin Events /\ NULL \notin Events \cup {HEAD} \cup Ents
ASSUME PostsAssumption ==
  /\ NULL \notin Posts
  /\ Posts \subseteq [caller : Ents \cup {NULL}, target : Ents \cup {NULL}, input : Inputs]
ASSUME TimeAssumption == Delays \subseteq Nat /\ MaxTime \in Nat

VARIABLES
  next, prev,  \* m_pNext, m_pPrev; NULL in a node that is not allocated
  fireTime,    \* m_flFireTime
  post,        \* m_pCaller, m_pEntTarget and m_iTargetInput
  queued,      \* the allocated nodes
  before,      \* history: <<d, e>> when d was added before e
  now,         \* engine->GetServerTime()
  phase,       \* where GameFrame is: "before" ServiceEvents, in its loop
               \* "between" two events, "firing" one, "after" it; "cancelled"
               \* when an input has cancelled the event that called it
  pe,          \* the event being fired
  walk,        \* a call that walks the list: "none", "cancel", "save" or "restore"
  key,         \* what the cancelling call matches
  cursor,      \* pCur of the walk
  file,        \* what Save wrote
  loading      \* what Restore has yet to read

list == <<next, prev, fireTime, post, queued, before>>
frame == <<now, phase, pe>>
walking == <<walk, key, cursor>>
vars == <<list, frame, walking, file, loading>>

Keys == [by : {"caller"}, ent : Ents, inputs : {Inputs}]
        \cup [by : {"target"}, ent : Ents, inputs : SUBSET Inputs]

Init ==
  /\ next = [e \in Events \cup {HEAD} |-> NULL]
  /\ prev = [e \in Events |-> NULL]
  /\ fireTime = [e \in Events |-> 0]
  /\ post = [e \in Events |-> NULL]
  /\ queued = {} /\ before = {}
  /\ now = 0 /\ phase = "before" /\ pe = NULL
  /\ walk = "none" /\ key = NULL /\ cursor = NULL
  /\ file = << >> /\ loading = << >>

-----------------------------------------------------------------------------
(* The list.                                                               *)

\* Faulty variant: the new event goes in front of those of the same time.
StopsBeforeEqual(e, t) ==
  /\ e # HEAD => fireTime[e] < t
  /\ next[e] # NULL => fireTime[next[e]] >= t

\* AddEvent's loop ends at e: it has passed e, unless e is where it began, and
\* what follows e, if anything, fires later than t.
Stops(e, t) ==
  /\ e # HEAD => fireTime[e] <= t
  /\ next[e] # NULL => fireTime[next[e]] > t

\* The new node e behind the node d.
Inserted(e, d) ==
  LET n == next[d] IN
  /\ next' = [next EXCEPT ![e] = n, ![d] = e]
  /\ prev' = IF n = NULL THEN [prev EXCEPT ![e] = d]
             ELSE [prev EXCEPT ![e] = d, ![n] = e]

AddEvent(what, t) ==
  \E e \in Events \ queued, d \in queued \cup {HEAD} :
    /\ Stops(d, t)
    /\ Inserted(e, d)
    /\ fireTime' = [fireTime EXCEPT ![e] = t]
    /\ post' = [post EXCEPT ![e] = what]
    /\ queued' = queued \cup {e}
    /\ before' = before \cup {<<f, e>> : f \in queued}

\* Faulty variant: what follows e still leads back to it.
BypassedOneWay(e) ==
  /\ next' = [next EXCEPT ![prev[e]] = next[e], ![e] = NULL]
  /\ prev' = [prev EXCEPT ![e] = NULL]

Bypassed(e) ==
  LET n == next[e] IN
  /\ next' = [next EXCEPT ![prev[e]] = n, ![e] = NULL]
  /\ prev' = IF n = NULL THEN [prev EXCEPT ![e] = NULL]
             ELSE [prev EXCEPT ![n] = prev[e], ![e] = NULL]

\* RemoveEvent( e ), delete e. A node that is not allocated has no content.
RemoveEvent(e) ==
  /\ Bypassed(e)
  /\ fireTime' = [fireTime EXCEPT ![e] = 0]
  /\ post' = [post EXCEPT ![e] = NULL]
  /\ queued' = queued \ {e}
  /\ before' = {b \in before : e \notin {b[1], b[2]}}

NoLinks == [e \in Events \cup {HEAD} |-> NULL]

HeadReset == NoLinks

\* Clear deletes every event without unlinking it, then resets m_Events.m_pNext.
Clear ==
  /\ next' = HeadReset
  /\ prev' = [e \in Events |-> NULL]
  /\ fireTime' = [e \in Events |-> 0]
  /\ post' = [e \in Events |-> NULL]
  /\ queued' = {} /\ before' = {}

-----------------------------------------------------------------------------
(* Calls of game code, which runs outside ServiceEvents and in the inputs  *)
(* that ServiceEvents calls. A call that walks the list runs no game code. *)

GameRuns == walk = "none" /\ phase # "between"

PostEvent(what, delay) ==
  /\ GameRuns
  /\ AddEvent(what, now + delay)
  /\ UNCHANGED <<frame, walking, file, loading>>

\* Round restarts, map loads and the engine's saves happen between frames.
BetweenFrames == walk = "none" /\ phase \in {"before", "after"}

ClearQueue ==
  /\ BetweenFrames
  /\ Clear
  /\ UNCHANGED <<frame, walking, file, loading>>

\* The test of CancelEvents and of CancelEventOn.
Matches(e, k) ==
  IF k.by = "caller" THEN post[e].caller = k.ent
  ELSE post[e].target = k.ent /\ post[e].input \in k.inputs

\* CancelEvents( caller ) or CancelEventOn( target, inputs ), which make no
\* exception for the event that ServiceEvents is firing.
Cancel(k) ==
  /\ GameRuns
  /\ phase' = IF phase = "firing" /\ Matches(pe, k) THEN "cancelled" ELSE phase
  /\ walk' = "cancel" /\ key' = k /\ cursor' = next[HEAD]
  /\ UNCHANGED <<list, now, pe, file, loading>>

Following(e) == next[e]

\* One turn of the cancelling loop, which has moved on before it deletes.
CancelStep ==
  /\ walk = "cancel" /\ cursor # NULL
  /\ cursor' = Following(cursor)
  /\ IF Matches(cursor, key) THEN RemoveEvent(cursor) ELSE UNCHANGED list
  /\ UNCHANGED <<frame, walk, key, file, loading>>

CancelEnd ==
  /\ walk = "cancel" /\ cursor = NULL
  /\ walk' = "none" /\ key' = NULL
  /\ UNCHANGED <<list, frame, cursor, file, loading>>

\* Faulty variant: the fire time is saved as a plain float.
AbsoluteTime(e) == fireTime[e]

\* The fire time is a FIELD_TIME: it is saved relative to the server time.
SavedTime(e) == fireTime[e] - now

Save ==
  /\ BetweenFrames
  /\ walk' = "save" /\ cursor' = next[HEAD] /\ file' = << >>
  /\ UNCHANGED <<list, frame, key, loading>>

SaveStep ==
  /\ walk = "save" /\ cursor # NULL
  /\ file' = Append(file, [in |-> SavedTime(cursor), post |-> post[cursor]])
  /\ cursor' = next[cursor]
  /\ UNCHANGED <<list, frame, walk, key, loading>>

SaveEnd ==
  /\ walk = "save" /\ cursor = NULL
  /\ walk' = "none"
  /\ UNCHANGED <<list, frame, key, cursor, file, loading>>

Restore ==
  /\ BetweenFrames
  /\ Clear
  /\ walk' = "restore" /\ loading' = file
  /\ UNCHANGED <<frame, key, cursor, file>>

RestoreStep ==
  /\ walk = "restore" /\ loading # << >>
  /\ AddEvent(Head(loading).post, now + Head(loading).in)
  /\ loading' = Tail(loading)
  /\ UNCHANGED <<frame, walking, file>>

RestoreEnd ==
  /\ walk = "restore" /\ loading = << >>
  /\ walk' = "none"
  /\ UNCHANGED <<list, frame, key, cursor, file, loading>>

Walk == CancelStep \/ CancelEnd \/ SaveStep \/ SaveEnd \/ RestoreStep \/ RestoreEnd

-----------------------------------------------------------------------------
(* The frame.                                                              *)

Tick ==
  /\ GameRuns /\ phase = "after" /\ now < MaxTime
  /\ now' = now + 1 /\ phase' = "before"
  /\ UNCHANGED <<list, pe, walking, file, loading>>

ServiceEvents ==
  /\ GameRuns /\ phase = "before" /\ phase' = "between"
  /\ UNCHANGED <<list, now, pe, walking, file, loading>>

Due(e) == fireTime[e] <= now

DueNow == next[HEAD] # NULL /\ Due(next[HEAD])

\* AcceptInput of the targets of the first event.
Fire ==
  /\ phase = "between" /\ DueNow
  /\ phase' = "firing" /\ pe' = next[HEAD]
  /\ UNCHANGED <<list, now, walking, file, loading>>

\* Faulty variant: ServiceEvents goes on from the event it has deleted.
Continue == pe

Restart == NULL

\* "remove the event from the list (remembering that the queue may have been
\* added to)", then "restart the list". An event that its own input cancelled is
\* removed and deleted a second time: what happens then is undefined, so a
\* behaviour that comes there gets no further than the rest of that input.
Fired ==
  /\ GameRuns /\ phase = "firing"
  /\ RemoveEvent(pe)
  /\ phase' = "between" /\ pe' = Restart
  /\ UNCHANGED <<now, walking, file, loading>>

ServiceEnd ==
  /\ phase = "between" /\ ~DueNow
  /\ phase' = "after"
  /\ UNCHANGED <<list, now, pe, walking, file, loading>>

Frame == Tick \/ ServiceEvents \/ Fire \/ Fired \/ ServiceEnd

Next ==
  \/ \E what \in Posts, delay \in Delays : PostEvent(what, delay)
  \/ ClearQueue
  \/ \E k \in Keys : Cancel(k)
  \/ Save \/ Restore
  \/ Walk
  \/ Frame

Spec == Init /\ [][Next]_vars

-----------------------------------------------------------------------------
(* Properties.                                                             *)

\* Fire time first, then the order of the AddEvent calls.
Earlier(d, e) ==
  fireTime[d] < fireTime[e] \/ (fireTime[d] = fireTime[e] /\ <<d, e>> \in before)

\* No link, not even m_Events.m_pNext after Clear, leads to a node that is not
\* allocated, and such a node holds nothing.
ListTypes ==
  /\ next \in [Events \cup {HEAD} -> queued \cup {NULL}]
  /\ prev \in [Events -> queued \cup {HEAD, NULL}]
  /\ fireTime \in [Events -> Int]
  /\ post \in [Events -> Posts \cup {NULL}]
  /\ queued \subseteq Events /\ before \subseteq queued \X queued
  /\ \A e \in queued : post[e] # NULL
  /\ \A e \in Events \ queued : next[e] = NULL /\ prev[e] = NULL /\ post[e] = NULL

\* Types of the event queue.
TypeOK ==
  /\ ListTypes
  /\ now \in 0 .. MaxTime
  /\ phase \in {"before", "between", "firing", "cancelled", "after"}
  /\ walk \in {"none", "cancel", "save", "restore"}
  /\ walk = "cancel" => key \in Keys
  /\ file \in Seq([in : Int, post : Posts]) /\ loading \in Seq([in : Int, post : Posts])

\* From m_Events the links lead through every event, each in its turn: what
\* follows an event is the earliest of those that are later, and leads back
\* (AddEvent, RemoveEvent).
InOrder ==
  /\ \A d \in queued \cup {HEAD} : next[d] # NULL =>
       /\ next[d] \in queued /\ prev[next[d]] = d
       /\ d # HEAD => Earlier(d, next[d])
  /\ \A e \in queued : prev[e] \in queued \cup {HEAD} /\ next[prev[e]] = e
  /\ \A d \in queued \cup {HEAD}, e \in queued : d = HEAD \/ Earlier(d, e) =>
       next[d] # NULL /\ (e = next[d] \/ Earlier(next[d], e))

\* "remembering that the queue may have been added to": whatever an input adds
\* and cancels, short of the event that calls it, ServiceEvents removes an event
\* that is still queued; and a cancelling or a saving loop, which may stand on
\* the event being fired and on its neighbours, stands on a queued one in any case.
PointersLive ==
  /\ phase \in {"firing", "cancelled"} <=> pe # NULL
  /\ phase = "firing" => pe \in queued
  /\ cursor \in queued \cup {NULL}

\* Events fire in order of fire time, those of one time in the order they were
\* added, and none before its time (ServiceEvents).
FiresInOrder ==
  [][phase' = "firing" /\ phase # "firing" =>
       /\ pe' \in queued /\ fireTime[pe'] <= now
       /\ \A e \in queued : e = pe' \/ Earlier(pe', e)]_vars

\* ServiceEvents leaves nothing that is due, not even what the inputs it called
\* have added ("restart the list").
NothingDueLeft ==
  [][phase = "between" /\ phase' = "after" =>
       \A e \in queued : fireTime[e] > now]_vars

\* A cancelling call has removed every event that it names when it returns,
\* although it deletes nodes of the list it walks (CancelEvents, CancelEventOn).
CancelsAll ==
  [][walk = "cancel" /\ walk' = "none" => \A e \in queued : ~Matches(e, key)]_vars
=============================================================================
