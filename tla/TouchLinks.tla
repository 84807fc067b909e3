------------------------------ MODULE TouchLinks ------------------------------
(***************************************************************************)
(* Who touches whom. An entity keeps a list of touchlinks, one for each    *)
(* entity it touches, and two entities that touch have a link each. When   *)
(* an entity moves, its touch stamp changes, the links that the move does  *)
(* not stamp anew are out of date, and at the end of the frame             *)
(* PhysicsCheckForEntityUntouch removes them on both sides. The physics    *)
(* engine's own touches are event driven: it adds and removes them itself. *)
(*                                                                         *)
(* StartTouch, Touch and EndTouch are game code, called in the middle of   *)
(* all this. What is left to do when such a call returns is on the stack.  *)
(***************************************************************************)
EXTENDS Naturals, SequencesExt

CONSTANTS
  Ents,
  Triggers,     \* entities that touch, but do not start a touch in others
  Meets,        \* pairs whose touches are polled
  Contacts,     \* pairs whose contact the physics engine reports
  NULL, ROOT,   \* g_pNextLink: no walk is under way; the end of the list
  MaxCalls      \* bound: calls of game code under way at a time

ASSUME TriggersAssumption == Triggers \subseteq Ents
ASSUME PairsAssumption ==
  \A p \in Meets \cup Contacts : \E a, b \in Ents : a # b /\ p = {a, b}
ASSUME MarksAssumption == NULL \notin Ents /\ ROOT \notin Ents /\ NULL # ROOT

VARIABLES
  alive, marked,  \* EFL_KILLME
  list,           \* the links of an entity in order, by the entity touched
  stamp,          \* touchStamp of a link: the entity's one, an old one, event driven
  hasRoot,        \* who has a TOUCHLINK data object
  flagged,        \* EFL_CHECK_UNTOUCH
  updateList, ents,   \* m_updateList, what is left of its copy
  nextLink,       \* g_pNextLink
  stack,
  touching,       \* history: StartTouch has been called, EndTouch has not
  spoiled,        \* history: pairs with a callback that may have left one link only
  missed          \* history: who moved while its links were checked

links == <<list, stamp, hasRoot>>
checks == <<flagged, updateList, ents>>
vars == <<alive, marked, links, checks, nextLink, stack, touching, spoiled, missed>>

Init ==
  /\ alive = Ents /\ marked = {}
  /\ list = [e \in Ents |-> << >>]
  /\ stamp = [e \in Ents |-> [o \in Ents |-> "none"]]
  /\ hasRoot = {} /\ flagged = {} /\ updateList = {} /\ ents = {}
  /\ nextLink = NULL /\ stack = << >>
  /\ touching = {} /\ spoiled = {} /\ missed = {}

-----------------------------------------------------------------------------
(* The stack: cb says that game code runs until the frame is returned to.  *)

Frame(op, ent, other, cb) == [op |-> op, ent |-> ent, other |-> other, cb |-> cb]

Frames == ToSet(stack)
Under(op) == {f \in Frames : f.op = op}
Top(op) == stack # << >> /\ Last(stack).op = op
Ent == Last(stack).ent
Other == Last(stack).other

\* Game code may act: in a callback, or outside of the update loop.
GameCode == IF stack = << >> THEN ents = {} ELSE Last(stack).cb

\* It may also make a call that calls back.
MayCall ==
  /\ GameCode
  /\ Len(SelectSeq(stack, LAMBDA f : f.op \in {"second", "secondEvent", "purge"})) < MaxCalls

Idle == stack = << >> /\ ents = {}

-----------------------------------------------------------------------------
(* Links.                                                                  *)

HasLink(o, t) == t \in ToSet(list[o])

\* FTOUCHLINK_START_TOUCH of the link from o to t
Starts(o, t) == t \notin Triggers

Following(o, t) ==
  LET i == CHOOSE j \in DOMAIN list[o] : list[o][j] = t
  IN IF i = Len(list[o]) THEN ROOT ELSE list[o][i + 1]

\* Faulty variant: the walk is not told.
NextKept(o, t) == nextLink

\* FreeTouchLink moves g_pNextLink on when that is the link it frees.
NextAfter(o, t) ==
  IF nextLink = t /\ (\E f \in Under("walk") : f.ent = o) THEN Following(o, t) ELSE nextLink

FreeTouchLink(o, t) ==
  /\ list' = [list EXCEPT ![o] = RemoveFirst(@, t)]
  /\ stamp' = [stamp EXCEPT ![o][t] = "none"]
  /\ nextLink' = NextAfter(o, t)

\* g_bCleanupDatObject, off while a list is walked or purged
CleanupDatObject == Under("walk") \cup Under("purge") = {}

\* Faulty variant: who is being removed is told nothing any more.
EndsIfKept(o, t) == Starts(o, t) /\ t \in alive /\ o \notin marked

\* "Every start Touch gets a corresponding end touch", if t can be told.
Ends(o, t) == Starts(o, t) /\ t \in alive

\* PhysicsRemoveToucher(o, link to t): EndTouch, then the link goes.
RemoveToucher(o, t) ==
  /\ stack' = Append(Front(stack), Frame("unlink", o, t, Ends(o, t)))
  /\ touching' = IF Ends(o, t) THEN touching \ {<<o, t>>} ELSE touching

Unlink ==
  /\ Top("unlink")
  /\ FreeTouchLink(Ent, Other) /\ stack' = Front(stack)
  /\ hasRoot' = IF CleanupDatObject /\ list'[Ent] = << >> THEN hasRoot \ {Ent} ELSE hasRoot
  /\ UNCHANGED <<alive, marked, checks, touching, spoiled, missed>>

\* Faulty variant: who is being removed is not told.
IsKept(o) == o \in alive \ marked

\* A handle of o reads as o until o is freed.
Resolves(o) == o \in alive

\* PhysicsNotifyOtherOfUntouch(ent, other)
Notify ==
  /\ Top("notify")
  /\ IF Resolves(Other) /\ HasLink(Other, Ent)
     THEN RemoveToucher(Other, Ent)
     ELSE stack' = Front(stack) /\ UNCHANGED touching
  /\ UNCHANGED <<alive, marked, links, checks, nextLink, spoiled, missed>>

-----------------------------------------------------------------------------
(* Touching.                                                               *)

\* Two entities have links. The rest that may forbid it, the hierarchy and
\* FL_DONTTOUCH, is nothing that is kept here: a pair that it forbids from the
\* start is not asked for, and what a callback makes of it is left open (Refused).
Allowed(a, b) == marked \cap {a, b} = {} /\ ~(a \in Triggers /\ b \in Triggers)

\* PhysicsMarkEntityAsTouched: a gets a link to b, or stamps the one it has.
MarkAsTouched(a, b) ==
  /\ stamp' = [stamp EXCEPT ![a][b] = "fresh"]
  /\ IF HasLink(a, b)
     THEN UNCHANGED <<list, hasRoot, touching>>
     ELSE /\ list' = [list EXCEPT ![a] = <<b>> \o @]
          /\ hasRoot' = hasRoot \cup {a}
          /\ touching' = IF Starts(a, b) THEN touching \cup {<<a, b>>} ELSE touching

\* A callback is made unless the link is new and starts nothing.
CallsBack(a, b) == HasLink(a, b) \/ Starts(a, b)

\* Some frame of these is about the pair.
InTheMiddle(ops, a, b) == \E f \in Frames : f.op \in ops /\ {f.ent, f.other} = {a, b}

\* A touch of a pair whose links are just being removed.
Retouch(a, b) == IF InTheMiddle({"unlink", "untouch", "notify"}, a, b) THEN {{a, b}} ELSE {}

\* PhysicsMarkEntitiesAsTouching(EventDriven): a is marked first.
Touches(a, b, second) ==
  /\ {a, b} \subseteq alive /\ Allowed(a, b)
  /\ MarkAsTouched(a, b)
  /\ stack' = Append(stack, Frame(second, a, b, CallsBack(a, b)))
  /\ spoiled' = spoiled \cup Retouch(a, b)
  /\ UNCHANGED <<alive, marked, checks, nextLink, missed>>

\* A polled touch, anywhere.
PhysicsMarkEntitiesAsTouching(a, b) ==
  MayCall /\ {a, b} \in Meets /\ Touches(a, b, "second")

\* The physics engine reports a contact that begins or ends when it has simulated,
\* or at once where game code moves or removes a physics object; but not one of
\* two entities that hold pointers to links of each other, nor of one that is
\* just being freed.
Reports(a, b) ==
  /\ {a, b} \in Contacts
  /\ ~InTheMiddle({"secondEvent", "stamp", "unlink", "untouch", "notify", "free"}, a, b)
  /\ \A f \in Under("purge") : f.ent \notin {a, b}

PhysicsMarkEntitiesAsTouchingEventDriven(a, b) ==
  MayCall /\ Reports(a, b) /\ Touches(a, b, "secondEvent")

\* The callback of the first half has made one the parent of the other, or
\* told one of them not to touch.
Refused == Last(stack).cb

\* The other entity's turn; nothing is left to do afterwards.
Second ==
  /\ Top("second") /\ stack' = Front(stack)
  /\ \/ /\ Allowed(Ent, Other) /\ MarkAsTouched(Other, Ent)
        /\ UNCHANGED spoiled
     \/ /\ ~Allowed(Ent, Other) \/ Refused
        /\ spoiled' = spoiled \cup {{Ent, Other}}
        /\ UNCHANGED <<links, touching>>
  /\ UNCHANGED <<alive, marked, checks, nextLink, missed>>

\* The link that was returned becomes event driven.
SecondEvent ==
  /\ Top("secondEvent")
  /\ \/ /\ Allowed(Ent, Other)
        /\ list' = IF HasLink(Other, Ent) THEN list ELSE [list EXCEPT ![Other] = <<Ent>> \o @]
        /\ stamp' = [stamp EXCEPT ![Ent][Other] = "event", ![Other][Ent] = "fresh"]
        /\ hasRoot' = hasRoot \cup {Other}
        /\ touching' = IF ~HasLink(Other, Ent) /\ Starts(Other, Ent)
                       THEN touching \cup {<<Other, Ent>>} ELSE touching
        /\ stack' = Append(Front(stack), Frame("stamp", Other, Ent, CallsBack(Other, Ent)))
        /\ UNCHANGED spoiled
     \/ /\ ~Allowed(Ent, Other) \/ Refused
        /\ spoiled' = spoiled \cup {{Ent, Other}}
        /\ stamp' = [stamp EXCEPT ![Ent][Other] = "event"]
        /\ stack' = Front(stack) /\ UNCHANGED <<list, hasRoot, touching>>
  /\ UNCHANGED <<alive, marked, checks, nextLink, missed>>

Stamp ==
  /\ Top("stamp") /\ stack' = Front(stack)
  /\ stamp' = [stamp EXCEPT ![Ent][Other] = "event"]
  /\ UNCHANGED <<alive, marked, list, hasRoot, checks, nextLink, touching, spoiled, missed>>

\* The physics engine reports the end of a contact, maybe of two entities that
\* have begun to touch in another way.
DispatchEndTouch(a, b) ==
  /\ GameCode /\ Reports(a, b) /\ {a, b} \subseteq alive
  /\ stack' = stack \o <<Frame("notify", b, a, FALSE), Frame("notify", a, b, FALSE)>>
  /\ spoiled' = IF InTheMiddle({"second"}, a, b) THEN spoiled \cup {{a, b}} ELSE spoiled
  /\ UNCHANGED <<alive, marked, links, checks, nextLink, touching, missed>>

-----------------------------------------------------------------------------
(* The end of the frame.                                                   *)

\* Faulty variant: nobody is added while the list is worked off.
AddedIfIdle(e) ==
  IF e \in flagged \cup marked \/ nextLink # NULL THEN updateList ELSE updateList \cup {e}

\* Faulty variant: who is being removed is added.
AddedAnyway(e) == IF e \in flagged THEN updateList ELSE updateList \cup {e}

\* EntityTouch_Add, for who was not flagged before
Added(e) == IF e \in flagged \cup marked THEN updateList ELSE updateList \cup {e}

\* SetCheckUntouch( true ): the stamp of e changes, its polled links are old.
SetCheckUntouch(e) ==
  /\ GameCode /\ e \in alive
  /\ stamp' = [stamp EXCEPT ![e] =
       [t \in Ents |-> IF @[t] = "fresh" THEN "stale" ELSE @[t]]]
  /\ flagged' = flagged \cup {e} /\ updateList' = Added(e)
  /\ missed' = IF \E f \in Under("walk") : f.ent = e THEN missed \cup {e} ELSE missed \ {e}
  /\ UNCHANGED <<alive, marked, list, hasRoot, ents, nextLink, stack, touching, spoiled>>

\* FrameUpdatePostEntityThink copies the list, clears it ...
FrameUpdatePostEntityThink ==
  /\ Idle /\ updateList # {}
  /\ ents' = updateList /\ updateList' = {}
  /\ UNCHANGED <<alive, marked, links, flagged, nextLink, stack, touching, spoiled, missed>>

\* ... and has each of them checked.
PhysicsCheckForEntityUntouch(e) ==
  /\ stack = << >> /\ e \in ents
  /\ ents' = ents \ {e}
  /\ IF e \in flagged \cap hasRoot
     THEN /\ stack' = <<Frame("walk", e, e, FALSE)>>
          /\ nextLink' = IF list[e] = << >> THEN ROOT ELSE Head(list[e])
          /\ UNCHANGED flagged
     ELSE flagged' = flagged \ {e} /\ UNCHANGED <<stack, nextLink>>
  /\ UNCHANGED <<alive, marked, links, updateList, touching, spoiled, missed>>

\* One link of the walk: Touch if it is event driven, untouch if it is old.
WalkLink ==
  /\ Top("walk") /\ nextLink # ROOT
  /\ nextLink' = Following(Ent, nextLink)
  /\ stack' = CASE stamp[Ent][nextLink] = "stale" ->
                     stack \o <<Frame("untouch", Ent, nextLink, FALSE),
                                Frame("notify", Ent, nextLink, FALSE)>>
                [] stamp[Ent][nextLink] = "event" /\ nextLink \in alive
                   /\ marked \cap {Ent, nextLink} = {} ->
                     Append(stack, Frame("touched", Ent, nextLink, TRUE))
                [] OTHER -> stack
  /\ UNCHANGED <<alive, marked, links, checks, touching, spoiled, missed>>

Touched ==
  /\ Top("touched") /\ stack' = Front(stack)
  /\ UNCHANGED <<alive, marked, links, checks, nextLink, touching, spoiled, missed>>

\* The other one's link is gone, now the own one.
Untouch ==
  /\ Top("untouch") /\ RemoveToucher(Ent, Other)
  /\ UNCHANGED <<alive, marked, links, checks, nextLink, spoiled, missed>>

\* SetCheckUntouch( false ) at the end.
WalkDone ==
  /\ Top("walk") /\ nextLink = ROOT
  /\ hasRoot' = IF list[Ent] = << >> THEN hasRoot \ {Ent} ELSE hasRoot
  /\ flagged' = flagged \ {Ent}
  /\ nextLink' = NULL /\ stack' = Front(stack)
  /\ UNCHANGED <<alive, marked, list, stamp, updateList, ents, touching, spoiled, missed>>

-----------------------------------------------------------------------------
(* Removal.                                                                *)

\* UTIL_Remove: the touch manager forgets e (OnEntityDeleted).
MarkForDeletion(e) ==
  /\ GameCode /\ e \in alive \ marked
  /\ marked' = marked \cup {e}
  /\ updateList' = updateList \ {e}

UTIL_Remove(e) ==
  /\ MarkForDeletion(e)
  /\ UNCHANGED <<alive, links, flagged, ents, nextLink, stack, touching, spoiled, missed>>

\* "Only use this when sure no pointers rely on this entity", and not in a
\* destructor.
NothingRelies(e) ==
  e \notin ents /\ Under("purge") = {} /\ \A f \in Frames : e \notin {f.ent, f.other}

UTIL_RemoveImmediate(e) ==
  /\ MayCall /\ NothingRelies(e) /\ MarkForDeletion(e)
  /\ stack' = Append(stack, Frame("purge", e, e, FALSE))
  /\ UNCHANGED <<alive, links, flagged, ents, nextLink, touching, spoiled, missed>>

\* CleanupDeleteList
CleanupDeleteList(e) ==
  /\ Idle /\ e \in marked
  /\ stack' = <<Frame("purge", e, e, FALSE)>>
  /\ UNCHANGED <<alive, marked, links, checks, nextLink, touching, spoiled, missed>>

\* PhysicsRemoveTouchedList, called by the destructor: the others are told one
\* after the other, and the own links go.
PurgeLink ==
  /\ Top("purge") /\ list[Ent] # << >>
  /\ stack' = stack \o <<Frame("free", Ent, Head(list[Ent]), FALSE),
                         Frame("notify", Ent, Head(list[Ent]), FALSE)>>
  /\ UNCHANGED <<alive, marked, links, checks, nextLink, touching, spoiled, missed>>

FreeOwn ==
  /\ Top("free") /\ stack' = Front(stack)
  /\ FreeTouchLink(Ent, Other)
  /\ UNCHANGED <<alive, marked, hasRoot, checks, touching, spoiled, missed>>

\* From now on the handles of the entity read as NULL.
PurgeDone ==
  /\ Top("purge") /\ list[Ent] = << >>
  /\ alive' = alive \ {Ent} /\ marked' = marked \ {Ent}
  /\ hasRoot' = hasRoot \ {Ent} /\ flagged' = flagged \ {Ent}
  /\ touching' = {p \in touching : p[1] # Ent}
  /\ missed' = missed \ {Ent} /\ stack' = Front(stack)
  /\ UNCHANGED <<list, stamp, updateList, ents, nextLink, spoiled>>

Next ==
  \/ \E a, b \in Ents : \/ PhysicsMarkEntitiesAsTouching(a, b)
                        \/ PhysicsMarkEntitiesAsTouchingEventDriven(a, b)
                        \/ DispatchEndTouch(a, b)
  \/ \E e \in Ents : \/ SetCheckUntouch(e) \/ PhysicsCheckForEntityUntouch(e)
                     \/ UTIL_Remove(e) \/ UTIL_RemoveImmediate(e) \/ CleanupDeleteList(e)
  \/ Second \/ SecondEvent \/ Stamp \/ Unlink \/ Notify
  \/ FrameUpdatePostEntityThink \/ WalkLink \/ Touched \/ Untouch \/ WalkDone
  \/ PurgeLink \/ FreeOwn \/ PurgeDone

Spec == Init /\ [][Next]_vars

-----------------------------------------------------------------------------
(* Properties.                                                             *)

Ops == {"second", "secondEvent", "stamp", "walk", "touched", "untouch", "notify",
        "unlink", "purge", "free"}

\* Every variable has its type, and an entity has at most one link to another.
TypeOK ==
  /\ marked \subseteq alive /\ alive \subseteq Ents
  /\ hasRoot \subseteq alive /\ flagged \subseteq alive
  /\ updateList \subseteq alive \ marked /\ ents \subseteq alive
  /\ DOMAIN list = Ents
  /\ \A e \in Ents : ToSet(list[e]) \subseteq Ents \ {e} /\ IsInjective(list[e])
  /\ stamp \in [Ents -> [Ents -> {"none", "fresh", "stale", "event"}]]
  /\ \A e, o \in Ents : HasLink(e, o) <=> stamp[e][o] # "none"
  /\ nextLink \in Ents \cup {NULL, ROOT}
  /\ \A f \in Frames : f.op \in Ops /\ f.ent \in alive /\ f.other \in Ents
  /\ touching \subseteq Ents \X Ents /\ missed \subseteq Ents

\* The walk over the links of an entity is told of everything that happens to
\* them: g_pNextLink is a link of the list or its root, which is still there.
WalkSafe ==
  \A f \in Under("walk") : f.ent \in hasRoot /\ (nextLink = ROOT \/ HasLink(f.ent, nextLink))

\* "Every start Touch gets a corresponding end touch": between two entities a
\* touch has been started and not ended if and only if the link that would end
\* it is there and not just being removed.
StartedIsLinked ==
  \A a \in alive \ {f.ent : f \in Under("purge")}, b \in alive :
    <<a, b>> \in touching <=>
      HasLink(a, b) /\ Starts(a, b) /\ \A f \in Under("unlink") : <<f.ent, f.other>> # <<a, b>>

\* Whoever touched an entity has been told by the time that entity is freed,
\* unless the second half of a touch of the two was refused or their contact
\* ended in between, or they touched again while their links were being removed.
EndedWhenFreed ==
  \A p \in touching : p[2] \in alive \/ {p[1], p[2]} \in spoiled

\* An entity with a link that is out of date is going to be checked, unless it
\* moved in the middle of its own check.
StaleChecked ==
  \A e \in alive \ marked : (\E t \in Ents : stamp[e][t] = "stale") =>
    \/ e \in flagged /\ (e \in updateList \cup ents \/ \E f \in Under("walk") : f.ent = e)
    \/ e \in missed
=============================================================================
