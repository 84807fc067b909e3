---------------------------- MODULE MCLogicRelay ----------------------------
(***************************************************************************)
(* Instances of LogicRelay for TLC. A frame is two units of time, so the   *)
(* 0.001 seconds that a relay adds to its greatest delay are half a frame. *)
(***************************************************************************)
EXTENDS LogicRelay, TLC

CONSTANTS a, b, c, d

Connection(id, target, input, delay, times) ==
  [id |-> id, target |-> target, input |-> input, delay |-> delay, times |-> times]

Always(id, target, input, delay) ==
  Connection(id, target, input, delay, EVENT_FIRE_ALWAYS)

Names ==
  {"Enable", "Disable", "Toggle", "Trigger", "CancelPending", "EnableRefire", "Kill", "Use"}

To(target, input) == [target |-> target, input |-> input]

\* Relays a and b trigger each other at once; a tells the world too, but twice
\* only. What c does when it spawns triggers d, which has delayed outputs and
\* tells itself to cancel what it has pending.
Ring ==
  a :> <<Connection(1, WORLD, "Use", 0, 2), Always(2, b, "Trigger", 0)>>
  @@ b :> <<Always(3, a, "Trigger", 0)>>
  @@ c :> <<Always(4, d, "CancelPending", FrameTime)>>
  @@ d :> <<Always(5, b, "CancelPending", FrameTime), Always(6, a, "Trigger", 0),
            Connection(8, d, "CancelPending", FrameTime, 1)>>
RingSpawn ==
  a :> << >> @@ b :> << >> @@ c :> <<Always(7, d, "Trigger", FrameTime)>> @@ d :> << >>

Calls == {To(a, "Trigger"), To(a, "CancelPending"), To(b, "Kill"), To(b, "Enable"),
          To(b, "Disable"), To(c, "Toggle"), To(c, "Trigger"), To(d, "Trigger")}

\* What a posts last, it posts only once.
LimitedLast == a :> <<Connection(1, WORLD, "Use", 2 * FrameTime, 1), Always(2, WORLD, "Use", 0)>>

Volley == a :> <<Always(1, b, "Trigger", 0)>> @@ b :> <<Always(2, a, "Trigger", 0)>>

NoSpawn == [r \in Relays |-> << >>]

Trigger == {To(a, "Trigger")}
=============================================================================
