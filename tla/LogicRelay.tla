----------------------------- MODULE LogicRelay -----------------------------
(***************************************************************************)
(* Outputs of entities (CBaseEntityOutput, game/server/cbase.cpp) and the  *)
(* logic_relay (game/server/logicrelay.cpp). A relay that is triggered     *)
(* posts the actions of its output OnTrigger into the event queue, and     *)
(* then switches itself off until an input it posts to itself, behind the  *)
(* last of them, switches it on again. The queue is the one EventQueue     *)
(* implements, EventSchedule; inputs are what its firing runs.             *)
(*                                                                         *)
(* Time is counted in units shorter than the 0.001 seconds that the relay  *)
(* adds, which are one unit here; delays of outputs are whole frames. A    *)
(* relay has a name of its own. What is not a relay posts when it pleases, *)
(* in its inputs as well. Left out: parameters, activators, outputs added  *)
(* in the game, save files.                                                *)
(***************************************************************************)
EXTENDS Integers, Sequences, FiniteSets

CONSTANTS
  Relays,
  WORLD,       \* an entity that is not a relay
  NULL,
  OnTrigger,   \* m_OnTrigger of the map: for each relay the list of its actions
  OnSpawn,     \* m_OnSpawn
  RemoveOnFire, AllowFastRetrigger,  \* spawnflags
  Inputs,      \* the names of inputs
  Outside,     \* the inputs others post to relays
  OutsideDelays,
  FrameTime,
  ServerTime,  \* seconds on the server's clock when the modelled frames run
  MaxPending   \* bound of the model: others post when fewer events wait

EVENT_FIRE_ALWAYS == -1

\* An action, by its m_iIDStamp: no other has the same.
Action == [id : Nat \ {0}, target : Relays \cup {WORLD}, input : Inputs, delay : Nat,
           times : Nat \cup {EVENT_FIRE_ALWAYS}]

Outputs == {"OnTrigger", "OnSpawn"}

\* A call of FireOutput: the output, the action it has come to, and those it found.
OutputCalls == [relay : Relays, output : Outputs, at : Nat, list : Seq(Nat)]

ASSUME RelayAssumption ==
  /\ WORLD \notin Relays /\ NULL \notin Relays \cup {WORLD} \cup OutputCalls
  /\ RemoveOnFire \subseteq Relays /\ AllowFastRetrigger \subseteq Relays
  /\ {"Enable", "Disable", "Toggle", "Trigger", "CancelPending", "EnableRefire", "Kill"}
       \subseteq Inputs
  /\ OutsideDelays \subseteq Nat /\ ServerTime \in Nat /\ MaxPending \in Nat
ASSUME TimeAssumption == FrameTime \in Nat /\ FrameTime > 1
ASSUME OutputAssumption ==
  \A r \in Relays :
    /\ \A o \in {OnTrigger[r], OnSpawn[r]} :
         /\ o \in Seq(Action)
         /\ \A i \in DOMAIN o : o[i].times # 0 /\ o[i].delay % FrameTime = 0
    /\ \A i \in DOMAIN OnTrigger[r], j \in DOMAIN OnSpawn[r] :
         OnTrigger[r][i].id # OnSpawn[r][j].id

\* EnableRefire is "only posted from our Trigger function" (logicrelay.cpp:99).
ASSUME InputAssumption ==
  /\ Outside \subseteq [target : Relays \cup {WORLD}, input : Inputs \ {"EnableRefire"}]
  /\ \A r \in Relays : \A o \in {OnTrigger[r], OnSpawn[r]} : \A i \in DOMAIN o :
       o[i].input # "EnableRefire"

VARIABLES
  queue, phase,  \* of EventSchedule
  handled,       \* the input of the event being fired, the first, has been called
  disabled,      \* m_bDisabled
  waiting,       \* m_bWaitForRefire
  removed,       \* the relays UTIL_Remove was called for
  outputs,       \* m_ActionList of m_OnTrigger and of m_OnSpawn
  thinking,      \* Activate has set a think
  call,          \* FireOutput under way, of OutputCalls; or NULL
  posted,        \* history: the actions this call has posted
  fired          \* history: who fired OnTrigger at this server time

relays == <<disabled, waiting, removed, thinking>>
firing == <<outputs, call, posted, fired>>
vars == <<queue, phase, handled, relays, firing>>

Schedule == INSTANCE EventSchedule WITH file <- << >>

Ids(list) == [i \in DOMAIN list |-> list[i].id]

Init ==
  /\ Schedule!Init /\ handled = FALSE
  /\ disabled \in SUBSET Relays
  /\ waiting = {} /\ removed = {}
  /\ outputs = [r \in Relays |-> [OnTrigger |-> OnTrigger[r], OnSpawn |-> OnSpawn[r]]]
  /\ thinking = {r \in Relays : OnSpawn[r] # << >>}
  /\ call = NULL /\ posted = << >> /\ fired = {}

-----------------------------------------------------------------------------
(* Outputs.                                                                *)

FireOutput(r, o) ==
  /\ call' = [relay |-> r, output |-> o, at |-> 1, list |-> Ids(outputs[r][o])]
  /\ posted' = << >>

List == outputs[call.relay][call.output]
Current == List[call.at]

EventOf(a) ==
  [caller |-> call.relay, target |-> a.target, input |-> a.input, output |-> a.id]

WithoutAt(list, i) == SubSeq(list, 1, i - 1) \o SubSeq(list, i + 1, Len(list))

\* Faulty variant: the test comes before the countdown.
WasSpent(a) == a.times = 0

\* m_nTimesToFire is 0 once it is counted down.
Spent(a) == a.times = 1

\* Faulty variant: the loop steps over the action behind a removed one.
Advance == call.at + 1

\* Where the action behind the current one is after this turn.
NextAt == IF Spent(Current) THEN call.at ELSE call.at + 1

\* The list when the action at that place has been posted: it is counted down,
\* and taken off when it has been fired as often as it may.
CountedDown(list, at) ==
  IF Spent(list[at]) THEN WithoutAt(list, at)
  ELSE IF list[at].times = EVENT_FIRE_ALWAYS THEN list
  ELSE [list EXCEPT ![at].times = @ - 1]

\* One turn of FireOutput's loop.
FireAction ==
  /\ call # NULL /\ call.at <= Len(List)
  /\ Schedule!Post(EventOf(Current), Current.delay)
  /\ posted' = Append(posted, Current.id)
  /\ outputs' = [outputs EXCEPT ![call.relay][call.output] = CountedDown(List, call.at)]
  /\ call' = [call EXCEPT !.at = NextAt]
  /\ UNCHANGED <<handled, relays, fired>>

FireOutputEnds(o) == call # NULL /\ call.at > Len(List) /\ call.output = o

MaxOf(S) == CHOOSE x \in S : \A y \in S : y <= x

\* Faulty variant: the delay of the action that was posted last.
DelayOfLast(list) == IF list = << >> THEN 0 ELSE list[Len(list)].delay

GetMaxDelay(list) == MaxOf({0} \cup {list[i].delay : i \in DOMAIN list})

-----------------------------------------------------------------------------
(* A relay.                                                                *)

\* Faulty variant: nothing is added to the greatest delay.
NoMargin(d) == {d}

\* The waiting time of a wake-up posted with delay d + 0.001. m_flFireTime is a
\* float: its neighbours are less than 0.001 apart before 2^14 seconds, 2^-9
\* before 2^15, and at least 2^-8 afterwards. The server time is a float, but
\* its sum with a delay has been rounded already.
RefireDelays(d) ==
  IF ServerTime < 16384 \/ (d = 0 /\ ServerTime < 32768) THEN {d + 1}
  ELSE IF d = 0 THEN {0} ELSE {d, d + 1}

EnableRefire(r) == [caller |-> r, target |-> r, input |-> "EnableRefire", output |-> 0]

\* Think, "shortly after spawning": in a frame that has yet to service the queue.
Think(r) ==
  /\ phase = "before" /\ call = NULL
  /\ r \in thinking /\ r \notin removed
  /\ FireOutput(r, "OnSpawn")
  /\ thinking' = thinking \ {r}
  /\ UNCHANGED <<queue, phase, handled, disabled, waiting, removed, outputs, fired>>

ThinkEnds ==
  /\ FireOutputEnds("OnSpawn")
  /\ removed' = IF call.relay \in RemoveOnFire THEN removed \cup {call.relay} ELSE removed
  /\ call' = NULL /\ posted' = << >>
  /\ UNCHANGED <<queue, phase, handled, disabled, waiting, thinking, outputs, fired>>

Served == Head(queue).post

\* AcceptInput is called: UTIL_Remove takes the name, so a removed relay gets
\* nothing but what is addressed to it by its handle.
Reaches(r, input) ==
  /\ phase = "firing" /\ ~handled /\ call = NULL
  /\ Served.target = r /\ Served.input = input
  /\ r \in removed => Served = EnableRefire(r)

Receives(r, input) == Reaches(r, input) /\ handled' = TRUE

Keep == UNCHANGED <<queue, phase, thinking, firing>>

InputEnable(r) ==
  /\ Receives(r, "Enable")
  /\ disabled' = disabled \ {r}
  /\ UNCHANGED <<waiting, removed>> /\ Keep

InputDisable(r) ==
  /\ Receives(r, "Disable")
  /\ disabled' = disabled \cup {r}
  /\ UNCHANGED <<waiting, removed>> /\ Keep

InputToggle(r) ==
  /\ Receives(r, "Toggle")
  /\ disabled' = IF r \in disabled THEN disabled \ {r} ELSE disabled \cup {r}
  /\ UNCHANGED <<waiting, removed>> /\ Keep

InputEnableRefire(r) ==
  /\ Receives(r, "EnableRefire")
  /\ waiting' = waiting \ {r}
  /\ UNCHANGED <<disabled, removed>> /\ Keep

\* CBaseEntity's: UTIL_Remove( this ).
InputKill(r) ==
  /\ Receives(r, "Kill")
  /\ removed' = removed \cup {r}
  /\ UNCHANGED <<disabled, waiting>> /\ Keep

AllPosts == {queue[i].post : i \in DOMAIN queue}

\* Faulty variant: what is on its way to the relay is cancelled.
SentTo(r) == {x \in AllPosts : x.target = r}

SentBy(r) == {x \in AllPosts : x.caller = r}

\* Faulty variant: the relay goes on waiting for the wake-up it has cancelled.
StillWaits(r) == waiting

StopsWaiting(r) == waiting \ {r}

\* A relay that has sent this to itself cancels the event being fired as well.
InputCancelPending(r) ==
  /\ Reaches(r, "CancelPending")
  /\ Schedule!Cancel(SentBy(r))
  /\ handled' = (phase' = "firing")
  /\ waiting' = StopsWaiting(r)
  /\ fired' = fired \ {r}
  /\ UNCHANGED <<disabled, removed, thinking, outputs, call, posted>>

Enabled(r) == r \notin disabled /\ r \notin waiting

InputTrigger(r) ==
  /\ Receives(r, "Trigger")
  /\ IF Enabled(r) THEN FireOutput(r, "OnTrigger") /\ fired' = fired \cup {r}
     ELSE UNCHANGED <<call, posted, fired>>
  /\ UNCHANGED <<queue, phase, relays, outputs>>

\* The rest of InputTrigger.
TriggerEnds ==
  LET r == call.relay IN
  /\ FireOutputEnds("OnTrigger")
  /\ \/ /\ r \in RemoveOnFire
        /\ removed' = removed \cup {r}
        /\ UNCHANGED <<queue, waiting>>
     \/ /\ r \in AllowFastRetrigger \ RemoveOnFire
        /\ UNCHANGED <<queue, removed, waiting>>
     \/ /\ r \notin AllowFastRetrigger \cup RemoveOnFire
        /\ \E d \in RefireDelays(GetMaxDelay(List)) : Schedule!Post(EnableRefire(r), d)
        /\ waiting' = waiting \cup {r}
        /\ UNCHANGED removed
  /\ call' = NULL /\ posted' = << >>
  /\ UNCHANGED <<phase, handled, disabled, thinking, outputs, fired>>

Input(r) ==
  \/ InputEnable(r) \/ InputDisable(r) \/ InputToggle(r) \/ InputKill(r)
  \/ InputEnableRefire(r) \/ InputCancelPending(r) \/ InputTrigger(r)

\* The target is no relay, or is not found any more.
OtherInput ==
  /\ phase = "firing" /\ ~handled /\ call = NULL
  /\ Served.target \in removed \cup {WORLD}
  /\ handled' = TRUE
  /\ UNCHANGED <<queue, phase, relays, firing>>

-----------------------------------------------------------------------------
(* The frame, and the rest of the game.                                    *)

OutsidePost ==
  /\ phase \in {"before", "after"} \/ (handled /\ Served.target = WORLD)
  /\ call = NULL
  /\ Len(queue) < MaxPending
  /\ \E what \in Outside, delay \in OutsideDelays :
       Schedule!Post([caller |-> WORLD, target |-> what.target, input |-> what.input,
                      output |-> 0], delay)
  /\ UNCHANGED <<handled, relays, firing>>

ServiceEvents ==
  /\ call = NULL
  /\ Schedule!ServiceEvents
  /\ UNCHANGED <<handled, relays, firing>>

Fire == Schedule!Fire /\ UNCHANGED <<handled, relays, firing>>

Fired ==
  /\ handled /\ call = NULL
  /\ Schedule!Fired
  /\ handled' = FALSE
  /\ UNCHANGED <<relays, firing>>

ServiceEnd == Schedule!ServiceEnd /\ UNCHANGED <<handled, relays, firing>>

\* The event being fired is gone: ServiceEvents goes on to take it off and to
\* delete it once more, and nothing is said of what follows.
Undefined == phase = "cancelled" /\ UNCHANGED vars

Tick ==
  /\ Schedule!Tick
  /\ fired' = {}
  /\ UNCHANGED <<handled, relays, outputs, call, posted>>

Output == FireAction \/ ThinkEnds \/ TriggerEnds

Service ==
  \/ Fire \/ Fired \/ ServiceEnd
  \/ \E r \in Relays : Input(r)
  \/ OtherInput \/ Output

Frame == Service \/ Tick \/ ServiceEvents \/ \E r \in Relays : Think(r)

Next == Frame \/ OutsidePost \/ Undefined

Spec == Init /\ [][Next]_vars

\* The engine runs frames, and calls return.
FairSpec == Spec /\ WF_vars(Frame)
-----------------------------------------------------------------------------
(* Properties.                                                             *)

Posts == [caller : Relays \cup {WORLD}, target : Relays \cup {WORLD}, input : Inputs,
          output : Nat]

\* Types of the relays and of their outputs. No action is kept that has been
\* fired as often as it may (CBaseEntityOutput::FireOutput).
TypeOK ==
  /\ \A i \in DOMAIN queue : queue[i].in \in Int /\ queue[i].post \in Posts
  /\ phase \in {"before", "between", "firing", "cancelled", "after"} /\ handled \in BOOLEAN
  /\ {disabled, waiting, removed, thinking, fired} \subseteq SUBSET Relays
  /\ \A r \in Relays, o \in Outputs :
       \A i \in DOMAIN outputs[r][o] : outputs[r][o][i].times # 0
  /\ call # NULL => call.relay \in Relays /\ call.at \in 1 .. Len(List) + 1

\* A relay waits for a refire exactly as long as one wake-up, and only one, is
\* on its way to it: a relay that waited without it could never be triggered
\* again, and a second one would end the wait of a later trigger too early
\* (InputTrigger, InputEnableRefire, InputCancelPending).
RefirePending ==
  \A r \in Relays \ removed :
    Cardinality({i \in DOMAIN queue : /\ queue[i].post = EnableRefire(r)
                                      /\ i = 1 => ~handled})
      = IF r \in waiting THEN 1 ELSE 0

Starts(r) == call = NULL /\ call' # NULL /\ call'.relay = r /\ call'.output = "OnTrigger"

\* "it cannot be refired until after the last output has been fired": when a
\* relay fires OnTrigger, nothing that OnTrigger posted before is still queued
\* behind the event that triggers it (logicrelay.cpp:154).
LastOutputFirst ==
  [][\A r \in Relays \ AllowFastRetrigger : Starts(r) =>
       \A i \in 2 .. Len(queue) : queue[i].post.caller = r =>
         \A k \in DOMAIN OnTrigger[r] : queue[i].post.output # OnTrigger[r][k].id]_vars

\* EnableRefire is there "to prevent rapid refire": without a CancelPending in
\* between a relay fires OnTrigger once at one server time (logicrelay.cpp:99).
NoRapidRefire ==
  [][\A r \in Relays \ AllowFastRetrigger : Starts(r) => r \notin fired]_vars

\* FireOutput posts each action that its list had, in order and once, although
\* it takes actions off the list it walks.
AllPosted == [][call # NULL /\ call' = NULL => posted = call.list]_vars

\* ServiceEvents removes the event it fires "remembering that the queue may have
\* been added to", not that it may have been cancelled: until its input returns
\* the event is the first of the queue, whatever relays post and cancel, but for
\* one case only. That is a CancelPending that a relay has sent to itself.
OnlyOwnCancel ==
  [][phase = "firing" /\ phase' # "between" =>
       \/ phase' = "firing" /\ queue' # << >> /\ Head(queue') = Head(queue)
       \/ /\ phase' = "cancelled"
          /\ Served.input = "CancelPending" /\ Served.caller = Served.target]_vars

\* ServiceEvents comes to an end although relays that trigger each other without
\* a delay restart its loop again and again: a relay that waits stays quiet.
PassEnds == phase = "between" ~> phase \in {"after", "cancelled"}

\* A relay never waits for ever (m_bWaitForRefire), as long as events are fired.
WakesUp ==
  \A r \in Relays : r \in waiting ~> r \notin waiting \/ r \in removed \/ phase = "cancelled"
=============================================================================
