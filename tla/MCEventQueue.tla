---------------------------- MODULE MCEventQueue ----------------------------
(***************************************************************************)
(* The instance of EventQueue that TLC checks. Addresses are               *)
(* interchangeable. Saving and restoring only observe and rebuild the list *)
(* and run no game code, so a behaviour either saves and restores or makes *)
(* cancelling calls.                                                       *)
(***************************************************************************)
EXTENDS EventQueueRefinement, TLC

CONSTANTS relay, npc, SaveTime

VARIABLE session

Symmetry == Permutations(Events)

\* An output of a relay, an input an npc posts to itself, and another one of it.
TwoPosts == {[caller |-> relay, target |-> NULL, input |-> "Trigger"],
             [caller |-> NULL, target |-> npc, input |-> "Jolt"]}
ThreePosts == TwoPosts \cup {[caller |-> relay, target |-> npc, input |-> "Trigger"]}

CancelNext == (\E what \in Posts, delay \in Delays : PostEvent(what, delay))
              \/ \E k \in Keys : Cancel(k)

SaveNext == (\E what \in TwoPosts, delay \in Delays : PostEvent(what, delay))
            \/ Save \/ Restore

SessionInit == Init /\ session \in {"cancel", "save"}

SessionNext ==
  /\ UNCHANGED session
  /\ \/ session = "cancel" /\ CancelNext
     \/ session = "save" /\ SaveNext
     \/ ClearQueue \/ Walk \/ Frame
  /\ session = "save" => now' <= SaveTime

SessionSpec == SessionInit /\ [][SessionNext]_<<vars, session>>
=============================================================================
