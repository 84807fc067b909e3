---------------------------- MODULE MCEntityList ----------------------------
(***************************************************************************)
(* Instances of EntityList for TLC. Entity addresses are interchangeable,  *)
(* and serial numbers may start anywhere. A held EHANDLE and a loop over   *)
(* the list only observe it and do not meet, so a behaviour has one of     *)
(* them.                                                                   *)
(***************************************************************************)
EXTENDS EntityListRefinement, TLC

Symmetry == Permutations(Ents)

NoLoop == cursor = NULL /\ visited = {} /\ since = {}

WatchInit == Init /\ serial = [s \in Slots |-> 0]
WatchNext ==
  \/ Mutate
  \/ NoLoop /\ \E e \in Ents : TakeHandle(e)
  \/ held = NULL /\ Iterate
WatchSpec == WatchInit /\ [][WatchNext]_vars
=============================================================================
