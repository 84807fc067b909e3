---------------------------- MODULE MCHierarchy ----------------------------
(* The instances of Hierarchy that TLC checks.                             *)
EXTENDS Hierarchy

CONSTANTS e1, e2, e3, e4

\* Three entities of the map, and e4 still to be created.
MCInit ==
  /\ mem = [e \in Ents |-> IF e = e4 THEN "unborn" ELSE "alive"] /\ marked = {}
  /\ moveParent = Unused /\ moveChild = Unused /\ movePeer = Unused
  /\ pParent = Unused
  /\ orphans = {} /\ transfer = <<>> /\ toRestore = {} /\ relinkedTo = {}

\* A removed entity is put into the list of e2 only.
MCNext == Next /\ relinkedTo' \subseteq {e2}

MCSpec == MCInit /\ [][MCNext]_vars
=============================================================================
