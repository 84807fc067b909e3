-------------------------- MODULE MCEntityLifecycle --------------------------
(***************************************************************************)
(* The instance of EntityLifecycle that TLC checks.                        *)
(***************************************************************************)
EXTENDS EntityLifecycle

CONSTANTS e1, e2, e3

\* Two entities of the map, and e3 still to be created.
MCInit ==
  /\ mem = [e \in Ents |-> IF e = e3 THEN "unborn" ELSE "alive"]
  /\ marked = {} /\ removal = <<>> /\ parent = [e \in Ents |-> NULL]
  /\ deleteList = Empty /\ removeObjects = {}
  /\ simThink = {} /\ updateList = Empty /\ checkUntouch = {}
  /\ pc = "outside" /\ then = "outside" /\ rest = Empty

\* Bounds on game code, none on removals: where in the frame it runs, who thinks
\* (e2) and touches (e3), in which order parents are given (e1, e2, e3), and whom
\* it queues for removal (e1, and e2 while physics runs). In the middle of a removal
\* it asks for further ones and may take e3 from its parent.
MCGameStep ==
  /\ GameStep
  /\ pc \notin {"outside", "pre", "players"}
  /\ simThink' \subseteq {e2} /\ checkUntouch' \subseteq {e3}
  /\ parent'[e1] = NULL /\ parent'[e2] # e3
  /\ removeObjects' \subseteq removeObjects \cup (IF pc = "physics" THEN {e1, e2} ELSE {e1})
  /\ removal # <<>> =>
       /\ UNCHANGED <<mem, simThink, checkUntouch, parent[e1], parent[e2]>>
       /\ parent'[e3] \in {parent[e3], NULL}

MCNext == MCGameStep \/ RemovalStep \/ FrameStep \/ PostSimulationFrame
          \/ \E e \in Ents : DestructorRemove(e)

MCSpec == MCInit /\ [][MCNext]_vars /\ WF_vars(FrameStep \/ RemovalStep)
=============================================================================
