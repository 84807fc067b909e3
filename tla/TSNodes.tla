------------------------------ MODULE TSNodes -------------------------------
(* What the list and the queue of tslist.h work on: nodes, each of them in  *)
(* memory that is not given back while threads use it.                      *)

CONSTANTS
  Threads, Nodes,
  NULL

ASSUME NullAssumption == NULL \notin Nodes
=============================================================================
