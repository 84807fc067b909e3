----------------------------- MODULE MCSimThink -----------------------------
(***************************************************************************)
(* Instances of SimThink for TLC: slots are interchangeable.               *)
(***************************************************************************)
EXTENDS SimThink, TLC

Symmetry == Permutations(Slots)
=============================================================================
