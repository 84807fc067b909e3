---------------------------- MODULE MCTouchLinks ----------------------------
(* The instance of TouchLinks that TLC checks: e1 touches the two others,  *)
(* one of them where it moves and one by physical contact.                 *)
EXTENDS TouchLinks

CONSTANTS e1, e2, e3

MCMeets == {{e1, e3}}
MCContacts == {{e1, e2}}

\* Bound: e2 does not move by itself.
MCNext == Next /\ flagged' \subseteq {e1, e3}

MCSpec == Init /\ [][MCNext]_vars
=============================================================================
