---------------------------- MODULE EntityTable -----------------------------
(***************************************************************************)
(* What CBaseEntityList promises, without its links: the occupied slots in *)
(* the order the entities were added, and a queue of vacant non-networkable*)
(* slots. A vacated slot goes to the back of the queue, so it is reused    *)
(* only after every slot that was vacant before it.                        *)
(***************************************************************************)
EXTENDS Integers, Sequences

CONSTANTS MaxEdicts, NumEntEntries, Ents, NULL

Slots == 0 .. NumEntEntries - 1

VARIABLES
  order,   \* the occupied slots, oldest occupant first
  queue,   \* the vacant slots AddNonNetworkableEntity will use, in turn
  occupant

vars == <<order, queue, occupant>>

Init ==
  /\ order = << >>
  /\ queue = [i \in 1 .. NumEntEntries - 1 - MaxEdicts |-> MaxEdicts + i]
  /\ occupant = [s \in Slots |-> NULL]

\* q without s, which is in it once.
Without(q, s) ==
  LET p == CHOOSE k \in DOMAIN q : q[k] = s
  IN [k \in 1 .. Len(q) - 1 |-> IF k < p THEN q[k] ELSE q[k + 1]]

Occupy(s, e) ==
  /\ occupant[s] = NULL
  /\ \A t \in Slots : occupant[t] # e
  /\ order' = Append(order, s)
  /\ occupant' = [occupant EXCEPT ![s] = e]

AddNetworkable(s, e) == s < MaxEdicts /\ Occupy(s, e) /\ UNCHANGED queue

AddNonNetworkable(e) ==
  /\ queue # << >>
  /\ Occupy(Head(queue), e)
  /\ queue' = Tail(queue)

Remove(s) ==
  /\ occupant[s] # NULL
  /\ order' = Without(order, s)
  /\ queue' = IF s < MaxEdicts THEN queue ELSE Append(queue, s)
  /\ occupant' = [occupant EXCEPT ![s] = NULL]

Next ==
  \/ \E e \in Ents, s \in Slots : AddNetworkable(s, e)
  \/ \E e \in Ents : AddNonNetworkable(e)
  \/ \E s \in Slots : Remove(s)

Spec == Init /\ [][Next]_vars
=============================================================================
