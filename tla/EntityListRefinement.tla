------------------------ MODULE EntityListRefinement ------------------------
(***************************************************************************)
(* EntityList implements EntityTable: the linked lists, followed from head *)
(* to tail, are the abstract order and queue.                              *)
(***************************************************************************)
EXTENDS EntityList, Sequences

After(L, s) == IF s = NULL THEN NULL ELSE L.next[s]

\* The slots met from the head of a list; at most all of them.
Met(L, list) ==
  LET at[k \in 1 .. NumEntEntries] == IF k = 1 THEN L.head[list] ELSE After(L, at[k - 1])
      met == {k \in 1 .. NumEntEntries : at[k] # NULL}
  IN [k \in 1 .. Cardinality(met) |-> at[k]]

Chain(list) == Met(links, list)

Table == INSTANCE EntityTable
           WITH order <- Chain("active"), queue <- Chain("free"),
                occupant <- pEntity

\* CBaseEntityList keeps the promises of EntityTable: it iterates in order of
\* addition and reuses the longest vacant slot first.
ImplementsTable == Table!Spec
=============================================================================
