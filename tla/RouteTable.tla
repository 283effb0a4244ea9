------------------------------ MODULE RouteTable ------------------------------
(***************************************************************************)
(* What the router promises: a table from prefixes to targets.  A change    *)
(* is atomic, and a lookup answers with the longest prefix of its path in   *)
(* the table as it was at one moment, however long the lookup takes.        *)
(* Router implements this; Engine reads its routes as such a table.         *)
(***************************************************************************)
EXTENDS Integers, Sequences, FiniteSetsExt

CONSTANTS Prefixes, Paths, Target, NilTarget, Reader

VARIABLES
  table,  \* the target of each prefix, or NilTarget
  look    \* the lookup of each reader

NoMatch == [target |-> NilTarget, depth |-> 0]

\* The prefixes of path with a route, by their length.
Hits(tab, path) ==
  {n \in 0 .. Len(path) : SubSeq(path, 1, n) \in Prefixes /\ tab[SubSeq(path, 1, n)] # NilTarget}

LongestPrefix(tab, path) ==
  IF Hits(tab, path) = {} THEN NoMatch
  ELSE LET n == Max(Hits(tab, path)) IN [target |-> tab[SubSeq(path, 1, n)], depth |-> n]

Empty == [p \in Prefixes |-> NilTarget]
NoLookup == [pc |-> "idle", path |-> << >>, seen |-> Empty, result |-> NoMatch]

TableInit ==
  /\ table = Empty
  /\ look = [r \in Reader |-> NoLookup]

\* Mount or unmount a prefix.
Change ==
  /\ \E p \in Prefixes, t \in Target \cup {NilTarget} : table' = [table EXCEPT ![p] = t]
  /\ UNCHANGED look

Begin(r) ==
  /\ look[r].pc = "idle"
  /\ \E path \in Paths :
       look' = [look EXCEPT ![r] = [NoLookup EXCEPT !.pc = "walk", !.path = path, !.seen = table]]
  /\ UNCHANGED table

Answer(r) ==
  /\ look[r].pc = "walk"
  /\ look' = [look EXCEPT ![r].pc = "done",
                          ![r].result = LongestPrefix(look[r].seen, look[r].path)]
  /\ UNCHANGED table

Leave(r) ==
  /\ look[r].pc = "done"
  /\ look' = [look EXCEPT ![r] = NoLookup]
  /\ UNCHANGED table

TableNext == Change \/ \E r \in Reader : Begin(r) \/ Answer(r) \/ Leave(r)

TableSpec == TableInit /\ [][TableNext]_<<table, look>>
===============================================================================
