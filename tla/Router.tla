-------------------------------- MODULE Router --------------------------------
(***************************************************************************)
(* pkg/router/trie.go: the routing trie.  Add and Remove copy the nodes on  *)
(* the path to the changed prefix, under the mutex, and publish the copy    *)
(* by storing the root pointer; Match loads the root pointer once and       *)
(* walks the nodes with no lock, so it may still walk nodes of a root that  *)
(* has been replaced since.                                                 *)
(*                                                                          *)
(* The heap is explicit: a pointer is an element of Node, and a copy that   *)
(* shared or changed a node it should not would be seen by a reader.  Each  *)
(* copied node and each segment of a lookup is a step.  A node nobody can   *)
(* reach is given back (Collected), as Go's collector does.                 *)
(*                                                                          *)
(* Abstracted: a path is its sequence of segments (Match skips repeated     *)
(* slashes); a target stands for the RouteTarget, and isEnd, which is set   *)
(* and reset with target, is target # NilTarget; depth is matchedIndex, in  *)
(* segments.  ReusedNode, NoneDead, AllDead, BetterTooDeep and              *)
(* LastNodeOnly are mutants of the definition after them.                   *)
(***************************************************************************)
EXTENDS Integers, Sequences, FiniteSetsExt

CONSTANTS
  Seg,       \* path segments
  Prefixes,  \* bound: the prefixes that are mounted
  Paths,     \* bound: the paths that are looked up
  Target, NilTarget,
  Version,   \* bound: nodes made for one prefix that exist at a time
  NoNode,    \* nil
  Reader     \* goroutines that call Match

ASSUME RouterAssumption ==
  /\ Prefixes \subseteq Seq(Seg)
  /\ Paths \subseteq Seq(Seg)
  /\ NilTarget \notin Target
  /\ Version \in Nat \ {0}
  /\ NoNode \notin Seq(Seg) \X Nat

VARIABLES
  heap,    \* the trie nodes
  root,    \* Router.root
  writer,  \* the call of Add or Remove that holds the mutex
  look     \* the calls of Match

trieVars == <<heap, root, writer, look>>

\* A pointer is the prefix its node was made for and a version.
Stems == {<< >>} \cup UNION {{SubSeq(p, 1, i) : i \in 1 .. Len(p)} : p \in Prefixes}
Node == Stems \X (1 .. Version)

NoKids == [s \in Seg |-> NoNode]
Blank == [kids |-> NoKids, target |-> NilTarget]
Idle == [pc |-> "idle", prefix |-> << >>, target |-> NilTarget, path |-> << >>]
NoMatch == [target |-> NilTarget, depth |-> 0]

\* The node that prefix p leads to from node n of heap h.
Walk(h, n, p) ==
  LET at[i \in 0 .. Len(p)] ==
        IF i = 0 THEN n ELSE IF at[i - 1] = NoNode THEN NoNode ELSE h[at[i - 1]].kids[p[i]]
  IN at[Len(p)]

\* The routes of the trie below n.
TableOf(h, n) ==
  [p \in Prefixes |-> LET m == Walk(h, n, p) IN IF m = NoNode THEN NilTarget ELSE h[m].target]

\* Nodes are only made on the way to a prefix, so n and the nodes below it are:
Fragments ==
  {<< >>} \cup UNION {{SubSeq(p, i, j) : i \in 1 .. Len(p), j \in 1 .. Len(p)} : p \in Prefixes}
Below(h, n) == {Walk(h, n, f) : f \in Fragments} \ {NoNode}

NoLookup == [pc |-> "idle", path |-> << >>, at |-> NoNode, depth |-> 0,
             best |-> NoMatch, seen |-> [p \in Prefixes |-> NilTarget]]

TrieInit ==
  /\ root = <<<< >>, 1>>
  /\ heap = [n \in Node |-> Blank]
  /\ writer = Idle
  /\ look = [r \in Reader |-> NoLookup]

\* The nodes that the root, the writer w or the lookups l can reach.
Live(h, rt, w, l) ==
  Below(h, rt) \cup (IF w.path = << >> THEN {} ELSE Below(h, w.path[1]))
    \cup UNION {IF l[r].at = NoNode THEN {} ELSE Below(h, l[r].at) : r \in Reader}

\* Nodes that are not live are blank again.
Collected(h, rt, w, l) ==
  LET live == Live(h, rt, w, l) IN [n \in Node |-> IF n \in live THEN h[n] ELSE Blank]

\* The versions of a prefix that nobody holds.
Free(p) == LET live == Live(heap, root, writer, look) IN {v \in 1 .. Version : <<p, v>> \notin live}
New(p) == <<p, Min(Free(p))>>

-------------------------------------------------------------------------------
(* Add and Remove, under the mutex. *)

Current == writer.path[Len(writer.path)]
Segment == writer.prefix[Len(writer.path)]
Descending == writer.pc # "idle" /\ Len(writer.path) <= Len(writer.prefix)
Arrived == writer.pc # "idle" /\ Len(writer.path) = Len(writer.prefix) + 1

\* Lock, load the root and clone it.
Lock(pc, p, t) ==
  /\ writer.pc = "idle"
  /\ Free(<< >>) # {}
  /\ heap' = [heap EXCEPT ![New(<< >>)] = heap[root]]
  /\ writer' = [pc |-> pc, prefix |-> p, target |-> t, path |-> <<New(<< >>)>>]
  /\ UNCHANGED <<root, look>>

Add(p, t) == Lock("add", p, t)
Remove(p) == Lock("remove", p, NilTarget)

\* The node that replaces child: a new one.
Stem == SubSeq(writer.prefix, 1, Len(writer.path))
ReusedNode(child) == IF child = NoNode THEN New(Stem) ELSE child
CopiedNode(child) == New(Stem)

\* Clone the child on the way, or make an empty one, and hang it in.
Descend ==
  LET child == heap[Current].kids[Segment]
      next == CopiedNode(child)
      copy == IF child = NoNode THEN Blank ELSE heap[child]
  IN
  /\ Descending
  /\ child # NoNode \/ writer.pc = "add"
  /\ Free(Stem) # {}
  /\ heap' = [heap EXCEPT ![next] = copy, ![Current].kids[Segment] = next]
  /\ writer' = [writer EXCEPT !.path = Append(@, next)]
  /\ UNCHANGED <<root, look>>

\* r.root.Store: the copy h is published, the mutex released.
Store(h) ==
  /\ root' = writer.path[1]
  /\ writer' = Idle
  /\ heap' = Collected(h, writer.path[1], Idle, look)
  /\ UNCHANGED look

StoreAdded ==
  /\ writer.pc = "add"
  /\ Arrived
  /\ Store([heap EXCEPT ![Current].target = writer.target])

\* The positions on the copied path, root excepted, of the nodes that h leaves
\* without a route, and without children but the dead one on the path.
NoneDead(h) == {}
AllDead(h) == {i \in 2 .. Len(writer.path) :
                \A j \in i .. Len(writer.path) : h[writer.path[j]].target = NilTarget}
Dead(h) ==
  LET path == writer.path IN
  {i \in 2 .. Len(path) :
    \A j \in i .. Len(path) :
      /\ h[path[j]].target = NilTarget
      /\ \A s \in Seg : h[path[j]].kids[s] # NoNode => j < Len(path) /\ s = writer.prefix[j]}

Pruned(h) ==
  IF Dead(h) = {} THEN h
  ELSE LET i == Min(Dead(h)) IN
       [h EXCEPT ![writer.path[i - 1]].kids[writer.prefix[i - 1]] = NoNode]

StoreRemoved ==
  /\ writer.pc = "remove"
  /\ Arrived
  /\ heap[Current].target # NilTarget
  /\ Store(Pruned([heap EXCEPT ![Current].target = NilTarget]))

\* return false: the prefix has no node or no route; the copy is dropped.
NotFound ==
  /\ writer.pc = "remove"
  /\ \/ Descending /\ heap[Current].kids[Segment] = NoNode
     \/ Arrived /\ heap[Current].target = NilTarget
  /\ writer' = Idle
  /\ heap' = Collected(heap, root, Idle, look)
  /\ UNCHANGED <<root, look>>

-------------------------------------------------------------------------------
(* Match, without a lock. *)

\* The best match so far when the walk is at node n after d segments.
BetterTooDeep(best, n, d) ==
  IF heap[n].target = NilTarget THEN best ELSE [target |-> heap[n].target, depth |-> d + 1]
LastNodeOnly(best, n, d) == [target |-> heap[n].target, depth |-> d]
Better(best, n, d) ==
  IF heap[n].target = NilTarget THEN best ELSE [target |-> heap[n].target, depth |-> d]

Load(r) ==
  /\ look[r].pc = "idle"
  /\ \E path \in Paths :
       look' = [look EXCEPT ![r] =
                 [NoLookup EXCEPT !.pc = "walk", !.path = path, !.at = root,
                                  !.best = Better(NoMatch, root, 0),
                                  !.seen = TableOf(heap, root)]]
  /\ UNCHANGED <<heap, root, writer>>

\* The next segment has a child.
Follow(r) ==
  LET l == look[r]
      next == heap[l.at].kids[l.path[l.depth + 1]]
  IN
  /\ l.pc = "walk"
  /\ l.depth < Len(l.path)
  /\ next # NoNode
  /\ look' = [look EXCEPT ![r].at = next, ![r].depth = l.depth + 1,
                          ![r].best = Better(l.best, next, l.depth + 1)]
  /\ heap' = Collected(heap, root, writer, look')
  /\ UNCHANGED <<root, writer>>

\* The path ends, or the next segment has no child: the best match is returned.
Return(r) ==
  LET l == look[r] IN
  /\ l.pc = "walk"
  /\ l.depth < Len(l.path) => heap[l.at].kids[l.path[l.depth + 1]] = NoNode
  /\ look' = [look EXCEPT ![r].pc = "done", ![r].at = NoNode, ![r].depth = 0]
  /\ heap' = Collected(heap, root, writer, look')
  /\ UNCHANGED <<root, writer>>

Leave(r) ==
  /\ look[r].pc = "done"
  /\ look' = [look EXCEPT ![r] = NoLookup]
  /\ UNCHANGED <<heap, root, writer>>

TrieNext ==
  \/ \E p \in Prefixes : Remove(p) \/ \E t \in Target : Add(p, t)
  \/ Descend \/ StoreAdded \/ StoreRemoved \/ NotFound
  \/ \E r \in Reader : Load(r) \/ Follow(r) \/ Return(r) \/ Leave(r)

TrieSpec == TrieInit /\ [][TrieNext]_trieVars

-------------------------------------------------------------------------------
TrieTypeOK ==
  /\ heap \in [Node -> [kids : [Seg -> Node \cup {NoNode}], target : Target \cup {NilTarget}]]
  /\ root \in Node
  /\ writer.pc \in {"idle", "add", "remove"}
  /\ writer.prefix \in Prefixes \cup {<< >>}
  /\ writer.target \in Target \cup {NilTarget}
  /\ writer.path \in Seq(Node)
  /\ \A r \in Reader :
       /\ look[r].pc \in {"idle", "walk", "done"}
       /\ look[r].path \in Paths \cup {<< >>}
       /\ look[r].at \in Node \cup {NoNode}
       /\ look[r].best.target \in Target \cup {NilTarget}
       /\ look[r].best.depth \in 0 .. Len(look[r].path)

\* What a reader can reach never changes under it: a node that is reachable from
\* the published root or from a lookup, possibly of an older root, keeps its
\* children and its route for as long as it is reachable.
PublishedIsFrozen ==
  [][\A n \in Node :
       /\ n \in Live(heap, root, Idle, look)
       /\ n \in Live(heap', root', Idle, look')
       => heap'[n] = heap[n]]_trieVars

\* Remove prunes all it should: every published node but the root has a route or a
\* child, so that routes that come and go do not make the trie grow.
NoDeadBranch ==
  \A n \in Below(heap, root) \ {root} : heap[n] # Blank

Table == INSTANCE RouteTable WITH
  table <- TableOf(heap, root),
  look <- [r \in Reader |-> [pc |-> look[r].pc, path |-> look[r].path, seen |-> look[r].seen,
                             result |-> IF look[r].pc = "done" THEN look[r].best ELSE NoMatch]]

\* Every call of Match answers with the longest prefix of the routes as they were
\* when it loaded the root, whatever Add and Remove do meanwhile; and each of them
\* changes the route of its own prefix, at one moment, and no other.
ImplementsRouteTable == Table!TableSpec
===============================================================================
