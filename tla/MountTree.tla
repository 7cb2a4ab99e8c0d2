----------------------------- MODULE MountTree ------------------------------
(***************************************************************************)
(* MountPointTree with MountPoint and PathView: a tree of names whose      *)
(* nodes hold storages.  Its calls hold m_treeMtx from end to end, so each *)
(* is one step.                                                            *)
(*                                                                         *)
(* A path is a sequence of names and slashes.  Names meet only in what     *)
(* fullPath makes, where they stand for the longer name they join to.      *)
(***************************************************************************)
EXTENDS Naturals, Sequences, FiniteSets, SequencesExt

CONSTANTS
  Names,      \* what stands between slashes
  Mountable,  \* the mount points clients make
  Requests,   \* the paths clients ask for
  MaxMounts   \* bound: how many mount points there are at a time

Slash == "/"

\* PathView refuses a path that does not begin with a slash before anything happens.
Strings == {s \in Seq(Names \cup {Slash}) :
              /\ s # <<>> /\ s[1] = Slash
              /\ \A i \in 2 .. Len(s) : Slash \in {s[i - 1], s[i]}}

ASSUME MountAssumption ==
  /\ Slash \notin Names
  /\ \A m \in Mountable :
       m.mount \in Strings /\ m.phys \in Seq(Names \cup {Slash}) /\ m.priority \in Nat
  /\ Requests \subseteq Strings
  /\ MaxMounts \in Nat

VARIABLE nodes  \* nodes[x]: storage_vector of the node at the end of the names x

-----------------------------------------------------------------------------
(***************************************************************************)
(* PathView.                                                               *)
(***************************************************************************)
DoubleSlashes(path) == {i \in 2 .. Len(path) : path[i - 1] = Slash /\ path[i] = Slash}
Malformed(path) == DoubleSlashes(path) # {}

\* The parts next() yields before the end, a slash there included, or before it throws:
\* up to there every other part of the path is a slash.
Parts(path) ==
  LET good == IF Malformed(path) THEN Min(DoubleSlashes(path)) - 1 ELSE Len(path)
  IN [k \in 1 .. good \div 2 |-> path[2 * k]]

-----------------------------------------------------------------------------
(***************************************************************************)
(* The choice of storages for a path in a tree n.                          *)
(***************************************************************************)
\* The walk meets the double slash only if there are nodes up to it.
Throws(n, path) == Malformed(path) /\ Parts(path) \in DOMAIN n

\* Where mount points are: <<x, i>> is entry i of the node x.
Points(n) == UNION {{x} \X DOMAIN n[x] : x \in DOMAIN n}
PointAt(n, at) == n[at[1]][at[2]]

\* A faulty Walk: the storages of the root are not looked at.
WalkBelowRoot(n, path) ==
  UNION {{x} \X DOMAIN n[x] : x \in (Prefixes(Parts(path)) \ {<<>>}) \cap DOMAIN n}

\* The mount points met on the way, which ends at the first missing node.
Walk(n, path) ==
  LET way == {x \in Prefixes(Parts(path)) : Prefixes(x) \subseteq DOMAIN n}
  IN UNION {{x} \X DOMAIN n[x] : x \in way}

\* They are met from the root down, and at a node in the order of mounting.
Before(at, other) == Len(at[1]) < Len(other[1]) \/ (at[1] = other[1] /\ at[2] < other[2])

\* getSuitableStorageList: a set ordered by priority, which keeps the first of equals.
getSuitableStorageList(n, path) ==
  LET w == Walk(n, path)
      kept == {at \in w : \A o \in w :
                 Before(o, at) => PointAt(n, o).priority # PointAt(n, at).priority}
  IN IF Throws(n, path) THEN {} ELSE {PointAt(n, at) : at \in kept}

\* The set is run through from the largest number down.
First(points) == CHOOSE m \in points : \A o \in points : m.priority >= o.priority

\* A faulty getPriorityStorage: the last of equals.
getLastPriorityStorage(n, path) ==
  LET w == Walk(n, path)
      best(at) == \A o \in w : /\ PointAt(n, at).priority <= PointAt(n, o).priority
                               /\ Before(at, o) => PointAt(n, at).priority < PointAt(n, o).priority
  IN PointAt(n, CHOOSE at \in w : best(at))

\* getPriorityStorage: the smallest number, and the first that has it.
getPriorityStorage(n, path) ==
  LET w == Walk(n, path)
      best(at) == \A o \in w : /\ PointAt(n, at).priority <= PointAt(n, o).priority
                               /\ Before(o, at) => PointAt(n, at).priority < PointAt(n, o).priority
  IN PointAt(n, CHOOSE at \in w : best(at))

\* There is a storage to write to.
Mounted(n, path) == ~Throws(n, path) /\ Walk(n, path) # {}

\* As many characters as the mount path has are taken off, whatever they are.
fullPath(m, path) == m.phys \o SubSeq(path, Len(m.mount) + 1, Len(path))

-----------------------------------------------------------------------------
(***************************************************************************)
(* Mounting and unmounting.                                                *)
(***************************************************************************)
\* addMountPoint: the nodes on the way are made first; a malformed path leaves those
\* that were made before the exception.  m.priority is the number a MountPoint keeps: the one
\* given by the caller, cut to 32 bits by the constructor.
addMountPoint(m) ==
  LET x == Parts(m.mount)
      grown == [y \in DOMAIN nodes \cup Prefixes(x) |->
                  IF y \in DOMAIN nodes THEN nodes[y] ELSE <<>>]
  IN /\ Cardinality(Points(nodes)) < MaxMounts
     /\ nodes' = IF Malformed(m.mount) THEN grown ELSE [grown EXCEPT ![x] = Append(@, m)]

\* Faulty variants of Pruned: nodes with children go; no node goes.
PrunedInside(n, x) == {y \in Prefixes(x) \ {<<>>} : n[y] = <<>>}
PrunedNever(n, x) == {}

\* The nodes removeStorage erases on its way back from x: without storages and without
\* children that stay.
Pruned(n, x) ==
  {y \in Prefixes(x) \ {<<>>} :
     \A z \in DOMAIN n : IsPrefix(y, z) => z \in Prefixes(x) /\ n[z] = <<>>}

\* A faulty removeMountPoint: all nodes below go too.
removeSubtree(path) ==
  /\ ~Malformed(path) /\ Parts(path) \in DOMAIN nodes
  /\ nodes' = [y \in {y \in DOMAIN nodes : y = <<>> \/ ~IsPrefix(Parts(path), y)} |->
                 IF y = Parts(path) THEN <<>> ELSE nodes[y]]

\* removeMountPoint, unless it throws: all storages of the node leave it.
removeMountPoint(path) ==
  LET x == Parts(path)
      cleared == [nodes EXCEPT ![x] = <<>>]
  IN /\ ~Malformed(path) /\ x \in DOMAIN nodes
     /\ nodes' = [y \in DOMAIN nodes \ Pruned(cleared, x) |-> cleared[y]]

TreeInit == nodes = [x \in {<<>>} |-> <<>>]

-----------------------------------------------------------------------------
(***************************************************************************)
(* Properties.                                                             *)
(***************************************************************************)
\* The nodes form a tree, and every mount point is at the node its path names.
TreeTypeOK ==
  /\ <<>> \in DOMAIN nodes
  /\ \A x \in DOMAIN nodes :
       /\ Prefixes(x) \subseteq DOMAIN nodes
       /\ \A i \in DOMAIN nodes[x] : nodes[x][i] \in Mountable /\ Parts(nodes[x][i].mount) = x

\* No node outlives its storages: there is one at it or below, unless a malformed
\* path made it.
NoDeadNodes ==
  \A x \in DOMAIN nodes \ {<<>>} :
    \/ \E y \in DOMAIN nodes : IsPrefix(x, y) /\ nodes[y] # <<>>
    \/ \E m \in Mountable : Malformed(m.mount) /\ IsPrefix(x, Parts(m.mount))

\* The tree is a table: erasing nodes loses no mount point, half built paths show none.
Good == {m \in Mountable : ~Malformed(m.mount)}
Table == INSTANCE MountTable WITH
  Mountable <- Good,
  Place <- [m \in Good |-> Parts(m.mount)],
  table <- [x \in {y \in DOMAIN nodes : nodes[y] # <<>>} |-> nodes[x]]
ImplementsTable == Table!Spec

\* A walk from the root misses no storage that is mounted on the way.
WalkSeesAll ==
  \A p \in Requests : Walk(nodes, p) = Table!Seen(Parts(p))

\* A value goes to one of the storages its path is read from: of storages with equal
\* numbers, list and choice prefer the same one.
WrittenIsRead ==
  \A p \in Requests : Mounted(nodes, p) =>
    getPriorityStorage(nodes, p) \in getSuitableStorageList(nodes, p)

=============================================================================
