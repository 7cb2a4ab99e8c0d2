------------------------------ MODULE MCBPTree ------------------------------
(* Constants for checking BPTree: as many paths as a run asks for, whose keys are *)
(* their numbers; values of less than 8 bytes, and values that need a block.      *)
EXTENDS BPTree

CONSTANTS N, short, padded, long

MCPaths == 1 .. N
MCHash == [p \in MCPaths |-> p]
\* Hashes that collide: all paths but the last share their key.
Colliding == [p \in MCPaths |-> IF p < N THEN 1 ELSE 2]
MCPadded == [v \in Values |-> IF v = short THEN padded ELSE v]

(* What a state is to TLC.  A name means no more than an address does: nodes and blocks that *)
(* nobody can reach any more are left out, and the others are numbered in the order a walk   *)
(* from the root meets them.  No step reads reply, so it is left out too.                    *)
RECURSIVE Visit(_, _, _)
Visit(next(_), todo, seen) ==
  IF todo = <<>> THEN seen
  ELSE IF Contains(seen, Head(todo)) THEN Visit(next, Tail(todo), seen)
  ELSE Visit(next, next(Head(todo)) \o Tail(todo), Append(seen, Head(todo)))

Position(seq, e) == SelectInSeq(seq, LAMBDA x : x = e)

Named(h, d) ==
  LET nodes == Visit(LAMBDA n : Children(h[n])
                                  \o SelectSeq(<<h[n].left, h[n].right>>, LAMBDA s : s # None),
                     <<m_root>>, <<>>)
      owned == SelectSeq([i \in 1 .. Len(nodes) |-> h[nodes[i]].off],
                         LAMBDA off : off \notin {NULL_OFFSET, PHANTOM_OFFSET})
      offsets == Visit(LAMBDA off : Children(d[off]), <<RootOffset>> \o owned, <<>>)
      Renamed(node, names) ==
        IF node.leaf THEN node.items
        ELSE [i \in 1 .. Len(node.items) |->
                Item(node.items[i].key, Position(names, node.items[i].data))]
  IN [heap |-> [i \in 1 .. Len(nodes) |->
                  LET node == h[nodes[i]] IN
                    [leaf |-> node.leaf, items |-> Renamed(node, nodes),
                     left |-> Position(nodes, node.left), right |-> Position(nodes, node.right),
                     off |-> IF node.off \in {NULL_OFFSET, PHANTOM_OFFSET} THEN node.off
                             ELSE Position(offsets, node.off)]],
      disk |-> [i \in 1 .. Len(offsets) |->
                  [d[offsets[i]] EXCEPT !.items = Renamed(d[offsets[i]], offsets)]]]

Unnamed ==
  <<Named(heap, disk), blocks, taken, rootInitialized, undefined, astray, contents, opens,
    forgotten, behind>>

(* The tree after the paths 1, 2, ... 11 have been set in this order: three levels of *)
(* nodes of 2 to 4 items, all but two of them at their lower limit.                   *)
TallHeap ==
  LET Linked(node, l, r) == [node EXCEPT !.left = l, !.right = r]
      Leaf(first, last, off) ==
        Node(TRUE, [i \in 1 .. last - first + 1 |->
                      Item(first + i - 1, DataRecord(first + i - 1, long))], off)
  IN <<Node(FALSE, <<Item(4, 2), Item(11, 8)>>, RootOffset),
       Linked(Node(FALSE, <<Item(2, 3), Item(4, 4)>>, 2), None, 8),
       Linked(Leaf(1, 2, 3), None, 4), Linked(Leaf(3, 4, 4), 3, 5),
       Linked(Leaf(5, 6, 5), 4, 6), Linked(Leaf(7, 8, 6), 5, 7),
       Linked(Leaf(9, 11, 7), 6, None),
       Linked(Node(FALSE, <<Item(6, 5), Item(8, 6), Item(11, 7)>>, 8), 2, None)>>
TallDisk == [off \in DOMAIN TallHeap |->
  [leaf |-> TallHeap[off].leaf, items |-> TallHeap[off].items, left |-> 0, right |-> 0]]

TallInit ==
  /\ \E h \in {TallHeap} : heap = h /\ contents = getValue(h)
  /\ disk = TallDisk
  /\ pathBlocks = [p \in Paths |-> 1]
  /\ dataBlocks = [v \in Values \ Inline |-> N]
  /\ taken = FALSE /\ rootInitialized = FALSE
  /\ undefined = FALSE /\ astray = "no"
  /\ reply = [path |-> N, result |-> "done"]
  /\ opens = 0 /\ forgotten = FALSE /\ behind = FALSE

(* Bounds on the calls.  A small tree has six paths, or five with long values if it is   *)
(* made anew; the tall tree has all paths, of which a few neighbours are missing or all  *)
(* those up to one, which takes it down to an empty leaf.  Made anew it is not used on.  *)
CONSTANT MaxRemoved
IsTall == \E p \in DOMAIN contents : p > 6
Called == IF opens > 0 THEN 1 .. 5 ELSE IF IsTall THEN MCPaths ELSE 1 .. 6
Stored == IF opens > 0 \/ IsTall THEN {long} ELSE Values
FiveLong ==
  /\ \A p \in MCPaths : pathBlocks[p] > 0 => p <= 5
  /\ \A p \in DOMAIN contents : contents[p] = long

MCNext == astray = "no" /\
  \/ \E p \in Called, v \in Stored : UpdateValue(p, v) \/ AddValue(p, v) \/ Overwrites(p, v)
  \/ \E p \in Called : removeValue(p) \/ RemoveThrows(p) \/ GoesWrong(p)
  \/ FiveLong /\ Reopen
  \/ (IsTall \/ FiveLong) /\ (Restart \/ LoadsGarbled)

MCSpec == (Init \/ TallInit) /\ [][MCNext]_vars

Bounded ==
  LET missing == MCPaths \ DOMAIN contents IN
    /\ IsTall => \E k \in MCPaths, n \in 0 .. N :
                  missing = k .. k + n - 1 /\ (k > 1 => n <= MaxRemoved)
    /\ opens > 0 => FiveLong

=============================================================================
