------------------------------- MODULE BPNodes ------------------------------
(***************************************************************************)
(* The nodes of BPTreeStorage and what one call does to a node, its        *)
(* children and their neighbours: the search in a node, the split of a     *)
(* child or of the root, the removal from a leaf, and the borrowing and    *)
(* merging that follow it.                                                 *)
(* A heap is a sequence of nodes; a node is named by its place in it.      *)
(***************************************************************************)
EXTENDS Integers, Sequences, SequencesExt

CONSTANT MaxLoad     \* MAX_LOAD_FACTOR

MinLoad == MaxLoad \div 2

ASSUME LoadAssumption == MaxLoad \in Nat /\ MaxLoad >= 4 /\ MaxLoad % 2 = 0

m_root == 1       \* the name of the root node
RootOffset == 1   \* getRootOffset()
NULL_OFFSET == -1 \* a node that has no block yet
None == 0         \* a null pointer

Node(leaf, items, off) ==
  [leaf |-> leaf, items |-> items, left |-> None, right |-> None, off |-> off]
Item(key, data) == [key |-> key, data |-> data]
Items(h, n) == h[n].items
MaxKey(h, n) == Last(h[n].items).key
Size(h, n) == Len(h[n].items)

-----------------------------------------------------------------------------
\* A faulty LowerBound: the first item whose key is above k.
UpperBound(items, k) ==
  LET i == SelectInSeq(items, LAMBDA it : it.key > k)
  IN IF i = 0 THEN Len(items) + 1 ELSE i

\* std::lower_bound: the first item whose key is not below k, or past the end.
LowerBound(items, k) ==
  LET i == SelectInSeq(items, LAMBDA it : it.key >= k)
  IN IF i = 0 THEN Len(items) + 1 ELSE i

\* The item to go down by with an item of key k to add: LowerBound's, or the last.
ChildFor(items, k) ==
  LET b == LowerBound(items, k) IN IF b > Len(items) THEN b - 1 ELSE b

FirstWithKey(items, k) == SelectInSeq(items, LAMBDA it : it.key = k)

-----------------------------------------------------------------------------
\* The upper part of node n moves to a new node, its right sibling, named last.
makeSibling(h, n) ==
  LET s == Len(h) + 1
      r == h[n].right
      half == MaxLoad \div 2
      sibling == [h[n] EXCEPT !.items = SubSeq(@, half + 1, Len(@)),
                              !.left = n, !.off = NULL_OFFSET]
      h1 == Append([h EXCEPT ![n].items = SubSeq(@, 1, half), ![n].right = s], sibling)
  IN IF r = None THEN h1 ELSE [h1 EXCEPT ![r].left = s]

insertData(items, item) == InsertAt(items, LowerBound(items, item.key), item)

\* Child i of node n, too full, is split: node n gets an item for the new node.
SplitChild(h, n, i) ==
  LET child == Items(h, n)[i].data
      h1 == makeSibling(h, child)
      s == Len(h1)
  IN [h1 EXCEPT ![n].items = InsertAt([@ EXCEPT ![i].key = MaxKey(h1, child)], i + 1,
                                      Item(MaxKey(h1, s), s))]

\* The full root's contents move to a new node, which is split.
SplitRoot(h) ==
  LET c == Len(h) + 1
      h1 == Append([h EXCEPT ![m_root] = Node(FALSE, <<>>, RootOffset)],
                   [h[m_root] EXCEPT !.off = NULL_OFFSET])
      h2 == makeSibling(h1, c)
      s == Len(h2)
  IN [h2 EXCEPT ![m_root].items = <<Item(MaxKey(h2, c), c), Item(MaxKey(h2, s), s)>>,
                ![c].right = s, ![s].left = c]

\* The heap after an item was added below a node, and whether that may be too full.
Addition(h, check) == [heap |-> h, check |-> check]

AddToLeaf(h, n, item) == Addition([h EXCEPT ![n].items = insertData(@, item)], TRUE)

\* In node n, after the addition r below its child, that of item i.
AddedBelow(r, n, i, child) ==
  LET h == [r.heap EXCEPT ![n].items[i].key = MaxKey(r.heap, child)]
  IN IF ~r.check \/ Size(h, child) <= MaxLoad THEN Addition(h, FALSE)
     ELSE Addition(SplitChild(h, n, i), TRUE)

\* After the addition r below the root.
AddedInTree(r) ==
  IF r.check /\ Size(r.heap, m_root) > MaxLoad THEN SplitRoot(r.heap) ELSE r.heap

-----------------------------------------------------------------------------
(***************************************************************************)
(* Removing.  A result is the heap, a status (an exception among them) and *)
(* the record taken out of the tree, if any.                               *)
(***************************************************************************)
Result(h, status, gone) == [heap |-> h, status |-> status, gone |-> gone]
Nothing == <<>>

\* A faulty RemoveFromLeaf: a key that is not there is looked for in the sibling.
RemoveFromLeafMissing(h, n, k, p) ==
  LET i == SelectInSeq(Items(h, n), LAMBDA it : it.data.path = p)
  IN IF i = 0 THEN Result(h, "NOT_FOUND", Nothing)
     ELSE Result([h EXCEPT ![n].items = RemoveAt(@, i)], "REMOVED", <<Items(h, n)[i].data>>)

\* In a leaf: from the first item with key k on, the one that has path p.
RemoveFromLeaf(h, n, k, p) ==
  LET items == Items(h, n)
      i == FirstWithKey(items, k)
      j == SelectInSubSeq(items, i, Len(items), LAMBDA it : it.key # k \/ it.data.path = p)
  IN IF i = 0 THEN Result(h, "NoSuchPath", Nothing)
     ELSE IF j = 0 THEN Result(h, "NOT_FOUND", Nothing)
     ELSE IF items[j].key # k THEN Result(h, "NoSuchPath", Nothing)
     ELSE Result([h EXCEPT ![n].items = RemoveAt(@, j)], "REMOVED", <<items[j].data>>)

\* A faulty SiblingIndex: the right sibling is forgotten.
SiblingIndexLeft(h, n, i) == IF i > 1 THEN i - 1 ELSE i

\* The child to borrow from or to merge with; i itself when node n has no other.
SiblingIndex(h, n, i) ==
  LET items == Items(h, n)
      rich(j) == Size(h, items[j].data) > MinLoad
  IN IF i > 1 /\ rich(i - 1) THEN i - 1
     ELSE IF i < Len(items) /\ rich(i + 1) THEN i + 1
     ELSE IF i > 1 THEN i - 1
     ELSE IF i < Len(items) THEN i + 1
     ELSE i

\* The root's only child moves up: the two nodes swap their contents, the offsets
\* of their blocks included.
Collapse(h, child) == [h EXCEPT ![m_root] = h[child], ![child] = h[m_root]]

\* A faulty Borrow: the sibling's key in node n stays.
BorrowKeepingKey(h, n, i, j, child, sibling) ==
  LET right == Items(h, n)[i].key <= Items(h, n)[j].key
      item == IF right THEN Head(Items(h, sibling)) ELSE Last(Items(h, sibling))
      h1 == [h EXCEPT ![child].items = IF right THEN Append(@, item) ELSE <<item>> \o @,
                      ![sibling].items = IF right THEN Tail(@) ELSE Front(@)]
  IN [h1 EXCEPT ![n].items[i].key = MaxKey(h1, child)]

\* Child takes one item of its rich sibling, over the end their keys in node n say.
Borrow(h, n, i, j, child, sibling) ==
  LET ours == Items(h, child)
      theirs == Items(h, sibling)
      h1 == IF Items(h, n)[i].key <= Items(h, n)[j].key
            THEN [h EXCEPT ![child].items = Append(ours, Head(theirs)),
                           ![sibling].items = Tail(theirs)]
            ELSE [h EXCEPT ![child].items = <<Last(theirs)>> \o ours,
                           ![sibling].items = Front(theirs)]
  IN [h1 EXCEPT ![n].items[i].key = MaxKey(h1, child),
                ![n].items[j].key = MaxKey(h1, sibling)]

\* A faulty Merge: the sibling stays in the list.
MergeUnlinked(h, n, i, j, child, sibling) ==
  LET right == Items(h, n)[i].key <= Items(h, n)[j].key
      theirs == Items(h, sibling)
      h1 == [h EXCEPT ![child].items = IF right THEN @ \o theirs ELSE theirs \o @]
  IN [h1 EXCEPT ![n].items = RemoveAt([@ EXCEPT ![i].key = MaxKey(h1, child)], j)]

\* Child takes all items of its sibling and the sibling leaves the list.
Merge(h, n, i, j, child, sibling) ==
  LET ours == Items(h, child)
      theirs == Items(h, sibling)
      h1 == IF Items(h, n)[i].key <= Items(h, n)[j].key
            THEN [h EXCEPT ![child].items = ours \o theirs]
            ELSE [h EXCEPT ![child].items = theirs \o ours,
                           ![sibling].items = ours]
      l == h1[sibling].left
      r == h1[sibling].right
      h2 == IF sibling = h1[child].left
            THEN IF l = None THEN [h1 EXCEPT ![child].left = l]
                 ELSE [h1 EXCEPT ![child].left = l, ![l].right = child]
            ELSE IF r = None THEN [h1 EXCEPT ![child].right = r]
                 ELSE [h1 EXCEPT ![child].right = r, ![r].left = child]
  IN [h2 EXCEPT ![n].items = RemoveAt([@ EXCEPT ![i].key = MaxKey(h2, child)], j)]

\* After an item was taken out of child, found through item i of node n.
Rebalance(h, n, i, child, gone) ==
  LET j == SiblingIndex(h, n, i)
      sibling == Items(h, n)[j].data
  IN IF Size(h, child) >= MinLoad
     THEN Result([h EXCEPT ![n].items[i].key = MaxKey(h, child)], "REMOVED", gone)
     ELSE IF j = i /\ n # m_root THEN Result(h, "StorageException", gone)
     ELSE IF j = i THEN Result(Collapse(h, child), "REMOVED", gone)
     ELSE IF sibling = child THEN Result(h, "undefined", gone)
     ELSE IF Size(h, sibling) > MinLoad
     THEN Result(Borrow(h, n, i, j, child, sibling), "OK", gone)
     ELSE Result(Merge(h, n, i, j, child, sibling), "REMOVED", gone)

\* In node n, after the removal r below child, found through its item i.
RemovedBelow(r, n, i, child) ==
  IF r.status = "NOT_FOUND" THEN Result(r.heap, "NoSuchPath", Nothing)
  ELSE IF r.status = "OK"
  THEN Result([r.heap EXCEPT ![n].items[i].key = MaxKey(r.heap, child)], "OK", r.gone)
  ELSE IF r.status = "REMOVED" THEN Rebalance(r.heap, n, i, child, r.gone)
  ELSE r

-----------------------------------------------------------------------------
(***************************************************************************)
(* What makes a node right, with distinct keys: what assertInvariants says *)
(* of it, and how it stands to its neighbours.                             *)
(***************************************************************************)
InOrder(items) == \A i, j \in 1 .. Len(items) : i < j => items[i].key < items[j].key
Adjacent(h, l, r) == h[l].right = r /\ h[r].left = l
Exact(h, items) == \A i \in 1 .. Len(items) : items[i].key = MaxKey(h, items[i].data)
Chain(h, items) == \A i \in 2 .. Len(items) : Adjacent(h, items[i - 1].data, items[i].data)

LoadInBounds(h, n) == Size(h, n) <= MaxLoad /\ (n # m_root => Size(h, n) >= MinLoad)
KeysInOrder(h, n) == InOrder(Items(h, n))
KeysBoundChildren(h, n) == Exact(h, Items(h, n))
SiblingsLinked(h, n) == Chain(h, Items(h, n))

\* The list a node is in goes both ways, in key order.
NeighboursInOrder(h, n) ==
  /\ h[n].left # None => Adjacent(h, h[n].left, n)
  /\ h[n].right # None => /\ Adjacent(h, n, h[n].right)
                          /\ MaxKey(h, n) < Head(Items(h, h[n].right)).key

\* The list of the children goes on where node n ends.
CousinsLinked(h, n) ==
  LET first == Head(Items(h, n)).data
      last == Last(Items(h, n)).data
  IN /\ h[n].left = None => h[first].left = None
     /\ IF h[n].right = None THEN h[last].right = None
        ELSE Adjacent(h, last, Head(Items(h, h[n].right)).data)

-----------------------------------------------------------------------------
(***************************************************************************)
(* What makes the levels of the tree right: a row S of nodes, whose        *)
(* children, if they have any, are in D, and a row P above it.             *)
(***************************************************************************)
\* The child item i of node n names.
Child(h, n, i) == Items(h, n)[i].data

\* The items of an inner node whose children are in D.
Inner(h, items, D) ==
  /\ \A e \in ToSet(items) : e.data \in D
  /\ Exact(h, items) /\ Chain(h, items)

\* Node x is right within its row.
RowNode(h, S, D, x) ==
  /\ Items(h, x) # <<>> /\ KeysInOrder(h, x) /\ NeighboursInOrder(h, x)
  /\ h[x].left \in S \cup {None} /\ h[x].right \in S \cup {None}
  /\ ~h[x].leaf => Inner(h, Items(h, x), D) /\ CousinsLinked(h, x)

\* Every node of S is, and all are leaves or none is.
Row(h, S, D) ==
  /\ S \subseteq DOMAIN h /\ D \subseteq DOMAIN h /\ S \cap D = {}
  /\ \A x, y \in S : h[x].leaf = h[y].leaf
  /\ \A x \in S : RowNode(h, S, D, x)

\* No key is in two nodes of a row.
Distinct(h, S) ==
  \A x, y \in S : \A e \in ToSet(Items(h, x)), f \in ToSet(Items(h, y)) : e.key = f.key => x = y

\* Every node of S is a child of one of P: no part of the tree is cut off.
Parented(h, P, S) == \A y \in S : \E x \in P : \E i \in 1 .. Len(Items(h, x)) : Child(h, x, i) = y

\* Row P of inner nodes is right, and its children are row S.
InnerRow(h, P, S) ==
  Row(h, P, S) /\ Distinct(h, P) /\ (\A x \in P : ~h[x].leaf) /\ Parented(h, P, S)

\* Row k of the rows L, the root's first and the leaves' last, is right.
RowRight(h, L, k) ==
  IF k < Len(L) THEN InnerRow(h, L[k], L[k + 1]) ELSE Row(h, L[k], {}) /\ Distinct(h, L[k])

\* No node is in two rows.
Apart(L) == \A j, k \in 1 .. Len(L) : j # k => L[j] \cap L[k] = {}

\* The tree with the rows L is right.
TreeRight(h, L) == L # <<>> /\ Apart(L) /\ \A k \in 1 .. Len(L) : RowRight(h, L, k)

=============================================================================
