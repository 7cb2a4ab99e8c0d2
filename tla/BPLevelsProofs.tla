---------------------------- MODULE BPLevelsProofs --------------------------
(***************************************************************************)
(* Theorems about the B+ tree as a whole, with any number of rows: what a  *)
(* step at one node makes of all of them, and what a whole addition or     *)
(* removal makes of the tree, followed from the leaf back up to the root.  *)
(* A tree is its heap and the sequence L of its rows, the root's first and *)
(* the leaves' last.                                                       *)
(***************************************************************************)
EXTENDS BPNodesProofs

\* Two heaps agree about the nodes of a row and their children: the row stays.
LEMMA RowUntouched ==
  ASSUME NEW E, NEW h \in Seq(BTreeNode(E)), NEW g, NEW S, NEW D, Row(h, S, D), Distinct(h, S),
         DOMAIN h \subseteq DOMAIN g, \A x \in S \cup D : g[x] = h[x]
  PROVE  Row(g, S, D) /\ Distinct(g, S)
<1>1. /\ S \subseteq DOMAIN h /\ D \subseteq DOMAIN h /\ S \cap D = {}
      /\ \A x, y \in S : h[x].leaf = h[y].leaf
      /\ \A x \in S : RowNode(h, S, D, x)
  BY DEF Row
<1>2. \A x \in S : Items(g, x) = Items(h, x)
  BY DEF Items
<1>3. \A x \in S : /\ h[x].left # None => h[x].left \in S
                   /\ h[x].right # None => h[x].right \in S
  BY RowLinks
<1>4. \A x \in S : ~h[x].leaf => /\ Head(Items(h, x)).data \in D
                                 /\ Last(Items(h, x)).data \in D
  BY RowEnds
<1>5. ASSUME NEW x \in S PROVE RowNode(g, S, D, x)
  <2>1. /\ Items(h, x) # <<>> /\ KeysInOrder(h, x) /\ NeighboursInOrder(h, x)
        /\ h[x].left \in S \cup {None} /\ h[x].right \in S \cup {None}
        /\ ~h[x].leaf => Inner(h, Items(h, x), D) /\ CousinsLinked(h, x)
    BY <1>1 DEF RowNode
  <2>2. KeysInOrder(g, x)
    BY <1>2, <2>1 DEF KeysInOrder
  <2>3. NeighboursInOrder(g, x)
    BY <1>2, <1>3, <2>1 DEF NeighboursInOrder, Adjacent, MaxKey, Items
  <2>4. ASSUME ~h[x].leaf PROVE Inner(g, Items(h, x), D)
    <3>1. Items(h, x) \in Seq(Entry(E))
      BY <1>1, HeapNode
    <3>. QED
      BY <2>1, <2>4, <3>1, InnerAgrees
  <2>5. ASSUME ~h[x].leaf PROVE CousinsLinked(g, x)
    <3>1. CousinsLinked(h, x)
      BY <2>1, <2>5
    <3>2. /\ Items(g, x) = Items(h, x) /\ g[x] = h[x]
          /\ Head(Items(h, x)).data \in D /\ Last(Items(h, x)).data \in D
      BY <1>2, <1>4, <2>5
    <3>3. h[x].right # None => /\ Items(g, h[x].right) = Items(h, h[x].right)
                               /\ Head(Items(h, h[x].right)).data \in D
      <4>. SUFFICES ASSUME h[x].right # None
                    PROVE  /\ Items(g, h[x].right) = Items(h, h[x].right)
                           /\ Head(Items(h, h[x].right)).data \in D
        OBVIOUS
      <4>1. h[x].right \in S
        BY <1>3
      <4>2. ~h[h[x].right].leaf
        BY <4>1, <1>1, <2>5
      <4>. QED
        BY <4>1, <4>2, <1>2, <1>4
    <3>. QED
      BY <3>1, <3>2, <3>3 DEF CousinsLinked, Adjacent
  <2>. QED
    BY <1>2, <2>1, <2>2, <2>3, <2>4, <2>5 DEF RowNode
<1>6. Row(g, S, D)
  BY <1>1, <1>5 DEF Row
<1>. QED
  BY <1>2, <1>6 DEF Distinct

\* So does a row of inner nodes with all its children.
LEMMA InnerRowUntouched ==
  ASSUME NEW E, NEW h \in Seq(BTreeNode(E)), NEW g, NEW P, NEW S, InnerRow(h, P, S),
         DOMAIN h \subseteq DOMAIN g, \A x \in P \cup S : g[x] = h[x]
  PROVE  InnerRow(g, P, S)
<1>1. Row(h, P, S) /\ Distinct(h, P) /\ (\A x \in P : ~h[x].leaf) /\ Parented(h, P, S)
  BY DEF InnerRow
<1>2. Row(g, P, S) /\ Distinct(g, P)
  BY <1>1, RowUntouched
<1>3. Parented(g, P, S)
  BY <1>1 DEF Parented, Child, Items
<1>. QED
  BY <1>1, <1>2, <1>3 DEF InnerRow

\* The nodes of P name the children they named, each by the key it has in g, and links are the same.
Renames(h, g, P, S) ==
  /\ \A x \in P \cup S :
       g[x].left = h[x].left /\ g[x].right = h[x].right /\ g[x].leaf = h[x].leaf
  /\ \A x \in P : Len(Items(g, x)) = Len(Items(h, x))
  /\ \A x \in P : \A q \in 1 .. Len(Items(h, x)) :
       Child(g, x, q) = Child(h, x, q) /\ Items(g, x)[q].key = MaxKey(g, Child(h, x, q))

\* Then the upper row is right if the lower one is.
LEMMA RowRenamed ==
  ASSUME NEW E, NEW h \in Seq(BTreeNode(E)), NEW P, NEW S, InnerRow(h, P, S),
         NEW g \in Seq(BTreeNode(E)), DOMAIN h \subseteq DOMAIN g, Renames(h, g, P, S),
         NEW D, Row(g, S, D), Distinct(g, S)
  PROVE  InnerRow(g, P, S)
<1>1. /\ Row(h, P, S) /\ Distinct(h, P) /\ (\A x \in P : ~h[x].leaf) /\ Parented(h, P, S)
      /\ P \subseteq DOMAIN h /\ P \subseteq DOMAIN g /\ P \cap S = {}
  BY DEF InnerRow, Row
<1>2. /\ \A x \in P \cup S :
           g[x].left = h[x].left /\ g[x].right = h[x].right /\ g[x].leaf = h[x].leaf
      /\ \A x \in P : Len(Items(g, x)) = Len(Items(h, x))
      /\ \A x \in P : \A q \in 1 .. Len(Items(h, x)) :
           Child(g, x, q) = Child(h, x, q) /\ Items(g, x)[q].key = MaxKey(g, Child(h, x, q))
  BY DEF Renames
<1>3. ASSUME NEW x \in P
      PROVE  /\ Items(h, x) \in Seq(Entry(E)) /\ Items(h, x) # <<>> /\ Inner(h, Items(h, x), S)
             /\ CousinsLinked(h, x)
             /\ Items(g, x) \in Seq(Entry(E)) /\ Items(g, x) # <<>>
  <2>1. Items(h, x) \in Seq(Entry(E)) /\ Items(g, x) \in Seq(Entry(E))
    BY <1>1, HeapNode
  <2>2. Items(h, x) # <<>> /\ Inner(h, Items(h, x), S) /\ CousinsLinked(h, x)
    BY <1>1 DEF Row, RowNode
  <2>3. Items(g, x) # <<>>
    <3>. DEFINE v == Items(h, x)
                w == Items(g, x)
    <3>1. Len(w) = Len(v) /\ v \in Seq(Entry(E)) /\ v # <<>> /\ w \in Seq(Entry(E))
      BY <1>2, <2>1, <2>2
    <3>. HIDE DEF v, w
    <3>2. w # <<>>
      BY <3>1
    <3>. QED
      BY <3>2 DEF w
  <2>. QED
    BY <2>1, <2>2, <2>3
<1>4. ASSUME NEW x \in P
      PROVE  /\ Head(Items(g, x)).data = Head(Items(h, x)).data
             /\ Last(Items(g, x)).data = Last(Items(h, x)).data
             /\ Head(Items(h, x)).data \in S /\ Last(Items(h, x)).data \in S
  <2>. DEFINE v == Items(h, x)
              w == Items(g, x)
  <2>1. /\ v \in Seq(Entry(E)) /\ v # <<>> /\ w \in Seq(Entry(E)) /\ w # <<>> /\ Len(w) = Len(v)
        /\ \A q \in 1 .. Len(v) : w[q].data = v[q].data /\ v[q].data \in S
    <3>1. \A q \in 1 .. Len(v) : v[q].data \in S
      BY <1>3 DEF Inner, ToSet
    <3>. QED
      BY <3>1, <1>2, <1>3 DEF Child
  <2>. HIDE DEF v, w
  <2>2. /\ Head(v) = v[1] /\ Last(v) = v[Len(v)] /\ Head(w) = w[1] /\ Last(w) = w[Len(v)]
        /\ 1 \in 1 .. Len(v) /\ Len(v) \in 1 .. Len(v)
    BY <2>1, Ends
  <2>. QED
    BY <2>1, <2>2 DEF v, w
<1>5. ASSUME NEW x \in P PROVE Inner(g, Items(g, x), S)
  <2>. DEFINE v == Items(h, x)
              w == Items(g, x)
  <2>1. /\ v \in Seq(Entry(E)) /\ w \in Seq(Entry(E)) /\ Len(w) = Len(v)
        /\ \A q \in 1 .. Len(v) : /\ w[q].data = v[q].data /\ v[q].data \in S
                                  /\ w[q].key = MaxKey(g, w[q].data)
        /\ \A q \in 2 .. Len(v) : Adjacent(h, v[q - 1].data, v[q].data)
    <3>1. /\ \A q \in 1 .. Len(v) : v[q].data \in S
          /\ \A q \in 2 .. Len(v) : Adjacent(h, v[q - 1].data, v[q].data)
      BY <1>3 DEF Inner, ToSet, Chain
    <3>. QED
      BY <3>1, <1>2, <1>3 DEF Child
  <2>2. \A y, z \in S : Adjacent(h, y, z) => Adjacent(g, y, z)
    BY <1>2 DEF Adjacent
  <2>. HIDE DEF v, w
  <2>3. \A q \in 2 .. Len(w) : Adjacent(g, w[q - 1].data, w[q].data)
    <3>. SUFFICES ASSUME NEW q \in 2 .. Len(v) PROVE Adjacent(g, w[q - 1].data, w[q].data)
      BY <2>1
    <3>1. q - 1 \in 1 .. Len(v) /\ q \in 1 .. Len(v)
      BY <2>1
    <3>. QED
      BY <3>1, <2>1, <2>2
  <2>4. Inner(g, w, S)
    BY <2>1, <2>3, InnerOf
  <2>. QED
    BY <2>4 DEF w
<1>6. ASSUME NEW x \in P PROVE CousinsLinked(g, x)
  <2>1. CousinsLinked(h, x) /\ g[x].left = h[x].left /\ g[x].right = h[x].right
    BY <1>2, <1>3
  <2>2. h[x].right # None => h[x].right \in P
    BY <1>1, RowLinks
  <2>3. /\ Head(Items(g, x)).data = Head(Items(h, x)).data
        /\ Last(Items(g, x)).data = Last(Items(h, x)).data
        /\ Head(Items(h, x)).data \in S /\ Last(Items(h, x)).data \in S
    BY <1>4
  <2>4. h[x].right # None =>
          /\ Head(Items(g, h[x].right)).data = Head(Items(h, h[x].right)).data
          /\ Head(Items(h, h[x].right)).data \in S
    BY <2>2, <1>4
  <2>. QED
    BY <2>1, <2>3, <2>4, <1>2 DEF CousinsLinked, Adjacent
<1>7. Row(g, P, S)
  BY <1>1, <1>2, <1>3, <1>5, <1>6, UpperRowKept
<1>8. \A x \in P : ~g[x].leaf
  BY <1>1, <1>2
<1>9. \A x, y \in P : \A e \in ToSet(Items(g, x)), f \in ToSet(Items(g, y)) :
        e.data = f.data => x = y
  <2>. SUFFICES ASSUME NEW x \in P, NEW y \in P, NEW e \in ToSet(Items(g, x)),
                       NEW f \in ToSet(Items(g, y)), e.data = f.data
                PROVE  x = y
    OBVIOUS
  <2>1. PICK i \in 1 .. Len(Items(g, x)) : e = Items(g, x)[i]
    BY <1>3 DEF ToSet
  <2>2. PICK j \in 1 .. Len(Items(g, y)) : f = Items(g, y)[j]
    BY <1>3 DEF ToSet
  <2>3. Items(h, x)[i].data = Items(h, y)[j].data
    BY <2>1, <2>2, <1>2 DEF Child
  <2>4. i \in DOMAIN Items(h, x) /\ j \in DOMAIN Items(h, y)
    BY <1>2, <1>3
  <2>. QED
    BY <2>3, <2>4, <1>1, OneParent
<1>10. Distinct(g, P)
  BY <1>7, <1>8, <1>9, DistinctAbove
<1>11. Parented(g, P, S)
  BY <1>1, <1>2 DEF Parented
<1>. QED
  BY <1>7, <1>8, <1>10, <1>11 DEF InnerRow

\* A row that holds what another held has the same children.
LEMMA ChildrenKept ==
  ASSUME NEW E, NEW h \in Seq(BTreeNode(E)), NEW S, NEW D, InnerRow(h, S, D),
         NEW g \in Seq(BTreeNode(E)), NEW T, Row(g, T, D), Distinct(g, T), Held(g, T) = Held(h, S),
         \A x \in T : ~g[x].leaf
  PROVE  InnerRow(g, T, D)
<1>1. ASSUME NEW y \in D
      PROVE  \E x \in T : \E i \in 1 .. Len(Items(g, x)) : Child(g, x, i) = y
  <2>0. PICK x \in S : \E i \in 1 .. Len(Items(h, x)) : Child(h, x, i) = y
    BY DEF InnerRow, Parented
  <2>1. PICK i \in 1 .. Len(Items(h, x)) : Child(h, x, i) = y
    BY <2>0
  <2>. DEFINE e == Items(h, x)[i]
  <2>2. e \in Held(h, S)
    <3>1. Items(h, x) \in Seq(Entry(E))
      BY HeapNode DEF InnerRow, Row
    <3>2. e \in ToSet(Items(h, x))
      BY <3>1 DEF ToSet
    <3>. QED
      BY <3>2 DEF Held
  <2>3. e.data = y
    BY <2>1 DEF Child
  <2>. HIDE DEF e
  <2>4. PICK z \in T : e \in ToSet(Items(g, z))
    BY <2>2 DEF Held
  <2>5. Items(g, z) \in Seq(Entry(E))
    BY HeapNode DEF Row
  <2>6. PICK j \in 1 .. Len(Items(g, z)) : e = Items(g, z)[j]
    BY <2>4, <2>5 DEF ToSet
  <2>. QED
    BY <2>3, <2>6 DEF Child
<1>. QED
  BY <1>1 DEF InnerRow, Parented

\* A node n is another than it was, its neighbours and the other nodes of its row and of the row
\* above are not: then only the key that its parent m has for it is wrong, if anything is.
LEMMA StaleAbove ==
  ASSUME NEW E, NEW h \in Seq(BTreeNode(E)), NEW Q, NEW P, InnerRow(h, Q, P),
         NEW g \in Seq(BTreeNode(E)), DOMAIN h \subseteq DOMAIN g, NEW n \in P, NEW m \in Q,
         NEW q \in 1 .. Len(Items(h, m)), Child(h, m, q) = n,
         \A x \in Q \cup P :
           g[x].left = h[x].left /\ g[x].right = h[x].right /\ g[x].leaf = h[x].leaf,
         \A x \in Q \cup P : x # n => Items(g, x) = Items(h, x),
         NEW T, Row(g, P, T), Distinct(g, P), Q \cap T = {}
  PROVE  StaleAt(g, Q, P, T, m, q)
<1>. DEFINE k == MaxKey(g, n)
            f == Corrected(g, m, q)
<1>1. /\ Row(h, Q, P) /\ Distinct(h, Q) /\ (\A x \in Q : ~h[x].leaf) /\ Parented(h, Q, P)
      /\ Q \subseteq DOMAIN h /\ P \subseteq DOMAIN h /\ Q \cap P = {} /\ m \in DOMAIN h
      /\ m # n /\ m \notin P
  BY DEF InnerRow, Row
<1>2. /\ Items(g, m) = Items(h, m) /\ Child(g, m, q) = n /\ m \in DOMAIN g /\ n \in DOMAIN g
      /\ q \in 1 .. Len(Items(g, m)) /\ m \notin T
  BY <1>1 DEF Child
<1>3. KeysInOrder(g, m)
  BY <1>1, <1>2 DEF Row, RowNode, KeysInOrder
<1>4. Items(g, n) # <<>>
  BY DEF Row, RowNode
<1>5. k \in Nat
  BY <1>2, <1>4, MaxKeyIsNat
<1>6. f = WithNodeKey(g, m, q, k)
  BY <1>2 DEF Corrected
<1>. HIDE DEF k, f
<1>7. f \in Seq(BTreeNode(E)) /\ DifferInKey(g, f, m, q, k)
  BY <1>2, <1>5, <1>6, NodeKeyWritten
<1>8. /\ DOMAIN f = DOMAIN g
      /\ f[m].left = g[m].left /\ f[m].right = g[m].right /\ f[m].leaf = g[m].leaf
      /\ \A x \in DOMAIN g : x # m => f[x] = g[x]
      /\ Len(Items(f, m)) = Len(Items(g, m)) /\ Items(f, m)[q].key = k
      /\ \A j \in 1 .. Len(Items(g, m)) :
           Child(f, m, j) = Child(g, m, j) /\ (j # q => Items(f, m)[j] = Items(g, m)[j])
  BY <1>7 DEF DifferInKey
<1>9. Row(f, P, T) /\ Distinct(f, P)
  <2>1. DOMAIN g \subseteq DOMAIN f
    BY <1>8
  <2>2. P \subseteq DOMAIN g /\ T \subseteq DOMAIN g
    BY DEF Row
  <2>3. \A x \in P \cup T : f[x] = g[x]
    BY <2>2, <1>1, <1>2, <1>8
  <2>. QED
    BY <2>1, <2>3, RowUntouched
<1>10. Renames(h, f, Q, P)
  <2>1. ASSUME NEW x \in Q \cup P
        PROVE  f[x].left = h[x].left /\ f[x].right = h[x].right /\ f[x].leaf = h[x].leaf
    <3>1. x \in DOMAIN g
      BY <1>1
    <3>2. CASE x = m
      BY <3>2, <1>8
    <3>3. CASE x # m
      BY <3>1, <3>3, <1>8
    <3>. QED
      BY <3>2, <3>3
  <2>2. \A y \in P : Items(f, y) = Items(g, y)
    BY <1>1, <1>8 DEF Items
  <2>3. ASSUME NEW x \in Q, x # m
        PROVE  Items(f, x) = Items(h, x)
    <3>1. x \in DOMAIN g /\ f[x] = g[x]
      BY <2>3, <1>1, <1>8
    <3>2. Items(g, x) = Items(h, x)
      BY <1>1
    <3>. QED
      BY <3>1, <3>2 DEF Items
  <2>4. \A x \in Q : Items(h, x) \in Seq(Entry(E))
    BY <1>1, HeapNode
  <2>5. \A x \in Q : \A j \in 1 .. Len(Items(h, x)) :
          Child(h, x, j) \in P /\ Items(h, x)[j].key = MaxKey(h, Child(h, x, j))
    <3>1. \A x \in Q : Inner(h, Items(h, x), P)
      BY <1>1 DEF Row, RowNode
    <3>. QED
      BY <3>1, <2>4 DEF Inner, Exact, ToSet, Child
  <2>6. ASSUME NEW x \in Q, NEW j \in 1 .. Len(Items(h, x)), Child(h, x, j) # n
        PROVE  MaxKey(f, Child(h, x, j)) = MaxKey(h, Child(h, x, j))
    BY <2>2, <2>5, <2>6 DEF MaxKey, Items
  <2>7. ASSUME NEW x \in Q, NEW j \in 1 .. Len(Items(h, x)), Child(h, x, j) = n
        PROVE  x = m /\ j = q
    <3>1. j \in DOMAIN Items(h, x) /\ q \in DOMAIN Items(h, m)
      BY <2>4
    <3>2. Items(h, x)[j].data = Items(h, m)[q].data
      BY <2>7 DEF Child
    <3>3. x = m
      BY <3>1, <3>2, <1>1, OneParent
    <3>4. InOrder(Items(h, m)) /\ Items(h, m)[j].key = Items(h, m)[q].key
      BY <3>3, <2>5, <2>7, <1>1 DEF Row, RowNode, KeysInOrder
    <3>5. j \in 1 .. Len(Items(h, m)) /\ Items(h, m) \in Seq(Entry(E))
      BY <3>3, <2>4
    <3>6. Items(h, m)[j].key \in Nat /\ Items(h, m)[q].key \in Nat
      <4>1. Items(h, m)[j] \in Entry(E) /\ Items(h, m)[q] \in Entry(E)
        BY <3>5
      <4>. QED
        BY <4>1 DEF Entry
    <3>7. ~(j < q) /\ ~(q < j)
      BY <3>4, <3>5, <3>6 DEF InOrder
    <3>. QED
      BY <3>3, <3>5, <3>7
  <2>8. MaxKey(f, n) = k
    BY <2>2 DEF k, MaxKey, Items
  <2>9. ASSUME NEW x \in Q, x # m
        PROVE  /\ Len(Items(f, x)) = Len(Items(h, x))
               /\ \A j \in 1 .. Len(Items(h, x)) :
                    /\ Child(f, x, j) = Child(h, x, j)
                    /\ Items(f, x)[j].key = MaxKey(f, Child(h, x, j))
    BY <2>3, <2>5, <2>6, <2>7, <2>9 DEF Child
  <2>10. /\ Len(Items(f, m)) = Len(Items(h, m))
         /\ \A j \in 1 .. Len(Items(h, m)) :
              /\ Child(f, m, j) = Child(h, m, j)
              /\ Items(f, m)[j].key = MaxKey(f, Child(h, m, j))
    <3>1. /\ Len(Items(f, m)) = Len(Items(h, m))
          /\ \A j \in 1 .. Len(Items(h, m)) : Child(f, m, j) = Child(h, m, j)
      BY <1>2, <1>8 DEF Child
    <3>2. \A j \in 1 .. Len(Items(h, m)) : j # q =>
            Items(f, m)[j].key = MaxKey(f, Child(h, m, j))
      BY <1>2, <1>8, <2>5, <2>6, <2>7
    <3>. QED
      BY <3>1, <3>2, <2>8, <1>8
  <2>11. /\ \A x \in Q : Len(Items(f, x)) = Len(Items(h, x))
         /\ \A x \in Q : \A j \in 1 .. Len(Items(h, x)) :
              Child(f, x, j) = Child(h, x, j) /\ Items(f, x)[j].key = MaxKey(f, Child(h, x, j))
    BY <2>9, <2>10
  <2>. QED
    BY <2>1, <2>11 DEF Renames
<1>11. InnerRow(f, Q, P)
  <2>1. DOMAIN h \subseteq DOMAIN f
    BY <1>8
  <2>. QED
    BY <2>1, <1>7, <1>9, <1>10, RowRenamed
<1>12. Levels(f, Q, P, T)
  BY <1>9, <1>11 DEF InnerRow, Levels
<1>. QED
  BY <1>2, <1>3, <1>4, <1>12 DEF StaleAt, f

-----------------------------------------------------------------------------
(* A step at one node, in the row it is in. *)

\* The row under row k, if it has one.
Beneath(L, k) == IF k < Len(L) THEN L[k + 1] ELSE {}

\* All of the tree is right, the key of item i of node n in row k excepted.
TreeBut(h, L, k, n, i) ==
  /\ k \in 1 .. Len(L) - 1 /\ Apart(L)
  /\ \A j \in 1 .. Len(L) : j # k => RowRight(h, L, j)
  /\ StaleAt(h, L[k], L[k + 1], Beneath(L, k + 1), n, i)

\* All of the tree is right, but the key that the parent of node n of row k has for it.
KeyChanged(h, L, k, n) ==
  /\ n \in L[k]
  /\ k = 1 => TreeRight(h, L)
  /\ k # 1 => /\ Parented(h, L[k - 1], {n})
              /\ \A m \in L[k - 1] : \A q \in 1 .. Len(Items(h, m)) :
                   Child(h, m, q) = n => TreeBut(h, L, k - 1, m, q)

\* The rows M are the rows L but for row k.
RowReplaced(L, M, k, T) ==
  /\ Len(M) = Len(L) /\ M[k] = T
  /\ \A j \in 1 .. Len(L) : j # k => M[j] = L[j]

\* What a row that is right has in it.
LEMMA RightRow ==
  ASSUME NEW h, NEW L, NEW j, RowRight(h, L, j)
  PROVE  /\ Row(h, L[j], Beneath(L, j)) /\ Distinct(h, L[j]) /\ L[j] \subseteq DOMAIN h
         /\ j < Len(L) => InnerRow(h, L[j], L[j + 1])
         /\ Beneath(L, j) \subseteq DOMAIN h
<1>1. Row(h, L[j], Beneath(L, j)) /\ Distinct(h, L[j])
  BY DEF RowRight, InnerRow, Beneath
<1>. QED
  BY <1>1 DEF RowRight, Row

\* A row of nodes nobody writes, nor their children, stays right.
LEMMA RightRowUntouched ==
  ASSUME NEW E, NEW h \in Seq(BTreeNode(E)), NEW L, NEW j, RowRight(h, L, j),
         NEW g, DOMAIN h \subseteq DOMAIN g, NEW M, M[j] = L[j], j < Len(M) <=> j < Len(L),
         j < Len(L) => M[j + 1] = L[j + 1],
         \A x \in L[j] : g[x] = h[x],
         j < Len(L) => \A x \in L[j + 1] : g[x] = h[x]
  PROVE  RowRight(g, M, j)
<1>1. CASE j < Len(L)
  <2>1. InnerRow(h, L[j], L[j + 1])
    BY <1>1 DEF RowRight
  <2>2. \A x \in L[j] \cup L[j + 1] : g[x] = h[x]
    BY <1>1
  <2>3. InnerRow(g, L[j], L[j + 1])
    BY <2>1, <2>2, InnerRowUntouched
  <2>. QED
    BY <2>3, <1>1 DEF RowRight
<1>2. CASE ~(j < Len(L))
  <2>1. Row(h, L[j], {}) /\ Distinct(h, L[j])
    BY <1>2 DEF RowRight
  <2>2. \A x \in L[j] \cup {} : g[x] = h[x]
    OBVIOUS
  <2>3. Row(g, L[j], {}) /\ Distinct(g, L[j])
    BY <2>1, <2>2, RowUntouched
  <2>. QED
    BY <2>3, <1>2 DEF RowRight
<1>. QED
  BY <1>1, <1>2

\* When two rows are right again, and no node of another row is written, what may be wrong is
\* one row further up.
LEMMA TreeClimbs ==
  ASSUME NEW E, NEW h \in Seq(BTreeNode(E)), NEW L \in Seq(SUBSET Nat), NEW k, NEW n, NEW i,
         TreeBut(h, L, k, n, i),
         NEW g \in Seq(BTreeNode(E)), DOMAIN h \subseteq DOMAIN g, NEW T,
         Levels(g, L[k], T, Beneath(L, k + 1)), Held(g, T) = Held(h, L[k + 1]),
         \A x \in T : x \in L[k + 1] \/ x \notin DOMAIN h,
         \A x \in T : \E y \in L[k + 1] : g[x].leaf = h[y].leaf,
         KindsSame(h, g, n), \A x \in DOMAIN h : x \notin L[k + 1] \cup {n} => g[x] = h[x],
         NEW M \in Seq(SUBSET Nat), RowReplaced(L, M, k + 1, T)
  PROVE  KeyChanged(g, M, k, n)
<1>. DEFINE P == L[k]
            S == L[k + 1]
            D == Beneath(L, k + 1)
<1>1. /\ k \in 1 .. Len(L) - 1 /\ k + 1 \in 1 .. Len(L) /\ k \in 1 .. Len(L) /\ Len(L) \in Nat
      /\ \A j \in 1 .. Len(L) : j # k => RowRight(h, L, j)
      /\ \A j, l \in 1 .. Len(L) : j # l => L[j] \cap L[l] = {}
      /\ StaleAt(h, P, S, D, n, i)
  BY DEF TreeBut, Apart
<1>2. /\ Len(M) = Len(L) /\ M[k + 1] = T /\ M[k] = P
      /\ \A j \in 1 .. Len(L) : j # k + 1 => M[j] = L[j]
  BY <1>1 DEF RowReplaced
<1>3. P \subseteq DOMAIN h /\ n \in P
  BY <1>1, StaleChildren
<1>4. \A j \in 1 .. Len(L) : L[j] \subseteq DOMAIN h
  <2>. SUFFICES ASSUME NEW j \in 1 .. Len(L) PROVE L[j] \subseteq DOMAIN h
    OBVIOUS
  <2>1. CASE j = k
    BY <2>1, <1>3
  <2>2. CASE j # k
    BY <2>2, <1>1, RightRow
  <2>. QED
    BY <2>1, <2>2
<1>. HIDE DEF P, S, D
<1>5. Apart(M)
  <2>1. \A j \in 1 .. Len(L) : j # k + 1 => M[j] \cap T = {}
    <3>. SUFFICES ASSUME NEW j \in 1 .. Len(L), j # k + 1, NEW x \in L[j], x \in T
                  PROVE  FALSE
      BY <1>2
    <3>1. x \in DOMAIN h
      BY <1>4
    <3>2. x \in L[k + 1]
      BY <3>1 DEF S
    <3>. QED
      BY <3>2, <1>1
  <2>2. \A j, l \in 1 .. Len(L) : j # l => M[j] \cap M[l] = {}
    BY <2>1, <1>1, <1>2
  <2>. QED
    BY <2>2, <1>2 DEF Apart
<1>6. /\ Row(g, P, T) /\ Row(g, T, D) /\ Distinct(g, P) /\ Distinct(g, T)
      /\ InnerRow(g, P, T)
  BY DEF Levels, InnerRow, P, D
<1>7. RowRight(g, M, k)
  BY <1>1, <1>2, <1>6 DEF RowRight
<1>8. RowRight(g, M, k + 1)
  <2>1. CASE k + 1 < Len(L)
    <3>1. InnerRow(h, S, D)
      <4>1. RowRight(h, L, k + 1)
        BY <1>1
      <4>. QED
        BY <4>1, <2>1, RightRow DEF S, D, Beneath
    <3>2. \A x \in T : ~g[x].leaf
      BY <3>1 DEF InnerRow, S
    <3>3. Held(g, T) = Held(h, S)
      BY DEF S
    <3>4. InnerRow(g, T, D)
      BY <3>1, <3>2, <3>3, <1>6, ChildrenKept
    <3>5. M[k + 2] = D /\ M[(k + 1) + 1] = D
      BY <2>1, <1>1, <1>2 DEF D, Beneath
    <3>. QED
      BY <3>4, <3>5, <2>1, <1>2 DEF RowRight
  <2>2. CASE ~(k + 1 < Len(L))
    <3>1. D = {}
      BY <2>2 DEF D, Beneath
    <3>. QED
      BY <3>1, <2>2, <1>2, <1>6 DEF RowRight
  <2>. QED
    BY <2>1, <2>2
<1>9. ASSUME NEW j \in 1 .. Len(L), j # k, NEW x \in L[j], j # k + 1
      PROVE  g[x] = h[x]
  <2>1. x \in DOMAIN h
    BY <1>4
  <2>2. x \notin L[k] /\ x \notin L[k + 1]
    BY <1>1, <1>9
  <2>. QED
    BY <2>1, <2>2, <1>3 DEF P
<1>10. ASSUME NEW j \in 1 .. Len(L), j # k, j # k + 1, j + 1 # k
       PROVE  RowRight(g, M, j)
  <2>1. RowRight(h, L, j) /\ M[j] = L[j] /\ (j < Len(M) <=> j < Len(L))
    BY <1>1, <1>2, <1>10
  <2>2. \A x \in L[j] : g[x] = h[x]
    BY <1>9, <1>10
  <2>3. ASSUME j < Len(L)
        PROVE  M[j + 1] = L[j + 1] /\ \A x \in L[j + 1] : g[x] = h[x]
    <3>1. j + 1 \in 1 .. Len(L) /\ j + 1 # k /\ j + 1 # k + 1
      BY <2>3, <1>1, <1>10
    <3>. QED
      BY <3>1, <1>2, <1>9
  <2>. QED
    BY <2>1, <2>2, <2>3, RightRowUntouched
<1>11. CASE k = 1
  <2>1. \A j \in 1 .. Len(M) : RowRight(g, M, j)
    BY <1>11, <1>1, <1>2, <1>7, <1>8, <1>10
  <2>2. M # <<>>
    BY <1>1, <1>2
  <2>. QED
    BY <2>1, <2>2, <1>2, <1>3, <1>5, <1>11 DEF KeyChanged, TreeRight
<1>12. CASE k # 1
  <2>. DEFINE Q == L[k - 1]
  <2>1. k - 1 \in 1 .. Len(L) /\ k - 1 # k /\ k - 1 # k + 1 /\ (k - 1) + 1 = k /\ k - 1 < Len(L)
    BY <1>1, <1>12
  <2>2. M[k - 1] = Q
    BY <2>1, <1>2
  <2>3. InnerRow(h, Q, P)
    BY <2>1, <1>1, RightRow DEF P
  <2>4. \A x \in Q : g[x] = h[x]
    BY <2>1, <1>9
  <2>. HIDE DEF Q
  <2>5. /\ \A x \in Q \cup P :
             g[x].left = h[x].left /\ g[x].right = h[x].right /\ g[x].leaf = h[x].leaf
        /\ \A x \in Q \cup P : x # n => Items(g, x) = Items(h, x)
    <3>1. \A x \in P : x # n => g[x] = h[x]
      <4>. SUFFICES ASSUME NEW x \in P, x # n PROVE g[x] = h[x]
        OBVIOUS
      <4>1. x \in DOMAIN h /\ x \notin L[k + 1]
        BY <1>1, <1>3 DEF P
      <4>. QED
        BY <4>1
    <3>2. g[n].left = h[n].left /\ g[n].right = h[n].right /\ g[n].leaf = h[n].leaf
      BY <1>3 DEF KindsSame
    <3>. QED
      BY <3>1, <3>2, <2>4 DEF Items
  <2>6. Q \cap T = {}
    <3>1. M[k - 1] \cap M[k + 1] = {}
      BY <1>1, <1>2, <1>5, <2>1 DEF Apart
    <3>. QED
      BY <3>1, <2>2, <1>2
  <2>7. ASSUME NEW m \in Q, NEW q \in 1 .. Len(Items(g, m)), Child(g, m, q) = n
        PROVE  TreeBut(g, M, k - 1, m, q)
    <3>1. q \in 1 .. Len(Items(h, m)) /\ Child(h, m, q) = n
      BY <2>4, <2>7 DEF Items, Child
    <3>2. StaleAt(g, Q, P, T, m, q)
      BY <3>1, <2>3, <2>5, <2>6, <1>3, <1>6, StaleAbove
    <3>3. M[k - 1] = Q /\ M[(k - 1) + 1] = P /\ Beneath(M, (k - 1) + 1) = T
      BY <2>1, <2>2, <1>1, <1>2 DEF Beneath
    <3>4. \A j \in 1 .. Len(M) : j # k - 1 => RowRight(g, M, j)
      <4>. SUFFICES ASSUME NEW j \in 1 .. Len(L), j # k - 1 PROVE RowRight(g, M, j)
        BY <1>2
      <4>1. j = k \/ j = k + 1 \/ (j # k /\ j # k + 1 /\ j + 1 # k)
        BY <1>1
      <4>. QED
        BY <4>1, <1>7, <1>8, <1>10
    <3>5. k - 1 \in 1 .. Len(M) - 1
      BY <1>1, <1>2, <1>12
    <3>. QED
      BY <3>2, <3>3, <3>4, <3>5, <1>5 DEF TreeBut
  <2>8. Parented(g, Q, {n})
    <3>1. PICK x \in Q : \E j \in 1 .. Len(Items(h, x)) : Child(h, x, j) = n
      BY <2>3, <1>3 DEF InnerRow, Parented
    <3>2. \E j \in 1 .. Len(Items(g, x)) : Child(g, x, j) = n
      BY <3>1, <2>4 DEF Items, Child
    <3>. QED
      BY <3>2 DEF Parented
  <2>9. n \in M[k]
    BY <1>2, <1>3
  <2>. QED
    BY <2>2, <2>7, <2>8, <2>9, <1>12 DEF KeyChanged
<1>. QED
  BY <1>11, <1>12

\* What the leaves of the tree hold: the records.
Records(h, L) == Held(h, L[Len(L)])

\* The records are kept when a row is written that keeps what it holds.
LEMMA RecordsKept ==
  ASSUME NEW E, NEW h \in Seq(BTreeNode(E)), NEW L \in Seq(SUBSET Nat), NEW k, NEW n, NEW i,
         TreeBut(h, L, k, n, i), NEW g, NEW T, Held(g, T) = Held(h, L[k + 1]),
         \A x \in DOMAIN h : x \notin L[k + 1] \cup {n} => g[x] = h[x],
         NEW M \in Seq(SUBSET Nat), RowReplaced(L, M, k + 1, T)
  PROVE  Records(g, M) = Records(h, L)
<1>1. /\ k \in 1 .. Len(L) - 1 /\ Len(L) \in Nat
      /\ \A j \in 1 .. Len(L) : j # k => RowRight(h, L, j)
      /\ \A j, l \in 1 .. Len(L) : j # l => L[j] \cap L[l] = {}
      /\ StaleAt(h, L[k], L[k + 1], Beneath(L, k + 1), n, i)
  BY DEF TreeBut, Apart
<1>2. n \in L[k]
  BY <1>1 DEF StaleAt
<1>3. /\ Len(M) = Len(L) /\ M[k + 1] = T
      /\ \A j \in 1 .. Len(L) : j # k + 1 => M[j] = L[j]
  BY DEF RowReplaced
<1>4. CASE Len(L) = k + 1
  BY <1>3, <1>4 DEF Records
<1>5. CASE Len(L) # k + 1
  <2>. DEFINE e == Len(L)
  <2>1. e \in 1 .. Len(L) /\ e # k /\ e # k + 1 /\ k \in 1 .. Len(L) /\ k + 1 \in 1 .. Len(L)
    BY <1>1, <1>5
  <2>2. M[e] = L[e] /\ Len(M) = e
    BY <2>1, <1>3
  <2>3. L[e] \subseteq DOMAIN h
    BY <2>1, <1>1, RightRow
  <2>4. L[e] \cap L[k] = {} /\ L[e] \cap L[k + 1] = {}
    BY <2>1, <1>1
  <2>. HIDE DEF e
  <2>5. \A x \in L[e] : g[x] = h[x]
    BY <2>3, <2>4, <1>2
  <2>6. Held(g, L[e]) = Held(h, L[e])
    BY <2>5 DEF Held, Items
  <2>. QED
    BY <2>2, <2>6 DEF Records, e
<1>. QED
  BY <1>4, <1>5

\* Every node under the root has as many items as it may have, but node c of row k, which has lost
\* one.
LoadsButLess(h, L, k, c) ==
  \A j \in 2 .. Len(L) : IF j = k THEN LoadsAfterLoss(h, L[j], c) ELSE LoadsRight(h, L[j])

\* No node of S has too few items or too many, but node c, which has got one.
LoadsAfterGain(h, S, c) ==
  /\ \A x \in S : Size(h, x) >= MinLoad /\ (x # c => Size(h, x) <= MaxLoad)
  /\ Size(h, c) <= MaxLoad + 1

\* Every node under the root has as many items as it may have, but node c of row k, which has got
\* one.
LoadsButMore(h, L, k, c) ==
  \A j \in 2 .. Len(L) : IF j = k THEN LoadsAfterGain(h, L[j], c) ELSE LoadsRight(h, L[j])

\* The loads of the other rows after a row and one node above it were written.
LEMMA LoadsKept ==
  ASSUME NEW E, NEW h \in Seq(BTreeNode(E)), NEW L \in Seq(SUBSET Nat), NEW k, NEW n, NEW i,
         TreeBut(h, L, k, n, i), NEW g,
         \A x \in DOMAIN h : x \notin L[k + 1] \cup {n} => g[x] = h[x],
         NEW j \in 2 .. Len(L), j # k + 1
  PROVE  /\ \A x \in L[j] : x # n => Size(g, x) = Size(h, x)
         /\ j # k => \A x \in L[j] : x # n
<1>1. /\ k \in 1 .. Len(L) - 1 /\ Len(L) \in Nat /\ k \in 1 .. Len(L)
      /\ k + 1 \in 1 .. Len(L) /\ j \in 1 .. Len(L)
      /\ \A l \in 1 .. Len(L) : l # k => RowRight(h, L, l)
      /\ \A l, p \in 1 .. Len(L) : l # p => L[l] \cap L[p] = {}
      /\ StaleAt(h, L[k], L[k + 1], Beneath(L, k + 1), n, i)
  BY DEF TreeBut, Apart
<1>2. n \in L[k] /\ L[k] \subseteq DOMAIN h
  BY <1>1, StaleChildren
<1>3. L[j] \subseteq DOMAIN h
  BY <1>1, <1>2, RightRow
<1>4. L[j] \cap L[k + 1] = {} /\ (j # k => n \notin L[j])
  BY <1>1, <1>2
<1>5. \A x \in L[j] : x # n => g[x] = h[x]
  BY <1>3, <1>4
<1>. QED
  BY <1>4, <1>5 DEF Size

\* Rebalance in a tree of any height, at any row of it: the row of node n's children is right
\* again, with loads in bounds, every row further down and every other row further up stays as it
\* was, no record is lost or doubled, and what may be wrong now is at most the key that the
\* parent of n has for it and n's load, one item too low: what the next call of rebalance, in
\* that parent, starts from.  In the root nothing is wrong any more.
THEOREM RebalanceKeepsTree ==
  ASSUME NEW E, NEW h \in Seq(BTreeNode(E)), NEW L \in Seq(SUBSET Nat), NEW k, NEW n, NEW i,
         TreeBut(h, L, k, n, i), Size(h, n) >= 2, LoadsButLess(h, L, k + 1, Child(h, n, i)),
         NEW gone
  PROVE  LET r == Rebalance(h, n, i, Child(h, n, i), gone)
             g == r.heap
         IN /\ r.status \in {"OK", "REMOVED"} /\ r.gone = gone
            /\ g \in Seq(BTreeNode(E)) /\ DOMAIN g = DOMAIN h
            /\ \E M \in Seq(SUBSET Nat) :
                 /\ \E T \in SUBSET L[k + 1] : RowReplaced(L, M, k + 1, T)
                 /\ KeyChanged(g, M, k, n) /\ LoadsButLess(g, M, k, n)
                 /\ Records(g, M) = Records(h, L)
            /\ Size(g, n) = Size(h, n) \/ (Size(g, n) = Size(h, n) - 1 /\ r.status = "REMOVED")
            /\ \A x \in DOMAIN h : x \notin L[k + 1] /\ x # n => g[x] = h[x]
<1>. DEFINE c == Child(h, n, i)
            r == Rebalance(h, n, i, c, gone)
            g == r.heap
            S == L[k + 1]
<1>1. /\ k \in 1 .. Len(L) - 1 /\ Len(L) \in Nat /\ k + 1 \in 2 .. Len(L)
      /\ StaleAt(h, L[k], S, Beneath(L, k + 1), n, i)
  BY DEF TreeBut
<1>2. LoadsAfterLoss(h, S, c)
  BY <1>1 DEF LoadsButLess
<1>3. /\ r.status \in {"OK", "REMOVED"} /\ r.gone = gone
      /\ g \in Seq(BTreeNode(E)) /\ DOMAIN g = DOMAIN h /\ KindsSame(h, g, n)
      /\ \E T \in SUBSET S : Levels(g, L[k], T, Beneath(L, k + 1)) /\ Held(g, T) = Held(h, S)
                             /\ LoadsRight(g, T)
      /\ Size(g, n) = Size(h, n) \/ (Size(g, n) = Size(h, n) - 1 /\ r.status = "REMOVED")
      /\ \A x \in DOMAIN h : x \notin S \cup {n} => g[x] = h[x]
  <2>. HIDE DEF S
  <2>. QED
    BY <1>1, <1>2, RebalanceRepairs
<1>. HIDE DEF r, g, c
<1>4. PICK T \in SUBSET S :
        /\ Levels(g, L[k], T, Beneath(L, k + 1)) /\ Held(g, T) = Held(h, S) /\ LoadsRight(g, T)
  BY <1>3
<1>. DEFINE M == [L EXCEPT ![k + 1] = T]
<1>5. M \in Seq(SUBSET Nat) /\ RowReplaced(L, M, k + 1, T)
  <2>1. k + 1 \in 1 .. Len(L) /\ T \in SUBSET Nat
    BY <1>1, <1>4
  <2>. QED
    BY <2>1 DEF RowReplaced
<1>. HIDE DEF M
<1>6. KeyChanged(g, M, k, n)
  <2>1. S \subseteq DOMAIN h
    BY <1>1, StaleChildren
  <2>2. \A x \in T : g[x].leaf = h[x].leaf
    BY <2>1, <1>3, <1>4 DEF KindsSame
  <2>3. \A x \in T : x \in L[k + 1] /\ \E y \in L[k + 1] : g[x].leaf = h[y].leaf
    BY <2>2, <1>4
  <2>4. DOMAIN h \subseteq DOMAIN g
    BY <1>3
  <2>. QED
    BY <2>3, <2>4, <1>3, <1>4, <1>5, TreeClimbs
<1>7. Records(g, M) = Records(h, L)
  BY <1>3, <1>4, <1>5, RecordsKept
<1>8. LoadsButLess(g, M, k, n)
  <2>1. /\ Len(M) = Len(L) /\ M[k + 1] = T
        /\ \A j \in 1 .. Len(L) : j # k + 1 => M[j] = L[j]
    BY <1>5 DEF RowReplaced
  <2>. SUFFICES ASSUME NEW j \in 2 .. Len(L)
                PROVE  IF j = k THEN LoadsAfterLoss(g, M[j], n) ELSE LoadsRight(g, M[j])
    BY <2>1 DEF LoadsButLess
  <2>2. CASE j = k + 1
    BY <2>2, <2>1, <1>1, <1>4
  <2>3. CASE j # k + 1
    <3>1. M[j] = L[j] /\ LoadsRight(h, L[j])
      BY <2>1, <2>3 DEF LoadsButLess
    <3>2. /\ \A x \in L[j] : x # n => Size(g, x) = Size(h, x)
          /\ j # k => \A x \in L[j] : x # n
      BY <1>3, <2>3, LoadsKept
    <3>3. CASE j # k
      BY <3>1, <3>2, <3>3 DEF LoadsRight
    <3>4. CASE j = k
      <4>1. n \in L[k] /\ n \in DOMAIN h
        BY <1>1 DEF StaleAt
      <4>2. Size(h, n) \in Nat
        BY <4>1, HeapNode
      <4>3. MaxLoad \in Nat /\ MinLoad \in Nat
        BY LoadAssumption DEF MinLoad
      <4>4. Size(h, n) <= MaxLoad /\ Size(h, n) >= MinLoad
        BY <3>1, <3>4, <4>1 DEF LoadsRight
      <4>5. Size(g, n) <= MaxLoad /\ Size(g, n) >= MinLoad - 1
        BY <4>2, <4>3, <4>4, <1>3
      <4>6. \A x \in L[j] : /\ Size(g, x) <= MaxLoad
                            /\ x # n => Size(g, x) >= MinLoad
        BY <3>1, <3>2, <4>5 DEF LoadsRight
      <4>. QED
        BY <3>1, <3>4, <4>5, <4>6 DEF LoadsAfterLoss
    <3>. QED
      BY <3>3, <3>4
  <2>. QED
    BY <2>2, <2>3
<1>9. \E T2 \in SUBSET L[k + 1] : RowReplaced(L, M, k + 1, T2)
  BY <1>4, <1>5
<1>. QED
  BY <1>3, <1>5, <1>6, <1>7, <1>8, <1>9 DEF r, g, c

\* What a heap is whose node n was given the key of its child i anew.
LEMMA KeyedFacts ==
  ASSUME NEW E, NEW h \in Seq(BTreeNode(E)), NEW P, NEW S, NEW D, NEW n, NEW i,
         StaleAt(h, P, S, D, n, i), NEW g, g = Keyed(h, n, i, Child(h, n, i))
  PROVE  /\ g \in Seq(BTreeNode(E)) /\ Len(g) = Len(h) /\ DOMAIN g = DOMAIN h
         /\ Levels(g, P, S, D) /\ KindsSame(h, g, n) /\ Held(g, S) = Held(h, S)
         /\ \A x \in DOMAIN h : x # n => g[x] = h[x]
         /\ Len(Items(g, n)) = Len(Items(h, n)) /\ i \in 1 .. Len(Items(g, n))
         /\ Child(g, n, i) = Child(h, n, i) /\ n \notin S
<1>. DEFINE k == MaxKey(h, Child(h, n, i))
            f == Corrected(h, n, i)
<1>1. n \in DOMAIN h /\ i \in 1 .. Len(Items(h, n))
  BY DEF StaleAt
<1>2. g = f
  BY <1>1, OneKeyWritten DEF Corrected
<1>3. f \in Seq(BTreeNode(E)) /\ Levels(f, P, S, D) /\ DifferInKey(h, f, n, i, k)
  BY StaleFacts
<1>4. n \in P /\ P \cap S = {} /\ S \subseteq DOMAIN h
  BY StaleChildren
<1>. HIDE DEF k, f
<1>5. /\ Len(g) = Len(h) /\ DOMAIN g = DOMAIN h
      /\ g[n].left = h[n].left /\ g[n].right = h[n].right /\ g[n].leaf = h[n].leaf
      /\ \A x \in DOMAIN h : x # n => g[x] = h[x]
      /\ Len(Items(g, n)) = Len(Items(h, n))
      /\ Child(g, n, i) = Child(h, n, i)
  BY <1>1, <1>2, <1>3 DEF DifferInKey
<1>6. Held(g, S) = Held(h, S)
  BY <1>4, <1>5 DEF Held, Items
<1>7. KindsSame(h, g, n)
  BY <1>5 DEF KindsSame
<1>. QED
  BY <1>1, <1>2, <1>3, <1>4, <1>5, <1>6, <1>7

\* Where no child is too full or too empty, the key of the child is all that is written, on the
\* way down as on the way up: then what may be wrong is the key that the parent of n has for it
\* (internalAddData and, after "OK", internalRemoveData).
THEOREM KeyKeepsTree ==
  ASSUME NEW E, NEW h \in Seq(BTreeNode(E)), NEW L \in Seq(SUBSET Nat), NEW k, NEW n, NEW i,
         TreeBut(h, L, k, n, i)
  PROVE  LET g == Keyed(h, n, i, Child(h, n, i))
         IN /\ g \in Seq(BTreeNode(E)) /\ Len(g) = Len(h)
            /\ KeyChanged(g, L, k, n) /\ Records(g, L) = Records(h, L)
            /\ \A x \in DOMAIN h : Size(g, x) = Size(h, x)
            /\ \A x \in DOMAIN h : x # n => g[x] = h[x]
<1>. DEFINE g == Keyed(h, n, i, Child(h, n, i))
            S == L[k + 1]
            D == Beneath(L, k + 1)
<1>1. /\ k \in 1 .. Len(L) - 1 /\ Len(L) \in Nat
      /\ StaleAt(h, L[k], S, D, n, i)
  BY DEF TreeBut
<1>2. /\ g \in Seq(BTreeNode(E)) /\ Len(g) = Len(h) /\ DOMAIN g = DOMAIN h
      /\ Levels(g, L[k], S, D) /\ KindsSame(h, g, n) /\ Held(g, S) = Held(h, S)
      /\ \A x \in DOMAIN h : x # n => g[x] = h[x]
      /\ Len(Items(g, n)) = Len(Items(h, n))
  <2>. HIDE DEF S, D
  <2>1. /\ g \in Seq(BTreeNode(E)) /\ Len(g) = Len(h) /\ DOMAIN g = DOMAIN h
        /\ Levels(g, L[k], S, D)
    BY <1>1, KeyedFacts
  <2>2. KindsSame(h, g, n) /\ Held(g, S) = Held(h, S)
    BY <1>1, KeyedFacts
  <2>3. /\ \A x \in DOMAIN h : x # n => g[x] = h[x]
        /\ Len(Items(g, n)) = Len(Items(h, n))
    BY <1>1, KeyedFacts
  <2>. QED
    BY <2>1, <2>2, <2>3
<1>3. S \subseteq DOMAIN h
  BY <1>1, StaleChildren
<1>. HIDE DEF g
<1>4. RowReplaced(L, L, k + 1, S)
  BY DEF RowReplaced
<1>5. KeyChanged(g, L, k, n)
  <2>1. \A x \in S : x \in L[k + 1] /\ \E y \in L[k + 1] : g[x].leaf = h[y].leaf
    BY <1>2, <1>3 DEF KindsSame
  <2>. QED
    BY <2>1, <1>2, <1>4, TreeClimbs
<1>6. Records(g, L) = Records(h, L)
  <2>1. Held(g, S) = Held(h, L[k + 1])
    BY <1>2
  <2>2. \A x \in DOMAIN h : x \notin L[k + 1] \cup {n} => g[x] = h[x]
    BY <1>2
  <2>. HIDE DEF S
  <2>. QED
    BY <2>1, <2>2, <1>4, RecordsKept
<1>7. \A x \in DOMAIN h : Size(g, x) = Size(h, x)
  BY <1>2 DEF Size, Items
<1>. QED
  BY <1>2, <1>5, <1>6, <1>7 DEF g

\* The split of child i of node n, once the key of the child was set.
KeyedAndSplit(h, n, i) == SplitChild(Keyed(h, n, i, Child(h, n, i)), n, i)

\* SplitChild in a tree of any height, at any row of it, after the item was added below and the
\* key of the child set: the row of node n's children has the new node and is right again, with
\* loads in bounds, no record is lost or doubled, and what may be wrong now is at most the key
\* that the parent of n has for it and n's load, one item too high: what internalAddData looks
\* at next, in that parent.
THEOREM SplitKeepsTree ==
  ASSUME NEW E, NEW h \in Seq(BTreeNode(E)), NEW L \in Seq(SUBSET Nat), NEW k, NEW n, NEW i,
         TreeBut(h, L, k, n, i), TooFull(h, Child(h, n, i)), NextName(h) \in E,
         LoadsButMore(h, L, k + 1, Child(h, n, i))
  PROVE  LET g == KeyedAndSplit(h, n, i)
         IN /\ g \in Seq(BTreeNode(E)) /\ DOMAIN g = WithNext(h, DOMAIN h)
            /\ \E M \in Seq(SUBSET Nat) :
                 /\ RowReplaced(L, M, k + 1, WithNext(h, L[k + 1]))
                 /\ KeyChanged(g, M, k, n) /\ LoadsButMore(g, M, k, n)
                 /\ Records(g, M) = Records(h, L)
            /\ Size(g, n) = Size(h, n) + 1
            /\ \A x \in DOMAIN h : x \notin L[k + 1] /\ x # n => g[x] = h[x]
<1>. DEFINE c == Child(h, n, i)
            s == NextName(h)
            h1 == Keyed(h, n, i, c)
            g == SplitChild(h1, n, i)
            S == L[k + 1]
            D == Beneath(L, k + 1)
            T == WithNext(h, S)
            M == [L EXCEPT ![k + 1] = WithNext(h, @)]
<1>1. /\ k \in 1 .. Len(L) - 1 /\ Len(L) \in Nat /\ k + 1 \in 2 .. Len(L)
      /\ StaleAt(h, L[k], S, D, n, i)
  BY DEF TreeBut
<1>2. /\ h1 \in Seq(BTreeNode(E)) /\ Len(h1) = Len(h) /\ DOMAIN h1 = DOMAIN h
      /\ Levels(h1, L[k], S, D) /\ KindsSame(h, h1, n) /\ Held(h1, S) = Held(h, S)
      /\ \A x \in DOMAIN h : x # n => h1[x] = h[x]
      /\ Len(Items(h1, n)) = Len(Items(h, n)) /\ i \in 1 .. Len(Items(h1, n))
      /\ Child(h1, n, i) = c /\ n \notin S
  <2>. HIDE DEF S, D
  <2>1. /\ h1 \in Seq(BTreeNode(E)) /\ Len(h1) = Len(h) /\ DOMAIN h1 = DOMAIN h
        /\ Levels(h1, L[k], S, D)
    BY <1>1, KeyedFacts
  <2>2. KindsSame(h, h1, n) /\ Held(h1, S) = Held(h, S) /\ n \notin S
    BY <1>1, KeyedFacts
  <2>3. /\ \A x \in DOMAIN h : x # n => h1[x] = h[x]
        /\ Len(Items(h1, n)) = Len(Items(h, n)) /\ i \in 1 .. Len(Items(h1, n))
        /\ Child(h1, n, i) = c
    BY <1>1, KeyedFacts
  <2>. QED
    BY <2>1, <2>2, <2>3
<1>3. /\ S \subseteq DOMAIN h /\ n \in L[k] /\ n \in DOMAIN h /\ c \in S
  <2>1. S \subseteq DOMAIN h /\ n \in L[k] /\ n \in DOMAIN h
    BY <1>1, StaleChildren
  <2>2. c \in S
    <3>. DEFINE d == Child(h1, n, i)
    <3>1. h1 \in Seq(BTreeNode(E)) /\ Levels(h1, L[k], S, D) /\ i \in 1 .. Len(Items(h1, n))
      BY <1>2
    <3>2. d = c
      BY <1>2
    <3>3. d \in S
      <4>. HIDE DEF h1, S, D
      <4>. QED
        BY <2>1, <3>1, LevelChildren
    <3>. HIDE DEF d, c
    <3>. QED
      BY <3>2, <3>3
  <2>. QED
    BY <2>1, <2>2
<1>. HIDE DEF h1
<1>4. FullAt(h1, L[k], S, D, n, i) /\ NextName(h1) = s /\ NextName(h1) \in E
  <2>1. TooFull(h1, c)
    BY <1>2, <1>3 DEF TooFull, Size
  <2>2. TooFull(h1, Child(h1, n, i))
    BY <2>1, <1>2
  <2>3. NextName(h1) = s
    BY <1>2 DEF NextName
  <2>. QED
    BY <2>2, <2>3, <1>2, <1>3 DEF FullAt
<1>5. /\ g \in Seq(BTreeNode(E)) /\ DOMAIN g = WithNext(h, DOMAIN h) /\ s \notin DOMAIN h
      /\ Levels(g, L[k], T, D) /\ Held(g, T) = Held(h1, S)
      /\ Size(g, c) = MinLoad /\ Size(g, s) = MinLoad + 1 /\ Size(g, n) = Size(h1, n) + 1
      /\ \A x \in S : x # c => Items(g, x) = Items(h1, x)
      /\ KindsSame(h1, g, n) /\ g[s].leaf = h1[c].leaf
      /\ \A x \in DOMAIN h1 : x \notin S \cup {n} => g[x] = h1[x]
  <2>. DEFINE c1 == Child(h1, n, i)
              s1 == NextName(h1)
              T1 == WithNext(h1, S)
              N1 == WithNext(h1, DOMAIN h1)
  <2>1. h1 \in Seq(BTreeNode(E)) /\ FullAt(h1, L[k], S, D, n, i) /\ NextName(h1) \in E
    BY <1>2, <1>4
  <2>. HIDE DEF S, D
  <2>2. /\ g \in Seq(BTreeNode(E)) /\ DOMAIN g = N1 /\ s1 \notin DOMAIN h1
        /\ Levels(g, L[k], T1, D) /\ Held(g, T1) = Held(h1, S)
    BY <2>1, SplitsAChild
  <2>3. /\ Size(g, c1) = MinLoad /\ Size(g, s1) = MinLoad + 1 /\ Size(g, n) = Size(h1, n) + 1
        /\ \A x \in S : x # c1 => Items(g, x) = Items(h1, x)
    BY <2>1, SplitsAChild
  <2>4. /\ KindsSame(h1, g, n) /\ g[s1].leaf = h1[c1].leaf
        /\ \A x \in DOMAIN h1 : x \notin S \cup {n} => g[x] = h1[x]
    BY <2>1, SplitsAChild
  <2>5. c1 = c /\ s1 = s /\ DOMAIN h1 = DOMAIN h
    BY <1>2, <1>4
  <2>6. T1 = T /\ N1 = WithNext(h, DOMAIN h)
    BY <2>5 DEF WithNext
  <2>. HIDE DEF g, c1, s1, T1, N1, c, s, T
  <2>. QED
    BY <2>2, <2>3, <2>4, <2>5, <2>6
<1>. HIDE DEF g, s, c, T
<1>6. /\ DOMAIN h \subseteq DOMAIN g /\ KindsSame(h, g, n) /\ Held(g, T) = Held(h, S)
      /\ \A x \in DOMAIN h : x \notin L[k + 1] \cup {n} => g[x] = h[x]
      /\ Size(g, n) = Size(h, n) + 1
  <2>1. DOMAIN h \subseteq DOMAIN g
    BY <1>5 DEF WithNext
  <2>2. KindsSame(h, g, n)
    BY <1>2, <1>5 DEF KindsSame
  <2>3. Held(g, T) = Held(h, S) /\ Size(g, n) = Size(h, n) + 1
    <3>1. Held(g, T) = Held(h1, S) /\ Size(g, n) = Size(h1, n) + 1
      BY <1>5
    <3>2. Held(h1, S) = Held(h, S)
      BY <1>2
    <3>3. Size(h1, n) = Size(h, n)
      BY <1>2 DEF Size, Items
    <3>. QED
      BY <3>1, <3>2, <3>3
  <2>4. \A x \in DOMAIN h : x \notin L[k + 1] \cup {n} => g[x] = h[x]
    BY <1>2, <1>5
  <2>. QED
    BY <2>1, <2>2, <2>3, <2>4
<1>7. M \in Seq(SUBSET Nat) /\ RowReplaced(L, M, k + 1, T)
  <2>1. k + 1 \in 1 .. Len(L) /\ T \in SUBSET Nat
    BY <1>1 DEF T, WithNext, NextName
  <2>2. M = [L EXCEPT ![k + 1] = T]
    BY DEF T
  <2>. HIDE DEF M
  <2>. QED
    BY <2>1, <2>2 DEF RowReplaced
<1>. HIDE DEF M
<1>8. KeyChanged(g, M, k, n)
  <2>1. \A x \in T : x \in L[k + 1] \/ x \notin DOMAIN h
    BY <1>5 DEF T, WithNext, s
  <2>2. \A x \in S : g[x].leaf = h[x].leaf
    BY <1>3, <1>6 DEF KindsSame
  <2>3. g[s].leaf = h[c].leaf
    BY <1>2, <1>3, <1>5
  <2>4. \A x \in T : \E y \in L[k + 1] : g[x].leaf = h[y].leaf
    BY <2>2, <2>3, <1>3 DEF T, WithNext, s
  <2>. QED
    BY <2>1, <2>4, <1>5, <1>6, <1>7, TreeClimbs
<1>9. Records(g, M) = Records(h, L)
  BY <1>6, <1>7, RecordsKept
<1>10. LoadsButMore(g, M, k, n)
  <2>1. /\ Len(M) = Len(L) /\ M[k + 1] = T
        /\ \A j \in 1 .. Len(L) : j # k + 1 => M[j] = L[j]
    BY <1>7 DEF RowReplaced
  <2>2. MaxLoad \in Nat /\ MinLoad \in Nat /\ MinLoad + 1 <= MaxLoad
    BY LoadAssumption DEF MinLoad
  <2>. SUFFICES ASSUME NEW j \in 2 .. Len(L)
                PROVE  IF j = k THEN LoadsAfterGain(g, M[j], n) ELSE LoadsRight(g, M[j])
    BY <2>1 DEF LoadsButMore
  <2>3. CASE j = k + 1
    <3>1. LoadsAfterGain(h, S, c)
      BY <1>1 DEF LoadsButMore, c
    <3>2. \A x \in S \ {c} : Size(g, x) = Size(h, x)
      BY <1>2, <1>3, <1>5 DEF Size, Items
    <3>3. \A x \in S \ {c} : Size(g, x) >= MinLoad /\ Size(g, x) <= MaxLoad
      BY <3>1, <3>2 DEF LoadsAfterGain
    <3>4. Size(g, c) = MinLoad /\ Size(g, s) = MinLoad + 1
      BY <1>5
    <3>5. \A x \in {c, s} : Size(g, x) >= MinLoad /\ Size(g, x) <= MaxLoad
      BY <3>4, <2>2
    <3>6. LoadsRight(g, T)
      BY <3>3, <3>5 DEF LoadsRight, T, WithNext, s
    <3>. QED
      BY <3>6, <2>1, <2>3, <1>1
  <2>4. CASE j # k + 1
    <3>1. M[j] = L[j] /\ LoadsRight(h, L[j])
      BY <2>1, <2>4 DEF LoadsButMore
    <3>2. /\ \A x \in L[j] : x # n => Size(g, x) = Size(h, x)
          /\ j # k => \A x \in L[j] : x # n
      BY <1>6, <2>4, LoadsKept
    <3>3. CASE j # k
      BY <3>1, <3>2, <3>3 DEF LoadsRight
    <3>4. CASE j = k
      <4>1. Size(h, n) \in Nat
        BY <1>3, HeapNode
      <4>2. Size(h, n) <= MaxLoad /\ Size(h, n) >= MinLoad
        BY <3>1, <3>4, <1>3 DEF LoadsRight
      <4>3. Size(g, n) <= MaxLoad + 1 /\ Size(g, n) >= MinLoad
        BY <2>2, <4>1, <4>2, <1>6
      <4>4. \A x \in L[j] : /\ Size(g, x) >= MinLoad
                            /\ x # n => Size(g, x) <= MaxLoad
        BY <3>1, <3>2, <4>3 DEF LoadsRight
      <4>. QED
        BY <3>1, <3>4, <4>3, <4>4 DEF LoadsAfterGain
    <3>. QED
      BY <3>3, <3>4
  <2>. QED
    BY <2>3, <2>4
<1>11. g = KeyedAndSplit(h, n, i)
  BY DEF g, h1, c, KeyedAndSplit
<1>. HIDE DEF c, s
<1>12. \E K \in Seq(SUBSET Nat) :
         /\ RowReplaced(L, K, k + 1, WithNext(h, L[k + 1]))
         /\ KeyChanged(g, K, k, n) /\ LoadsButMore(g, K, k, n) /\ Records(g, K) = Records(h, L)
  BY <1>7, <1>8, <1>9, <1>10 DEF T, S
<1>. QED
  BY <1>5, <1>6, <1>11, <1>12

-----------------------------------------------------------------------------
(* The leaves. *)

\* A leaf that gets items which fit between its neighbours leaves nothing wrong but, perhaps, the
\* key its parent has for it.
LEMMA LeafWritten ==
  ASSUME NEW E, NEW h \in Seq(BTreeNode(E)), NEW L \in Seq(SUBSET Nat), TreeRight(h, L),
         NEW c \in L[Len(L)], NEW w \in Seq(Entry(E)), FitsIn(h, L[Len(L)], c, w),
         NEW g, g = WithItems(h, c, w)
  PROVE  /\ g \in Seq(BTreeNode(E)) /\ DOMAIN g = DOMAIN h /\ c \in DOMAIN h
         /\ Items(g, c) = w /\ \A x \in DOMAIN h : x # c => g[x] = h[x]
         /\ KeyChanged(g, L, Len(L), c)
<1>. DEFINE e == Len(L)
            S == L[e]
<1>1. /\ e \in Nat /\ e # 0 /\ e \in 1 .. e /\ L # <<>>
      /\ \A j \in 1 .. e : RowRight(h, L, j)
      /\ \A j, l \in 1 .. e : j # l => L[j] \cap L[l] = {}
  BY DEF TreeRight, Apart
<1>2. \A j \in 1 .. e : L[j] \subseteq DOMAIN h
  BY <1>1, RightRow
<1>3. Row(h, S, {}) /\ Distinct(h, S) /\ c \in S /\ c \in DOMAIN h /\ FitsIn(h, S, c, w)
  <2>1. RowRight(h, L, e)
    BY <1>1
  <2>2. ~(e < Len(L))
    BY <1>1
  <2>. QED
    BY <2>1, <2>2, <1>1, <1>2 DEF RowRight
<1>4. h[c].leaf
  BY <1>3, RowEnds
<1>. HIDE DEF e, S
<1>5. /\ g \in Seq(BTreeNode(E)) /\ DOMAIN g = DOMAIN h /\ Items(g, c) = w
      /\ g[c].left = h[c].left /\ g[c].right = h[c].right /\ g[c].leaf = h[c].leaf
      /\ \A x \in DOMAIN h : x # c => g[x] = h[x]
  BY <1>3, ItemsWritten
<1>6. Row(g, S, {}) /\ Distinct(g, S)
  <2>1. S \subseteq DOMAIN h /\ DOMAIN h \subseteq DOMAIN g
    BY <1>3, <1>5 DEF Row
  <2>2. /\ \A y \in S : g[y].left = h[y].left /\ g[y].right = h[y].right /\ g[y].leaf = h[y].leaf
        /\ \A y \in S : y # c => Items(g, y) = Items(h, y)
    BY <2>1, <1>5 DEF Items
  <2>. QED
    BY <2>1, <2>2, <1>3, <1>4, <1>5, LeafRowKept
<1>7. RowRight(g, L, e)
  <2>1. ~(e < Len(L))
    BY <1>1 DEF e
  <2>. QED
    BY <2>1, <1>6 DEF RowRight, S
<1>8. Apart(L)
  BY <1>1 DEF Apart, e
<1>9. CASE e = 1
  <2>1. \A j \in 1 .. Len(L) : RowRight(g, L, j)
    BY <1>7, <1>9, <1>1 DEF e
  <2>2. TreeRight(g, L)
    BY <2>1, <1>1, <1>8 DEF TreeRight
  <2>3. KeyChanged(g, L, e, c)
    BY <2>2, <1>9, <1>3 DEF KeyChanged, S
  <2>. QED
    BY <2>3, <1>3, <1>5 DEF e
<1>10. CASE e # 1
  <2>. DEFINE P == L[e - 1]
  <2>1. e - 1 \in 1 .. e /\ e - 1 \in 1 .. e - 1 /\ (e - 1) + 1 = e /\ e - 1 < Len(L) /\ e - 1 # e
    <3>1. e \in Nat /\ e # 0 /\ e # 1
      BY <1>1, <1>10
    <3>2. e - 1 \in 1 .. e /\ e - 1 \in 1 .. e - 1 /\ (e - 1) + 1 = e /\ e - 1 < e /\ e - 1 # e
      BY <3>1
    <3>. QED
      BY <3>2 DEF e
  <2>2. InnerRow(h, P, S)
    <3>1. RowRight(h, L, e - 1)
      BY <2>1, <1>1
    <3>. QED
      BY <2>1, <3>1, RightRow DEF S
  <2>3. Levels(h, P, S, {})
    BY <2>2, <1>3 DEF Levels, InnerRow
  <2>4. \A j \in 1 .. e : j # e => \A x \in L[j] : g[x] = h[x]
    <3>. SUFFICES ASSUME NEW j \in 1 .. e, j # e, NEW x \in L[j] PROVE g[x] = h[x]
      OBVIOUS
    <3>1. x \in DOMAIN h /\ x \notin L[e]
      BY <1>1, <1>2
    <3>. QED
      BY <3>1, <1>3, <1>5 DEF S
  <2>5. \A x \in P : g[x] = h[x]
    BY <2>1, <2>4
  <2>6. \A j \in 1 .. e : j # e - 1 => RowRight(g, L, j)
    <3>. SUFFICES ASSUME NEW j \in 1 .. e, j # e - 1 PROVE RowRight(g, L, j)
      OBVIOUS
    <3>1. CASE j = e
      BY <3>1, <1>7
    <3>2. CASE j # e
      <4>1. RowRight(h, L, j)
        BY <1>1
      <4>2. \A x \in L[j] : g[x] = h[x]
        BY <3>2, <2>4
      <4>3. j + 1 \in 1 .. e /\ j + 1 # e
        BY <3>2, <1>1
      <4>4. \A x \in L[j + 1] : g[x] = h[x]
        BY <4>3, <2>4
      <4>5. DOMAIN h \subseteq DOMAIN g
        BY <1>5
      <4>. QED
        BY <4>1, <4>2, <4>4, <4>5, RightRowUntouched
    <3>. QED
      BY <3>1, <3>2
  <2>. HIDE DEF P
  <2>7. ASSUME NEW m \in P, NEW q \in 1 .. Len(Items(g, m)), Child(g, m, q) = c
        PROVE  TreeBut(g, L, e - 1, m, q)
    <3>1. q \in 1 .. Len(Items(h, m)) /\ Child(h, m, q) = c
      BY <2>5, <2>7 DEF Items, Child
    <3>2. /\ h[Child(h, m, q)].leaf /\ FitsIn(h, S, Child(h, m, q), w)
          /\ g = WithItems(h, Child(h, m, q), w)
      BY <3>1, <1>3, <1>4
    <3>3. StaleAt(g, P, S, {}, m, q)
      <4>1. q \in 1 .. Len(Items(h, m))
        BY <3>1
      <4>. QED
        BY <4>1, <3>2, <2>3, LeafChanged
    <3>4. L[e - 1] = P /\ L[(e - 1) + 1] = S /\ Beneath(L, (e - 1) + 1) = {}
      <4>1. ~(e < Len(L))
        BY <1>1 DEF e
      <4>. QED
        BY <4>1, <2>1 DEF Beneath, P, S
    <3>5. e - 1 \in 1 .. Len(L) - 1 /\ \A j \in 1 .. Len(L) : j # e - 1 => RowRight(g, L, j)
      BY <2>1, <2>6 DEF e
    <3>. QED
      BY <3>3, <3>4, <3>5, <1>8 DEF TreeBut
  <2>8. Parented(g, P, {c})
    <3>1. PICK x \in P : \E j \in 1 .. Len(Items(h, x)) : Child(h, x, j) = c
      BY <2>2, <1>3 DEF InnerRow, Parented
    <3>2. \E j \in 1 .. Len(Items(g, x)) : Child(g, x, j) = c
      BY <3>1, <2>5 DEF Items, Child
    <3>. QED
      BY <3>2 DEF Parented
  <2>9. KeyChanged(g, L, e, c)
    BY <2>7, <2>8, <1>3, <1>10 DEF KeyChanged, P, S
  <2>. QED
    BY <2>9, <1>3, <1>5 DEF e
<1>. QED
  BY <1>3, <1>5, <1>9, <1>10

\* The leaves have lost record e, and nothing else, when leaf c has.
LEMMA LeafLoses ==
  ASSUME NEW E, NEW h \in Seq(BTreeNode(E)), NEW S, NEW D, Row(h, S, D), Distinct(h, S), NEW c \in S,
         NEW w, NEW e, Loses(h, S, c, w, e), NEW g, Items(g, c) = w,
         \A x \in DOMAIN h : x # c => g[x] = h[x]
  PROVE  /\ Held(g, S) = Held(h, S) \ {e} /\ e \in Held(h, S)
         /\ Size(g, c) = Size(h, c) - 1 /\ \A x \in S : x # c => Size(g, x) = Size(h, x)
<1>1. /\ e \in ToSet(Items(h, c)) /\ Len(w) = Size(h, c) - 1
      /\ \A d : d \in ToSet(w) <=> d \in ToSet(Items(h, c)) /\ d # e
  BY DEF Loses
<1>2. \A x \in S : x # c => Items(g, x) = Items(h, x) /\ Size(g, x) = Size(h, x)
  BY DEF Row, Items, Size
<1>3. \A x \in S : x # c => e \notin ToSet(Items(h, x))
  BY <1>1 DEF Distinct
<1>4. \A d : /\ d \in Held(g, S) <=> \E x \in S : d \in ToSet(Items(g, x))
             /\ d \in Held(h, S) <=> \E x \in S : d \in ToSet(Items(h, x))
  BY DEF Held
<1>5. ASSUME NEW d PROVE d \in Held(g, S) <=> d \in Held(h, S) /\ d # e
  BY <1>1, <1>2, <1>3, <1>4
<1>6. Held(g, S) = Held(h, S) \ {e}
  BY <1>5
<1>7. e \in Held(h, S)
  BY <1>1, <1>4
<1>8. Size(g, c) = Size(h, c) - 1
  BY <1>1 DEF Size, Items
<1>. QED
  BY <1>2, <1>6, <1>7, <1>8

\* Every node under the root has as many items as it may have.
LoadsInTree(h, L) == \A j \in 2 .. Len(L) : LoadsRight(h, L[j])

\* The tree whose rows are L has the root for its first row.
Rooted(L) == L[1] = {m_root}

\* All is right in a tree whose root is m_root, the loads under the root included.
RootedTree(E, h, L) ==
  /\ h \in Seq(BTreeNode(E)) /\ L \in Seq(SUBSET Nat)
  /\ TreeRight(h, L) /\ Rooted(L) /\ LoadsInTree(h, L)

\* A record whose key the tree does not have.
NewRecord(E, h, L, e) == e \in Entry(E) /\ \A d \in Records(h, L) : d.key # e.key

-----------------------------------------------------------------------------
(* The order of a row, and the way down to a leaf. *)

\* The left neighbour of a node of a row is the next below it, by the greatest keys.
Ordered(h, S) ==
  \A x, y \in S : MaxKey(h, x) < MaxKey(h, y) =>
    h[y].left # None /\ MaxKey(h, x) <= MaxKey(h, h[y].left)

\* The greatest keys of a node, of a child of it, and of their left neighbours.
LEMMA ChildBounds ==
  ASSUME NEW E, NEW h \in Seq(BTreeNode(E)), NEW P, NEW S, NEW D, Levels(h, P, S, D), NEW n \in P,
         NEW i \in 1 .. Len(Items(h, n)), NEW c, c = Child(h, n, i)
  PROVE  /\ c \in S /\ MaxKey(h, c) \in Nat /\ MaxKey(h, n) \in Nat /\ MaxKey(h, c) <= MaxKey(h, n)
         /\ MaxKey(h, c) = Items(h, n)[i].key /\ MaxKey(h, n) = Items(h, n)[Len(Items(h, n))].key
         /\ h[n].left # None => h[n].left \in P /\ MaxKey(h, h[n].left) < MaxKey(h, c)
         /\ i >= 2 => h[c].left = Child(h, n, i - 1) /\ h[c].left # None
         /\ i = 1 /\ h[n].left = None => h[c].left = None
         /\ i = 1 /\ h[n].left # None =>
              h[c].left # None /\ MaxKey(h, h[c].left) = MaxKey(h, h[n].left)
<1>. DEFINE w == Items(h, n)
            m == Len(w)
            l == h[n].left
<1>1. /\ w \in Seq(Entry(E)) /\ m \in Nat /\ m >= 1 /\ InOrder(w) /\ i \in 1 .. m
      /\ \A j \in 1 .. m : /\ Child(h, n, j) \in S /\ w[j].key \in Nat
                           /\ w[j].key = MaxKey(h, Child(h, n, j))
      /\ \A j \in 2 .. m : Adjacent(h, Child(h, n, j - 1), Child(h, n, j))
  BY LevelChildren
<1>2. Row(h, P, S) /\ Row(h, S, D) /\ n \in P
  BY DEF Levels
<1>3. MaxKey(h, n) = w[m].key
  <2>1. w # <<>>
    BY LevelChildren
  <2>. HIDE DEF w
  <2>2. Last(w) = w[m]
    BY <1>1, <2>1, Ends
  <2>. QED
    BY <2>2 DEF w, MaxKey, Items
<1>4. w[i].key <= w[m].key
  BY <1>1 DEF InOrder
<1>5. c \in S /\ MaxKey(h, c) = w[i].key /\ w[i].key \in Nat /\ w[m].key \in Nat
  BY <1>1
<1>6. None \notin S /\ None \notin P
  BY <1>2, RowLinks
<1>7. i >= 2 => h[c].left = Child(h, n, i - 1) /\ h[c].left # None
  <2>. SUFFICES ASSUME i >= 2 PROVE h[c].left = Child(h, n, i - 1) /\ h[c].left # None
    OBVIOUS
  <2>1. i \in 2 .. m /\ i - 1 \in 1 .. m
    BY <1>1
  <2>. QED
    BY <2>1, <1>1, <1>6 DEF Adjacent
<1>8. i = 1 /\ l = None => h[c].left = None
  BY LevelCousins
<1>9. l # None => l \in P /\ h[l].right = n /\ Last(Items(h, l)).key < Head(w).key
  BY <1>2, RowLinks
<1>10. l # None => MaxKey(h, l) < MaxKey(h, c)
  <2>. SUFFICES ASSUME l # None PROVE MaxKey(h, l) < MaxKey(h, c)
    OBVIOUS
  <2>1. Head(w) = w[1]
    BY <1>1
  <2>2. w[1].key <= w[i].key /\ w[1].key \in Nat
    BY <1>1 DEF InOrder
  <2>3. MaxKey(h, l) = Last(Items(h, l)).key
    BY DEF MaxKey, Items
  <2>4. Last(Items(h, l)).key \in Nat
    BY <1>2, <1>9, RowEnds
  <2>5. Last(Items(h, l)).key < w[1].key
    BY <1>9, <2>1
  <2>. HIDE DEF w, l
  <2>. QED
    BY <1>5, <2>2, <2>3, <2>4, <2>5
<1>11. i = 1 /\ l # None => h[c].left # None /\ MaxKey(h, h[c].left) = MaxKey(h, l)
  <2>. SUFFICES ASSUME i = 1, l # None
                PROVE  h[c].left # None /\ MaxKey(h, h[c].left) = MaxKey(h, l)
    OBVIOUS
  <2>. DEFINE z == Items(h, l)
              q == Len(z)
  <2>1. l \in P /\ h[l].right = n /\ n # None
    BY <1>6, <1>9
  <2>2. Adjacent(h, Child(h, l, q), Child(h, h[l].right, 1))
    BY <2>1, LevelCousins
  <2>3. h[c].left = Child(h, l, q)
    BY <2>1, <2>2 DEF Adjacent
  <2>4. /\ z \in Seq(Entry(E)) /\ z # <<>> /\ q \in 1 .. q
        /\ z[q].key = MaxKey(h, Child(h, l, q)) /\ Child(h, l, q) \in S
    BY <2>1, LevelChildren
  <2>5. MaxKey(h, l) = Last(z).key
    BY DEF MaxKey, Items
  <2>. HIDE DEF z, l
  <2>6. Last(z) = z[q]
    BY <2>4, Ends
  <2>. QED
    BY <2>3, <2>4, <2>5, <2>6, <1>6
<1>. QED
  BY <1>3, <1>4, <1>5, <1>7, <1>8, <1>9, <1>10, <1>11

\* The order of a row is that of the row above it.
LEMMA OrderedBelow ==
  ASSUME NEW E, NEW h \in Seq(BTreeNode(E)), NEW P, NEW S, NEW D, Levels(h, P, S, D), Ordered(h, P)
  PROVE  Ordered(h, S)
<1>. DEFINE K(x) == MaxKey(h, x)
<1>. SUFFICES ASSUME NEW a \in S, NEW b \in S, K(a) < K(b)
              PROVE  h[b].left # None /\ K(a) <= K(h[b].left)
  BY DEF Ordered
<1>1. PICK x \in P : \E i \in 1 .. Len(Items(h, x)) : Child(h, x, i) = a
  BY DEF Levels, Parented
<1>2. PICK i \in 1 .. Len(Items(h, x)) : Child(h, x, i) = a
  BY <1>1
<1>3. PICK y \in P : \E j \in 1 .. Len(Items(h, y)) : Child(h, y, j) = b
  BY DEF Levels, Parented
<1>4. PICK j \in 1 .. Len(Items(h, y)) : Child(h, y, j) = b
  BY <1>3
<1>5. /\ K(a) \in Nat /\ K(x) \in Nat /\ K(a) <= K(x) /\ K(a) = Items(h, x)[i].key
      /\ h[x].left # None => h[x].left \in P /\ K(h[x].left) < K(a)
  BY <1>2, ChildBounds
<1>6. /\ K(b) \in Nat /\ K(y) \in Nat /\ K(b) <= K(y) /\ K(b) = Items(h, y)[j].key
      /\ h[y].left # None => h[y].left \in P /\ K(h[y].left) < K(b)
      /\ j >= 2 => h[b].left = Child(h, y, j - 1) /\ h[b].left # None
      /\ j = 1 /\ h[y].left = None => h[b].left = None
      /\ j = 1 /\ h[y].left # None => h[b].left # None /\ K(h[b].left) = K(h[y].left)
  BY <1>4, ChildBounds
<1>7. /\ InOrder(Items(h, y)) /\ Items(h, y) \in Seq(Entry(E))
      /\ \A q \in 1 .. Len(Items(h, y)) : /\ Items(h, y)[q].key \in Nat
                                          /\ Items(h, y)[q].key = K(Child(h, y, q))
  BY LevelChildren
<1>8. \A z \in P : K(z) \in Nat
  <2>. SUFFICES ASSUME NEW z \in P PROVE K(z) \in Nat
    OBVIOUS
  <2>1. Row(h, P, S)
    BY DEF Levels
  <2>. QED
    BY <2>1, RowEnds DEF MaxKey, Items
<1>9. CASE x = y
  <2>1. j \in 1 .. Len(Items(h, y)) /\ i \in 1 .. Len(Items(h, y))
    BY <1>9
  <2>2. i < j
    <3>1. ~(j < i) /\ j # i
      BY <2>1, <1>5, <1>6, <1>7, <1>9 DEF InOrder
    <3>. QED
      BY <2>1, <3>1
  <2>3. j >= 2 /\ j - 1 \in 1 .. Len(Items(h, y)) /\ (i = j - 1 \/ i < j - 1)
    BY <2>1, <2>2
  <2>4. Items(h, y)[i].key <= Items(h, y)[j - 1].key
    BY <2>1, <2>3, <1>7 DEF InOrder
  <2>. QED
    BY <2>3, <2>4, <1>5, <1>6, <1>7, <1>9
<1>10. CASE x # y
  <2>1. K(x) # K(y)
    <3>. SUFFICES ASSUME K(x) = K(y) PROVE FALSE
      OBVIOUS
    <3>1. Row(h, P, S) /\ Distinct(h, P)
      BY DEF Levels
    <3>2. Last(Items(h, x)) \in ToSet(Items(h, x)) /\ Last(Items(h, y)) \in ToSet(Items(h, y))
      BY <3>1, RowEnds
    <3>3. Last(Items(h, x)).key = Last(Items(h, y)).key
      BY DEF MaxKey, Items
    <3>. QED
      BY <3>1, <3>2, <3>3, <1>10 DEF Distinct
  <2>2. ~(K(y) < K(x))
    <3>. SUFFICES ASSUME K(y) < K(x) PROVE FALSE
      OBVIOUS
    <3>1. h[x].left # None /\ K(y) <= K(h[x].left)
      BY DEF Ordered
    <3>2. h[x].left \in P /\ K(h[x].left) < K(a) /\ K(h[x].left) \in Nat
      BY <3>1, <1>5, <1>8
    <3>. HIDE DEF K
    <3>. QED
      BY <3>1, <3>2, <1>5, <1>6
  <2>3. K(x) < K(y)
    BY <2>1, <2>2, <1>5, <1>6
  <2>4. h[y].left # None /\ K(x) <= K(h[y].left)
    BY <2>3 DEF Ordered
  <2>5. h[y].left \in P /\ K(h[y].left) \in Nat
    BY <2>4, <1>6, <1>8
  <2>6. CASE j = 1
    <3>1. h[b].left # None /\ K(h[b].left) = K(h[y].left)
      BY <2>4, <2>6, <1>6
    <3>2. K(a) \in Nat /\ K(x) \in Nat /\ K(a) <= K(x)
      BY <1>5
    <3>. HIDE DEF K
    <3>3. K(a) <= K(h[y].left)
      BY <3>2, <2>4, <2>5
    <3>. QED
      BY <3>1, <3>3
  <2>7. CASE j # 1
    <3>. DEFINE q == j - 1
    <3>1. j >= 2 /\ q \in 1 .. Len(Items(h, y))
      BY <2>7
    <3>. HIDE DEF q
    <3>2. \A z : z = Child(h, y, q) =>
            /\ h[y].left # None => K(h[y].left) < K(z)
            /\ K(z) \in Nat
      BY <3>1, ChildBounds
    <3>3. /\ K(h[y].left) \in Nat /\ K(x) \in Nat /\ K(a) \in Nat
          /\ K(a) <= K(x) /\ K(x) <= K(h[y].left)
      BY <2>4, <2>5, <1>5
    <3>4. h[b].left # None /\ h[b].left = Child(h, y, j - 1)
      BY <3>1, <1>6
    <3>5. K(h[y].left) < K(Child(h, y, j - 1)) /\ K(Child(h, y, j - 1)) \in Nat
      BY <3>2, <2>4 DEF q
    <3>. HIDE DEF K
    <3>6. K(a) <= K(Child(h, y, j - 1))
      BY <3>3, <3>5
    <3>. QED
      BY <3>4, <3>6
  <2>. QED
    BY <2>6, <2>7
<1>. QED
  BY <1>9, <1>10

\* Two rows of a tree, one under the other.
LEMMA RowsOfTree ==
  ASSUME NEW h, NEW L \in Seq(SUBSET Nat), TreeRight(h, L), NEW k \in 1 .. Len(L) - 1
  PROVE  Levels(h, L[k], L[k + 1], Beneath(L, k + 1))
<1>1. /\ k \in 1 .. Len(L) /\ k + 1 \in 1 .. Len(L) /\ k < Len(L)
      /\ RowRight(h, L, k) /\ RowRight(h, L, k + 1)
  BY DEF TreeRight
<1>2. InnerRow(h, L[k], L[k + 1])
  BY <1>1, RightRow
<1>3. Row(h, L[k + 1], Beneath(L, k + 1)) /\ Distinct(h, L[k + 1])
  BY <1>1, RightRow
<1>4. L[k] \cap Beneath(L, k + 1) = {}
  <2>1. \A j, l \in 1 .. Len(L) : j # l => L[j] \cap L[l] = {}
    BY DEF TreeRight, Apart
  <2>2. CASE k + 1 < Len(L)
    <3>1. (k + 1) + 1 \in 1 .. Len(L) /\ (k + 1) + 1 # k
      BY <2>2, <1>1
    <3>. QED
      BY <2>1, <2>2, <3>1, <1>1 DEF Beneath
  <2>3. CASE ~(k + 1 < Len(L))
    BY <2>3 DEF Beneath
  <2>. QED
    BY <2>2, <2>3
<1>. QED
  BY <1>2, <1>3, <1>4 DEF Levels, InnerRow

\* All rows of a tree are in order, and no key is above the root's.
LEMMA RowsOrdered ==
  ASSUME NEW E, NEW h \in Seq(BTreeNode(E)), NEW L \in Seq(SUBSET Nat), TreeRight(h, L),
         NEW root, L[1] = {root}, NEW k \in 1 .. Len(L)
  PROVE  Ordered(h, L[k]) /\ \A x \in L[k] : MaxKey(h, x) <= MaxKey(h, root)
<1>. DEFINE Fine(j) == /\ Ordered(h, L[j])
                       /\ \A x \in L[j] : MaxKey(h, x) <= MaxKey(h, root)
            T == {j \in 1 .. Len(L) : ~Fine(j)}
<1>. SUFFICES ASSUME T # {} PROVE FALSE
  OBVIOUS
<1>0. T \in SUBSET Nat
  OBVIOUS
<1>1. PICK m \in T : \A j \in T : m <= j
  BY <1>0, HasLeast
<1>2. \A j \in 1 .. Len(L) : \A x \in L[j] : MaxKey(h, x) \in Nat
  <2>. SUFFICES ASSUME NEW j \in 1 .. Len(L), NEW x \in L[j] PROVE MaxKey(h, x) \in Nat
    OBVIOUS
  <2>1. Row(h, L[j], Beneath(L, j))
    BY RightRow DEF TreeRight
  <2>. QED
    BY <2>1, RowEnds DEF MaxKey, Items
<1>3. Len(L) \in Nat /\ 1 \in 1 .. Len(L) /\ root \in L[1] /\ m \in 1 .. Len(L) /\ ~Fine(m)
  BY <1>1
<1>4. MaxKey(h, root) \in Nat
  BY <1>2, <1>3
<1>5. Fine(1)
  BY <1>4 DEF Ordered
<1>6. m # 1
  BY <1>3, <1>5
<1>. DEFINE j == m - 1
<1>7. j \in 1 .. Len(L) - 1 /\ j + 1 = m /\ j < m /\ j \in 1 .. Len(L)
  BY <1>3, <1>6
<1>8. Fine(j)
  BY <1>1, <1>7
<1>9. Levels(h, L[j], L[m], Beneath(L, m))
  BY <1>7, RowsOfTree
<1>. HIDE DEF j
<1>10. Ordered(h, L[m])
  BY <1>8, <1>9, OrderedBelow
<1>11. ASSUME NEW y \in L[m] PROVE MaxKey(h, y) <= MaxKey(h, root)
  <2>1. PICK x \in L[j] : \E i \in 1 .. Len(Items(h, x)) : Child(h, x, i) = y
    BY <1>9 DEF Levels, Parented
  <2>2. PICK i \in 1 .. Len(Items(h, x)) : Child(h, x, i) = y
    BY <2>1
  <2>3. MaxKey(h, y) \in Nat /\ MaxKey(h, x) \in Nat /\ MaxKey(h, y) <= MaxKey(h, x)
    BY <2>2, <1>9, ChildBounds
  <2>4. MaxKey(h, x) <= MaxKey(h, root)
    BY <1>8
  <2>. QED
    BY <2>3, <2>4, <1>4
<1>. QED
  BY <1>3, <1>10, <1>11

\* A key that belongs below node n: above all keys before the node and, unless the node is the
\* last of its row, not above its own.
Routed(h, n, k) ==
  /\ h[n].left # None => MaxKey(h, h[n].left) < k
  /\ h[n].right # None => k <= MaxKey(h, n)

\* It belongs below the child that is chosen, too.
LEMMA RoutedBelow ==
  ASSUME NEW E, NEW h \in Seq(BTreeNode(E)), NEW P, NEW S, NEW D, Levels(h, P, S, D), NEW n \in P,
         NEW k \in Nat, Routed(h, n, k), NEW i, NEW c, c = Child(h, n, i),
         i = ChildFor(Items(h, n), k)
           \/ (i = LowerBound(Items(h, n), k) /\ k <= MaxKey(h, n))
  PROVE  /\ i \in 1 .. Len(Items(h, n)) /\ c \in S /\ Routed(h, c, k)
         /\ k <= MaxKey(h, n) => k <= MaxKey(h, c)
<1>. DEFINE w == Items(h, n)
            b == LowerBound(w, k)
<1>1. /\ w \in Seq(Entry(E)) /\ Len(w) \in Nat /\ Len(w) >= 1 /\ InOrder(w)
      /\ \A j \in 1 .. Len(w) : w[j].key \in Nat /\ w[j].key = MaxKey(h, Child(h, n, j))
  BY LevelChildren
<1>2. b \in 1 .. Len(w) + 1 /\ \A j \in 1 .. Len(w) : j < b <=> w[j].key < k
  <2>. HIDE DEF w
  <2>. QED
    BY <1>1, LowerBoundProperties
<1>3. MaxKey(h, n) = w[Len(w)].key /\ Len(w) \in 1 .. Len(w)
  <2>1. Len(w) \in 1 .. Len(w)
    BY <1>1
  <2>. DEFINE q == Len(w)
  <2>2. q \in 1 .. Len(Items(h, n))
    BY <2>1
  <2>. HIDE DEF q
  <2>3. \A z : z = Child(h, n, q) => MaxKey(h, n) = Items(h, n)[Len(Items(h, n))].key
    BY <2>2, ChildBounds
  <2>. QED
    BY <2>1, <2>3
<1>4. i = (IF b > Len(w) THEN b - 1 ELSE b) \/ (i = b /\ k <= w[Len(w)].key)
  BY <1>3 DEF ChildFor
<1>. HIDE DEF w, b
<1>5. /\ i \in 1 .. Len(w)
      /\ \A j \in 1 .. Len(w) : j < i => w[j].key < k
      /\ i = Len(w) \/ k <= w[i].key
  BY <1>1, <1>2, <1>3, <1>4
<1>6. /\ c \in S /\ MaxKey(h, c) \in Nat /\ MaxKey(h, c) = w[i].key
      /\ i >= 2 => h[c].left = Child(h, n, i - 1) /\ h[c].left # None
      /\ i = 1 /\ h[n].left = None => h[c].left = None
      /\ i = 1 /\ h[n].left # None => MaxKey(h, h[c].left) = MaxKey(h, h[n].left)
  BY <1>5, ChildBounds DEF w
<1>7. k <= MaxKey(h, n) => k <= MaxKey(h, c)
  <2>1. MaxKey(h, n) = MaxKey(h, c) \/ k <= MaxKey(h, c)
    BY <1>3, <1>5, <1>6
  <2>. QED
    BY <2>1
<1>8. h[c].left # None => MaxKey(h, h[c].left) < k
  <2>1. CASE i = 1
    BY <2>1, <1>6 DEF Routed
  <2>2. CASE i # 1
    <3>1. i >= 2 /\ i - 1 \in 1 .. Len(w) /\ i - 1 < i
      BY <2>2, <1>1, <1>5
    <3>. QED
      BY <3>1, <1>1, <1>5, <1>6
  <2>. QED
    BY <2>1, <2>2
<1>9. h[c].right # None => k <= MaxKey(h, c)
  <2>1. CASE i # Len(w)
    BY <2>1, <1>5, <1>6
  <2>2. CASE i = Len(w) /\ h[n].right = None
    <3>1. h[n].right = None => h[Child(h, n, Len(Items(h, n)))].right = None
      BY LevelCousins
    <3>. QED
      BY <2>2, <3>1 DEF w
  <2>3. CASE i = Len(w) /\ h[n].right # None
    BY <2>3, <1>7 DEF Routed
  <2>. QED
    BY <2>1, <2>2, <2>3
<1>. QED
  BY <1>5, <1>6, <1>7, <1>8, <1>9 DEF w, Routed

\* The way down from the root: node p[j] of row j, and the item i[j] of it that names the next.
Way(h, L, p, i) ==
  /\ p[1] \in L[1]
  /\ \A j \in 1 .. Len(L) - 1 : p[j + 1] = Child(h, p[j], i[j])
\* The one by which internalAddData goes with a key.
WayToAdd(h, L, p, i, k) ==
  Way(h, L, p, i) /\ \A j \in 1 .. Len(L) - 1 : i[j] = ChildFor(Items(h, p[j]), k)
\* The one by which getChildWithKey and internalRemoveData go.
WayToFind(h, L, p, i, k) ==
  Way(h, L, p, i) /\ \A j \in 1 .. Len(L) - 1 : i[j] = LowerBound(Items(h, p[j]), k)

\* The only node of a row has no neighbours.
LEMMA RootAlone ==
  ASSUME NEW E, NEW h \in Seq(BTreeNode(E)), NEW D, NEW root, Row(h, {root}, D)
  PROVE  h[root].left = None /\ h[root].right = None
<1>. DEFINE S == {root}
<1>1. root \in S /\ Row(h, S, D)
  OBVIOUS
<1>2. \A x \in S : x = root
  OBVIOUS
<1>. HIDE DEF S
<1>3. /\ h[root].left # None => h[root].left = root /\ h[h[root].left].right = root
      /\ h[root].right # None =>
           /\ h[root].right = root
           /\ Last(Items(h, root)).key < Head(Items(h, h[root].right)).key
  BY <1>1, <1>2, RowLinks
<1>4. /\ Head(Items(h, root)).key \in Nat /\ Last(Items(h, root)).key \in Nat
      /\ Head(Items(h, root)).key <= Last(Items(h, root)).key /\ root # None
  BY <1>1, RowEnds
<1>5. h[root].right = None
  BY <1>3, <1>4
<1>. QED
  BY <1>3, <1>4, <1>5

\* All the way down a key belongs below the node that was come to.
LEMMA WayIsRouted ==
  ASSUME NEW E, NEW h \in Seq(BTreeNode(E)), NEW L \in Seq(SUBSET Nat), TreeRight(h, L),
         NEW root, L[1] = {root}, NEW p, NEW i, NEW k \in Nat,
         WayToAdd(h, L, p, i, k) \/ (WayToFind(h, L, p, i, k) /\ k <= MaxKey(h, root))
  PROVE  /\ \A j \in 1 .. Len(L) : p[j] \in L[j] /\ Routed(h, p[j], k)
         /\ \A j \in 1 .. Len(L) : k <= MaxKey(h, root) => k <= MaxKey(h, p[j])
         /\ \A j \in 1 .. Len(L) - 1 : i[j] \in 1 .. Len(Items(h, p[j]))
<1>. DEFINE Fine(j) == /\ p[j] \in L[j] /\ Routed(h, p[j], k)
                       /\ k <= MaxKey(h, root) => k <= MaxKey(h, p[j])
            T == {j \in 1 .. Len(L) : ~Fine(j)}
<1>1. Len(L) \in Nat /\ 1 \in 1 .. Len(L) /\ \A j \in 1 .. Len(L) : RowRight(h, L, j)
  BY DEF TreeRight
<1>2. Fine(1)
  <2>1. Row(h, L[1], Beneath(L, 1))
    BY <1>1, RightRow
  <2>. DEFINE D == Beneath(L, 1)
  <2>2. Row(h, {root}, D)
    BY <2>1
  <2>. HIDE DEF D
  <2>4. h[root].left = None /\ h[root].right = None
    BY <2>2, RootAlone
  <2>3. p[1] = root
    BY DEF WayToAdd, WayToFind, Way
  <2>. QED
    BY <2>3, <2>4 DEF Routed
<1>3. ASSUME NEW j \in 1 .. Len(L) - 1, Fine(j)
      PROVE  Fine(j + 1) /\ i[j] \in 1 .. Len(Items(h, p[j]))
  <2>1. Levels(h, L[j], L[j + 1], Beneath(L, j + 1))
    BY RowsOfTree
  <2>. DEFINE n == p[j]
              c == p[j + 1]
              m == i[j]
              P == L[j]
              S == L[j + 1]
              D == Beneath(L, j + 1)
  <2>2. c = Child(h, n, m) /\ n \in P /\ Routed(h, n, k)
    BY <1>3 DEF WayToAdd, WayToFind, Way
  <2>3. m = ChildFor(Items(h, n), k) \/ (m = LowerBound(Items(h, n), k) /\ k <= MaxKey(h, n))
    BY <1>3 DEF WayToAdd, WayToFind
  <2>4. Levels(h, P, S, D) /\ (k <= MaxKey(h, root) => k <= MaxKey(h, n))
    BY <2>1, <1>3
  <2>. HIDE DEF n, c, m, P, S, D
  <2>5. /\ m \in 1 .. Len(Items(h, n)) /\ c \in S /\ Routed(h, c, k)
        /\ k <= MaxKey(h, n) => k <= MaxKey(h, c)
    BY <2>2, <2>3, <2>4, RoutedBelow
  <2>. QED
    BY <2>4, <2>5 DEF n, c, m, S
<1>4. T = {}
  <2>. SUFFICES ASSUME T # {} PROVE FALSE
    OBVIOUS
  <2>0. T \in SUBSET Nat
    OBVIOUS
  <2>1. PICK m \in T : \A j \in T : m <= j
    BY <2>0, HasLeast
  <2>2. m \in 1 .. Len(L) /\ ~Fine(m) /\ m # 1
    BY <2>1, <1>2
  <2>. DEFINE j == m - 1
  <2>3. j \in 1 .. Len(L) - 1 /\ j + 1 = m /\ j < m /\ j \in 1 .. Len(L)
    BY <2>2, <1>1
  <2>4. Fine(j)
    BY <2>1, <2>3
  <2>. QED
    BY <2>2, <2>3, <2>4, <1>3
<1>5. \A j \in 1 .. Len(L) : Fine(j)
  BY <1>4
<1>6. ASSUME NEW j \in 1 .. Len(L) - 1 PROVE i[j] \in 1 .. Len(Items(h, p[j]))
  <2>1. j \in 1 .. Len(L)
    BY <1>1
  <2>2. Fine(j)
    BY <2>1, <1>5
  <2>. QED
    BY <2>2, <1>3
<1>. QED
  BY <1>5, <1>6

\* The keys in a node of a row.
LEMMA NodeKeys ==
  ASSUME NEW E, NEW h \in Seq(BTreeNode(E)), NEW S, NEW D, Row(h, S, D), NEW x \in S
  PROVE  /\ Items(h, x) \in Seq(Entry(E)) /\ Items(h, x) # <<>> /\ InOrder(Items(h, x))
         /\ Head(Items(h, x)) \in ToSet(Items(h, x)) /\ Last(Items(h, x)) \in ToSet(Items(h, x))
         /\ MaxKey(h, x) = Last(Items(h, x)).key
         /\ \A d \in ToSet(Items(h, x)) :
              /\ d.key \in Nat /\ Head(Items(h, x)).key \in Nat /\ MaxKey(h, x) \in Nat
              /\ Head(Items(h, x)).key <= d.key /\ d.key <= MaxKey(h, x)
<1>. DEFINE w == Items(h, x)
<1>1. KeysInOrder(h, x)
  BY DEF Row, RowNode
<1>2. w \in Seq(Entry(E)) /\ w # <<>> /\ InOrder(w)
  BY <1>1, RowEnds DEF KeysInOrder
<1>3. MaxKey(h, x) = Last(w).key
  BY DEF MaxKey, Items
<1>. HIDE DEF w
<1>4. /\ Head(w).key \in Nat /\ Last(w).key \in Nat
      /\ \A i \in 1 .. Len(w) : /\ w[i].key \in Nat
                                /\ Head(w).key <= w[i].key /\ w[i].key <= Last(w).key
      /\ Head(w) \in ToSet(w) /\ Last(w) \in ToSet(w)
  BY <1>2, OrderedEnds
<1>5. \A d \in ToSet(w) : \E i \in 1 .. Len(w) : d = w[i]
  BY <1>2 DEF ToSet
<1>6. \A d \in ToSet(w) : /\ d.key \in Nat /\ Head(w).key <= d.key /\ d.key <= Last(w).key
  BY <1>4, <1>5
<1>. QED
  BY <1>2, <1>3, <1>4, <1>6 DEF w

\* In an ordered row the records of key k can only be in the one node the key belongs below.
LEMMA OnlyThere ==
  ASSUME NEW E, NEW h \in Seq(BTreeNode(E)), NEW S, NEW D, Row(h, S, D), Distinct(h, S),
         Ordered(h, S), NEW c \in S, NEW x \in S, NEW e \in ToSet(Items(h, x)),
         Routed(h, c, e.key), e.key <= MaxKey(h, c)
  PROVE  x = c
<1>. DEFINE K(y) == MaxKey(h, y)
            k == e.key
<1>1. \A y \in S : K(y) \in Nat /\ Last(Items(h, y)).key = K(y)
  BY RowEnds DEF MaxKey, Items
<1>2. /\ k \in Nat /\ Head(Items(h, x)).key \in Nat
      /\ Head(Items(h, x)).key <= k /\ k <= K(x)
  BY NodeKeys
<1>3. /\ h[c].left # None => h[c].left \in S /\ K(h[c].left) < k
      /\ k <= K(c)
  BY RowLinks DEF Routed
<1>4. h[x].left # None => h[x].left \in S /\ K(h[x].left) < Head(Items(h, x)).key
  <2>. SUFFICES ASSUME h[x].left # None
                PROVE  h[x].left \in S /\ K(h[x].left) < Head(Items(h, x)).key
    OBVIOUS
  <2>. DEFINE l == h[x].left
  <2>1. l \in S /\ h[l].right = x /\ x # None
    BY RowLinks
  <2>. HIDE DEF l
  <2>2. Last(Items(h, l)).key < Head(Items(h, h[l].right)).key
    BY <2>1, RowLinks
  <2>. QED
    BY <1>1, <2>1, <2>2 DEF l
<1>5. ~(K(x) < K(c))
  <2>. SUFFICES ASSUME K(x) < K(c) PROVE FALSE
    OBVIOUS
  <2>1. h[c].left # None /\ K(x) <= K(h[c].left)
    BY DEF Ordered
  <2>2. K(h[c].left) \in Nat /\ K(x) \in Nat /\ K(h[c].left) < k
    BY <1>1, <1>3, <2>1
  <2>. HIDE DEF K, k
  <2>. QED
    BY <1>2, <2>1, <2>2
<1>6. ~(K(c) < K(x))
  <2>. SUFFICES ASSUME K(c) < K(x) PROVE FALSE
    OBVIOUS
  <2>1. h[x].left # None /\ K(c) <= K(h[x].left)
    BY DEF Ordered
  <2>2. K(h[x].left) \in Nat /\ K(c) \in Nat /\ K(h[x].left) < Head(Items(h, x)).key
    BY <1>1, <1>4, <2>1
  <2>. HIDE DEF K, k
  <2>. QED
    BY <1>2, <1>3, <2>1, <2>2
<1>7. K(x) = K(c)
  <2>1. K(x) \in Nat /\ K(c) \in Nat
    BY <1>1
  <2>. HIDE DEF K
  <2>. QED
    BY <2>1, <1>5, <1>6
<1>8. Last(Items(h, x)) \in ToSet(Items(h, x)) /\ Last(Items(h, c)) \in ToSet(Items(h, c))
  BY RowEnds
<1>. QED
  BY <1>1, <1>7, <1>8 DEF Distinct

\* The search for a record that is in the tree, of any height, never runs off the end of a node
\* and comes to the leaf that holds the record (getChildWithKey and the descent of
\* internalRemoveData).
THEOREM SearchReachesLeaf ==
  ASSUME NEW E, NEW h \in Seq(BTreeNode(E)), NEW L \in Seq(SUBSET Nat), TreeRight(h, L),
         NEW root, L[1] = {root}, NEW e \in Records(h, L),
         NEW p, NEW i, WayToFind(h, L, p, i, e.key)
  PROVE  /\ \A j \in 1 .. Len(L) - 1 : i[j] \in 1 .. Len(Items(h, p[j]))
         /\ p[Len(L)] \in L[Len(L)] /\ e \in ToSet(Items(h, p[Len(L)]))
         /\ e.key \in Nat /\ e.key <= MaxKey(h, root)
<1>. DEFINE q == Len(L)
            S == L[q]
            c == p[q]
<1>1. q \in Nat /\ q \in 1 .. q /\ Row(h, S, {}) /\ Distinct(h, S)
  BY DEF TreeRight, RowRight
<1>2. PICK x \in S : e \in ToSet(Items(h, x))
  BY DEF Records, Held
<1>3. Ordered(h, S) /\ MaxKey(h, x) <= MaxKey(h, root)
  BY <1>1, RowsOrdered
<1>4. e.key \in Nat /\ e.key <= MaxKey(h, x) /\ MaxKey(h, x) \in Nat
  BY <1>1, <1>2, NodeKeys
<1>5. e.key <= MaxKey(h, root)
  <2>1. MaxKey(h, root) \in Nat
    <3>1. 1 \in 1 .. Len(L) /\ RowRight(h, L, 1) /\ root \in L[1]
      BY <1>1 DEF TreeRight
    <3>2. \E D : Row(h, L[1], D)
      BY <3>1, RightRow
    <3>3. PICK D : Row(h, L[1], D)
      BY <3>2
    <3>. QED
      BY <3>1, <3>3, RowEnds DEF MaxKey, Items
  <2>. QED
    BY <2>1, <1>3, <1>4
<1>6. /\ \A j \in 1 .. Len(L) : p[j] \in L[j] /\ Routed(h, p[j], e.key)
      /\ \A j \in 1 .. Len(L) : e.key <= MaxKey(h, p[j])
      /\ \A j \in 1 .. Len(L) - 1 : i[j] \in 1 .. Len(Items(h, p[j]))
  <2>. DEFINE k == e.key
  <2>1. k \in Nat /\ WayToFind(h, L, p, i, k) /\ k <= MaxKey(h, root)
    BY <1>4, <1>5
  <2>. HIDE DEF k
  <2>2. /\ \A j \in 1 .. Len(L) : p[j] \in L[j] /\ Routed(h, p[j], k)
        /\ \A j \in 1 .. Len(L) : k <= MaxKey(h, root) => k <= MaxKey(h, p[j])
        /\ \A j \in 1 .. Len(L) - 1 : i[j] \in 1 .. Len(Items(h, p[j]))
    BY <2>1, WayIsRouted
  <2>. QED
    BY <2>1, <2>2 DEF k
<1>7. c \in S /\ Routed(h, c, e.key) /\ e.key <= MaxKey(h, c)
  BY <1>1, <1>6
<1>. HIDE DEF S, c
<1>8. x = c
  BY <1>1, <1>2, <1>3, <1>7, OnlyThere
<1>. QED
  BY <1>2, <1>4, <1>5, <1>6, <1>7, <1>8 DEF c, S

\* The leaf that the way of a new key ends in takes an item of that key between its own.
LEMMA AdditionFits ==
  ASSUME NEW E, NEW h \in Seq(BTreeNode(E)), NEW S, NEW D, Row(h, S, D), Distinct(h, S), NEW c \in S,
         NEW it \in Entry(E), Routed(h, c, it.key), \A e \in Held(h, S) : e.key # it.key,
         NEW w, w = insertData(Items(h, c), it)
  PROVE  /\ w \in Seq(Entry(E)) /\ FitsIn(h, S, c, w) /\ Len(w) = Size(h, c) + 1
         /\ \A d : d \in ToSet(w) <=> d \in ToSet(Items(h, c)) \/ d = it
<1>. DEFINE v == Items(h, c)
<1>1. /\ v \in Seq(Entry(E)) /\ v # <<>> /\ InOrder(v) /\ c \in DOMAIN h
      /\ Head(v) \in ToSet(v) /\ Last(v) \in ToSet(v)
  BY RowEnds, NodeKeys
<1>2. \A x \in S : \A e \in ToSet(Items(h, x)) : e.key # it.key
  BY DEF Held
<1>3. \A j \in 1 .. Len(v) : v[j].key # it.key
  <2>1. \A j \in 1 .. Len(v) : v[j] \in ToSet(Items(h, c))
    BY DEF ToSet
  <2>. QED
    BY <1>2, <2>1
<1>. HIDE DEF v
<1>4. /\ w \in Seq(Entry(E)) /\ InOrder(w) /\ Len(w) = Len(v) + 1
      /\ ToSet(w) = ToSet(v) \cup {it}
  <2>1. w = insertData(v, it)
    BY DEF v
  <2>. QED
    BY <1>1, <1>3, <2>1, InsertedInOrder
<1>5. \A d : d \in ToSet(w) <=> d \in ToSet(v) \/ d = it
  BY <1>4
<1>6. Len(v) = Size(h, c) /\ Len(v) \in Nat
  BY <1>1 DEF v, Size, Items
<1>7. w # <<>>
  BY <1>4, <1>6
<1>8. Head(w) \in ToSet(w) /\ Last(w) \in ToSet(w)
  BY <1>4, <1>7, Ends DEF ToSet
<1>9. it.key \in Nat
  BY DEF Entry
<1>10. \A d \in ToSet(v) : /\ d.key \in Nat /\ Head(v).key \in Nat /\ Last(v).key \in Nat
                           /\ Head(v).key <= d.key /\ d.key <= Last(v).key
  <2>. SUFFICES ASSUME NEW d \in ToSet(v)
                PROVE  /\ d.key \in Nat /\ Head(v).key \in Nat /\ Last(v).key \in Nat
                       /\ Head(v).key <= d.key /\ d.key <= Last(v).key
    OBVIOUS
  <2>1. PICK j \in 1 .. Len(v) : d = v[j]
    BY <1>1 DEF ToSet
  <2>. QED
    BY <1>1, <2>1, OrderedEnds
<1>11. h[c].left # None => MaxKey(h, h[c].left) < Head(w).key
  <2>. SUFFICES ASSUME h[c].left # None PROVE MaxKey(h, h[c].left) < Head(w).key
    OBVIOUS
  <2>. DEFINE l == h[c].left
  <2>1. l \in S /\ h[l].right = c /\ c # None
    BY RowLinks
  <2>2. MaxKey(h, l) < it.key
    BY DEF Routed
  <2>. HIDE DEF l
  <2>3. Last(Items(h, l)).key < Head(v).key /\ Last(Items(h, l)).key \in Nat
    BY <2>1, RowLinks, RowEnds DEF v
  <2>4. MaxKey(h, l) = Last(Items(h, l)).key
    BY DEF MaxKey, Items
  <2>5. \A d \in ToSet(v) : MaxKey(h, l) < d.key
    BY <2>3, <2>4, <1>10
  <2>. QED
    BY <2>2, <2>5, <1>5, <1>8 DEF l
<1>12. h[c].right # None => Last(w).key < Head(Items(h, h[c].right)).key
  <2>. SUFFICES ASSUME h[c].right # None
                PROVE  Last(w).key < Head(Items(h, h[c].right)).key
    OBVIOUS
  <2>. DEFINE r == h[c].right
              f == Head(Items(h, r)).key
  <2>1. r \in S /\ Last(v).key < f
    BY RowLinks DEF v
  <2>2. f \in Nat
    BY <2>1, RowEnds
  <2>3. it.key <= Last(v).key
    BY DEF Routed, MaxKey, v, Items
  <2>. HIDE DEF f
  <2>4. Last(v).key \in Nat
    BY <1>1, <1>10
  <2>5. \A d \in ToSet(v) : d.key < f
    BY <2>1, <2>2, <1>10
  <2>6. it.key < f
    BY <2>1, <2>2, <2>3, <2>4, <1>9
  <2>7. Last(w).key < f
    BY <2>5, <2>6, <1>5, <1>8
  <2>. QED
    BY <2>7 DEF f
<1>13. \A y \in S \ {c} : \A e \in ToSet(w), f \in ToSet(Items(h, y)) : e.key # f.key
  <2>. SUFFICES ASSUME NEW y \in S, y # c, NEW e \in ToSet(w), NEW f \in ToSet(Items(h, y))
                PROVE  e.key # f.key
    OBVIOUS
  <2>1. CASE e = it
    BY <2>1, <1>2
  <2>2. CASE e \in ToSet(v)
    BY <2>2 DEF Distinct, v
  <2>. QED
    BY <2>1, <2>2, <1>5
<1>. QED
  BY <1>4, <1>5, <1>6, <1>7, <1>11, <1>12, <1>13 DEF FitsIn, v


-----------------------------------------------------------------------------
(* The root. *)

\* A row that has another place among the rows is right if nobody writes it or its children.
LEMMA RightRowMoved ==
  ASSUME NEW E, NEW h \in Seq(BTreeNode(E)), NEW L, NEW j, RowRight(h, L, j),
         NEW g, DOMAIN h \subseteq DOMAIN g, NEW M, NEW l, M[l] = L[j], l < Len(M) <=> j < Len(L),
         j < Len(L) => M[l + 1] = L[j + 1],
         \A x \in L[j] : g[x] = h[x],
         j < Len(L) => \A x \in L[j + 1] : g[x] = h[x]
  PROVE  RowRight(g, M, l)
<1>1. CASE j < Len(L)
  <2>1. InnerRow(h, L[j], L[j + 1])
    BY <1>1 DEF RowRight
  <2>2. \A x \in L[j] \cup L[j + 1] : g[x] = h[x]
    BY <1>1
  <2>3. InnerRow(g, L[j], L[j + 1])
    BY <2>1, <2>2, InnerRowUntouched
  <2>. QED
    BY <2>3, <1>1 DEF RowRight
<1>2. CASE ~(j < Len(L))
  <2>1. Row(h, L[j], {}) /\ Distinct(h, L[j])
    BY <1>2 DEF RowRight
  <2>2. \A x \in L[j] \cup {} : g[x] = h[x]
    OBVIOUS
  <2>3. Row(g, L[j], {}) /\ Distinct(g, L[j])
    BY <2>1, <2>2, RowUntouched
  <2>. QED
    BY <2>3, <1>2 DEF RowRight
<1>. QED
  BY <1>1, <1>2

\* Node y of heap g has what node x of heap h has, and no neighbours.
SameNode(h, x, g, y) ==
  /\ g[y].leaf = h[x].leaf /\ Items(g, y) = Items(h, x)
  /\ g[y].left = None /\ g[y].right = None

\* A row of one node.
Alone(x) == {x}

\* Such a node may have another name.
LEMMA RowOfOne ==
  ASSUME NEW E, NEW h \in Seq(BTreeNode(E)), NEW x, NEW D, Row(h, Alone(x), D),
         NEW g, NEW y \in DOMAIN g, y \notin D, D \subseteq DOMAIN g, SameNode(h, x, g, y),
         \A z \in D : g[z] = h[z]
  PROVE  /\ Row(g, Alone(y), D) /\ Distinct(g, Alone(y)) /\ MaxKey(g, y) = MaxKey(h, x)
         /\ Parented(h, Alone(x), D) => Parented(g, Alone(y), D)
<1>. USE DEF Alone
<1>1. /\ g[y].leaf = h[x].leaf /\ Items(g, y) = Items(h, x)
      /\ g[y].left = None /\ g[y].right = None
  BY DEF SameNode
<1>2. /\ Items(h, x) # <<>> /\ KeysInOrder(h, x) /\ x \in DOMAIN h
      /\ ~h[x].leaf => Inner(h, Items(h, x), D) /\ CousinsLinked(h, x)
  BY DEF Row, RowNode
<1>3. h[x].left = None /\ h[x].right = None
  BY RootAlone
<1>4. Items(h, x) \in Seq(Entry(E))
  BY <1>2, HeapNode
<1>5. ASSUME ~h[x].leaf PROVE Inner(g, Items(h, x), D) /\ CousinsLinked(g, y)
  <2>1. Inner(h, Items(h, x), D) /\ CousinsLinked(h, x)
    BY <1>2, <1>5
  <2>2. Inner(g, Items(h, x), D)
    BY <2>1, <1>4, InnerAgrees
  <2>. DEFINE w == Items(h, x)
  <2>3. Head(w).data \in D /\ Last(w).data \in D
    <3>1. \A i \in 1 .. Len(w) : w[i].data \in D
      BY <2>1, <1>4 DEF Inner, ToSet
    <3>2. w # <<>> /\ w \in Seq(Entry(E))
      BY <1>2, <1>4
    <3>. HIDE DEF w
    <3>3. Head(w) = w[1] /\ Last(w) = w[Len(w)] /\ 1 \in 1 .. Len(w) /\ Len(w) \in 1 .. Len(w)
      BY <3>2, Ends
    <3>. QED
      BY <3>1, <3>3
  <2>4. /\ h[Head(w).data].left = None /\ h[Last(w).data].right = None
    BY <2>1, <1>3 DEF CousinsLinked
  <2>5. g[Head(w).data].left = None /\ g[Last(w).data].right = None
    BY <2>3, <2>4
  <2>. QED
    BY <2>2, <2>5, <1>1 DEF CousinsLinked
<1>6. RowNode(g, {y}, D, y)
  <2>1. KeysInOrder(g, y) /\ NeighboursInOrder(g, y)
    BY <1>1, <1>2 DEF KeysInOrder, NeighboursInOrder
  <2>. QED
    BY <2>1, <1>1, <1>2, <1>5 DEF RowNode
<1>7. Row(g, {y}, D)
  BY <1>6 DEF Row
<1>8. MaxKey(g, y) = MaxKey(h, x)
  BY <1>1 DEF MaxKey, Items
<1>9. Parented(h, {x}, D) => Parented(g, {y}, D)
  BY <1>1 DEF Parented, Child
<1>. QED
  BY <1>7, <1>8, <1>9, DistinctOne

\* What is in the only place of the list of items of a node that has one.
Single(k, d) == <<Item(k, d)>>

\* The heap in which the root's contents have moved to a new node, the root's only child.
Lowered(h) ==
  Append([h EXCEPT ![m_root] = Node(FALSE, Single(MaxKey(h, m_root), NextName(h)), RootOffset)],
         [h[m_root] EXCEPT !.off = NULL_OFFSET])

\* The rows with the new one under the root.
WithRoot(s, L) == <<{m_root}, {s}>> \o Tail(L)

\* Two elements before a sequence.
LEMMA TwoBefore ==
  ASSUME NEW S, NEW t \in Seq(S), NEW a \in S, NEW b \in S, NEW M, M = <<a, b>> \o t
  PROVE  /\ M \in Seq(S) /\ Len(M) = Len(t) + 2 /\ M[1] = a /\ M[2] = b
         /\ \A j \in 1 .. Len(t) : M[j + 2] = t[j]
OBVIOUS

\* What they are.
LEMMA RowsWithRoot ==
  ASSUME NEW L \in Seq(SUBSET Nat), L # <<>>, NEW s \in Nat, NEW M, M = WithRoot(s, L)
  PROVE  /\ M \in Seq(SUBSET Nat) /\ Len(M) = Len(L) + 1 /\ M[1] = Alone(m_root) /\ M[2] = Alone(s)
         /\ \A j \in 2 .. Len(L) : M[j + 1] = L[j]
<1>. DEFINE t == Tail(L)
            R == SUBSET Nat
            a == {m_root}
            b == {s}
<1>1. /\ t \in Seq(R) /\ Len(t) = Len(L) - 1 /\ Len(L) \in Nat /\ Len(L) >= 1
      /\ \A j \in 1 .. Len(t) : t[j] = L[j + 1]
  OBVIOUS
<1>2. a \in R /\ b \in R /\ M = <<a, b>> \o t
  BY DEF m_root, WithRoot
<1>. HIDE DEF t, R, a, b
<1>3. /\ M \in Seq(R) /\ Len(M) = Len(t) + 2 /\ M[1] = a /\ M[2] = b
      /\ \A j \in 1 .. Len(t) : M[j + 2] = t[j]
  BY <1>1, <1>2, TwoBefore
<1>4. ASSUME NEW j \in 2 .. Len(L) PROVE M[j + 1] = L[j]
  <2>. DEFINE q == j - 1
  <2>1. q \in 1 .. Len(t) /\ q + 2 = j + 1 /\ q + 1 = j
    BY <1>1
  <2>2. M[q + 2] = t[q] /\ t[q] = L[q + 1]
    BY <2>1, <1>1, <1>3
  <2>. QED
    BY <2>1, <2>2
<1>5. Len(M) = Len(L) + 1
  BY <1>1, <1>3
<1>. QED
  BY <1>3, <1>4, <1>5 DEF R, a, b, Alone

\* What the nodes of that heap are.
LEMMA LoweredNodes ==
  ASSUME NEW E, NEW h \in Seq(BTreeNode(E)), m_root \in DOMAIN h, Items(h, m_root) # <<>>,
         NEW s, s = NextName(h), s \in E, NEW k, k = MaxKey(h, m_root), NEW g, g = Lowered(h)
  PROVE  /\ g \in Seq(BTreeNode(E)) /\ Len(g) = s /\ s \in Nat /\ s # None /\ s \notin DOMAIN h
         /\ s # m_root /\ DOMAIN h \subseteq DOMAIN g /\ s \in DOMAIN g
         /\ DOMAIN g = WithNext(h, DOMAIN h)
         /\ \A x \in DOMAIN h : x # m_root => g[x] = h[x]
         /\ ~g[m_root].leaf /\ g[m_root].left = None /\ g[m_root].right = None
         /\ Items(g, m_root) = Single(k, s) /\ k \in Nat
         /\ g[s].leaf = h[m_root].leaf /\ Items(g, s) = Items(h, m_root)
         /\ g[s].left = h[m_root].left /\ g[s].right = h[m_root].right
<1>. DEFINE u == Node(FALSE, Single(k, s), RootOffset)
            v == [h[m_root] EXCEPT !.off = NULL_OFFSET]
            f == [h EXCEPT ![m_root] = u]
<1>1. /\ s = Len(h) + 1 /\ Len(h) \in Nat /\ s \in Nat /\ s # None /\ m_root \in 1 .. Len(h)
      /\ DOMAIN h = 1 .. Len(h)
  BY DEF NextName, None
<1>2. k \in Nat /\ h[m_root] \in BTreeNode(E)
  BY MaxKeyIsNat, HeapNode
<1>3. /\ Single(k, s) \in Seq(Entry(E))
  <2>1. Item(k, s) \in Entry(E)
    BY <1>2 DEF Entry, Item
  <2>. QED
    BY <2>1 DEF Single
<1>4. /\ u \in BTreeNode(E) /\ u.leaf = FALSE /\ u.left = None /\ u.right = None
      /\ u.items = Single(k, s)
  BY <1>3 DEF BTreeNode, Node, None, RootOffset
<1>5. /\ v \in BTreeNode(E) /\ v.leaf = h[m_root].leaf /\ v.items = h[m_root].items
      /\ v.left = h[m_root].left /\ v.right = h[m_root].right
  <2>1. NULL_OFFSET \in Int
    BY DEF NULL_OFFSET
  <2>. QED
    BY <1>2, <2>1 DEF BTreeNode
<1>6. g = Append(f, v)
  BY DEF Lowered
<1>. HIDE DEF u, v
<1>7. /\ f \in Seq(BTreeNode(E)) /\ Len(f) = Len(h) /\ f[m_root] = u
      /\ \A x \in DOMAIN h : x # m_root => f[x] = h[x]
  BY <1>1, <1>4
<1>. HIDE DEF f
<1>8. /\ g \in Seq(BTreeNode(E)) /\ Len(g) = s /\ g[s] = v
      /\ \A x \in 1 .. Len(h) : g[x] = f[x]
  <2>1. /\ Append(f, v) \in Seq(BTreeNode(E)) /\ Len(Append(f, v)) = Len(f) + 1
        /\ Append(f, v)[Len(f) + 1] = v
        /\ \A x \in 1 .. Len(f) : Append(f, v)[x] = f[x]
    BY <1>5, <1>7
  <2>. QED
    BY <2>1, <1>1, <1>6, <1>7
<1>9. DOMAIN g = 1 .. s
  BY <1>8
<1>10. /\ s \notin DOMAIN h /\ s # m_root /\ DOMAIN h \subseteq DOMAIN g /\ s \in DOMAIN g
       /\ DOMAIN g = WithNext(h, DOMAIN h)
  BY <1>1, <1>9 DEF WithNext
<1>11. g[m_root] = u /\ \A x \in DOMAIN h : x # m_root => g[x] = h[x]
  BY <1>1, <1>7, <1>8
<1>. QED
  BY <1>1, <1>2, <1>4, <1>5, <1>8, <1>10, <1>11 DEF Items

\* It is a tree with a root of one child, in which nothing is wrong but that child's load.
LEMMA LoweredTree ==
  ASSUME NEW E, NEW h \in Seq(BTreeNode(E)), NEW L \in Seq(SUBSET Nat), TreeRight(h, L),
         Rooted(L), LoadsInTree(h, L), TooFull(h, m_root), NextName(h) \in E
  PROVE  LET s == NextName(h)
             g == Lowered(h)
             M == WithRoot(s, L)
         IN /\ g \in Seq(BTreeNode(E)) /\ M \in Seq(SUBSET Nat) /\ Rooted(M)
            /\ TreeBut(g, M, 1, m_root, 1) /\ Child(g, m_root, 1) = s /\ TooFull(g, s)
            /\ LoadsButMore(g, M, 2, s) /\ Records(g, M) = Records(h, L)
            /\ Keyed(g, m_root, 1, s) = g /\ Size(g, m_root) = 1
<1>. DEFINE s == NextName(h)
            g == Lowered(h)
            M == WithRoot(s, L)
            D == Beneath(L, 1)
            k == MaxKey(h, m_root)
            n == Len(L)
<1>1. /\ n \in Nat /\ n >= 1 /\ 1 \in 1 .. n /\ L # <<>> /\ \A j \in 1 .. n : RowRight(h, L, j)
      /\ \A j, l \in 1 .. n : j # l => L[j] \cap L[l] = {}
  BY DEF TreeRight, Apart
<1>0. n \in Nat /\ n >= 1
  BY <1>1
<1>. HIDE DEF n
<1>2. \A j \in 1 .. n : L[j] \subseteq DOMAIN h
  BY <1>1, RightRow
<1>3. Row(h, {m_root}, D)
  <2>1. Row(h, L[1], Beneath(L, 1))
    BY <1>1, RightRow
  <2>. QED
    BY <2>1 DEF Rooted
<1>. HIDE DEF D
<1>4. /\ h[m_root].left = None /\ h[m_root].right = None
      /\ m_root \in DOMAIN h /\ Items(h, m_root) # <<>> /\ D \subseteq DOMAIN h /\ m_root \notin D
  <2>1. h[m_root].left = None /\ h[m_root].right = None
    BY <1>3, RootAlone
  <2>. QED
    BY <2>1, <1>3 DEF Row, RowNode
<1>5. /\ g \in Seq(BTreeNode(E)) /\ s \in Nat /\ s # None /\ s \notin DOMAIN h
      /\ s # m_root /\ DOMAIN h \subseteq DOMAIN g /\ s \in DOMAIN g
      /\ \A x \in DOMAIN h : x # m_root => g[x] = h[x]
      /\ ~g[m_root].leaf /\ g[m_root].left = None /\ g[m_root].right = None
      /\ Items(g, m_root) = Single(k, s) /\ k \in Nat
      /\ g[s].leaf = h[m_root].leaf /\ Items(g, s) = Items(h, m_root)
      /\ g[s].left = h[m_root].left /\ g[s].right = h[m_root].right
  <2>1. /\ m_root \in DOMAIN h /\ Items(h, m_root) # <<>> /\ s = NextName(h) /\ s \in E
        /\ k = MaxKey(h, m_root) /\ g = Lowered(h)
    BY <1>4
  <2>. HIDE DEF s, g, k
  <2>. QED
    BY <2>1, LoweredNodes
<1>. HIDE DEF s, g, k
<1>6. /\ M \in Seq(SUBSET Nat) /\ Len(M) = n + 1 /\ M[1] = {m_root} /\ M[2] = {s}
      /\ \A j \in 2 .. n : M[j + 1] = L[j]
  <2>1. s \in Nat /\ L # <<>>
    BY <1>1, <1>5
  <2>. HIDE DEF M
  <2>2. M = WithRoot(s, L)
    BY DEF M
  <2>3. M \in Seq(SUBSET Nat) /\ Len(M) = Len(L) + 1
    BY <2>1, <2>2, RowsWithRoot
  <2>4. M[1] = Alone(m_root) /\ M[2] = Alone(s)
    BY <2>1, <2>2, RowsWithRoot
  <2>5. \A j \in 2 .. Len(L) : M[j + 1] = L[j]
    BY <2>1, <2>2, RowsWithRoot
  <2>. QED
    BY <2>3, <2>4, <2>5 DEF n, Alone
<1>. HIDE DEF M
<1>7. Beneath(M, 2) = D
  <2>1. CASE n = 1
    <3>1. ~(2 < Len(M)) /\ ~(1 < n)
      BY <2>1, <1>6
    <3>. QED
      BY <3>1 DEF Beneath, D, n
  <2>2. CASE n # 1
    <3>1. 2 \in 2 .. n /\ 1 < n /\ 2 < n + 1
      BY <2>2, <1>0
    <3>2. M[2 + 1] = L[1 + 1]
      BY <3>1, <1>6
    <3>3. 2 < Len(M)
      BY <3>1, <1>6
    <3>. QED
      BY <3>1, <3>2, <3>3 DEF Beneath, D, n
  <2>. QED
    BY <2>1, <2>2
<1>8. \A z \in D : g[z] = h[z]
  BY <1>4, <1>5
<1>9. /\ Row(g, {s}, D) /\ Distinct(g, {s}) /\ MaxKey(g, s) = k
      /\ Parented(h, {m_root}, D) => Parented(g, {s}, D)
  <2>1. SameNode(h, m_root, g, s)
    BY <1>4, <1>5 DEF SameNode
  <2>2. s \in DOMAIN g /\ s \notin D /\ D \subseteq DOMAIN g
    BY <1>4, <1>5
  <2>3. Row(h, Alone(m_root), D)
    BY <1>3 DEF Alone
  <2>4. /\ Row(g, Alone(s), D) /\ Distinct(g, Alone(s)) /\ MaxKey(g, s) = MaxKey(h, m_root)
        /\ Parented(h, Alone(m_root), D) => Parented(g, Alone(s), D)
    BY <2>1, <2>2, <2>3, <1>8, RowOfOne
  <2>. QED
    BY <2>4 DEF Alone, k
<1>10. /\ Len(Items(g, m_root)) = 1 /\ Items(g, m_root)[1].key = k /\ Child(g, m_root, 1) = s
       /\ Items(g, m_root) = <<Item(k, s)>> /\ Size(g, m_root) = 1
  BY <1>5 DEF Single, Item, Child, Size, Items
<1>11. Keyed(g, m_root, 1, s) = g
  <2>1. g[m_root] \in BTreeNode(E) /\ m_root \in DOMAIN g
    BY <1>4, <1>5, HeapNode
  <2>. DEFINE w == g[m_root].items
  <2>2. w \in Seq(Entry(E)) /\ Len(w) = 1 /\ w[1] = Item(k, s)
    <3>1. w \in Seq(Entry(E)) /\ w = Items(g, m_root)
      BY <2>1 DEF BTreeNode, Items
    <3>. HIDE DEF w
    <3>. QED
      BY <3>1, <1>10
  <2>3. [w EXCEPT ![1].key = k] = w
    <3>1. [w[1] EXCEPT !.key = k] = w[1]
      BY <2>2 DEF Item
    <3>. HIDE DEF w
    <3>. QED
      BY <3>1, <2>2
  <2>4. [g[m_root] EXCEPT !.items = w] = g[m_root]
    BY <2>1 DEF BTreeNode
  <2>5. WithNodeKey(g, m_root, 1, k) = [g EXCEPT ![m_root].items = w]
    BY <2>3 DEF WithNodeKey, WithItems, WithKey, Items
  <2>6. [g EXCEPT ![m_root].items = w] = g
    BY <2>1, <2>4, <1>5
  <2>7. Keyed(g, m_root, 1, s) = WithNodeKey(g, m_root, 1, MaxKey(g, s))
    BY <2>1, <1>5, OneKeyWritten
  <2>. QED
    BY <2>5, <2>6, <2>7, <1>9
<1>12. Row(g, {m_root}, {s}) /\ Parented(g, {m_root}, {s})
  <2>1. RowNode(g, {m_root}, {s}, m_root)
    <3>1. Items(g, m_root) # <<>> /\ KeysInOrder(g, m_root) /\ NeighboursInOrder(g, m_root)
      BY <1>5, <1>10 DEF KeysInOrder, InOrder, NeighboursInOrder
    <3>2. Inner(g, Items(g, m_root), {s})
      <4>1. Exact(g, Items(g, m_root))
        BY <1>9, <1>10 DEF Exact, Child
      <4>2. Chain(g, Items(g, m_root))
        BY <1>10 DEF Chain
      <4>3. \A e \in ToSet(Items(g, m_root)) : e.data = s
        BY <1>10 DEF ToSet, Item
      <4>. QED
        BY <4>1, <4>2, <4>3 DEF Inner
    <3>3. CousinsLinked(g, m_root)
      <4>1. Head(Items(g, m_root)).data = s /\ Last(Items(g, m_root)).data = s
        BY <1>10 DEF Last, Item
      <4>. QED
        BY <4>1, <1>4, <1>5 DEF CousinsLinked
    <3>. QED
      BY <3>1, <3>2, <3>3, <1>5 DEF RowNode
  <2>2. {m_root} \subseteq DOMAIN g /\ {s} \subseteq DOMAIN g /\ {m_root} \cap {s} = {}
    BY <1>4, <1>5
  <2>3. Row(g, {m_root}, {s})
    BY <2>1, <2>2 DEF Row
  <2>4. Parented(g, {m_root}, {s})
    <3>1. 1 \in 1 .. Len(Items(g, m_root)) /\ Child(g, m_root, 1) = s
      BY <1>10
    <3>2. \E i \in 1 .. Len(Items(g, m_root)) : Child(g, m_root, i) = s
      BY <3>1
    <3>. QED
      BY <3>2 DEF Parented
  <2>. QED
    BY <2>3, <2>4
<1>13. StaleAt(g, M[1], M[2], Beneath(M, 2), m_root, 1)
  <2>1. Levels(g, {m_root}, {s}, D)
    <3>1. Distinct(g, {m_root})
      BY DistinctOne
    <3>. QED
      BY <3>1, <1>4, <1>5, <1>9, <1>12 DEF Levels
  <2>2. Corrected(g, m_root, 1) = g
    <3>1. Keyed(g, m_root, 1, s) = WithNodeKey(g, m_root, 1, MaxKey(g, s))
      BY <1>4, <1>5, OneKeyWritten
    <3>. QED
      BY <3>1, <1>10, <1>11 DEF Corrected
  <2>3. /\ m_root \in {m_root} /\ m_root \in DOMAIN g /\ 1 \in 1 .. Len(Items(g, m_root))
        /\ KeysInOrder(g, m_root)
    BY <1>4, <1>5, <1>10 DEF KeysInOrder, InOrder
  <2>4. Child(g, m_root, 1) \in DOMAIN g /\ Items(g, Child(g, m_root, 1)) # <<>>
    BY <1>4, <1>5, <1>10
  <2>. QED
    BY <2>1, <2>2, <2>3, <2>4, <1>6, <1>7 DEF StaleAt
<1>14. Apart(M)
  <2>. SUFFICES ASSUME NEW j \in 1 .. n + 1, NEW l \in 1 .. n + 1, j # l
                PROVE  M[j] \cap M[l] = {}
    BY <1>6 DEF Apart
  <2>1. \A q \in 1 .. n + 1 : q = 1 \/ q = 2 \/ (q - 1 \in 2 .. n /\ q - 1 \in 1 .. n /\ M[q] = L[q - 1])
    <3>. SUFFICES ASSUME NEW q \in 1 .. n + 1, q # 1, q # 2
                  PROVE  q - 1 \in 2 .. n /\ q - 1 \in 1 .. n /\ M[q] = L[q - 1]
      OBVIOUS
    <3>1. q - 1 \in 2 .. n /\ q - 1 \in 1 .. n
      BY <1>1 DEF Rooted
    <3>2. M[(q - 1) + 1] = L[q - 1]
      BY <3>1, <1>6
    <3>. QED
      BY <3>1, <3>2
  <2>2. \A q \in 1 .. n : q # 1 => m_root \notin L[q]
    BY <1>1 DEF Rooted
  <2>3. \A q \in 1 .. n : s \notin L[q]
    BY <1>2, <1>5
  <2>4. M[1] = {m_root} /\ M[2] = {s} /\ s # m_root
    BY <1>5, <1>6
  <2>5. \A q \in 1 .. n + 1 : q # 1 => m_root \notin M[q]
    <3>. SUFFICES ASSUME NEW q \in 1 .. n + 1, q # 1 PROVE m_root \notin M[q]
      OBVIOUS
    <3>1. CASE q = 2
      BY <3>1, <2>4
    <3>2. CASE q # 2
      <4>1. q - 1 \in 2 .. n /\ q - 1 \in 1 .. n /\ M[q] = L[q - 1] /\ q - 1 # 1
        BY <3>2, <2>1
      <4>. QED
        BY <4>1, <2>2
    <3>. QED
      BY <3>1, <3>2
  <2>6. \A q \in 1 .. n + 1 : q # 2 => s \notin M[q]
    <3>. SUFFICES ASSUME NEW q \in 1 .. n + 1, q # 2 PROVE s \notin M[q]
      OBVIOUS
    <3>1. CASE q = 1
      BY <3>1, <2>4
    <3>2. CASE q # 1
      <4>1. q - 1 \in 1 .. n /\ M[q] = L[q - 1]
        BY <3>2, <2>1
      <4>. QED
        BY <4>1, <2>3
    <3>. QED
      BY <3>1, <3>2
  <2>7. CASE j = 1 \/ l = 1
    BY <2>7, <2>4, <2>5
  <2>8. CASE j = 2 \/ l = 2
    BY <2>8, <2>4, <2>6
  <2>9. CASE j # 1 /\ l # 1 /\ j # 2 /\ l # 2
    <3>. DEFINE a == j - 1
                b == l - 1
    <3>1. a \in 1 .. n /\ M[j] = L[a] /\ b \in 1 .. n /\ M[l] = L[b]
      BY <2>1, <2>9
    <3>2. a # b
      OBVIOUS
    <3>. HIDE DEF a, b
    <3>. QED
      BY <3>1, <3>2, <1>1
  <2>. QED
    BY <2>7, <2>8, <2>9
<1>15. \A j \in 1 .. Len(M) : j # 1 => RowRight(g, M, j)
  <2>. SUFFICES ASSUME NEW j \in 2 .. n + 1 PROVE RowRight(g, M, j)
    BY <1>1, <1>6
  <2>1. CASE j = 2
    <3>1. CASE n = 1
      <4>0. ~(1 < n) /\ ~(2 < Len(M))
        BY <3>1, <1>6
      <4>1. D = {}
        BY <4>0 DEF D, Beneath, n
      <4>. QED
        BY <2>1, <4>0, <4>1, <1>6, <1>9 DEF RowRight
    <3>2. CASE n # 1
      <4>0. 1 < n /\ 2 \in 2 .. n /\ 2 < n + 1
        BY <3>2, <1>0
      <4>1. 1 < n /\ D = L[1 + 1] /\ M[2 + 1] = L[2] /\ 2 < Len(M)
        <5>1. D = L[1 + 1]
          BY <4>0 DEF D, Beneath, n
        <5>. QED
          BY <5>1, <4>0, <1>6
      <4>3. RowRight(h, L, 1)
        BY <1>1
      <4>2. InnerRow(h, L[1], D)
        BY <4>0, <4>1, <4>3 DEF RowRight, n
      <4>4. ~h[m_root].leaf /\ Parented(h, {m_root}, D)
        BY <4>2 DEF InnerRow, Rooted
      <4>5. InnerRow(g, {s}, D)
        BY <4>4, <1>5, <1>9 DEF InnerRow
      <4>6. InnerRow(g, M[2], M[2 + 1])
        BY <4>1, <4>5, <1>6
      <4>. QED
        BY <2>1, <4>1, <4>6 DEF RowRight
    <3>. QED
      BY <3>1, <3>2
  <2>2. CASE j # 2
    <3>. DEFINE q == j - 1
    <3>1. q \in 2 .. n /\ q \in 1 .. n /\ j = q + 1
      BY <2>2, <1>1
    <3>2. RowRight(h, L, q) /\ M[j] = L[q] /\ (j < Len(M) <=> q < n)
      BY <3>1, <1>1, <1>6
    <3>3. q < n => M[j + 1] = L[q + 1] /\ q + 1 \in 1 .. n
      <4>. SUFFICES ASSUME q < n PROVE M[j + 1] = L[q + 1] /\ q + 1 \in 1 .. n
        OBVIOUS
      <4>1. q + 1 \in 2 .. n /\ q + 1 \in 1 .. n
        BY <3>1, <1>1
      <4>2. M[(q + 1) + 1] = L[q + 1]
        BY <4>1, <1>6
      <4>. QED
        BY <4>1, <4>2, <3>1
    <3>. HIDE DEF q
    <3>4. \A l \in 1 .. n : l # 1 => \A x \in L[l] : g[x] = h[x]
      <4>. SUFFICES ASSUME NEW l \in 1 .. n, l # 1, NEW x \in L[l] PROVE g[x] = h[x]
        OBVIOUS
      <4>1. x # m_root /\ x \in DOMAIN h
        BY <1>1, <1>2 DEF Rooted
      <4>. QED
        BY <4>1, <1>5
    <3>5. (\A x \in L[q] : g[x] = h[x]) /\ (q < n => \A x \in L[q + 1] : g[x] = h[x])
      BY <3>1, <3>3, <3>4, <1>1
    <3>6. DOMAIN h \subseteq DOMAIN g
      BY <1>5
    <3>. QED
      BY <3>2, <3>3, <3>5, <3>6, RightRowMoved DEF n
  <2>. QED
    BY <2>1, <2>2
<1>16. TreeBut(g, M, 1, m_root, 1)
  <2>1. 1 \in 1 .. Len(M) - 1
    BY <1>1, <1>6
  <2>. QED
    BY <2>1, <1>13, <1>14, <1>15 DEF TreeBut
<1>17. TooFull(g, s) /\ Size(g, s) = MaxLoad + 1
  BY <1>5 DEF TooFull, Size, Items
<1>18. LoadsButMore(g, M, 2, s)
  <2>. SUFFICES ASSUME NEW j \in 2 .. n + 1
                PROVE  IF j = 2 THEN LoadsAfterGain(g, M[j], s) ELSE LoadsRight(g, M[j])
    BY <1>6 DEF LoadsButMore
  <2>1. CASE j = 2
    <3>1. MaxLoad \in Nat /\ MinLoad \in Nat /\ MaxLoad + 1 >= MinLoad
      BY LoadAssumption DEF MinLoad
    <3>. QED
      BY <2>1, <3>1, <1>6, <1>17 DEF LoadsAfterGain
  <2>2. CASE j # 2
    <3>. DEFINE q == j - 1
    <3>1. q \in 2 .. n /\ q \in 1 .. n /\ j = q + 1
      BY <2>2, <1>1
    <3>2. M[j] = L[q] /\ LoadsRight(h, L[q])
      BY <3>1, <1>6 DEF LoadsInTree, n
    <3>3. \A x \in L[q] : x # m_root /\ x \in DOMAIN h
      BY <3>1, <1>1, <1>2 DEF Rooted
    <3>4. \A x \in L[q] : Size(g, x) = Size(h, x)
      BY <3>3, <1>5 DEF Size
    <3>. QED
      BY <2>2, <3>2, <3>4 DEF LoadsRight
  <2>. QED
    BY <2>1, <2>2
<1>19. Records(g, M) = Records(h, L)
  <2>1. CASE n = 1
    <3>1. Held(g, {s}) = ToSet(Items(g, s))
      BY DEF Held
    <3>2. Held(h, {m_root}) = ToSet(Items(h, m_root))
      BY DEF Held
    <3>3. L[Len(L)] = {m_root} /\ M[Len(M)] = {s} /\ Items(g, s) = Items(h, m_root)
      BY <2>1, <1>5, <1>6 DEF Rooted, n
    <3>. QED
      BY <3>1, <3>2, <3>3 DEF Records
  <2>2. CASE n # 1
    <3>1. n \in 2 .. n /\ n \in 1 .. n
      BY <2>2, <1>0
    <3>2. M[n + 1] = L[n] /\ Len(M) = n + 1
      BY <3>1, <1>6
    <3>3. \A x \in L[n] : x # m_root /\ x \in DOMAIN h
      BY <3>1, <2>2, <1>1, <1>2 DEF Rooted
    <3>4. \A x \in L[n] : Items(g, x) = Items(h, x)
      BY <3>3, <1>5 DEF Items
    <3>5. Held(g, L[n]) = Held(h, L[n])
      BY <3>4 DEF Held
    <3>. QED
      BY <3>2, <3>5 DEF Records, n
  <2>. QED
    BY <2>1, <2>2
<1>. QED
  BY <1>5, <1>6, <1>10, <1>11, <1>16, <1>17, <1>18, <1>19 DEF s, g, M, Rooted

\* The lower half that makeSibling makes of a node without a right neighbour.
LowerHalf(v, s) == [v EXCEPT !.items = SubSeq(@, 1, MaxLoad \div 2), !.right = s]

\* The upper half, the new node.
UpperHalf(v, c) ==
  [v EXCEPT !.items = SubSeq(@, MaxLoad \div 2 + 1, Len(@)), !.left = c, !.off = NULL_OFFSET]

\* What makeSibling makes of the heap then.
LEMMA SiblingAtEnd ==
  ASSUME NEW N, NEW h \in Seq(N), NEW c \in DOMAIN h, h[c].right = None,
         NEW s, s = NextName(h), NEW f, f = makeSibling(h, c),
         LowerHalf(h[c], s) \in N, UpperHalf(h[c], c) \in N
  PROVE  /\ f \in Seq(N) /\ Len(f) = s
         /\ f[c] = LowerHalf(h[c], s) /\ f[s] = UpperHalf(h[c], c)
         /\ \A x \in DOMAIN h : x # c => f[x] = h[x]
<1>. DEFINE a == LowerHalf(h[c], s)
            b == UpperHalf(h[c], c)
            q == [h EXCEPT ![c].items = SubSeq(@, 1, MaxLoad \div 2), ![c].right = s]
<1>1. f = Append(q, b)
  BY DEF makeSibling, NextName, UpperHalf
<1>2. q = [h EXCEPT ![c] = a]
  BY DEF LowerHalf
<1>. HIDE DEF q
<1>3. a \in N /\ b \in N /\ s = Len(h) + 1 /\ c \in 1 .. Len(h) /\ Len(h) \in Nat
  BY DEF NextName
<1>. HIDE DEF a, b
<1>4. q \in Seq(N) /\ Len(q) = Len(h) /\ q[c] = a /\ \A x \in DOMAIN h : x # c => q[x] = h[x]
  BY <1>2, <1>3
<1>5. /\ Append(q, b) \in Seq(N) /\ Len(Append(q, b)) = Len(q) + 1
      /\ Append(q, b)[Len(q) + 1] = b
      /\ \A x \in 1 .. Len(q) : Append(q, b)[x] = q[x]
  BY <1>3, <1>4
<1>6. f \in Seq(N) /\ Len(f) = s /\ f[s] = b /\ \A x \in 1 .. Len(h) : f[x] = q[x]
  BY <1>1, <1>3, <1>4, <1>5
<1>7. DOMAIN h = 1 .. Len(h)
  OBVIOUS
<1>. QED
  BY <1>3, <1>4, <1>6, <1>7 DEF a, b

\* Two items of a node.
Two(a, b) == <<a, b>>

\* One item, given another key, and another after it.
LEMMA SecondItem ==
  ASSUME NEW E, NEW k, NEW c, NEW q, NEW e, Item(k, c) \in Entry(E), Item(q, c) \in Entry(E),
         e \in Entry(E)
  PROVE  WithItemAfter(Single(k, c), 1, q, e) = Two(Item(q, c), e)
<1>. DEFINE N == Entry(E)
            a == Item(q, c)
            t == <<a>>
            w == InsertAt(t, 2, e)
            u == <<a, e>>
<1>1. WithKey(Single(k, c), 1, q) = t
  BY DEF Single, Item, WithKey
<1>2. a \in N /\ e \in N
  OBVIOUS
<1>. HIDE DEF a, N
<1>3. t \in Seq(N) /\ 2 \in 1 .. Len(t) + 1 /\ Len(t) = 1 /\ t[1] = a
  BY <1>2
<1>4. u \in Seq(N) /\ Len(u) = 2 /\ u[1] = a /\ u[2] = e
  BY <1>2
<1>. HIDE DEF t, u
<1>5. w \in Seq(N) /\ Len(w) = Len(t) + 1 /\ (\A j \in 1 .. 2 - 1 : w[j] = t[j]) /\ w[2] = e
  <2>. DEFINE i == 2
  <2>1. t \in Seq(N) /\ i \in 1 .. Len(t) + 1 /\ w = InsertAt(t, i, e)
    BY <1>3
  <2>2. e \in N
    BY <1>2
  <2>. HIDE DEF i, w
  <2>3. w \in Seq(N) /\ Len(w) = Len(t) + 1 /\ (\A j \in 1 .. i - 1 : w[j] = t[j]) /\ w[i] = e
    BY <2>1, <2>2, InsertAtProperties
  <2>. QED
    BY <2>3 DEF i
<1>6. Len(w) = 2 /\ w[1] = a /\ w[2] = e
  BY <1>3, <1>5
<1>. HIDE DEF w
<1>7. w = u
  BY <1>4, <1>5, <1>6
<1>. QED
  BY <1>1, <1>7 DEF a, w, u, t, WithItemAfter, Two

\* Splitting the root is lowering it and splitting its child.
LEMMA SplitRootLowers ==
  ASSUME NEW E, NEW h \in Seq(BTreeNode(E)), m_root \in DOMAIN h, TooFull(h, m_root),
         h[m_root].right = None, Nat \subseteq E
  PROVE  SplitRoot(h) = SplitChild(Lowered(h), m_root, 1)
<1>. DEFINE N == BTreeNode(E)
            k == MaxKey(h, m_root)
            c == NextName(h)
            s == c + 1
            v == [h[m_root] EXCEPT !.off = NULL_OFFSET]
            one == Node(FALSE, <<>>, RootOffset)
            two == Node(FALSE, Single(k, c), RootOffset)
            p == Append([h EXCEPT ![m_root] = one], v)
            q == Lowered(h)
            f == makeSibling(p, c)
            e == makeSibling(q, c)
            a == LowerHalf(v, s)
            b == UpperHalf(v, c)
            kc == Last(a.items).key
            ks == Last(b.items).key
            items == <<Item(kc, c), Item(ks, s)>>
            root == Node(FALSE, items, RootOffset)
<1>1. /\ c = Len(h) + 1 /\ Len(h) \in Nat /\ c \in Nat /\ s \in Nat /\ m_root \in 1 .. Len(h)
      /\ DOMAIN h = 1 .. Len(h) /\ c # m_root /\ s # m_root /\ s # c
  BY DEF NextName
<1>2. /\ h[m_root] \in N /\ Items(h, m_root) \in Seq(Entry(E)) /\ Len(Items(h, m_root)) = MaxLoad + 1
  BY HeapNode DEF TooFull, Size, Items
<1>3. MaxLoad \div 2 \in Nat /\ MaxLoad \in Nat /\ MaxLoad \div 2 >= 1 /\ MaxLoad + 1 > MaxLoad \div 2
  BY LoadAssumption
<1>4. k \in Nat
  <2>1. Items(h, m_root) # <<>>
    BY <1>2, <1>3
  <2>. QED
    BY <2>1, MaxKeyIsNat
<1>5. NULL_OFFSET \in Int /\ RootOffset \in Int
  BY DEF NULL_OFFSET, RootOffset
<1>6. /\ v \in N /\ v.items = Items(h, m_root) /\ v.right = None /\ v.off = NULL_OFFSET
      /\ v.leaf \in BOOLEAN /\ v.left \in Nat
  BY <1>2, <1>5 DEF BTreeNode, Items
<1>. HIDE DEF v
<1>7. /\ a \in N /\ b \in N /\ a.right = s /\ b.left = c
      /\ a.items # <<>> /\ b.items # <<>>
  <2>. DEFINE w == v.items
              m == MaxLoad \div 2
              w1 == SubSeq(w, 1, m)
              w2 == SubSeq(w, m + 1, Len(w))
  <2>1. w \in Seq(Entry(E)) /\ m \in 0 .. Len(w) /\ Len(w) = MaxLoad + 1
    BY <1>2, <1>3, <1>6
  <2>2. a = [v EXCEPT !.items = w1, !.right = s]
    BY DEF LowerHalf
  <2>3. b = [v EXCEPT !.items = w2, !.left = c, !.off = NULL_OFFSET]
    BY DEF UpperHalf
  <2>. HIDE DEF w, m
  <2>4. /\ w1 \in Seq(Entry(E)) /\ Len(w1) = m
        /\ w2 \in Seq(Entry(E)) /\ Len(w2) = Len(w) - m
    BY <2>1, TwoParts
  <2>. HIDE DEF w1, w2, a, b, s, c
  <2>5. a \in N /\ a.right = s /\ a.items = w1
    BY <2>2, <2>4, <1>1, <1>6 DEF BTreeNode
  <2>6. b \in N /\ b.left = c /\ b.items = w2
    BY <2>3, <2>4, <1>1, <1>5, <1>6 DEF BTreeNode
  <2>7. w1 # <<>> /\ w2 # <<>>
    BY <2>1, <2>4, <1>3 DEF m
  <2>. QED
    BY <2>5, <2>6, <2>7
<1>8. kc \in Nat /\ ks \in Nat
  <2>1. a.items \in Seq(Entry(E)) /\ b.items \in Seq(Entry(E))
    BY <1>7 DEF BTreeNode
  <2>. DEFINE w1 == a.items
              w2 == b.items
  <2>2. w1 \in Seq(Entry(E)) /\ w1 # <<>> /\ w2 \in Seq(Entry(E)) /\ w2 # <<>>
    BY <2>1, <1>7
  <2>. HIDE DEF w1, w2
  <2>3. Last(w1) \in Entry(E) /\ Last(w2) \in Entry(E)
    BY <2>2, Ends
  <2>. QED
    BY <2>3 DEF Entry, w1, w2
<1>. HIDE DEF a, b, kc, ks, s, c, k
<1>9. /\ Item(k, c) \in Entry(E) /\ Item(kc, c) \in Entry(E) /\ Item(ks, s) \in Entry(E)
  BY <1>1, <1>4, <1>8 DEF Entry, Item
<1>10. one \in N /\ two \in N /\ root \in N
  <2>1. <<>> \in Seq(Entry(E)) /\ Single(k, c) \in Seq(Entry(E)) /\ items \in Seq(Entry(E))
    BY <1>9 DEF Single
  <2>. HIDE DEF items
  <2>. QED
    BY <2>1, <1>5 DEF Node, BTreeNode, None
<1>. HIDE DEF one, two
<1>11. /\ p \in Seq(N) /\ Len(p) = c /\ p[c] = v /\ p[m_root] = one
       /\ \A x \in DOMAIN h : x # m_root => p[x] = h[x]
  <2>. DEFINE t == [h EXCEPT ![m_root] = one]
  <2>1. t \in Seq(N) /\ Len(t) = Len(h) /\ t[m_root] = one /\ \A x \in DOMAIN h : x # m_root => t[x] = h[x]
    BY <1>1, <1>10
  <2>. HIDE DEF t, N
  <2>2. /\ Append(t, v) \in Seq(N) /\ Len(Append(t, v)) = Len(t) + 1
        /\ Append(t, v)[Len(t) + 1] = v
        /\ \A x \in 1 .. Len(t) : Append(t, v)[x] = t[x]
    BY <2>1, <1>6
  <2>3. p = Append(t, v)
    BY DEF t
  <2>. HIDE DEF p
  <2>. QED
    BY <2>1, <2>2, <2>3, <1>1
<1>12. /\ q \in Seq(N) /\ Len(q) = c /\ q[c] = v /\ q[m_root] = two
       /\ \A x \in DOMAIN h : x # m_root => q[x] = h[x]
  <2>. DEFINE t == [h EXCEPT ![m_root] = two]
  <2>1. t \in Seq(N) /\ Len(t) = Len(h) /\ t[m_root] = two /\ \A x \in DOMAIN h : x # m_root => t[x] = h[x]
    BY <1>1, <1>10
  <2>3. q = Append(t, v)
    BY DEF t, Lowered, two, v, k, c
  <2>. HIDE DEF t, N
  <2>2. /\ Append(t, v) \in Seq(N) /\ Len(Append(t, v)) = Len(t) + 1
        /\ Append(t, v)[Len(t) + 1] = v
        /\ \A x \in 1 .. Len(t) : Append(t, v)[x] = t[x]
    BY <2>1, <1>6
  <2>. HIDE DEF q
  <2>. QED
    BY <2>1, <2>2, <2>3, <1>1
<1>. HIDE DEF p, q
<1>13. /\ f \in Seq(N) /\ Len(f) = s /\ f[c] = a /\ f[s] = b
       /\ \A x \in DOMAIN p : x # c => f[x] = p[x]
  <2>1. c \in DOMAIN p /\ p[c].right = None /\ s = NextName(p)
    BY <1>1, <1>6, <1>11 DEF NextName, s
  <2>2. LowerHalf(p[c], s) = a /\ UpperHalf(p[c], c) = b
    BY <1>11 DEF a, b
  <2>. HIDE DEF f
  <2>3. f = makeSibling(p, c)
    BY DEF f
  <2>4. LowerHalf(p[c], s) \in N /\ UpperHalf(p[c], c) \in N
    BY <2>2, <1>7
  <2>. HIDE DEF N
  <2>5. /\ f \in Seq(N) /\ Len(f) = s
        /\ f[c] = LowerHalf(p[c], s) /\ f[s] = UpperHalf(p[c], c)
        /\ \A x \in DOMAIN p : x # c => f[x] = p[x]
    BY <2>1, <2>3, <2>4, <1>11, SiblingAtEnd
  <2>. QED
    BY <2>2, <2>5
<1>14. /\ e \in Seq(N) /\ Len(e) = s /\ e[c] = a /\ e[s] = b
       /\ \A x \in DOMAIN q : x # c => e[x] = q[x]
  <2>1. c \in DOMAIN q /\ q[c].right = None /\ s = NextName(q)
    BY <1>1, <1>6, <1>12 DEF NextName, s
  <2>2. LowerHalf(q[c], s) = a /\ UpperHalf(q[c], c) = b
    BY <1>12 DEF a, b
  <2>. HIDE DEF e
  <2>3. e = makeSibling(q, c)
    BY DEF e
  <2>4. LowerHalf(q[c], s) \in N /\ UpperHalf(q[c], c) \in N
    BY <2>2, <1>7
  <2>. HIDE DEF N
  <2>5. /\ e \in Seq(N) /\ Len(e) = s
        /\ e[c] = LowerHalf(q[c], s) /\ e[s] = UpperHalf(q[c], c)
        /\ \A x \in DOMAIN q : x # c => e[x] = q[x]
    BY <2>1, <2>3, <2>4, <1>12, SiblingAtEnd
  <2>. QED
    BY <2>2, <2>5
<1>. HIDE DEF N

<1>15. /\ MaxKey(f, c) = kc /\ MaxKey(f, s) = ks /\ MaxKey(e, c) = kc /\ MaxKey(e, s) = ks
  BY <1>13, <1>14 DEF MaxKey, Items, kc, ks
<1>16. SplitRoot(h) = [f EXCEPT ![m_root].items = items, ![c].right = s, ![s].left = c]
  <2>1. p = Append([h EXCEPT ![m_root] = Node(FALSE, <<>>, RootOffset)],
                   [h[m_root] EXCEPT !.off = NULL_OFFSET]) /\ c = Len(h) + 1
    BY DEF p, one, v, c, NextName
  <2>. HIDE DEF f, items
  <2>2. f = makeSibling(p, c)
    BY DEF f
  <2>3. SplitRoot(h) = [f EXCEPT ![m_root].items = <<Item(MaxKey(f, c), c), Item(MaxKey(f, Len(f)), Len(f))>>,
                                 ![c].right = Len(f), ![Len(f)].left = c]
    BY <2>1, <2>2 DEF SplitRoot
  <2>4. Len(f) = s
    BY <1>13
  <2>. QED
    BY <2>3, <2>4, <1>15 DEF items
<1>17. Items(q, m_root) = Single(k, c) /\ Single(k, c)[1].data = c
  BY <1>12 DEF Items, two, Node, Single, Item
<1>18. SplitChild(q, m_root, 1) =
         [e EXCEPT ![m_root].items = InsertAt([@ EXCEPT ![1].key = kc], 2, Item(ks, s))]
  <2>. HIDE DEF e, items
  <2>1. e = makeSibling(q, c)
    BY DEF e
  <2>2. SplitChild(q, m_root, 1) =
          [e EXCEPT ![m_root].items = InsertAt([@ EXCEPT ![1].key = MaxKey(e, c)], 1 + 1,
                                               Item(MaxKey(e, Len(e)), Len(e)))]
    BY <2>1, <1>17 DEF SplitChild
  <2>3. Len(e) = s
    BY <1>14
  <2>. QED
    BY <2>2, <2>3, <1>15
<1>19. InsertAt([Single(k, c) EXCEPT ![1].key = kc], 2, Item(ks, s)) = items
  <2>. HIDE DEF f, e
  <2>. DEFINE z == Item(ks, s)
  <2>1. z \in Entry(E)
    BY <1>9
  <2>. HIDE DEF z
  <2>2. WithItemAfter(Single(k, c), 1, kc, z) = Two(Item(kc, c), z)
    BY <2>1, <1>9, SecondItem
  <2>3. WithItemAfter(Single(k, c), 1, kc, z) = InsertAt([Single(k, c) EXCEPT ![1].key = kc], 2, z)
    BY DEF WithItemAfter, WithKey
  <2>. QED
    BY <2>2, <2>3 DEF z, Two
<1>. HIDE DEF f, e, items
<1>20. f[m_root] = one /\ e[m_root] = two /\ m_root \in 1 .. s /\ c \in 1 .. s /\ s \in 1 .. s
  <2>1. m_root \in DOMAIN p /\ m_root \in DOMAIN q /\ m_root # c /\ s = c + 1
    BY <1>1, <1>11, <1>12 DEF s
  <2>. QED
    BY <2>1, <1>1, <1>11, <1>12, <1>13, <1>14
<1>21. [one EXCEPT !.items = items] = root /\ [two EXCEPT !.items = items] = root
  <2>. DEFINE l == FALSE
              w == Single(k, c)
              o == <<>>
  <2>1. one = Node(l, o, RootOffset) /\ two = Node(l, w, RootOffset) /\ root = Node(l, items, RootOffset)
    BY DEF one, two
  <2>. HIDE DEF l, w, o
  <2>2. /\ [Node(l, o, RootOffset) EXCEPT !.items = items] = Node(l, items, RootOffset)
        /\ [Node(l, w, RootOffset) EXCEPT !.items = items] = Node(l, items, RootOffset)
    BY DEF Node
  <2>. QED
    BY <2>1, <2>2
<1>22. /\ [f EXCEPT ![m_root].items = items, ![c].right = s, ![s].left = c] = [f EXCEPT ![m_root] = root]
  <2>1. f[c].right = s /\ f[s].left = c /\ f[c] \in N /\ f[s] \in N
    BY <1>7, <1>13
  <2>2. /\ [f[c] EXCEPT !.right = s] = f[c] /\ [f[s] EXCEPT !.left = c] = f[s]
    BY <2>1 DEF N, BTreeNode
  <2>. HIDE DEF root
  <2>3. DOMAIN f = 1 .. s
    BY <1>13
  <2>4. \A x \in DOMAIN f : f[x] \in N
    BY <1>13
  <2>. DEFINE f1 == [f EXCEPT ![m_root].items = items]
              f2 == [f1 EXCEPT ![c].right = s]
              f3 == [f2 EXCEPT ![s].left = c]
  <2>5. f1 = [f EXCEPT ![m_root] = root]
    BY <1>20, <1>21, <2>3
  <2>. HIDE DEF f1
  <2>6. f1[c] = f[c] /\ f1[s] = f[s] /\ DOMAIN f1 = 1 .. s /\ f1 = [x \in 1 .. s |-> f1[x]]
    BY <2>5, <2>3, <1>1, <1>20
  <2>7. f2 = f1
    BY <2>2, <2>6
  <2>8. f3 = f1
    BY <2>2, <2>6, <2>7
  <2>. QED
    BY <2>5, <2>8 DEF f3, f2, f1
<1>23. [e EXCEPT ![m_root].items = InsertAt([@ EXCEPT ![1].key = kc], 2, Item(ks, s))]
         = [e EXCEPT ![m_root] = root]
  <2>1. e[m_root].items = Single(k, c)
    BY <1>12, <1>17, <1>20 DEF Items
  <2>. HIDE DEF root
  <2>2. DOMAIN e = 1 .. s
    BY <1>14
  <2>. QED
    BY <2>1, <2>2, <1>19, <1>20, <1>21
<1>24. [f EXCEPT ![m_root] = root] = [e EXCEPT ![m_root] = root]
  <2>. HIDE DEF root
  <2>1. DOMAIN f = 1 .. s /\ DOMAIN e = 1 .. s
    BY <1>13, <1>14
  <2>2. \A x \in 1 .. s : x # m_root => f[x] = e[x]
    <3>. SUFFICES ASSUME NEW x \in 1 .. s, x # m_root PROVE f[x] = e[x]
      OBVIOUS
    <3>1. x = c \/ x = s \/ x \in 1 .. Len(h)
      BY <1>1 DEF s, c, NextName
    <3>2. CASE x \in 1 .. Len(h)
      <4>1. x \in DOMAIN p /\ x \in DOMAIN q /\ x # c /\ x \in DOMAIN h
        BY <3>2, <1>1, <1>11, <1>12
      <4>. QED
        BY <4>1, <1>11, <1>12, <1>13, <1>14
    <3>. QED
      BY <3>1, <3>2, <1>13, <1>14
  <2>. QED
    BY <2>1, <2>2
<1>. QED
  BY <1>16, <1>18, <1>22, <1>23, <1>24 DEF q

\* SplitRoot in a tree of any height: the tree is one row higher and right again, with loads in
\* bounds, the root has two items, and no record is lost or doubled (the end of addData).
THEOREM SplitRootKeepsTree ==
  ASSUME NEW E, NEW h \in Seq(BTreeNode(E)), NEW L \in Seq(SUBSET Nat), RootedTree(E, h, L),
         TooFull(h, m_root), Nat \subseteq E
  PROVE  LET g == SplitRoot(h)
         IN \E M \in Seq(SUBSET Nat) :
              RootedTree(E, g, M) /\ Records(g, M) = Records(h, L) /\ Size(g, m_root) = 2
<1>. DEFINE s == NextName(h)
            w == Lowered(h)
            U == WithRoot(s, L)
            g == SplitRoot(h)
<1>1. TreeRight(h, L) /\ Rooted(L) /\ LoadsInTree(h, L)
  BY DEF RootedTree
<1>2. s \in E
  BY DEF NextName
<1>3. /\ w \in Seq(BTreeNode(E)) /\ U \in Seq(SUBSET Nat) /\ Rooted(U)
      /\ TreeBut(w, U, 1, m_root, 1) /\ Child(w, m_root, 1) = s /\ TooFull(w, s)
      /\ LoadsButMore(w, U, 2, s) /\ Records(w, U) = Records(h, L)
      /\ Keyed(w, m_root, 1, s) = w /\ Size(w, m_root) = 1
  BY <1>1, <1>2, LoweredTree
<1>4. m_root \in DOMAIN h /\ h[m_root].right = None
  <2>1. 1 \in 1 .. Len(L) /\ L[1] = {m_root}
    BY <1>1 DEF TreeRight, Rooted
  <2>2. RowRight(h, L, 1)
    BY <2>1, <1>1 DEF TreeRight
  <2>3. \E D : Row(h, {m_root}, D)
    BY <2>1, <2>2 DEF RowRight, InnerRow
  <2>4. PICK D : Row(h, {m_root}, D)
    BY <2>3
  <2>. QED
    BY <2>4, RootAlone DEF Row
<1>5. g = SplitChild(w, m_root, 1)
  BY <1>4, SplitRootLowers
<1>6. NextName(w) \in E
  <2>1. NextName(w) \in Nat
    BY <1>3 DEF NextName
  <2>. QED
    BY <2>1
<1>7. 1 \in 1 .. Len(U) - 1 /\ 1 \in 1 .. Len(U)
  BY <1>3 DEF TreeBut
<1>. HIDE DEF s, w, U, g
<1>8. /\ g \in Seq(BTreeNode(E)) /\ Size(g, m_root) = Size(w, m_root) + 1
      /\ \E M \in Seq(SUBSET Nat) :
           /\ M[1] = U[1] /\ KeyChanged(g, M, 1, m_root) /\ LoadsButMore(g, M, 1, m_root)
           /\ Records(g, M) = Records(w, U)
  <2>. DEFINE k == 1
              c == Child(w, m_root, k)
  <2>1. TreeBut(w, U, k, m_root, k) /\ TooFull(w, c) /\ LoadsButMore(w, U, k + 1, c)
    BY <1>3
  <2>2. KeyedAndSplit(w, m_root, k) = g /\ k \in 1 .. Len(U) /\ k # k + 1
    BY <1>3, <1>5, <1>7 DEF KeyedAndSplit
  <2>3. w \in Seq(BTreeNode(E)) /\ U \in Seq(SUBSET Nat)
    BY <1>3
  <2>. HIDE DEF k
  <2>4. /\ KeyedAndSplit(w, m_root, k) \in Seq(BTreeNode(E))
        /\ Size(KeyedAndSplit(w, m_root, k), m_root) = Size(w, m_root) + 1
    BY <2>1, <2>3, <1>6, SplitKeepsTree
  <2>5. \E M \in Seq(SUBSET Nat) :
           /\ RowReplaced(U, M, k + 1, WithNext(w, U[k + 1]))
           /\ KeyChanged(KeyedAndSplit(w, m_root, k), M, k, m_root)
           /\ LoadsButMore(KeyedAndSplit(w, m_root, k), M, k, m_root)
           /\ Records(KeyedAndSplit(w, m_root, k), M) = Records(w, U)
    BY <2>1, <2>3, <1>6, SplitKeepsTree
  <2>6. PICK M \in Seq(SUBSET Nat) :
           /\ RowReplaced(U, M, k + 1, WithNext(w, U[k + 1]))
           /\ KeyChanged(g, M, k, m_root) /\ LoadsButMore(g, M, k, m_root)
           /\ Records(g, M) = Records(w, U)
    BY <2>2, <2>5
  <2>7. M[k] = U[k]
    BY <2>2, <2>6 DEF RowReplaced
  <2>. QED
    BY <2>2, <2>4, <2>6, <2>7 DEF k
<1>9. PICK M \in Seq(SUBSET Nat) :
        /\ M[1] = U[1] /\ KeyChanged(g, M, 1, m_root) /\ LoadsButMore(g, M, 1, m_root)
        /\ Records(g, M) = Records(w, U)
  BY <1>8
<1>10. TreeRight(g, M) /\ Rooted(M) /\ LoadsInTree(g, M)
  BY <1>3, <1>8, <1>9 DEF KeyChanged, Rooted, LoadsButMore, LoadsInTree
<1>. QED
  BY <1>3, <1>8, <1>9, <1>10 DEF RootedTree, g

-----------------------------------------------------------------------------
(* A whole addition: what every node on the way back up makes of the tree. *)

\* The nodes of the rows above row j are as they were.
SameAbove(h, g, L, j) == \A l \in 1 .. Len(L) : l < j => \A x \in L[l] : g[x] = h[x]

\* The rows down to row j are as they were, and there are as many.
RowsAsBefore(L, M, j) == Len(M) = Len(L) /\ \A l \in 1 .. Len(L) : l <= j => M[l] = L[l]

\* The records and one more.
RecordsAnd(h, L, e) == Records(h, L) \cup {e}

\* The rows M of a heap after e was added below node c of row j.
GrownRows(E, h, L, e, j, c, t, M) ==
  /\ RowsAsBefore(L, M, j) /\ KeyChanged(t.heap, M, j, c)
  /\ Records(t.heap, M) = RecordsAnd(h, L, e)
  /\ IF t.check THEN LoadsButMore(t.heap, M, j, c) ELSE LoadsInTree(t.heap, M)

\* What has become of the tree with rows L when e was added below node c of row j: nothing is
\* wrong but the key of c in its parent and, where it is to be checked, the load of c.
Grown(E, h, L, e, j, c, t) ==
  /\ t.heap \in Seq(BTreeNode(E)) /\ DOMAIN h \subseteq DOMAIN t.heap /\ t.check \in BOOLEAN
  /\ Size(t.heap, c) = Size(h, c) \/ (t.check /\ Size(t.heap, c) = Size(h, c) + 1)
  /\ SameAbove(h, t.heap, L, j)
  /\ \E M \in Seq(SUBSET Nat) : GrownRows(E, h, L, e, j, c, t, M)

\* The nodes of a tree.
LEMMA TreeNodes ==
  ASSUME NEW h, NEW L, NEW k, NEW n, NEW i, TreeBut(h, L, k, n, i)
  PROVE  \A l \in 1 .. Len(L) : L[l] \subseteq DOMAIN h
<1>. SUFFICES ASSUME NEW l \in 1 .. Len(L) PROVE L[l] \subseteq DOMAIN h
  OBVIOUS
<1>1. CASE l = k
  <2>1. Levels(Corrected(h, n, i), L[k], L[k + 1], Beneath(L, k + 1))
    BY DEF TreeBut, StaleAt
  <2>2. L[k] \subseteq DOMAIN Corrected(h, n, i)
    BY <2>1 DEF Levels, Row
  <2>3. DOMAIN Corrected(h, n, i) = DOMAIN h
    BY DEF Corrected, WithNodeKey, WithItems
  <2>. QED
    BY <2>2, <2>3, <1>1
<1>2. CASE l # k
  <2>1. RowRight(h, L, l)
    BY <1>2 DEF TreeBut
  <2>. QED
    BY <2>1 DEF RowRight, InnerRow, Row
<1>. QED
  BY <1>1, <1>2

\* Item i of node n of row k, not the last, names c.
Names(E, h, L, k, n, i, c) ==
  /\ h \in Seq(BTreeNode(E)) /\ L \in Seq(SUBSET Nat) /\ Apart(L)
  /\ k \in 1 .. Len(L) - 1 /\ n \in L[k] /\ n \in DOMAIN h
  /\ i \in 1 .. Len(Items(h, n)) /\ c = Child(h, n, i)

\* Heap g, with rows M, was written at row j and below it, node c of row j being in it.
WrittenFrom(E, h, L, j, c, g, M) ==
  /\ g \in Seq(BTreeNode(E)) /\ M \in Seq(SUBSET Nat) /\ DOMAIN h \subseteq DOMAIN g
  /\ SameAbove(h, g, L, j) /\ RowsAsBefore(L, M, j) /\ KeyChanged(g, M, j, c)

\* The node of row k that names c does so in the heap that was written below it.
LEMMA ParentOfWritten ==
  ASSUME NEW E, NEW h, NEW L, NEW k, NEW n, NEW i, NEW c, Names(E, h, L, k, n, i, c),
         NEW g, NEW M, WrittenFrom(E, h, L, k + 1, c, g, M)
  PROVE  /\ TreeBut(g, M, k, n, i) /\ Child(g, n, i) = c /\ c \in M[k + 1]
         /\ n \in DOMAIN g /\ c \in DOMAIN g /\ Size(g, n) = Size(h, n)
         /\ \A l \in 1 .. Len(L) : l < k => \A x \in L[l] :
              x # n /\ x \in DOMAIN g /\ x \notin M[k + 1] /\ g[x] = h[x]
<1>1. /\ g \in Seq(BTreeNode(E)) /\ DOMAIN h \subseteq DOMAIN g /\ SameAbove(h, g, L, k + 1)
      /\ RowsAsBefore(L, M, k + 1) /\ KeyChanged(g, M, k + 1, c) /\ M \in Seq(SUBSET Nat)
  BY DEF WrittenFrom
<1>0. /\ h \in Seq(BTreeNode(E)) /\ L \in Seq(SUBSET Nat) /\ Apart(L)
      /\ k \in 1 .. Len(L) - 1 /\ n \in L[k] /\ n \in DOMAIN h
      /\ i \in 1 .. Len(Items(h, n)) /\ c = Child(h, n, i)
  BY DEF Names
<1>2. k \in 1 .. Len(L) /\ k + 1 \in 1 .. Len(L) /\ Len(M) = Len(L) /\ k < k + 1 /\ k <= k + 1
  BY <1>0, <1>1 DEF RowsAsBefore
<1>3. M[k] = L[k] /\ M[k + 1] = L[k + 1]
  BY <1>0, <1>1, <1>2 DEF RowsAsBefore
<1>4. g[n] = h[n]
  BY <1>0, <1>1, <1>2 DEF SameAbove
<1>5. Child(g, n, i) = c /\ i \in 1 .. Len(Items(g, n)) /\ Size(g, n) = Size(h, n)
  BY <1>0, <1>4 DEF Child, Items, Size
<1>6. c \in M[k + 1] /\ TreeBut(g, M, k, n, i)
  <2>1. k + 1 # 1 /\ (k + 1) - 1 = k
    BY <1>0, <1>2
  <2>. QED
    BY <1>0, <2>1, <1>1, <1>3, <1>5 DEF KeyChanged
<1>7. \A l \in 1 .. Len(L) : M[l] \subseteq DOMAIN g
  BY <1>0, <1>2, <1>6, TreeNodes
<1>8. \A l \in 1 .. Len(L) : l < k => \A x \in L[l] :
        x # n /\ x \in DOMAIN g /\ x \notin M[k + 1] /\ g[x] = h[x]
  <2>. SUFFICES ASSUME NEW l \in 1 .. Len(L), l < k, NEW x \in L[l]
                PROVE  x # n /\ x \in DOMAIN g /\ x \notin M[k + 1] /\ g[x] = h[x]
    OBVIOUS
  <2>1. l # k /\ l # k + 1 /\ l < k + 1 /\ l <= k + 1
    BY <1>0
  <2>2. L[l] \cap L[k] = {} /\ L[l] \cap L[k + 1] = {} /\ M[l] = L[l]
    BY <1>0, <2>1, <1>1, <1>2 DEF Apart, RowsAsBefore
  <2>3. g[x] = h[x]
    BY <1>0, <2>1, <1>1 DEF SameAbove
  <2>. QED
    BY <1>0, <2>2, <2>3, <1>3, <1>7
<1>. QED
  BY <1>0, <1>1, <1>2, <1>5, <1>6, <1>7, <1>8

\* internalAddData in an inner node of a tree of any height: what was added below its child is
\* added below it.
LEMMA AdditionClimbs ==
  ASSUME NEW E, Nat \subseteq E, NEW h, NEW L, LoadsInTree(h, L),
         NEW k, NEW n, NEW i, NEW c, Names(E, h, L, k, n, i, c), NEW e, NEW t,
         Grown(E, h, L, e, k + 1, c, t)
  PROVE  Grown(E, h, L, e, k, n, AddedBelow(t, n, i, c))
<1>. DEFINE g == t.heap
            f == Keyed(g, n, i, c)
            u == AddedBelow(t, n, i, c)
<1>0. SUFFICES Grown(E, h, L, e, k, n, u)
  OBVIOUS
<1>12. /\ h \in Seq(BTreeNode(E)) /\ L \in Seq(SUBSET Nat) /\ Len(L) \in Nat
      /\ k \in 1 .. Len(L) - 1 /\ n \in L[k]
  BY DEF Names
<1>1. /\ g \in Seq(BTreeNode(E)) /\ DOMAIN h \subseteq DOMAIN g /\ t.check \in BOOLEAN
      /\ \E M \in Seq(SUBSET Nat) : GrownRows(E, h, L, e, k + 1, c, t, M)
  BY DEF Grown
<1>2. PICK M \in Seq(SUBSET Nat) : GrownRows(E, h, L, e, k + 1, c, t, M)
  BY <1>1
<1>3. /\ TreeBut(g, M, k, n, i) /\ Child(g, n, i) = c /\ c \in M[k + 1]
      /\ n \in DOMAIN g /\ c \in DOMAIN g /\ Size(g, n) = Size(h, n)
      /\ \A l \in 1 .. Len(L) : l < k => \A x \in L[l] :
           x # n /\ x \in DOMAIN g /\ x \notin M[k + 1] /\ g[x] = h[x]
  <2>1. WrittenFrom(E, h, L, k + 1, c, g, M)
    BY <1>2 DEF Grown, GrownRows, WrittenFrom
  <2>. HIDE DEF g
  <2>2. c \in M[k + 1] /\ n \in DOMAIN g /\ c \in DOMAIN g /\ Size(g, n) = Size(h, n)
    BY <2>1, ParentOfWritten
  <2>3. TreeBut(g, M, k, n, i) /\ Child(g, n, i) = c
    BY <2>1, ParentOfWritten
  <2>4. \A l \in 1 .. Len(L) : l < k => \A x \in L[l] :
          x # n /\ x \in DOMAIN g /\ x \notin M[k + 1] /\ g[x] = h[x]
    BY <2>1, ParentOfWritten
  <2>. QED
    BY <2>2, <2>3, <2>4
<1>4. /\ RowsAsBefore(L, M, k + 1) /\ Records(g, M) = RecordsAnd(h, L, e)
      /\ IF t.check THEN LoadsButMore(g, M, k + 1, c) ELSE LoadsInTree(g, M)
  BY <1>2 DEF GrownRows
<1>5. f = [t.heap EXCEPT ![n].items[i].key = MaxKey(t.heap, c)]
  BY DEF Keyed
<1>6. u = IF ~t.check \/ Size(f, c) <= MaxLoad THEN Addition(f, FALSE)
          ELSE Addition(SplitChild(f, n, i), TRUE)
  <2>. HIDE DEF f
  <2>. QED
    BY <1>5 DEF AddedBelow
<1>. HIDE DEF g, u
<1>7. /\ f \in Seq(BTreeNode(E)) /\ Len(f) = Len(g)
      /\ KeyChanged(f, M, k, n) /\ Records(f, M) = Records(g, M)
      /\ \A x \in DOMAIN g : Size(f, x) = Size(g, x)
      /\ \A x \in DOMAIN g : x # n => f[x] = g[x]
  <2>. DEFINE y == Keyed(g, n, i, Child(g, n, i))
  <2>1. y = f
    BY <1>3
  <2>. HIDE DEF f
  <2>2. TreeBut(g, M, k, n, i) /\ g \in Seq(BTreeNode(E))
    BY <1>1, <1>3 DEF g
  <2>3. /\ y \in Seq(BTreeNode(E)) /\ Len(y) = Len(g)
        /\ KeyChanged(y, M, k, n) /\ Records(y, M) = Records(g, M)
    BY <2>2, KeyKeepsTree
  <2>4. /\ \A x \in DOMAIN g : Size(y, x) = Size(g, x)
        /\ \A x \in DOMAIN g : x # n => y[x] = g[x]
    BY <2>2, KeyKeepsTree
  <2>. QED
    BY <2>1, <2>3, <2>4
<1>. HIDE DEF f
<1>8. DOMAIN f = DOMAIN g
  BY <1>1, <1>7 DEF g
<1>9. /\ Len(M) = Len(L) /\ \A l \in 1 .. Len(L) : l <= k + 1 => M[l] = L[l]
      /\ \A l \in 1 .. Len(L) : M[l] \subseteq DOMAIN g
  <2>1. Len(M) = Len(L) /\ \A l \in 1 .. Len(L) : l <= k + 1 => M[l] = L[l]
    BY <1>4 DEF RowsAsBefore
  <2>. QED
    BY <2>1, <1>3, TreeNodes
<1>10. CASE ~t.check \/ Size(f, c) <= MaxLoad
  <2>1. u.heap = f /\ u.check = FALSE
    BY <1>6, <1>10 DEF Addition
  <2>2. LoadsInTree(f, M)
    <3>. SUFFICES ASSUME NEW j \in 2 .. Len(M) PROVE LoadsRight(f, M[j])
      BY DEF LoadsInTree
    <3>1. \A x \in M[j] : Size(f, x) = Size(g, x)
      BY <1>7, <1>9
    <3>2. LoadsRight(g, M[j])
      <4>1. CASE ~t.check
        BY <4>1, <1>4 DEF LoadsInTree
      <4>2. CASE t.check /\ j # k + 1
        BY <4>2, <1>4 DEF LoadsButMore
      <4>3. CASE t.check /\ j = k + 1
        <5>1. LoadsAfterGain(g, M[j], c)
          BY <4>3, <1>4 DEF LoadsButMore
        <5>2. Size(g, c) <= MaxLoad
          BY <4>3, <1>3, <1>7, <1>10
        <5>. QED
          BY <5>1, <5>2 DEF LoadsAfterGain, LoadsRight
      <4>. QED
        BY <4>1, <4>2, <4>3
    <3>. QED
      BY <3>1, <3>2 DEF LoadsRight
  <2>3. Size(f, n) = Size(h, n) /\ DOMAIN h \subseteq DOMAIN f
    BY <1>1, <1>3, <1>7, <1>8 DEF g
  <2>4. SameAbove(h, f, L, k)
    BY <1>3, <1>7 DEF SameAbove
  <2>5. RowsAsBefore(L, M, k)
    <3>1. \A l \in 1 .. Len(L) : l <= k => l <= k + 1
      BY <1>12
    <3>. QED
      BY <3>1, <1>9 DEF RowsAsBefore
  <2>6. GrownRows(E, h, L, e, k, n, u, M)
    BY <2>1, <2>2, <2>5, <1>4, <1>7 DEF GrownRows
  <2>. QED
    BY <2>1, <2>3, <2>4, <2>6, <1>7 DEF Grown
<1>11. CASE ~(~t.check \/ Size(f, c) <= MaxLoad)
  <2>. DEFINE s == KeyedAndSplit(g, n, i)
  <2>1. u.heap = s /\ u.check = TRUE
    BY <1>3, <1>6, <1>11 DEF Addition, KeyedAndSplit, f
  <2>2. LoadsButMore(g, M, k + 1, c) /\ k + 1 \in 2 .. Len(M)
    BY <1>12, <1>4, <1>9, <1>11
  <2>3. TooFull(g, c)
    <3>1. LoadsAfterGain(g, M[k + 1], c)
      BY <2>2 DEF LoadsButMore
    <3>2. Size(g, c) <= MaxLoad + 1 /\ ~(Size(g, c) <= MaxLoad) /\ Size(g, c) \in Nat
      BY <3>1, <1>1, <1>3, <1>7, <1>11, HeapNode DEF LoadsAfterGain, g
    <3>. QED
      BY <3>2, LoadAssumption DEF TooFull
  <2>4. NextName(g) \in E
    <3>1. NextName(g) \in Nat
      BY <1>1 DEF NextName, g
    <3>. QED
      BY <3>1
  <2>5. /\ s \in Seq(BTreeNode(E)) /\ DOMAIN s = WithNext(g, DOMAIN g)
        /\ \E K \in Seq(SUBSET Nat) :
             /\ RowReplaced(M, K, k + 1, WithNext(g, M[k + 1]))
             /\ KeyChanged(s, K, k, n) /\ LoadsButMore(s, K, k, n)
             /\ Records(s, K) = Records(g, M)
        /\ Size(s, n) = Size(g, n) + 1
        /\ \A x \in DOMAIN g : x \notin M[k + 1] /\ x # n => s[x] = g[x]
    <3>0. g \in Seq(BTreeNode(E))
      BY <1>1 DEF g
    <3>1. TreeBut(g, M, k, n, i) /\ TooFull(g, Child(g, n, i)) /\ LoadsButMore(g, M, k + 1, Child(g, n, i))
      BY <2>2, <2>3, <1>3
    <3>. HIDE DEF s
    <3>. USE DEF s
    <3>2. /\ KeyedAndSplit(g, n, i) \in Seq(BTreeNode(E))
          /\ DOMAIN KeyedAndSplit(g, n, i) = WithNext(g, DOMAIN g)
      BY <3>0, <3>1, <2>4, SplitKeepsTree
    <3>3. \E K \in Seq(SUBSET Nat) :
             /\ RowReplaced(M, K, k + 1, WithNext(g, M[k + 1]))
             /\ KeyChanged(KeyedAndSplit(g, n, i), K, k, n)
             /\ LoadsButMore(KeyedAndSplit(g, n, i), K, k, n)
             /\ Records(KeyedAndSplit(g, n, i), K) = Records(g, M)
      BY <3>0, <3>1, <2>4, SplitKeepsTree
    <3>4. /\ Size(KeyedAndSplit(g, n, i), n) = Size(g, n) + 1
          /\ \A x \in DOMAIN g : x \notin M[k + 1] /\ x # n => KeyedAndSplit(g, n, i)[x] = g[x]
      BY <3>0, <3>1, <2>4, SplitKeepsTree
    <3>. QED
      BY <3>2, <3>3, <3>4
  <2>. HIDE DEF s
  <2>6. PICK K \in Seq(SUBSET Nat) :
             /\ RowReplaced(M, K, k + 1, WithNext(g, M[k + 1]))
             /\ KeyChanged(s, K, k, n) /\ LoadsButMore(s, K, k, n)
             /\ Records(s, K) = Records(g, M)
    BY <2>5
  <2>7. DOMAIN h \subseteq DOMAIN s
    BY <2>5, <1>1 DEF WithNext, g
  <2>8. SameAbove(h, s, L, k)
    BY <2>5, <1>3 DEF SameAbove
  <2>9. RowsAsBefore(L, K, k)
    <3>1. Len(K) = Len(M) /\ \A l \in 1 .. Len(M) : l # k + 1 => K[l] = M[l]
      BY <2>6 DEF RowReplaced
    <3>2. \A l \in 1 .. Len(L) : l <= k => l <= k + 1 /\ l # k + 1
      BY <1>12
    <3>. QED
      BY <3>1, <3>2, <1>9 DEF RowsAsBefore
  <2>10. GrownRows(E, h, L, e, k, n, u, K)
    BY <2>1, <2>6, <2>9, <1>4 DEF GrownRows
  <2>11. Size(s, n) = Size(h, n) + 1
    BY <2>5, <1>3
  <2>. QED
    BY <2>1, <2>5, <2>7, <2>8, <2>10, <2>11 DEF Grown
<1>. QED
  BY <1>10, <1>11

\* The results r of internalAddData, from the leaf's, the last, up to the root's, the first: what
\* the recursion gives along the way p.
AdditionAlong(h, L, p, i, e, r) ==
  /\ WayToAdd(h, L, p, i, e.key)
  /\ r[Len(L)] = AddToLeaf(h, p[Len(L)], e)
  /\ \A j \in 1 .. Len(L) - 1 : r[j] = AddedBelow(r[j + 1], p[j], i[j], p[j + 1])

\* The nodes on a way that is followed to add something.
LEMMA NamesOnWay ==
  ASSUME NEW E, NEW h, NEW L, RootedTree(E, h, L), NEW p, NEW i, NEW k \in Nat,
         WayToAdd(h, L, p, i, k) \/ (WayToFind(h, L, p, i, k) /\ k <= MaxKey(h, m_root))
  PROVE  \A j \in 1 .. Len(L) - 1 : Names(E, h, L, j, p[j], i[j], p[j + 1])
<1>. DEFINE root == m_root
<1>1. /\ h \in Seq(BTreeNode(E)) /\ L \in Seq(SUBSET Nat) /\ TreeRight(h, L) /\ L[1] = {root}
      /\ Way(h, L, p, i)
  BY DEF RootedTree, Rooted, WayToAdd, WayToFind
<1>2. WayToAdd(h, L, p, i, k) \/ (WayToFind(h, L, p, i, k) /\ k <= MaxKey(h, root))
  OBVIOUS
<1>. HIDE DEF root
<1>3. /\ \A j \in 1 .. Len(L) : p[j] \in L[j]
      /\ \A j \in 1 .. Len(L) - 1 : i[j] \in 1 .. Len(Items(h, p[j]))
  <2>1. \A j \in 1 .. Len(L) : p[j] \in L[j] /\ Routed(h, p[j], k)
    BY <1>1, <1>2, WayIsRouted
  <2>2. \A j \in 1 .. Len(L) - 1 : i[j] \in 1 .. Len(Items(h, p[j]))
    BY <1>1, <1>2, WayIsRouted
  <2>. QED
    BY <2>1, <2>2
<1>. SUFFICES ASSUME NEW j \in 1 .. Len(L) - 1 PROVE Names(E, h, L, j, p[j], i[j], p[j + 1])
  OBVIOUS
<1>4. j \in 1 .. Len(L)
  BY <1>1
<1>5. p[j] \in DOMAIN h
  <2>1. RowRight(h, L, j)
    BY <1>1, <1>4 DEF TreeRight
  <2>. QED
    BY <2>1, <1>3, <1>4 DEF RowRight, InnerRow, Row
<1>6. p[j + 1] = Child(h, p[j], i[j])
  BY <1>1 DEF Way
<1>. QED
  BY <1>1, <1>3, <1>4, <1>5, <1>6 DEF Names, TreeRight

\* Adding a record of a new key to the leaf its way ends in: the tree, of any height, has got
\* that record and no other, and nothing is wrong but, perhaps, the key the leaf's parent has for
\* it, and the leaf's load, one item too high (insertData in internalAddData).
THEOREM AdditionStalesTree ==
  ASSUME NEW E, NEW h, NEW L, RootedTree(E, h, L), NEW it, NewRecord(E, h, L, it),
         NEW p, NEW i, WayToAdd(h, L, p, i, it.key)
  PROVE  Grown(E, h, L, it, Len(L), p[Len(L)], AddToLeaf(h, p[Len(L)], it))
<1>. DEFINE S == L[Len(L)]
            c == p[Len(L)]
            w == insertData(Items(h, c), it)
            t == AddToLeaf(h, c, it)
            g == WithItems(h, c, w)
<1>0. /\ h \in Seq(BTreeNode(E)) /\ L \in Seq(SUBSET Nat) /\ TreeRight(h, L)
      /\ L[1] = {m_root} /\ LoadsInTree(h, L)
      /\ it \in Entry(E) /\ \A e \in Records(h, L) : e.key # it.key
  BY DEF RootedTree, Rooted, NewRecord
<1>1. /\ Len(L) \in Nat /\ Len(L) # 0 /\ Len(L) \in 1 .. Len(L)
      /\ \A j, l \in 1 .. Len(L) : j # l => L[j] \cap L[l] = {}
      /\ \A j \in 1 .. Len(L) : RowRight(h, L, j)
      /\ Row(h, S, {}) /\ Distinct(h, S)
  BY <1>0 DEF TreeRight, Apart, RowRight
<1>2. c \in S /\ Routed(h, c, it.key)
  <2>. DEFINE k == it.key
  <2>1. k \in Nat /\ WayToAdd(h, L, p, i, k)
    BY <1>0 DEF Entry
  <2>. HIDE DEF k
  <2>2. \A j \in 1 .. Len(L) : p[j] \in L[j] /\ Routed(h, p[j], k)
    BY <1>0, <2>1, WayIsRouted
  <2>. QED
    BY <2>2, <1>1 DEF k
<1>3. c \in S /\ S \subseteq DOMAIN h /\ \A e \in Held(h, S) : e.key # it.key
  BY <1>0, <1>1, <1>2 DEF Row, Records
<1>4. c \in L[Len(L)]
  BY <1>0, <1>2
<1>. HIDE DEF S, w, c
<1>5. /\ w \in Seq(Entry(E)) /\ FitsIn(h, S, c, w) /\ Len(w) = Size(h, c) + 1
      /\ \A d : d \in ToSet(w) <=> d \in ToSet(Items(h, c)) \/ d = it
  BY <1>0, <1>1, <1>2, <1>3, AdditionFits DEF w
<1>6. FitsIn(h, L[Len(L)], c, w)
  BY <1>0, <1>5 DEF S
<1>7. /\ g \in Seq(BTreeNode(E)) /\ DOMAIN g = DOMAIN h /\ Items(g, c) = w
      /\ \A x \in DOMAIN h : x # c => g[x] = h[x]
      /\ KeyChanged(g, L, Len(L), c)
  BY <1>0, <1>4, <1>5, <1>6, LeafWritten
<1>. HIDE DEF g
<1>8. Size(g, c) = Size(h, c) + 1 /\ \A x \in S : x # c => Size(g, x) = Size(h, x)
  BY <1>0, <1>3, <1>5, <1>7 DEF Size, Items
<1>9. ASSUME NEW d PROVE d \in Held(g, S) <=> d \in Held(h, S) \/ d = it
  <2>1. /\ d \in Held(g, S) <=> \E x \in S : d \in ToSet(Items(g, x))
        /\ d \in Held(h, S) <=> \E x \in S : d \in ToSet(Items(h, x))
    BY DEF Held
  <2>2. \A x \in S : x # c => Items(g, x) = Items(h, x)
    BY <1>0, <1>3, <1>7 DEF Items
  <2>. QED
    BY <1>0, <2>1, <2>2, <1>2, <1>5, <1>7
<1>10. \A d : d \in Records(g, L) <=> d \in Records(h, L) \/ d = it
  BY <1>0, <1>9 DEF Records, S
<1>11. LoadsButMore(g, L, Len(L), c)
  <2>. SUFFICES ASSUME NEW j \in 2 .. Len(L)
                PROVE  IF j = Len(L) THEN LoadsAfterGain(g, L[j], c) ELSE LoadsRight(g, L[j])
    BY DEF LoadsButMore
  <2>1. LoadsRight(h, L[j])
    BY <1>0 DEF LoadsInTree
  <2>2. CASE j = Len(L)
    <3>1. L[j] = S
      BY <1>0, <2>2 DEF S
    <3>2. MaxLoad \in Nat /\ MinLoad \in Nat
      BY LoadAssumption DEF MinLoad
    <3>3. Size(h, c) \in Nat
      BY <1>0, <1>3, HeapNode
    <3>4. Size(h, c) <= MaxLoad /\ Size(h, c) >= MinLoad
      BY <1>0, <2>1, <3>1, <1>3 DEF LoadsRight
    <3>5. Size(g, c) <= MaxLoad + 1 /\ Size(g, c) >= MinLoad
      BY <1>0, <1>8, <3>2, <3>3, <3>4
    <3>6. \A x \in S : Size(g, x) >= MinLoad /\ (x # c => Size(g, x) <= MaxLoad)
      BY <1>0, <1>8, <2>1, <3>1, <3>5 DEF LoadsRight
    <3>. QED
      BY <1>0, <2>2, <3>1, <3>5, <3>6 DEF LoadsAfterGain
  <2>3. CASE j # Len(L)
    <3>1. j \in 1 .. Len(L)
      BY <1>0, <1>1
    <3>2. L[j] \subseteq DOMAIN h
      BY <1>0, <3>1, <1>1, RightRow
    <3>3. c \notin L[j]
      BY <1>0, <3>1, <2>3, <1>1, <1>3 DEF S
    <3>4. \A x \in L[j] : Size(g, x) = Size(h, x)
      BY <1>0, <3>2, <3>3, <1>7 DEF Size
    <3>. QED
      BY <1>0, <2>1, <2>3, <3>4 DEF LoadsRight
  <2>. QED
    BY <1>0, <2>2, <2>3
<1>12. t.heap = g /\ t.check = TRUE
  BY DEF t, g, w, AddToLeaf, Addition, WithItems, Items
<1>. HIDE DEF t
<1>13. Records(g, L) = RecordsAnd(h, L, it)
  BY <1>10 DEF RecordsAnd
<1>14. RowsAsBefore(L, L, Len(L))
  BY DEF RowsAsBefore
<1>15. SameAbove(h, g, L, Len(L))
  <2>. SUFFICES ASSUME NEW l \in 1 .. Len(L), l < Len(L), NEW x \in L[l] PROVE g[x] = h[x]
    BY DEF SameAbove
  <2>1. RowRight(h, L, l) /\ l # Len(L) /\ Len(L) \in 1 .. Len(L)
    BY <1>1
  <2>2. x \in DOMAIN h
    BY <2>1 DEF RowRight, InnerRow, Row
  <2>3. x # c
    BY <2>1, <1>1, <1>4
  <2>. QED
    BY <2>2, <2>3, <1>7
<1>16. GrownRows(E, h, L, it, Len(L), c, t, L)
  BY <1>7, <1>11, <1>12, <1>13, <1>14 DEF GrownRows
<1>17. Grown(E, h, L, it, Len(L), c, t)
  BY <1>0, <1>7, <1>8, <1>12, <1>15, <1>16 DEF Grown
<1>. QED
  BY <1>17 DEF t, c

\* Every node on the way.
LEMMA GrownOnWay ==
  ASSUME NEW E, Nat \subseteq E, NEW h, NEW L, RootedTree(E, h, L),
         NEW e, NewRecord(E, h, L, e),
         NEW p, NEW i, NEW r, AdditionAlong(h, L, p, i, e, r)
  PROVE  Grown(E, h, L, e, 1, p[1], r[1])
<1>. DEFINE q == Len(L)
            Fine(j) == Grown(E, h, L, e, j, p[j], r[j])
            T == {d \in Nat : d < q /\ ~Fine(q - d)}
<1>1. q \in Nat /\ q >= 1 /\ LoadsInTree(h, L)
  BY DEF RootedTree, TreeRight
<1>2. /\ WayToAdd(h, L, p, i, e.key) /\ r[q] = AddToLeaf(h, p[q], e)
      /\ \A j \in 1 .. q - 1 : r[j] = AddedBelow(r[j + 1], p[j], i[j], p[j + 1])
  BY DEF AdditionAlong
<1>3. e.key \in Nat
  BY DEF NewRecord, Entry
<1>4. \A j \in 1 .. q - 1 : Names(E, h, L, j, p[j], i[j], p[j + 1])
  BY <1>2, <1>3, NamesOnWay
<1>5. Fine(q)
  <2>1. Grown(E, h, L, e, q, p[q], AddToLeaf(h, p[q], e))
    BY <1>2, AdditionStalesTree
  <2>. QED
    BY <2>1, <1>2
<1>6. ASSUME NEW j \in 1 .. q - 1, Fine(j + 1) PROVE Fine(j)
  <2>. DEFINE n == p[j]
              c == p[j + 1]
              ij == i[j]
              t == r[j + 1]
  <2>1. Names(E, h, L, j, n, ij, c) /\ Grown(E, h, L, e, j + 1, c, t) /\ r[j] = AddedBelow(t, n, ij, c)
    BY <1>2, <1>4, <1>6
  <2>. HIDE DEF n, c, ij, t
  <2>2. Grown(E, h, L, e, j, n, AddedBelow(t, n, ij, c))
    BY <2>1, <1>1, AdditionClimbs
  <2>. QED
    BY <2>1, <2>2 DEF n
<1>. HIDE DEF Fine, q
<1>7. T = {}
  <2>. SUFFICES ASSUME T # {} PROVE FALSE
    OBVIOUS
  <2>1. PICK d \in T : \A x \in T : d <= x
    BY HasLeast
  <2>2. d \in Nat /\ d < q /\ ~Fine(q - d)
    OBVIOUS
  <2>3. d # 0
    <3>1. q - 0 = q
      BY <1>1
    <3>. QED
      BY <3>1, <2>2, <1>5
  <2>4. d - 1 \in Nat /\ d - 1 < q /\ ~(d <= d - 1) /\ q - (d - 1) = (q - d) + 1 /\ q - d \in 1 .. q - 1
    BY <2>2, <2>3, <1>1
  <2>5. Fine(q - (d - 1))
    BY <2>1, <2>4
  <2>. QED
    BY <2>2, <2>4, <2>5, <1>6
<1>8. Fine(1)
  <2>1. q - 1 \in Nat /\ q - 1 < q /\ q - (q - 1) = 1
    BY <1>1
  <2>2. q - 1 \notin T
    BY <1>7
  <2>3. Fine(q - (q - 1))
    BY <2>1, <2>2
  <2>. QED
    BY <2>1, <2>3
<1>. QED
  BY <1>8 DEF Fine

\* addData in a tree of any height, of a record whose key is not in it: the tree has that record
\* and all it had, and is right with all loads in bounds, the root's too.
THEOREM AdditionKeepsTree ==
  ASSUME NEW E, Nat \subseteq E, NEW h, NEW L, RootedTree(E, h, L), Size(h, m_root) <= MaxLoad,
         NEW e, NewRecord(E, h, L, e),
         NEW p, NEW i, NEW r, AdditionAlong(h, L, p, i, e, r)
  PROVE  \E M \in Seq(SUBSET Nat) :
           /\ RootedTree(E, AddedInTree(r[1]), M) /\ Size(AddedInTree(r[1]), m_root) <= MaxLoad
           /\ Records(AddedInTree(r[1]), M) = RecordsAnd(h, L, e)
<1>. DEFINE t == r[1]
            g == t.heap
            f == AddedInTree(t)
<1>1. Grown(E, h, L, e, 1, p[1], t)
  BY GrownOnWay
<1>2. Rooted(L) /\ L \in Seq(SUBSET Nat) /\ 1 \in 1 .. Len(L)
  BY DEF RootedTree, TreeRight
<1>3. p[1] = m_root
  BY <1>2 DEF AdditionAlong, WayToAdd, Way, Rooted
<1>. HIDE DEF t
<1>4. /\ g \in Seq(BTreeNode(E)) /\ t.check \in BOOLEAN
      /\ Size(g, m_root) = Size(h, m_root) \/ (t.check /\ Size(g, m_root) = Size(h, m_root) + 1)
      /\ \E M \in Seq(SUBSET Nat) : GrownRows(E, h, L, e, 1, m_root, t, M)
  BY <1>1, <1>3 DEF Grown
<1>5. PICK M \in Seq(SUBSET Nat) : GrownRows(E, h, L, e, 1, m_root, t, M)
  BY <1>4
<1>6. RootedTree(E, g, M) /\ Records(g, M) = RecordsAnd(h, L, e)
  <2>1. M[1] = L[1] /\ KeyChanged(g, M, 1, m_root) /\ Records(g, M) = RecordsAnd(h, L, e)
        /\ IF t.check THEN LoadsButMore(g, M, 1, m_root) ELSE LoadsInTree(g, M)
    BY <1>2, <1>5 DEF GrownRows, RowsAsBefore
  <2>2. TreeRight(g, M) /\ Rooted(M)
    BY <2>1, <1>2 DEF KeyChanged, Rooted
  <2>3. LoadsInTree(g, M)
    BY <2>1 DEF LoadsButMore, LoadsInTree
  <2>. QED
    BY <2>1, <2>2, <2>3, <1>4 DEF RootedTree
<1>7. Size(h, m_root) \in Nat /\ MaxLoad \in Nat /\ MaxLoad >= 2
  <2>1. h \in Seq(BTreeNode(E)) /\ RowRight(h, L, 1) /\ L[1] = {m_root}
    BY <1>2 DEF RootedTree, TreeRight, Rooted
  <2>2. m_root \in DOMAIN h
    BY <2>1 DEF RowRight, InnerRow, Row
  <2>. QED
    BY <2>1, <2>2, HeapNode, LoadAssumption
<1>. HIDE DEF g
<1>8. CASE t.check /\ Size(g, m_root) > MaxLoad
  <2>1. f = SplitRoot(g)
    BY <1>8 DEF AddedInTree, g
  <2>2. TooFull(g, m_root)
    BY <1>4, <1>7, <1>8 DEF TooFull
  <2>3. g \in Seq(BTreeNode(E))
    BY <1>4
  <2>. HIDE DEF f
  <2>4. \E K \in Seq(SUBSET Nat) :
          /\ RootedTree(E, SplitRoot(g), K) /\ Records(SplitRoot(g), K) = Records(g, M)
          /\ Size(SplitRoot(g), m_root) = 2
    BY <2>2, <2>3, <1>6, SplitRootKeepsTree
  <2>. QED
    BY <2>1, <2>4, <1>6, <1>7 DEF t, f
<1>9. CASE ~(t.check /\ Size(g, m_root) > MaxLoad)
  <2>1. f = g
    BY <1>9 DEF AddedInTree, g
  <2>2. Size(g, m_root) <= MaxLoad
    BY <1>4, <1>7, <1>9
  <2>. QED
    BY <2>1, <2>2, <1>6 DEF t
<1>. QED
  BY <1>8, <1>9

-----------------------------------------------------------------------------
(* A whole removal. *)

\* Collapse, in a tree of any height: the only child of the root moves up to it, the tree is one
\* row lower and right, and no record is lost or doubled.
THEOREM CollapseKeepsTree ==
  ASSUME NEW E, NEW h \in Seq(BTreeNode(E)), NEW L \in Seq(SUBSET Nat), Rooted(L),
         TreeBut(h, L, 1, m_root, 1), Size(h, m_root) = 1,
         NEW c, c = Child(h, m_root, 1), LoadsButLess(h, L, 2, c)
  PROVE  LET g == Collapse(h, c)
         IN \E M \in Seq(SUBSET Nat) :
              /\ RootedTree(E, g, M) /\ Records(g, M) = Records(h, L) /\ Size(g, m_root) = Size(h, c)
<1>. DEFINE g == Collapse(h, c)
            n == Len(L)
            D == Beneath(L, 2)
            M == [l \in 1 .. n - 1 |-> IF l = 1 THEN Alone(m_root) ELSE L[l + 1]]
<1>1. /\ n \in Nat /\ n >= 2 /\ 1 \in 1 .. n /\ 2 \in 1 .. n
      /\ \A j \in 1 .. n : j # 1 => RowRight(h, L, j)
      /\ \A j, l \in 1 .. n : j # l => L[j] \cap L[l] = {}
      /\ StaleAt(h, L[1], L[2], D, m_root, 1)
  BY DEF TreeBut, Apart
<1>0. n \in Nat /\ n >= 2
  BY <1>1
<1>2. /\ \A j \in 1 .. n : L[j] \subseteq DOMAIN h
      /\ L[1] = {m_root} /\ m_root \in DOMAIN h /\ c \in DOMAIN h /\ c \in L[2] /\ c # m_root
      /\ D \subseteq DOMAIN h /\ m_root \notin D /\ c \notin D
  <2>1. \A j \in 1 .. n : L[j] \subseteq DOMAIN h
    BY TreeNodes
  <2>2. L[1] = {m_root}
    BY DEF Rooted
  <2>3. /\ L[1] \cap L[2] = {} /\ L[2] \cap D = {} /\ L[1] \cap D = {}
        /\ L[2] \subseteq DOMAIN h /\ D \subseteq DOMAIN h /\ m_root \in L[1]
        /\ 1 \in 1 .. Len(Items(h, m_root))
        /\ \A j \in 1 .. Len(Items(h, m_root)) : Child(h, m_root, j) \in L[2]
    <3>. HIDE DEF D
    <3>1. /\ L[1] \cap L[2] = {} /\ L[2] \cap D = {} /\ L[1] \cap D = {}
          /\ L[2] \subseteq DOMAIN h /\ D \subseteq DOMAIN h /\ m_root \in L[1]
      BY <1>1, StaleChildren
    <3>2. /\ 1 \in 1 .. Len(Items(h, m_root))
          /\ \A j \in 1 .. Len(Items(h, m_root)) : Child(h, m_root, j) \in L[2]
      BY <1>1, StaleChildren
    <3>. QED
      BY <3>1, <3>2
  <2>. QED
    BY <2>1, <2>2, <2>3, <1>1
<1>3. L[2] = Alone(c)
  <2>. DEFINE f == Corrected(h, m_root, 1)
  <2>1. Parented(f, L[1], L[2])
    BY <1>1 DEF StaleAt, Levels
  <2>2. DifferInKey(h, f, m_root, 1, MaxKey(h, Child(h, m_root, 1)))
    <3>. HIDE DEF D
    <3>. QED
      BY <1>1, StaleFacts
  <2>. HIDE DEF f
  <2>3. Len(Items(f, m_root)) = 1
    BY <2>2 DEF DifferInKey, Size, Items
  <2>4. Child(f, m_root, 1) = c
    <3>1. 1 \in 1 .. Len(Items(h, m_root))
      BY DEF Size, Items
    <3>. QED
      BY <2>2, <3>1 DEF DifferInKey
  <2>5. ASSUME NEW y \in L[2] PROVE y = c
    <3>1. \A x \in L[1] : x = m_root
      BY <1>2
    <3>2. PICK x \in L[1] : \E j \in 1 .. Len(Items(f, x)) : Child(f, x, j) = y
      BY <2>1 DEF Parented
    <3>3. \E j \in 1 .. Len(Items(f, m_root)) : Child(f, m_root, j) = y
      BY <3>1, <3>2
    <3>4. \A j \in 1 .. Len(Items(f, m_root)) : j = 1
      BY <2>3
    <3>. QED
      BY <3>3, <3>4, <2>4
  <2>. QED
    BY <2>5, <1>2 DEF Alone
<1>. HIDE DEF n, D
<1>4. Row(h, Alone(c), D)
  <2>1. RowRight(h, L, 2)
    BY <1>1
  <2>2. Row(h, L[2], Beneath(L, 2))
    BY <2>1, RightRow
  <2>. QED
    BY <2>2, <1>3 DEF D
<1>5. h[c].left = None /\ h[c].right = None
  BY <1>4, RootAlone DEF Alone
<1>6. /\ g \in Seq(BTreeNode(E)) /\ DOMAIN g = DOMAIN h /\ g[m_root] = h[c]
      /\ \A x \in DOMAIN h : x # m_root /\ x # c => g[x] = h[x]
  <2>1. h[c] \in BTreeNode(E) /\ h[m_root] \in BTreeNode(E)
    BY <1>2, HeapNode
  <2>. DEFINE N == BTreeNode(E)
  <2>2. h \in Seq(N) /\ h[c] \in N /\ h[m_root] \in N /\ c \in DOMAIN h /\ m_root \in DOMAIN h /\ c # m_root
    BY <2>1, <1>2
  <2>. HIDE DEF N
  <2>3. g = [h EXCEPT ![m_root] = h[c], ![c] = h[m_root]]
    BY DEF Collapse
  <2>. HIDE DEF g
  <2>4. /\ g \in Seq(N) /\ DOMAIN g = DOMAIN h /\ g[m_root] = h[c]
        /\ \A x \in DOMAIN h : x # m_root /\ x # c => g[x] = h[x]
    BY <2>2, <2>3
  <2>. QED
    BY <2>4 DEF N
<1>. HIDE DEF g
<1>7. /\ M \in Seq(SUBSET Nat) /\ Len(M) = n - 1 /\ M[1] = Alone(m_root) /\ M # <<>>
      /\ \A l \in 2 .. n - 1 : M[l] = L[l + 1] /\ l + 1 \in 1 .. n /\ l + 1 \in 3 .. n
  <2>1. \A l \in 1 .. n - 1 : l + 1 \in 1 .. n /\ L[l + 1] \in SUBSET Nat
    BY <1>1 DEF n
  <2>2. Alone(m_root) \in SUBSET Nat
    BY DEF Alone, m_root
  <2>3. M \in Seq(SUBSET Nat) /\ Len(M) = n - 1
    <3>. DEFINE B == SUBSET Nat
                m == n - 1
    <3>1. m \in Nat
      BY <1>0
    <3>2. M \in [1 .. m -> B]
      BY <2>1, <2>2
    <3>. HIDE DEF B, m, M
    <3>3. M \in Seq(B) /\ Len(M) = m
      BY <3>1, <3>2
    <3>. QED
      BY <3>3 DEF B, m
  <2>4. M[1] = Alone(m_root) /\ \A l \in 2 .. n - 1 : M[l] = L[l + 1] /\ l + 1 \in 1 .. n /\ l + 1 \in 3 .. n
    BY <1>0
  <2>. HIDE DEF M
  <2>. QED
    BY <2>3, <2>4, <1>0
<1>. HIDE DEF M
<1>8. Beneath(M, 1) = D
  <2>1. CASE n = 2
    <3>1. ~(1 < Len(M)) /\ ~(2 < n)
      BY <2>1, <1>7
    <3>. QED
      BY <3>1 DEF Beneath, D, n
  <2>2. CASE n # 2
    <3>1. 2 \in 2 .. n - 1 /\ 2 < n /\ 1 < n - 1
      BY <2>2, <1>0
    <3>2. M[1 + 1] = L[2 + 1] /\ 1 < Len(M)
      BY <3>1, <1>7
    <3>. QED
      BY <3>1, <3>2 DEF Beneath, D, n
  <2>. QED
    BY <2>1, <2>2
<1>9. /\ Row(g, Alone(m_root), D) /\ Distinct(g, Alone(m_root))
      /\ Parented(h, Alone(c), D) => Parented(g, Alone(m_root), D)
  <2>1. SameNode(h, c, g, m_root)
    BY <1>5, <1>6 DEF SameNode, Items
  <2>2. m_root \in DOMAIN g /\ m_root \notin D /\ D \subseteq DOMAIN g /\ \A z \in D : g[z] = h[z]
    BY <1>2, <1>6
  <2>3. /\ Row(g, Alone(m_root), D) /\ Distinct(g, Alone(m_root))
        /\ Parented(h, Alone(c), D) => Parented(g, Alone(m_root), D)
    BY <2>1, <2>2, <1>4, RowOfOne
  <2>. QED
    BY <2>3
<1>10. \A l \in 3 .. n : \A x \in L[l] : g[x] = h[x]
  <2>. SUFFICES ASSUME NEW l \in 3 .. n, NEW x \in L[l] PROVE g[x] = h[x]
    OBVIOUS
  <2>1. l \in 1 .. n /\ l # 1 /\ l # 2
    BY <1>0
  <2>2. x # m_root /\ x # c /\ x \in DOMAIN h
    BY <2>1, <1>1, <1>2
  <2>. QED
    BY <2>2, <1>6
<1>11. \A j \in 1 .. Len(M) : RowRight(g, M, j)
  <2>. SUFFICES ASSUME NEW j \in 1 .. n - 1 PROVE RowRight(g, M, j)
    BY <1>7
  <2>1. CASE j = 1
    <3>1. CASE n = 2
      <4>1. ~(1 < Len(M)) /\ ~(2 < n)
        BY <3>1, <1>7
      <4>2. D = {}
        BY <4>1 DEF D, Beneath, n
      <4>. QED
        BY <2>1, <4>1, <4>2, <1>7, <1>9 DEF RowRight
    <3>2. CASE n # 2
      <4>1. 2 \in 2 .. n - 1 /\ 2 < n /\ 1 < n - 1
        BY <3>2, <1>0
      <4>2. M[1 + 1] = L[2 + 1] /\ 1 < Len(M)
        BY <4>1, <1>7
      <4>3. D = M[1 + 1] /\ D = L[2 + 1]
        BY <4>1, <4>2 DEF D, Beneath, n
      <4>4. RowRight(h, L, 2)
        BY <1>1
      <4>5. InnerRow(h, L[2], L[2 + 1])
        BY <4>1, <4>4 DEF RowRight, n
      <4>6. ~h[c].leaf /\ Parented(h, Alone(c), D)
        BY <4>3, <4>5, <1>2, <1>3 DEF InnerRow
      <4>7. \A x \in Alone(m_root) : ~g[x].leaf
        BY <4>6, <1>6 DEF Alone
      <4>8. InnerRow(g, Alone(m_root), D)
        BY <4>6, <4>7, <1>9 DEF InnerRow
      <4>. QED
        BY <2>1, <4>2, <4>3, <4>8, <1>7 DEF RowRight
    <3>. QED
      BY <3>1, <3>2
  <2>2. CASE j # 1
    <3>. DEFINE q == j + 1
    <3>1. q \in 3 .. n /\ q \in 1 .. n /\ q # 1 /\ j \in 2 .. n - 1
      BY <2>2, <1>0
    <3>2. RowRight(h, L, q) /\ M[j] = L[q] /\ (j < Len(M) <=> q < n)
      BY <3>1, <1>1, <1>7
    <3>3. q < n => M[j + 1] = L[q + 1] /\ q + 1 \in 3 .. n
      <4>. SUFFICES ASSUME q < n PROVE M[j + 1] = L[q + 1] /\ q + 1 \in 3 .. n
        OBVIOUS
      <4>1. j + 1 \in 2 .. n - 1
        BY <3>1, <1>0
      <4>2. M[j + 1] = L[(j + 1) + 1]
        BY <4>1, <1>7
      <4>. QED
        BY <4>1, <4>2, <1>0
    <3>. HIDE DEF q
    <3>4. (\A x \in L[q] : g[x] = h[x]) /\ (q < n => \A x \in L[q + 1] : g[x] = h[x])
      BY <3>1, <3>3, <1>10
    <3>5. DOMAIN h \subseteq DOMAIN g
      BY <1>6
    <3>. QED
      BY <3>2, <3>3, <3>4, <3>5, RightRowMoved DEF n
  <2>. QED
    BY <2>1, <2>2
<1>12. Apart(M)
  <2>. SUFFICES ASSUME NEW j \in 1 .. n - 1, NEW l \in 1 .. n - 1, j # l
                PROVE  M[j] \cap M[l] = {}
    BY <1>7 DEF Apart
  <2>1. \A q \in 3 .. n : m_root \notin L[q]
    <3>1. \A q \in 3 .. n : q \in 1 .. n /\ q # 1
      BY <1>0
    <3>. QED
      BY <3>1, <1>1, <1>2
  <2>2. \A q \in 2 .. n - 1 : m_root \notin M[q]
    BY <2>1, <1>7
  <2>3. CASE j = 1
    <3>1. l \in 2 .. n - 1
      BY <2>3, <1>0
    <3>. QED
      BY <2>2, <2>3, <3>1, <1>7 DEF Alone
  <2>4. CASE l = 1
    <3>1. j \in 2 .. n - 1
      BY <2>4, <1>0
    <3>. QED
      BY <2>2, <2>4, <3>1, <1>7 DEF Alone
  <2>5. CASE j # 1 /\ l # 1
    <3>. DEFINE a == j + 1
                b == l + 1
    <3>1. j \in 2 .. n - 1 /\ l \in 2 .. n - 1 /\ a # b
      BY <2>5, <1>0
    <3>2. a \in 1 .. n /\ M[j] = L[a] /\ b \in 1 .. n /\ M[l] = L[b]
      BY <3>1, <1>7
    <3>. HIDE DEF a, b
    <3>. QED
      BY <3>1, <3>2, <1>1
  <2>. QED
    BY <2>3, <2>4, <2>5
<1>13. LoadsInTree(g, M)
  <2>. SUFFICES ASSUME NEW j \in 2 .. n - 1 PROVE LoadsRight(g, M[j])
    BY <1>7 DEF LoadsInTree
  <2>. DEFINE q == j + 1
  <2>1. M[j] = L[q] /\ q \in 3 .. n /\ q \in 2 .. n /\ q # 2
    BY <1>0, <1>7
  <2>. HIDE DEF q
  <2>2. LoadsRight(h, L[q])
    BY <2>1 DEF LoadsButLess, n
  <2>. QED
    BY <2>1, <2>2, <1>10 DEF LoadsRight, Size
<1>14. Records(g, M) = Records(h, L)
  <2>1. CASE n = 2
    <3>1. Len(M) = 1 /\ Len(L) = 2
      BY <2>1, <1>7 DEF n
    <3>2. M[Len(M)] = Alone(m_root) /\ L[Len(L)] = Alone(c)
      BY <3>1, <1>3, <1>7
    <3>3. Held(g, Alone(m_root)) = Held(h, Alone(c))
      BY <1>6 DEF Held, Alone, Items
    <3>. QED
      BY <3>2, <3>3 DEF Records
  <2>2. CASE n # 2
    <3>1. n - 1 \in 2 .. n - 1 /\ n \in 3 .. n /\ (n - 1) + 1 = n
      BY <2>2, <1>0
    <3>2. M[n - 1] = L[n]
      BY <3>1, <1>7
    <3>3. \A x \in L[n] : Items(g, x) = Items(h, x)
      BY <3>1, <1>10 DEF Items
    <3>4. Held(g, L[n]) = Held(h, L[n])
      BY <3>3 DEF Held
    <3>5. Records(g, M) = Held(g, M[n - 1]) /\ Records(h, L) = Held(h, L[n])
      BY <1>7 DEF Records, n
    <3>. QED
      BY <3>2, <3>4, <3>5
  <2>. QED
    BY <2>1, <2>2
<1>15. RootedTree(E, g, M)
  BY <1>6, <1>7, <1>11, <1>12, <1>13 DEF RootedTree, TreeRight, Rooted, Alone
<1>16. Size(g, m_root) = Size(h, c)
  BY <1>6 DEF Size
<1>. QED
  BY <1>7, <1>14, <1>15, <1>16 DEF g

\* The records without one.
RecordsBut(h, L, e) == Records(h, L) \ {e}

\* The rows M of a heap after e was taken out below node c of row j.
ShrunkRows(E, h, L, e, j, c, t, M) ==
  /\ RowsAsBefore(L, M, j) /\ KeyChanged(t.heap, M, j, c)
  /\ Records(t.heap, M) = RecordsBut(h, L, e)
  /\ IF t.status = "REMOVED" THEN LoadsButLess(t.heap, M, j, c) ELSE LoadsInTree(t.heap, M)

\* What has become of the tree with rows L when e was taken out below node c of row j: nothing
\* is wrong but the key of c in its parent and, after "REMOVED", the load of c.
Shrunk(E, h, L, e, j, c, t) ==
  /\ t.heap \in Seq(BTreeNode(E)) /\ DOMAIN t.heap = DOMAIN h
  /\ t.status \in {"OK", "REMOVED"} /\ t.gone = <<e.data>>
  /\ Size(t.heap, c) = Size(h, c)
       \/ (t.status = "REMOVED" /\ Size(t.heap, c) = Size(h, c) - 1)
  /\ SameAbove(h, t.heap, L, j)
  /\ \E M \in Seq(SUBSET Nat) : ShrunkRows(E, h, L, e, j, c, t, M)

\* A leaf finds the record it holds.
LEMMA LeafFinds ==
  ASSUME NEW E, NEW h \in Seq(BTreeNode(E)), NEW n \in DOMAIN h, KeysInOrder(h, n),
         NEW k \in Nat, NEW p, \E e \in ToSet(Items(h, n)) : e.key = k /\ e.data.path = p
  PROVE  RemoveFromLeaf(h, n, k, p).status = "REMOVED"
<1>. DEFINE items == Items(h, n)
            m == Len(items)
            T == {i \in 1 .. m : items[i].key = k}
            i == FirstWithKey(items, k)
            U == {q \in i .. m : items[q].key # k \/ items[q].data.path = p}
            j == SelectInSubSeq(items, i, m, LAMBDA it : it.key # k \/ it.data.path = p)
            r == RemoveFromLeaf(h, n, k, p)
<1>1. items \in Seq(Entry(E)) /\ m \in Nat /\ InOrder(items)
  BY HeapNode DEF KeysInOrder
<1>2. PICK a \in 1 .. m : items[a].key = k /\ items[a].data.path = p
  BY <1>1 DEF ToSet
<1>3. \A q \in 1 .. m : items[q].key = k => q = a
  BY <1>1, <1>2 DEF InOrder
<1>4. i = IF T # {} THEN Min(T) ELSE 0
  BY DEF FirstWithKey, SelectInSeq
<1>5. j = IF U # {} THEN Min(U) ELSE 0
  BY DEF SelectInSubSeq
<1>6. i # 0 /\ j # 0 /\ items[j].key = k => r.status = "REMOVED"
  BY DEF RemoveFromLeaf, Result
<1>7. T \in SUBSET (1 .. m) /\ \A q \in 1 .. m : q \in T <=> items[q].key = k
  OBVIOUS
<1>8. \A q : q \in U <=> q \in i .. m /\ (items[q].key # k \/ items[q].data.path = p)
  OBVIOUS
<1>. HIDE DEF items, m, T, U, i, j, r
<1>9. i = a
  <2>1. (i = 0 /\ T = {}) \/ i \in T
    BY <1>1, <1>4, <1>7, FirstPassing
  <2>. QED
    BY <2>1, <1>2, <1>3, <1>7
<1>10. a \in U /\ U \in SUBSET (1 .. m)
  BY <1>1, <1>2, <1>8, <1>9
<1>11. j \in U /\ \A q \in 1 .. j - 1 : q \notin U
  BY <1>1, <1>5, <1>10, FirstPassing
<1>12. j = a
  <2>1. j \in Nat /\ a \in Nat /\ j >= a /\ a >= 1
    BY <1>1, <1>2, <1>8, <1>9, <1>11
  <2>2. ~(a \in 1 .. j - 1)
    BY <1>10, <1>11
  <2>. QED
    BY <2>1, <2>2
<1>. QED
  BY <1>2, <1>6, <1>9, <1>12 DEF r

\* Keys in order: an item is told by its key.
LEMMA ItemOfKey ==
  ASSUME NEW E, NEW h \in Seq(BTreeNode(E)), NEW c \in DOMAIN h, KeysInOrder(h, c),
         NEW d \in ToSet(Items(h, c)), NEW e \in ToSet(Items(h, c)), d.key = e.key, e.key \in Nat
  PROVE  d = e
<1>. DEFINE v == Items(h, c)
<1>1. v \in Seq(Entry(E)) /\ InOrder(v)
  BY HeapNode DEF KeysInOrder
<1>2. PICK a \in 1 .. Len(v) : d = v[a]
  BY <1>1 DEF ToSet
<1>3. PICK b \in 1 .. Len(v) : e = v[b]
  BY <1>1 DEF ToSet
<1>. HIDE DEF v
<1>4. ~(a < b) /\ ~(b < a)
  BY <1>1, <1>2, <1>3 DEF InOrder
<1>. QED
  BY <1>2, <1>3, <1>4

\* A root that is a leaf has another record: with its last one gone the tree is empty, which is
\* not a tree with rows.
NotTheLast(h, L) == Len(L) = 1 => Size(h, m_root) >= 2

\* Way p ends in the leaf of record e, which can go.
WayToRemove(E, h, L, p, i, e) ==
  /\ RootedTree(E, h, L) /\ NotTheLast(h, L)
  /\ e \in Records(h, L) /\ WayToFind(h, L, p, i, e.key)

\* The row of the leaves, the one of them that way p ends in, and what the removal in it gives.
EndOfWay(h, L, p, e, S, c, r) ==
  S = L[Len(L)] /\ c = p[Len(L)] /\ r = RemoveFromLeaf(h, c, e.key, e.data.path)

\* What the leaf that the way to a record ends in loses, and what it is then.
LEMMA LeafOnWay ==
  ASSUME NEW E, NEW h, NEW L, NEW e, NEW p, NEW i, WayToRemove(E, h, L, p, i, e),
         NEW S, NEW c, NEW r, EndOfWay(h, L, p, e, S, c, r)
  PROVE  /\ c \in S /\ r.status = "REMOVED" /\ r.gone = <<e.data>>
         /\ \E w \in Seq(Entry(E)) : Loses(h, S, c, w, e) /\ r.heap = WithItems(h, c, w)
<1>. DEFINE k == e.key
            path == e.data.path
            root == m_root
<1>1. /\ h \in Seq(BTreeNode(E)) /\ L \in Seq(SUBSET Nat) /\ TreeRight(h, L)
      /\ L[1] = {root} /\ LoadsInTree(h, L) /\ NotTheLast(h, L)
      /\ e \in Records(h, L) /\ WayToFind(h, L, p, i, e.key)
  BY DEF WayToRemove, RootedTree, Rooted
<1>0. S = L[Len(L)] /\ c = p[Len(L)] /\ r = RemoveFromLeaf(h, c, e.key, e.data.path)
  BY DEF EndOfWay
<1>2. /\ Len(L) \in Nat /\ Len(L) # 0 /\ Len(L) \in 1 .. Len(L)
      /\ Row(h, S, {}) /\ Distinct(h, S)
  BY <1>0, <1>1 DEF TreeRight, RowRight
<1>3. c \in S /\ e \in ToSet(Items(h, c)) /\ k \in Nat
  <2>. HIDE DEF root
  <2>1. p[Len(L)] \in L[Len(L)] /\ e \in ToSet(Items(h, p[Len(L)])) /\ e.key \in Nat
    BY <1>1, SearchReachesLeaf
  <2>. QED
    BY <2>1, <1>0
<1>4. c \in DOMAIN h /\ KeysInOrder(h, c)
  BY <1>2, <1>3 DEF Row, RowNode
<1>5. r.status = "REMOVED"
  <2>1. \E d \in ToSet(Items(h, c)) : d.key = k /\ d.data.path = path
    BY <1>3
  <2>2. r = RemoveFromLeaf(h, c, k, path)
    BY <1>0
  <2>. HIDE DEF k, path
  <2>. QED
    BY <2>1, <2>2, <1>1, <1>3, <1>4, LeafFinds
<1>6. Size(h, c) >= 2
  <2>1. CASE Len(L) = 1
    BY <2>1, <1>0, <1>1, <1>3 DEF NotTheLast
  <2>2. CASE Len(L) # 1
    <3>. DEFINE q == Len(L)
    <3>1. q \in Nat /\ q # 0 /\ q # 1 /\ S = L[q]
      BY <2>2, <1>0, <1>2
    <3>2. \A l \in 2 .. q : LoadsRight(h, L[l])
      BY <1>1 DEF LoadsInTree
    <3>. HIDE DEF q
    <3>3. q \in 2 .. q
      BY <3>1
    <3>4. LoadsRight(h, S)
      BY <3>1, <3>2, <3>3
    <3>5. Size(h, c) >= MinLoad /\ Size(h, c) \in Nat
      BY <3>4, <1>1, <1>3, <1>4, HeapNode DEF LoadsRight
    <3>. QED
      BY <3>5, LoadAssumption DEF MinLoad
  <2>. QED
    BY <2>1, <2>2
<1>7. r = RemoveFromLeaf(h, c, k, path)
  BY <1>0
<1>. HIDE DEF k, path
<1>8. PICK w \in Seq(Entry(E)) : \E d :
        /\ Loses(h, S, c, w, d) /\ d.key = k /\ d.data.path = path
        /\ r.heap = WithItems(h, c, w) /\ r.gone = <<d.data>>
  BY <1>1, <1>2, <1>3, <1>5, <1>6, <1>7, LossFits
<1>9. PICK d :
        /\ Loses(h, S, c, w, d) /\ d.key = k /\ d.data.path = path
        /\ r.heap = WithItems(h, c, w) /\ r.gone = <<d.data>>
  BY <1>8
<1>10. d = e
  <2>1. d \in ToSet(Items(h, c)) /\ d.key = e.key /\ e.key \in Nat
    BY <1>3, <1>9 DEF Loses, k
  <2>. QED
    BY <2>1, <1>1, <1>3, <1>4, ItemOfKey
<1>. QED
  BY <1>3, <1>5, <1>9, <1>10

\* Taking a record out of the leaf its way ends in, which has another one: the leaf finds it, the
\* tree, of any height, has lost that record and no other, and nothing is wrong but, perhaps, the
\* key the leaf's parent has for it, and the leaf's load, one item too low (the erase in
\* internalRemoveData).
THEOREM RemovalStalesTree ==
  ASSUME NEW E, NEW h, NEW L, NEW e, NEW p, NEW i, WayToRemove(E, h, L, p, i, e)
  PROVE  Shrunk(E, h, L, e, Len(L), p[Len(L)],
                RemoveFromLeaf(h, p[Len(L)], e.key, e.data.path))
<1>. DEFINE S == L[Len(L)]
            c == p[Len(L)]
            r == RemoveFromLeaf(h, c, e.key, e.data.path)
            g == r.heap
<1>0. /\ h \in Seq(BTreeNode(E)) /\ L \in Seq(SUBSET Nat) /\ TreeRight(h, L)
      /\ LoadsInTree(h, L)
  BY DEF WayToRemove, RootedTree
<1>1. /\ Len(L) \in Nat /\ Len(L) # 0 /\ Len(L) \in 1 .. Len(L)
      /\ \A j, l \in 1 .. Len(L) : j # l => L[j] \cap L[l] = {}
      /\ \A j \in 1 .. Len(L) : RowRight(h, L, j)
      /\ Row(h, S, {}) /\ Distinct(h, S)
  BY <1>0 DEF TreeRight, Apart, RowRight
<1>2. /\ c \in S /\ r.status = "REMOVED" /\ r.gone = <<e.data>>
      /\ \E w \in Seq(Entry(E)) : Loses(h, S, c, w, e) /\ g = WithItems(h, c, w)
  <2>1. EndOfWay(h, L, p, e, S, c, r)
    BY DEF EndOfWay
  <2>. HIDE DEF S, c, r, g
  <2>2. c \in S /\ r.status = "REMOVED" /\ r.gone = <<e.data>>
    BY <2>1, LeafOnWay
  <2>3. \E w \in Seq(Entry(E)) : Loses(h, S, c, w, e) /\ r.heap = WithItems(h, c, w)
    BY <2>1, LeafOnWay
  <2>. QED
    BY <2>2, <2>3 DEF g
<1>3. S \subseteq DOMAIN h
  BY <1>1 DEF Row
<1>4. c \in L[Len(L)]
  BY <1>2
<1>. HIDE DEF S, c, r
<1>5. PICK w \in Seq(Entry(E)) : Loses(h, S, c, w, e) /\ g = WithItems(h, c, w)
  BY <1>2
<1>. HIDE DEF g
<1>6. FitsIn(h, L[Len(L)], c, w)
  BY <1>5 DEF S, Loses
<1>7. /\ g \in Seq(BTreeNode(E)) /\ DOMAIN g = DOMAIN h /\ Items(g, c) = w
      /\ \A x \in DOMAIN h : x # c => g[x] = h[x]
      /\ KeyChanged(g, L, Len(L), c)
  BY <1>0, <1>4, <1>5, <1>6, LeafWritten
<1>8. /\ Held(g, S) = Held(h, S) \ {e}
      /\ Size(g, c) = Size(h, c) - 1 /\ \A x \in S : x # c => Size(g, x) = Size(h, x)
  BY <1>0, <1>1, <1>2, <1>5, <1>7, LeafLoses
<1>9. Records(g, L) = RecordsBut(h, L, e)
  BY <1>8 DEF Records, RecordsBut, S
<1>10. LoadsButLess(g, L, Len(L), c)
  <2>. SUFFICES ASSUME NEW j \in 2 .. Len(L)
                PROVE  IF j = Len(L) THEN LoadsAfterLoss(g, L[j], c) ELSE LoadsRight(g, L[j])
    BY DEF LoadsButLess
  <2>1. LoadsRight(h, L[j])
    BY <1>0 DEF LoadsInTree
  <2>2. CASE j = Len(L)
    <3>1. L[j] = S
      BY <2>2 DEF S
    <3>2. MaxLoad \in Nat /\ MinLoad \in Nat
      BY LoadAssumption DEF MinLoad
    <3>3. Size(h, c) \in Nat
      BY <1>0, <1>2, <1>3, HeapNode
    <3>4. Size(h, c) <= MaxLoad /\ Size(h, c) >= MinLoad
      BY <2>1, <3>1, <1>2 DEF LoadsRight
    <3>5. Size(g, c) <= MaxLoad /\ Size(g, c) >= MinLoad - 1
      BY <1>8, <3>2, <3>3, <3>4
    <3>6. \A x \in S : Size(g, x) <= MaxLoad /\ (x # c => Size(g, x) >= MinLoad)
      BY <1>8, <2>1, <3>1, <3>5 DEF LoadsRight
    <3>. QED
      BY <2>2, <3>1, <3>5, <3>6 DEF LoadsAfterLoss
  <2>3. CASE j # Len(L)
    <3>1. j \in 1 .. Len(L)
      BY <1>1
    <3>2. L[j] \subseteq DOMAIN h
      BY <1>0, <3>1, <1>1, RightRow
    <3>3. c \notin L[j]
      BY <3>1, <2>3, <1>1, <1>2 DEF S
    <3>4. \A x \in L[j] : Size(g, x) = Size(h, x)
      BY <3>2, <3>3, <1>7 DEF Size
    <3>. QED
      BY <2>1, <2>3, <3>4 DEF LoadsRight
  <2>. QED
    BY <2>2, <2>3
<1>11. RowsAsBefore(L, L, Len(L))
  BY DEF RowsAsBefore
<1>12. SameAbove(h, g, L, Len(L))
  <2>. SUFFICES ASSUME NEW l \in 1 .. Len(L), l < Len(L), NEW x \in L[l] PROVE g[x] = h[x]
    BY DEF SameAbove
  <2>1. RowRight(h, L, l) /\ l # Len(L) /\ Len(L) \in 1 .. Len(L)
    BY <1>1
  <2>2. x \in DOMAIN h
    BY <2>1 DEF RowRight, InnerRow, Row
  <2>3. x # c
    BY <2>1, <1>1, <1>4
  <2>. QED
    BY <2>2, <2>3, <1>7
<1>13. ShrunkRows(E, h, L, e, Len(L), c, r, L)
  BY <1>2, <1>7, <1>9, <1>10, <1>11 DEF ShrunkRows, g
<1>14. Shrunk(E, h, L, e, Len(L), c, r)
  <2>1. \E M \in Seq(SUBSET Nat) : ShrunkRows(E, h, L, e, Len(L), c, r, M)
    BY <1>0, <1>13
  <2>. QED
    BY <2>1, <1>2, <1>7, <1>8, <1>12 DEF Shrunk, g
<1>. QED
  BY <1>14 DEF r, c

\* Loads that are right all over, once the one that might be wrong is.
LEMMA NoLess ==
  ASSUME NEW g, NEW M, NEW k, NEW n, LoadsButLess(g, M, k, n),
         k = 1 \/ Size(g, n) >= MinLoad
  PROVE  LoadsInTree(g, M)
<1>. SUFFICES ASSUME NEW j \in 2 .. Len(M) PROVE LoadsRight(g, M[j])
  BY DEF LoadsInTree
<1>1. CASE j # k
  BY <1>1 DEF LoadsButLess
<1>2. CASE j = k
  <2>1. LoadsAfterLoss(g, M[j], n)
    BY <1>2 DEF LoadsButLess
  <2>2. Size(g, n) >= MinLoad
    BY <1>2
  <2>. QED
    BY <2>1, <2>2 DEF LoadsAfterLoss, LoadsRight
<1>. QED
  BY <1>1, <1>2

\* Loads in a heap whose nodes have as many items.
LEMMA SameLoads ==
  ASSUME NEW g, NEW f, NEW M, LoadsInTree(g, M),
         \A l \in 1 .. Len(M) : \A x \in M[l] : Size(f, x) = Size(g, x), Len(M) \in Nat
  PROVE  LoadsInTree(f, M)
<1>. SUFFICES ASSUME NEW j \in 2 .. Len(M) PROVE LoadsRight(f, M[j])
  BY DEF LoadsInTree
<1>1. LoadsRight(g, M[j]) /\ j \in 1 .. Len(M)
  BY DEF LoadsInTree
<1>. QED
  BY <1>1 DEF LoadsRight

\* internalRemoveData in an inner node of a tree of any height, the root of one item excepted:
\* what was taken out below its child is taken out below it.
LEMMA RemovalClimbs ==
  ASSUME NEW E, NEW h, NEW L, LoadsInTree(h, L),
         NEW k, NEW n, NEW i, NEW c, Names(E, h, L, k, n, i, c), Size(h, n) >= 2, NEW e, NEW t,
         Shrunk(E, h, L, e, k + 1, c, t)
  PROVE  Shrunk(E, h, L, e, k, n, RemovedBelow(t, n, i, c))
<1>. DEFINE g == t.heap
            f == Keyed(g, n, i, c)
            b == Rebalance(g, n, i, c, t.gone)
            u == RemovedBelow(t, n, i, c)
<1>0. SUFFICES Shrunk(E, h, L, e, k, n, u)
  OBVIOUS
<1>1. /\ h \in Seq(BTreeNode(E)) /\ L \in Seq(SUBSET Nat) /\ Len(L) \in Nat
      /\ k \in 1 .. Len(L) - 1 /\ n \in L[k]
  BY DEF Names
<1>2. /\ g \in Seq(BTreeNode(E)) /\ DOMAIN g = DOMAIN h
      /\ t.status \in {"OK", "REMOVED"} /\ t.gone = <<e.data>>
      /\ \E M \in Seq(SUBSET Nat) : ShrunkRows(E, h, L, e, k + 1, c, t, M)
  BY DEF Shrunk
<1>3. PICK M \in Seq(SUBSET Nat) : ShrunkRows(E, h, L, e, k + 1, c, t, M)
  BY <1>2
<1>4. /\ TreeBut(g, M, k, n, i) /\ Child(g, n, i) = c /\ c \in M[k + 1]
      /\ n \in DOMAIN g /\ c \in DOMAIN g /\ Size(g, n) = Size(h, n)
      /\ \A l \in 1 .. Len(L) : l < k => \A x \in L[l] :
           x # n /\ x \in DOMAIN g /\ x \notin M[k + 1] /\ g[x] = h[x]
  <2>1. WrittenFrom(E, h, L, k + 1, c, g, M)
    BY <1>3 DEF Shrunk, ShrunkRows, WrittenFrom
  <2>. HIDE DEF g
  <2>2. c \in M[k + 1] /\ n \in DOMAIN g /\ c \in DOMAIN g /\ Size(g, n) = Size(h, n)
    BY <2>1, ParentOfWritten
  <2>3. TreeBut(g, M, k, n, i) /\ Child(g, n, i) = c
    BY <2>1, ParentOfWritten
  <2>4. \A l \in 1 .. Len(L) : l < k => \A x \in L[l] :
          x # n /\ x \in DOMAIN g /\ x \notin M[k + 1] /\ g[x] = h[x]
    BY <2>1, ParentOfWritten
  <2>. QED
    BY <2>2, <2>3, <2>4
<1>5. /\ RowsAsBefore(L, M, k + 1) /\ Records(g, M) = RecordsBut(h, L, e)
      /\ IF t.status = "REMOVED" THEN LoadsButLess(g, M, k + 1, c) ELSE LoadsInTree(g, M)
  BY <1>3 DEF ShrunkRows
<1>6. f = [t.heap EXCEPT ![n].items[i].key = MaxKey(t.heap, c)]
  BY DEF Keyed
<1>7. /\ t.status = "OK" => u = Result(f, "OK", t.gone)
      /\ t.status = "REMOVED" => u = b
  <2>. HIDE DEF f
  <2>1. u = IF t.status = "NOT_FOUND" THEN Result(t.heap, "NoSuchPath", Nothing)
            ELSE IF t.status = "OK" THEN Result(f, "OK", t.gone)
            ELSE IF t.status = "REMOVED" THEN Rebalance(t.heap, n, i, c, t.gone) ELSE t
    BY <1>6 DEF RemovedBelow
  <2>. HIDE DEF u
  <2>2. "OK" # "NOT_FOUND" /\ "REMOVED" # "NOT_FOUND" /\ "REMOVED" # "OK"
    OBVIOUS
  <2>. QED
    BY <2>1, <2>2
<1>. HIDE DEF g, u
<1>8. /\ Len(M) = Len(L) /\ \A l \in 1 .. Len(L) : l <= k + 1 => M[l] = L[l]
      /\ \A l \in 1 .. Len(L) : M[l] \subseteq DOMAIN g
  <2>1. Len(M) = Len(L) /\ \A l \in 1 .. Len(L) : l <= k + 1 => M[l] = L[l]
    BY <1>5 DEF RowsAsBefore
  <2>. QED
    BY <2>1, <1>4, TreeNodes
<1>9. CASE t.status = "OK"
  <2>1. u.heap = f /\ u.status = "OK" /\ u.gone = <<e.data>>
    BY <1>2, <1>7, <1>9 DEF Result
  <2>2. /\ f \in Seq(BTreeNode(E)) /\ Len(f) = Len(g)
        /\ KeyChanged(f, M, k, n) /\ Records(f, M) = Records(g, M)
        /\ \A x \in DOMAIN g : Size(f, x) = Size(g, x)
        /\ \A x \in DOMAIN g : x # n => f[x] = g[x]
    <3>. DEFINE y == Keyed(g, n, i, Child(g, n, i))
    <3>1. y = f
      BY <1>4
    <3>. HIDE DEF f
    <3>2. TreeBut(g, M, k, n, i) /\ g \in Seq(BTreeNode(E))
      BY <1>2, <1>4 DEF g
    <3>3. /\ y \in Seq(BTreeNode(E)) /\ Len(y) = Len(g)
          /\ KeyChanged(y, M, k, n) /\ Records(y, M) = Records(g, M)
      BY <3>2, KeyKeepsTree
    <3>4. /\ \A x \in DOMAIN g : Size(y, x) = Size(g, x)
          /\ \A x \in DOMAIN g : x # n => y[x] = g[x]
      BY <3>2, KeyKeepsTree
    <3>. QED
      BY <3>1, <3>3, <3>4
  <2>. HIDE DEF f
  <2>3. DOMAIN f = DOMAIN h
    BY <1>2, <2>2 DEF g
  <2>4. LoadsInTree(f, M)
    <3>1. LoadsInTree(g, M) /\ \A l \in 1 .. Len(M) : \A x \in M[l] : Size(f, x) = Size(g, x)
      BY <1>5, <1>8, <1>9, <2>2
    <3>2. Len(M) \in Nat
      BY <1>1, <1>8
    <3>. QED
      BY <3>1, <3>2, SameLoads
  <2>5. Size(f, n) = Size(h, n)
    BY <1>4, <2>2
  <2>6. SameAbove(h, f, L, k)
    BY <1>4, <2>2 DEF SameAbove
  <2>7. RowsAsBefore(L, M, k)
    <3>1. \A l \in 1 .. Len(L) : l <= k => l <= k + 1
      BY <1>1
    <3>. QED
      BY <3>1, <1>8 DEF RowsAsBefore
  <2>8. ShrunkRows(E, h, L, e, k, n, u, M)
    BY <2>1, <2>2, <2>4, <2>7, <1>5 DEF ShrunkRows
  <2>. QED
    BY <2>1, <2>2, <2>3, <2>5, <2>6, <2>8 DEF Shrunk
<1>10. CASE t.status = "REMOVED"
  <2>. DEFINE s == b.heap
  <2>1. u.heap = s /\ u.status = b.status /\ u.gone = b.gone
    BY <1>7, <1>10
  <2>2. /\ b.status \in {"OK", "REMOVED"} /\ b.gone = t.gone
        /\ s \in Seq(BTreeNode(E)) /\ DOMAIN s = DOMAIN g
        /\ \E K \in Seq(SUBSET Nat) :
             /\ \E T \in SUBSET M[k + 1] : RowReplaced(M, K, k + 1, T)
             /\ KeyChanged(s, K, k, n) /\ LoadsButLess(s, K, k, n)
             /\ Records(s, K) = Records(g, M)
        /\ Size(s, n) = Size(g, n) \/ (Size(s, n) = Size(g, n) - 1 /\ b.status = "REMOVED")
        /\ \A x \in DOMAIN g : x \notin M[k + 1] /\ x # n => s[x] = g[x]
    <3>. DEFINE d == Rebalance(g, n, i, Child(g, n, i), t.gone)
    <3>0. d = b
      BY <1>4
    <3>1. TreeBut(g, M, k, n, i) /\ Size(g, n) >= 2 /\ LoadsButLess(g, M, k + 1, Child(g, n, i))
      BY <1>4, <1>5, <1>10
    <3>2. g \in Seq(BTreeNode(E))
      BY <1>2 DEF g
    <3>. HIDE DEF b
    <3>3. /\ d.status \in {"OK", "REMOVED"} /\ d.gone = t.gone
          /\ d.heap \in Seq(BTreeNode(E)) /\ DOMAIN d.heap = DOMAIN g
      BY <3>1, <3>2, RebalanceKeepsTree
    <3>4. \E K \in Seq(SUBSET Nat) :
             /\ \E T \in SUBSET M[k + 1] : RowReplaced(M, K, k + 1, T)
             /\ KeyChanged(d.heap, K, k, n) /\ LoadsButLess(d.heap, K, k, n)
             /\ Records(d.heap, K) = Records(g, M)
      BY <3>1, <3>2, RebalanceKeepsTree
    <3>5. /\ Size(d.heap, n) = Size(g, n)
               \/ (Size(d.heap, n) = Size(g, n) - 1 /\ d.status = "REMOVED")
          /\ \A x \in DOMAIN g : x \notin M[k + 1] /\ x # n => d.heap[x] = g[x]
      BY <3>1, <3>2, RebalanceKeepsTree
    <3>. HIDE DEF d
    <3>. QED
      BY <3>0, <3>3, <3>4, <3>5
  <2>. HIDE DEF b
  <2>3. PICK K \in Seq(SUBSET Nat) :
          /\ \E T \in SUBSET M[k + 1] : RowReplaced(M, K, k + 1, T)
          /\ KeyChanged(s, K, k, n) /\ LoadsButLess(s, K, k, n)
          /\ Records(s, K) = Records(g, M)
    BY <2>2
  <2>. HIDE DEF s
  <2>4. DOMAIN s = DOMAIN h
    BY <1>2, <2>2 DEF g
  <2>5. SameAbove(h, s, L, k)
    BY <2>2, <1>4 DEF SameAbove
  <2>6. RowsAsBefore(L, K, k)
    <3>1. Len(K) = Len(M) /\ \A l \in 1 .. Len(M) : l # k + 1 => K[l] = M[l]
      BY <2>3 DEF RowReplaced
    <3>2. \A l \in 1 .. Len(L) : l <= k => l <= k + 1 /\ l # k + 1
      BY <1>1
    <3>. QED
      BY <3>1, <3>2, <1>8 DEF RowsAsBefore
  <2>7. b.status = "OK" => LoadsInTree(s, K)
    <3>. SUFFICES ASSUME b.status = "OK" PROVE LoadsInTree(s, K)
      OBVIOUS
    <3>1. Size(s, n) = Size(h, n)
      BY <2>2, <1>4
    <3>2. k = 1 \/ Size(h, n) >= MinLoad
      <4>. SUFFICES ASSUME k # 1 PROVE Size(h, n) >= MinLoad
        OBVIOUS
      <4>1. k \in 2 .. Len(L)
        BY <1>1
      <4>. QED
        BY <4>1, <1>1 DEF LoadsInTree, LoadsRight
    <3>. QED
      BY <3>1, <3>2, <2>3, NoLess
  <2>8. ShrunkRows(E, h, L, e, k, n, u, K)
    BY <2>1, <2>2, <2>3, <2>6, <2>7, <1>5 DEF ShrunkRows
  <2>9. Size(s, n) = Size(h, n) \/ (b.status = "REMOVED" /\ Size(s, n) = Size(h, n) - 1)
    BY <2>2, <1>4
  <2>. QED
    BY <2>1, <2>2, <2>4, <2>5, <2>8, <2>9, <1>2 DEF Shrunk
<1>. QED
  BY <1>2, <1>9, <1>10

\* The results r of internalRemoveData along the way p, from the leaf's, the last, up to the
\* root's, the first.
RemovalAlong(h, L, p, i, e, r) ==
  /\ r[Len(L)] = RemoveFromLeaf(h, p[Len(L)], e.key, e.data.path)
  /\ \A j \in 1 .. Len(L) - 1 : r[j] = RemovedBelow(r[j + 1], p[j], i[j], p[j + 1])

\* The nodes on a way that is followed to take a record out.
LEMMA NamesOnWayOut ==
  ASSUME NEW E, NEW h, NEW L, NEW p, NEW i, NEW e, WayToRemove(E, h, L, p, i, e)
  PROVE  \A j \in 1 .. Len(L) - 1 : Names(E, h, L, j, p[j], i[j], p[j + 1])
<1>. DEFINE k == e.key
            root == m_root
<1>1. /\ RootedTree(E, h, L) /\ e \in Records(h, L) /\ WayToFind(h, L, p, i, e.key)
      /\ h \in Seq(BTreeNode(E)) /\ L \in Seq(SUBSET Nat) /\ TreeRight(h, L) /\ L[1] = {root}
  BY DEF WayToRemove, RootedTree, Rooted
<1>2. e.key \in Nat /\ e.key <= MaxKey(h, root)
  <2>. HIDE DEF root
  <2>. QED
    BY <1>1, SearchReachesLeaf
<1>3. k \in Nat /\ WayToFind(h, L, p, i, k) /\ k <= MaxKey(h, m_root)
  BY <1>1, <1>2
<1>. HIDE DEF k, root
<1>. QED
  BY <1>1, <1>3, NamesOnWay

\* Every node on the way, from row z down, no node of which has a single item.
LEMMA ShrunkOnWay ==
  ASSUME NEW E, NEW h, NEW L, NEW p, NEW i, NEW e, WayToRemove(E, h, L, p, i, e),
         NEW r, RemovalAlong(h, L, p, i, e, r), NEW z, z \in 1 .. Len(L),
         \A j \in z .. Len(L) - 1 : Size(h, p[j]) >= 2
  PROVE  Shrunk(E, h, L, e, z, p[z], r[z])
<1>. DEFINE q == Len(L)
            Fine(j) == Shrunk(E, h, L, e, j, p[j], r[j])
            T == {d \in Nat : d <= q - z /\ ~Fine(q - d)}
<1>1. q \in Nat /\ q >= 1 /\ LoadsInTree(h, L) /\ z \in 1 .. q
  BY DEF WayToRemove, RootedTree, TreeRight
<1>2. /\ r[q] = RemoveFromLeaf(h, p[q], e.key, e.data.path)
      /\ \A j \in 1 .. q - 1 : r[j] = RemovedBelow(r[j + 1], p[j], i[j], p[j + 1])
  BY DEF RemovalAlong
<1>3. \A j \in 1 .. q - 1 : Names(E, h, L, j, p[j], i[j], p[j + 1])
  BY NamesOnWayOut
<1>4. Fine(q)
  <2>1. Shrunk(E, h, L, e, q, p[q], RemoveFromLeaf(h, p[q], e.key, e.data.path))
    BY RemovalStalesTree
  <2>. QED
    BY <2>1, <1>2
<1>5. ASSUME NEW j \in z .. q - 1, Fine(j + 1) PROVE Fine(j)
  <2>. DEFINE n == p[j]
              c == p[j + 1]
              ij == i[j]
              t == r[j + 1]
  <2>0. j \in 1 .. q - 1
    BY <1>1
  <2>1. /\ Names(E, h, L, j, n, ij, c) /\ Shrunk(E, h, L, e, j + 1, c, t)
        /\ r[j] = RemovedBelow(t, n, ij, c) /\ Size(h, n) >= 2
    BY <1>2, <1>3, <1>5, <2>0
  <2>. HIDE DEF n, c, ij, t
  <2>2. Shrunk(E, h, L, e, j, n, RemovedBelow(t, n, ij, c))
    BY <2>1, <1>1, RemovalClimbs
  <2>. QED
    BY <2>1, <2>2 DEF n
<1>. HIDE DEF Fine, q
<1>6. T = {}
  <2>. SUFFICES ASSUME T # {} PROVE FALSE
    OBVIOUS
  <2>1. PICK d \in T : \A x \in T : d <= x
    BY HasLeast
  <2>2. d \in Nat /\ d <= q - z /\ ~Fine(q - d)
    OBVIOUS
  <2>3. d # 0
    <3>1. q - 0 = q
      BY <1>1
    <3>. QED
      BY <3>1, <2>2, <1>4
  <2>4. d - 1 \in Nat /\ d - 1 <= q - z /\ ~(d <= d - 1) /\ q - (d - 1) = (q - d) + 1 /\ q - d \in z .. q - 1
    BY <2>2, <2>3, <1>1
  <2>5. Fine(q - (d - 1))
    BY <2>1, <2>4
  <2>. QED
    BY <2>2, <2>4, <2>5, <1>5
<1>7. Fine(z)
  <2>1. q - z \in Nat /\ q - z <= q - z /\ q - (q - z) = z
    BY <1>1
  <2>2. q - z \notin T
    BY <1>6
  <2>3. Fine(q - (q - z))
    BY <2>1, <2>2
  <2>. QED
    BY <2>1, <2>3
<1>. QED
  BY <1>7 DEF Fine

\* What a removal leaves: the tree is right, without that record.
RemovedFrom(E, h, L, e, t) ==
  /\ t.status \in {"OK", "REMOVED"} /\ t.gone = <<e.data>>
  /\ Size(t.heap, m_root) <= MaxLoad
  /\ \E M \in Seq(SUBSET Nat) :
       RootedTree(E, t.heap, M) /\ Records(t.heap, M) = RecordsBut(h, L, e)

\* Where the root has one item only, a child that is too low takes its place.
LEMMA RemovalAtSingleRoot ==
  ASSUME NEW E, NEW h, NEW L, RootedTree(E, h, L), NEW e, NEW i, NEW c, NEW k, k = 1,
         Names(E, h, L, k, m_root, i, c), Size(h, m_root) = 1,
         NEW t, Shrunk(E, h, L, e, k + 1, c, t)
  PROVE  RemovedFrom(E, h, L, e, RemovedBelow(t, m_root, i, c))
<1>. DEFINE g == t.heap
            f == Keyed(g, m_root, i, c)
            u == RemovedBelow(t, m_root, i, c)
<1>1. /\ h \in Seq(BTreeNode(E)) /\ L \in Seq(SUBSET Nat) /\ Len(L) \in Nat
      /\ k \in 1 .. Len(L) - 1 /\ i \in 1 .. Len(Items(h, m_root)) /\ Rooted(L) /\ i = 1
  <2>1. i \in 1 .. Len(Items(h, m_root)) /\ Len(Items(h, m_root)) = 1
    BY DEF Names, Size, Items
  <2>. QED
    BY <2>1 DEF Names, RootedTree
<1>2. /\ g \in Seq(BTreeNode(E)) /\ DOMAIN g = DOMAIN h
      /\ t.status \in {"OK", "REMOVED"} /\ t.gone = <<e.data>>
      /\ \E M \in Seq(SUBSET Nat) : ShrunkRows(E, h, L, e, k + 1, c, t, M)
  BY DEF Shrunk
<1>3. PICK M \in Seq(SUBSET Nat) : ShrunkRows(E, h, L, e, k + 1, c, t, M)
  BY <1>2
<1>4. /\ TreeBut(g, M, k, m_root, i) /\ Child(g, m_root, i) = c /\ c \in M[k + 1]
      /\ c \in DOMAIN g /\ m_root \in DOMAIN g /\ Size(g, m_root) = 1
  <2>. DEFINE n == m_root
  <2>1. WrittenFrom(E, h, L, k + 1, c, g, M)
    BY <1>3 DEF Shrunk, ShrunkRows, WrittenFrom
  <2>2. Names(E, h, L, k, n, i, c) /\ Size(h, n) = 1
    OBVIOUS
  <2>. HIDE DEF g, n
  <2>3. c \in M[k + 1] /\ n \in DOMAIN g /\ c \in DOMAIN g /\ Size(g, n) = Size(h, n)
    BY <2>1, <2>2, ParentOfWritten
  <2>4. TreeBut(g, M, k, n, i) /\ Child(g, n, i) = c
    BY <2>1, <2>2, ParentOfWritten
  <2>. QED
    BY <2>2, <2>3, <2>4 DEF n
<1>5. /\ RowsAsBefore(L, M, k + 1) /\ Records(g, M) = RecordsBut(h, L, e)
      /\ IF t.status = "REMOVED" THEN LoadsButLess(g, M, k + 1, c) ELSE LoadsInTree(g, M)
  BY <1>3 DEF ShrunkRows
<1>6. Rooted(M) /\ Len(M) = Len(L) /\ \A l \in 1 .. Len(M) : M[l] \subseteq DOMAIN g
  <2>1. 1 \in 1 .. Len(L) /\ 1 <= k + 1
    BY <1>1
  <2>2. M[1] = L[1] /\ Len(M) = Len(L)
    BY <2>1, <1>5 DEF RowsAsBefore
  <2>3. \A l \in 1 .. Len(M) : M[l] \subseteq DOMAIN g
    BY <1>4, TreeNodes
  <2>. QED
    BY <2>2, <2>3, <1>1 DEF Rooted
<1>7. MaxLoad \in Nat /\ MinLoad \in Nat /\ MaxLoad >= 4 /\ MinLoad <= MaxLoad
  BY LoadAssumption DEF MinLoad
<1>8. /\ f = [t.heap EXCEPT ![m_root].items[i].key = MaxKey(t.heap, c)]
      /\ f = [g EXCEPT ![m_root].items[i].key = MaxKey(g, c)]
  BY DEF Keyed
<1>9. u = IF t.status = "NOT_FOUND" THEN Result(t.heap, "NoSuchPath", Nothing)
          ELSE IF t.status = "OK" THEN Result(f, "OK", t.gone)
          ELSE IF t.status = "REMOVED" THEN Rebalance(g, m_root, i, c, t.gone) ELSE t
  <2>. HIDE DEF f
  <2>. QED
    BY <1>8 DEF RemovedBelow
<1>10. t.status = "REMOVED" =>
         u = IF Size(g, c) >= MinLoad THEN Result(f, "REMOVED", t.gone)
             ELSE Result(Collapse(g, c), "REMOVED", t.gone)
  <2>. SUFFICES ASSUME t.status = "REMOVED"
                PROVE  u = IF Size(g, c) >= MinLoad THEN Result(f, "REMOVED", t.gone)
                           ELSE Result(Collapse(g, c), "REMOVED", t.gone)
    OBVIOUS
  <2>1. u = Rebalance(g, m_root, i, c, t.gone)
    BY <1>9
  <2>2. SiblingIndex(g, m_root, i) = i
    <3>1. Len(Items(g, m_root)) = 1
      BY <1>4 DEF Size, Items
    <3>. QED
      BY <3>1, <1>1 DEF SiblingIndex
  <2>. HIDE DEF f, u, g
  <2>. QED
    BY <2>1, <2>2, <1>8 DEF Rebalance
<1>11. t.status = "OK" => u = Result(f, "OK", t.gone)
  BY <1>9
<1>. HIDE DEF g, u
<1>12. /\ f \in Seq(BTreeNode(E)) /\ Len(f) = Len(g)
       /\ KeyChanged(f, M, k, m_root) /\ Records(f, M) = Records(g, M)
       /\ \A x \in DOMAIN g : Size(f, x) = Size(g, x)
  <2>. DEFINE n == m_root
              y == Keyed(g, n, i, Child(g, n, i))
  <2>1. y = f
    BY <1>4
  <2>2. TreeBut(g, M, k, n, i) /\ g \in Seq(BTreeNode(E))
    BY <1>2, <1>4 DEF g
  <2>. HIDE DEF f, n
  <2>3. /\ y \in Seq(BTreeNode(E)) /\ Len(y) = Len(g)
        /\ KeyChanged(y, M, k, n) /\ Records(y, M) = Records(g, M)
    BY <2>2, KeyKeepsTree
  <2>4. \A x \in DOMAIN g : Size(y, x) = Size(g, x)
    BY <2>2, KeyKeepsTree
  <2>. QED
    BY <2>1, <2>3, <2>4 DEF n
<1>. HIDE DEF f
<1>13. ASSUME t.status = "OK" \/ Size(g, c) >= MinLoad
       PROVE  /\ RootedTree(E, f, M) /\ Records(f, M) = RecordsBut(h, L, e)
              /\ Size(f, m_root) <= MaxLoad
  <2>1. LoadsInTree(g, M)
    <3>1. CASE t.status = "OK"
      BY <3>1, <1>5
    <3>2. CASE t.status # "OK"
      <4>. DEFINE kk == k + 1
      <4>1. LoadsButLess(g, M, kk, c) /\ Size(g, c) >= MinLoad
        BY <3>2, <1>2, <1>5, <1>13
      <4>. HIDE DEF kk
      <4>. QED
        BY <4>1, NoLess
    <3>. QED
      BY <3>1, <3>2
  <2>2. LoadsInTree(f, M)
    <3>1. \A l \in 1 .. Len(M) : \A x \in M[l] : Size(f, x) = Size(g, x)
      BY <1>6, <1>12
    <3>2. Len(M) \in Nat
      BY <1>1, <1>6
    <3>. QED
      BY <2>1, <3>1, <3>2, SameLoads
  <2>3. TreeRight(f, M)
    BY <1>12 DEF KeyChanged
  <2>4. Size(f, m_root) <= MaxLoad
    BY <1>4, <1>7, <1>12
  <2>. QED
    BY <2>2, <2>3, <2>4, <1>5, <1>6, <1>12 DEF RootedTree
<1>14. CASE t.status = "OK"
  <2>1. u.heap = f /\ u.status = "OK" /\ u.gone = <<e.data>>
    BY <1>2, <1>11, <1>14 DEF Result
  <2>. QED
    BY <2>1, <1>13, <1>14 DEF RemovedFrom, u
<1>15. CASE t.status = "REMOVED" /\ Size(g, c) >= MinLoad
  <2>1. u.heap = f /\ u.status = "REMOVED" /\ u.gone = <<e.data>>
    BY <1>2, <1>10, <1>15 DEF Result
  <2>. QED
    BY <2>1, <1>13, <1>15 DEF RemovedFrom, u
<1>16. CASE t.status = "REMOVED" /\ ~(Size(g, c) >= MinLoad)
  <2>1. u.heap = Collapse(g, c) /\ u.status = "REMOVED" /\ u.gone = <<e.data>>
    BY <1>2, <1>10, <1>16 DEF Result
  <2>2. /\ g \in Seq(BTreeNode(E)) /\ Rooted(M) /\ TreeBut(g, M, 1, m_root, 1)
        /\ Size(g, m_root) = 1 /\ c = Child(g, m_root, 1) /\ LoadsButLess(g, M, 2, c)
    <3>1. k + 1 = 2
      BY <1>1
    <3>. QED
      BY <3>1, <1>1, <1>2, <1>4, <1>5, <1>6, <1>16 DEF g
  <2>3. \E K \in Seq(SUBSET Nat) :
          /\ RootedTree(E, Collapse(g, c), K) /\ Records(Collapse(g, c), K) = Records(g, M)
          /\ Size(Collapse(g, c), m_root) = Size(g, c)
    BY <2>2, CollapseKeepsTree
  <2>4. Size(g, c) \in Nat
    BY <1>4, <2>2, HeapNode
  <2>5. Size(Collapse(g, c), m_root) <= MaxLoad
    BY <2>3, <2>4, <1>7, <1>16
  <2>6. \E K \in Seq(SUBSET Nat) :
          RootedTree(E, Collapse(g, c), K) /\ Records(Collapse(g, c), K) = RecordsBut(h, L, e)
    BY <2>3, <1>5
  <2>. QED
    BY <2>1, <2>5, <2>6 DEF RemovedFrom, u
<1>. QED
  BY <1>2, <1>14, <1>15, <1>16

\* internalRemoveData, from the root of a tree of any height, of a record that is in it and is not
\* its last: the tree has all the records but that one and is right with all loads in bounds, the
\* root's too, no exception is thrown on the way, and the record's data is what is handed back.
THEOREM RemovalKeepsTree ==
  ASSUME NEW E, NEW h, NEW L, NEW p, NEW i, NEW e, WayToRemove(E, h, L, p, i, e),
         Size(h, m_root) <= MaxLoad, NEW r, RemovalAlong(h, L, p, i, e, r)
  PROVE  RemovedFrom(E, h, L, e, r[1])
<1>. DEFINE q == Len(L)
            k == 1
<1>1. /\ RootedTree(E, h, L) /\ NotTheLast(h, L) /\ e \in Records(h, L)
      /\ WayToFind(h, L, p, i, e.key)
      /\ h \in Seq(BTreeNode(E)) /\ L \in Seq(SUBSET Nat) /\ TreeRight(h, L) /\ Rooted(L)
      /\ LoadsInTree(h, L) /\ q \in Nat /\ q >= 1 /\ k \in 1 .. q
  BY DEF WayToRemove, RootedTree, TreeRight
<1>2. p[k] = m_root /\ L[k] = {m_root}
  BY <1>1 DEF Rooted, WayToFind, Way
<1>3. \A j \in 2 .. q - 1 : Size(h, p[j]) >= 2
  <2>. SUFFICES ASSUME NEW j \in 2 .. q - 1 PROVE Size(h, p[j]) >= 2
    OBVIOUS
  <2>1. j \in 1 .. q - 1 /\ j \in 2 .. q
    BY <1>1
  <2>2. Names(E, h, L, j, p[j], i[j], p[j + 1])
    BY <2>1, NamesOnWayOut
  <2>3. p[j] \in L[j] /\ p[j] \in DOMAIN h
    BY <2>2 DEF Names
  <2>4. LoadsRight(h, L[j])
    BY <2>1, <1>1 DEF LoadsInTree
  <2>5. Size(h, p[j]) >= MinLoad /\ Size(h, p[j]) \in Nat
    BY <2>3, <2>4, <1>1, HeapNode DEF LoadsRight
  <2>. QED
    BY <2>5, LoadAssumption DEF MinLoad
<1>4. m_root \in DOMAIN h /\ Size(h, m_root) \in Nat /\ Size(h, m_root) # 0
  <2>1. RowRight(h, L, k)
    BY <1>1 DEF TreeRight
  <2>2. m_root \in DOMAIN h /\ Items(h, m_root) # <<>>
    BY <2>1, <1>2 DEF RowRight, InnerRow, Row, RowNode
  <2>. QED
    BY <2>2, <1>1, HeapNode DEF Size, Items
<1>5. MaxLoad \in Nat
  BY LoadAssumption
<1>6. CASE Size(h, m_root) >= 2
  <2>. DEFINE z == 1
  <2>1. z \in 1 .. q /\ \A j \in z .. q - 1 : Size(h, p[j]) >= 2
    <3>1. \A j \in z .. q - 1 : j = 1 \/ j \in 2 .. q - 1
      BY <1>1
    <3>. QED
      BY <3>1, <1>1, <1>2, <1>3, <1>6
  <2>. HIDE DEF z
  <2>2. Shrunk(E, h, L, e, z, p[z], r[z])
    BY <2>1, ShrunkOnWay
  <2>. DEFINE t == r[1]
              g == t.heap
  <2>3. Shrunk(E, h, L, e, 1, m_root, t)
    BY <2>2, <1>2 DEF z
  <2>. HIDE DEF t
  <2>4. /\ g \in Seq(BTreeNode(E)) /\ t.status \in {"OK", "REMOVED"} /\ t.gone = <<e.data>>
        /\ Size(g, m_root) = Size(h, m_root) \/ Size(g, m_root) = Size(h, m_root) - 1
        /\ \E M \in Seq(SUBSET Nat) : ShrunkRows(E, h, L, e, 1, m_root, t, M)
    BY <2>3 DEF Shrunk
  <2>5. PICK M \in Seq(SUBSET Nat) : ShrunkRows(E, h, L, e, 1, m_root, t, M)
    BY <2>4
  <2>6. /\ M[1] = L[1] /\ KeyChanged(g, M, 1, m_root) /\ Records(g, M) = RecordsBut(h, L, e)
        /\ IF t.status = "REMOVED" THEN LoadsButLess(g, M, 1, m_root) ELSE LoadsInTree(g, M)
    BY <1>1, <2>5 DEF ShrunkRows, RowsAsBefore
  <2>7. TreeRight(g, M) /\ Rooted(M)
    BY <2>6, <1>2 DEF KeyChanged, Rooted
  <2>8. LoadsInTree(g, M)
    BY <2>6 DEF LoadsButLess, LoadsInTree
  <2>9. Size(g, m_root) <= MaxLoad
    BY <2>4, <1>4, <1>5
  <2>10. RootedTree(E, g, M) /\ Records(g, M) = RecordsBut(h, L, e)
    BY <2>4, <2>6, <2>7, <2>8 DEF RootedTree
  <2>. QED
    BY <2>4, <2>9, <2>10 DEF RemovedFrom, t
<1>7. CASE Size(h, m_root) = 1
  <2>1. q >= 2
    <3>1. q # 1
      BY <1>1, <1>7 DEF NotTheLast
    <3>. HIDE DEF q
    <3>. QED
      BY <3>1, <1>1
  <2>. DEFINE z == k + 1
              t == r[z]
              c == p[z]
              ik == i[k]
  <2>2. z = 2 /\ z \in 1 .. q /\ k \in 1 .. q - 1
    BY <2>1, <1>1
  <2>3. Shrunk(E, h, L, e, z, c, t)
    <3>1. \A j \in z .. q - 1 : Size(h, p[j]) >= 2
      BY <2>2, <1>3
    <3>. HIDE DEF z
    <3>. QED
      BY <3>1, <2>2, ShrunkOnWay
  <2>4. Names(E, h, L, k, m_root, ik, c)
    BY <2>2, <1>2, NamesOnWayOut
  <2>5. r[k] = RemovedBelow(t, m_root, ik, c)
    BY <2>2, <1>2 DEF RemovalAlong
  <2>6. k = 1 /\ RootedTree(E, h, L)
    BY <1>1
  <2>. HIDE DEF k, t, c, ik
  <2>. USE DEF z
  <2>7. RemovedFrom(E, h, L, e, RemovedBelow(t, m_root, ik, c))
    BY <2>3, <2>4, <2>6, <1>7, RemovalAtSingleRoot
  <2>. QED
    BY <2>5, <2>6, <2>7
<1>. QED
  BY <1>4, <1>6, <1>7

\* The tree without records: its root is a leaf without items.
Bare(E, h) ==
  /\ h \in Seq(BTreeNode(E)) /\ m_root \in DOMAIN h /\ h[m_root].leaf
  /\ Items(h, m_root) = <<>> /\ h[m_root].left = None /\ h[m_root].right = None

\* The rows of a tree whose root is a leaf.
OneRow == <<Alone(m_root)>>

\* addData in the tree without records makes a right tree of one.
THEOREM FirstAdditionMakesTree ==
  ASSUME NEW E, NEW h, Bare(E, h), NEW e \in Entry(E), NEW f,
         f = AddedInTree(AddToLeaf(h, m_root, e))
  PROVE  RootedTree(E, f, OneRow) /\ Records(f, OneRow) = {e} /\ Size(f, m_root) = 1
<1>. DEFINE v == Items(h, m_root)
            w == insertData(v, e)
            g == [h EXCEPT ![m_root].items = insertData(@, e)]
            N == BTreeNode(E)
<1>1. /\ h \in Seq(N) /\ m_root \in DOMAIN h /\ h[m_root] \in N /\ h[m_root].leaf /\ v = <<>>
      /\ h[m_root].left = None /\ h[m_root].right = None
  BY DEF Bare
<1>2. w \in Seq(Entry(E)) /\ InOrder(w) /\ Len(w) = 1 /\ ToSet(w) = {e}
  <2>1. v \in Seq(Entry(E)) /\ Len(v) = 0 /\ ToSet(v) = {} /\ InOrder(v)
    BY <1>1 DEF ToSet, InOrder
  <2>2. \A j \in 1 .. Len(v) : v[j].key # e.key
    BY <2>1
  <2>. HIDE DEF v
  <2>3. w \in Seq(Entry(E)) /\ InOrder(w)
    BY <2>1, <2>2, InsertedInOrder
  <2>4. Len(w) = Len(v) + 1 /\ ToSet(w) = ToSet(v) \cup {e}
    BY <2>1, <2>2, InsertedInOrder
  <2>. QED
    BY <2>1, <2>3, <2>4
<1>3. g = [h EXCEPT ![m_root] = [h[m_root] EXCEPT !.items = w]]
  BY DEF Items
<1>. HIDE DEF w, v, g
<1>4. [h[m_root] EXCEPT !.items = w] \in N
  BY <1>1, <1>2 DEF BTreeNode
<1>5. /\ g \in Seq(N) /\ m_root \in DOMAIN g /\ Items(g, m_root) = w /\ Size(g, m_root) = 1
      /\ g[m_root].leaf /\ g[m_root].left = None /\ g[m_root].right = None
  <2>. HIDE DEF N
  <2>1. g \in Seq(N) /\ m_root \in DOMAIN g /\ g[m_root] = [h[m_root] EXCEPT !.items = w]
    BY <1>1, <1>3, <1>4
  <2>2. /\ g[m_root].items = w /\ g[m_root].leaf = h[m_root].leaf
        /\ g[m_root].left = h[m_root].left /\ g[m_root].right = h[m_root].right
    BY <2>1, <1>1 DEF N, BTreeNode
  <2>. QED
    BY <2>1, <2>2, <1>1, <1>2 DEF Items, Size
<1>6. f = g
  <2>1. AddToLeaf(h, m_root, e).heap = g
    BY DEF AddToLeaf, Addition, g
  <2>2. ~(Size(g, m_root) > MaxLoad)
    BY <1>5, LoadAssumption
  <2>. QED
    BY <2>1, <2>2 DEF AddedInTree
<1>7. Row(g, Alone(m_root), {}) /\ Distinct(g, Alone(m_root))
  <2>1. RowNode(g, Alone(m_root), {}, m_root)
    <3>1. w # <<>>
      <4>. SUFFICES ASSUME w = <<>> PROVE FALSE
        OBVIOUS
      <4>. QED
        BY <1>2
    <3>. QED
      BY <3>1, <1>2, <1>5 DEF RowNode, KeysInOrder, NeighboursInOrder
  <2>. QED
    BY <2>1, <1>5 DEF Row, Distinct, Alone
<1>8. /\ OneRow \in Seq(SUBSET Nat) /\ Len(OneRow) = 1 /\ OneRow[1] = Alone(m_root) /\ OneRow # <<>>
  <2>1. Alone(m_root) \in SUBSET Nat
    BY DEF Alone, m_root
  <2>. QED
    BY <2>1 DEF OneRow
<1>9. RootedTree(E, g, OneRow)
  <2>1. \A k \in 1 .. Len(OneRow) : RowRight(g, OneRow, k)
    BY <1>7, <1>8 DEF RowRight
  <2>2. Apart(OneRow) /\ LoadsInTree(g, OneRow)
    BY <1>8 DEF Apart, LoadsInTree
  <2>. QED
    BY <2>1, <2>2, <1>5, <1>8 DEF RootedTree, TreeRight, Rooted, Alone
<1>10. Records(g, OneRow) = {e}
  <2>1. Records(g, OneRow) = Held(g, Alone(m_root))
    BY <1>8 DEF Records
  <2>2. Held(g, Alone(m_root)) = ToSet(w)
    BY <1>5 DEF Held, Alone
  <2>. QED
    BY <2>1, <2>2, <1>2
<1>. QED
  BY <1>5, <1>6, <1>9, <1>10

\* internalRemoveData of the only record of a tree leaves the tree without records, and hands
\* the record's data back.
THEOREM LastRemovalBaresTree ==
  ASSUME NEW E, NEW h, NEW L, RootedTree(E, h, L), Len(L) = 1, Size(h, m_root) = 1,
         NEW e \in Records(h, L), NEW k, NEW path, k = e.key /\ path = e.data.path
  PROVE  /\ RemoveFromLeaf(h, m_root, k, path).status = "REMOVED"
         /\ RemoveFromLeaf(h, m_root, k, path).gone = <<e.data>>
         /\ Records(h, L) = {e} /\ Bare(E, RemoveFromLeaf(h, m_root, k, path).heap)
<1>. DEFINE v == Items(h, m_root)
            r == RemoveFromLeaf(h, m_root, k, path)
            g == r.heap
            N == BTreeNode(E)
<1>1. h \in Seq(N) /\ L[1] = {m_root} /\ Row(h, {m_root}, {})
  <2>1. RowRight(h, L, 1) /\ L[1] = {m_root} /\ h \in Seq(N)
    BY DEF RootedTree, TreeRight, Rooted
  <2>. QED
    BY <2>1 DEF RowRight
<1>2. m_root \in DOMAIN h /\ KeysInOrder(h, m_root) /\ RowNode(h, {m_root}, {}, m_root)
  BY <1>1 DEF Row, RowNode
<1>3. h[m_root] \in N /\ v \in Seq(Entry(E)) /\ Len(v) = 1
  BY <1>1, <1>2, HeapNode DEF Size, Items
<1>4. h[m_root].left = None /\ h[m_root].right = None
  <2>. DEFINE n == m_root
  <2>1. Row(h, {n}, {}) /\ h \in Seq(BTreeNode(E))
    BY <1>1
  <2>. HIDE DEF n
  <2>2. h[n].left = None /\ h[n].right = None
    BY <2>1, RootAlone
  <2>. QED
    BY <2>2 DEF n
<1>5. Records(h, L) = {v[1]} /\ e = v[1]
  <2>1. Records(h, L) = Held(h, {m_root})
    BY <1>1 DEF Records
  <2>2. Held(h, {m_root}) = ToSet(v)
    BY DEF Held
  <2>3. ToSet(v) = {v[1]}
    BY <1>3 DEF ToSet
  <2>. QED
    BY <2>1, <2>2, <2>3
<1>6. h[m_root].leaf
  <2>. SUFFICES ASSUME ~h[m_root].leaf PROVE FALSE
    OBVIOUS
  <2>1. \A d \in ToSet(v) : d.data \in {}
    BY <1>2 DEF RowNode, Inner
  <2>2. v[1] \in ToSet(v)
    BY <1>3 DEF ToSet
  <2>. QED
    BY <2>1, <2>2
<1>7. k \in Nat /\ \E d \in ToSet(v) : d.key = k /\ d.data.path = path
  <2>1. v[1] \in ToSet(v)
    BY <1>3 DEF ToSet
  <2>2. v[1] \in Entry(E)
    <3>. DEFINE F == Entry(E)
    <3>1. v \in Seq(F) /\ 1 \in 1 .. Len(v)
      BY <1>3
    <3>. HIDE DEF F, v
    <3>. QED
      BY <3>1 DEF F
  <2>. QED
    BY <2>1, <2>2, <1>5 DEF Entry
<1>8. r.status = "REMOVED"
  BY <1>1, <1>2, <1>7, LeafFinds
<1>9. \E q \in 1 .. Len(v) :
        r = Result(Erased(h, m_root, q), "REMOVED", <<v[q].data>>)
  <2>. DEFINE n == m_root
  <2>1. /\ h \in Seq(BTreeNode(E)) /\ n \in DOMAIN h /\ KeysInOrder(h, n) /\ k \in Nat
        /\ RemoveFromLeaf(h, n, k, path).status = "REMOVED"
    BY <1>1, <1>2, <1>7, <1>8
  <2>. HIDE DEF n
  <2>2. \E q \in 1 .. Len(Items(h, n)) :
          /\ Items(h, n)[q].key = k /\ Items(h, n)[q].data.path = path
          /\ RemoveFromLeaf(h, n, k, path)
               = Result(Erased(h, n, q), "REMOVED", <<Items(h, n)[q].data>>)
    BY <2>1, RemovesOne
  <2>. QED
    BY <2>2 DEF n
<1>10. g = Erased(h, m_root, 1) /\ r.gone = <<e.data>>
  <2>1. \A q \in 1 .. Len(v) : q = 1
    BY <1>3
  <2>. HIDE DEF v, r
  <2>2. r = Result(Erased(h, m_root, 1), "REMOVED", <<v[1].data>>)
    BY <2>1, <1>9
  <2>. QED
    BY <2>2, <1>5 DEF Result
<1>. DEFINE w == <<>>
<1>11. RemoveAt(v, 1) = w /\ w \in Seq(Entry(E))
  BY <1>3 DEF RemoveAt
<1>12. g = [h EXCEPT ![m_root] = [h[m_root] EXCEPT !.items = w]]
  BY <1>10, <1>11 DEF Erased, Items
<1>. HIDE DEF v, r, g, w
<1>13. [h[m_root] EXCEPT !.items = w] \in N
  BY <1>3, <1>11 DEF BTreeNode
<1>14. Bare(E, g)
  <2>. HIDE DEF N
  <2>1. g \in Seq(N) /\ m_root \in DOMAIN g /\ g[m_root] = [h[m_root] EXCEPT !.items = w]
    BY <1>1, <1>2, <1>12, <1>13
  <2>2. /\ g[m_root].items = w /\ g[m_root].leaf = h[m_root].leaf
        /\ g[m_root].left = h[m_root].left /\ g[m_root].right = h[m_root].right
    BY <2>1, <1>3 DEF N, BTreeNode
  <2>. QED
    BY <2>1, <2>2, <1>4, <1>6 DEF Bare, Items, N, w
<1>. QED
  BY <1>5, <1>8, <1>10, <1>14 DEF r, g

=============================================================================
