----------------------------- MODULE BPTreeProofs ----------------------------
(***************************************************************************)
(* Theorems about BPTreeStorage as a whole: as long as it is not made anew *)
(* and no two paths have the same hash, every call keeps the tree right    *)
(* and does to the paths and values in it what IStorage promises.          *)
(* What is known of a step at one node, and of the tree when the steps on  *)
(* the way to a leaf and back are put together, is in BPLevelsProofs; here *)
(* the members that call themselves are followed along that way.           *)
(***************************************************************************)
EXTENDS BPTree, BPLevelsProofs

-----------------------------------------------------------------------------
(* The way down exists, and is no longer than the heap has nodes. *)

\* The item by which an addition, or a search, goes down.
Chosen(h, x, k, adds) == IF adds THEN ChildFor(Items(h, x), k) ELSE LowerBound(Items(h, x), k)

WayFor(h, L, p, i, k, adds) ==
  IF adds THEN WayToAdd(h, L, p, i, k) ELSE WayToFind(h, L, p, i, k)

\* From the root on there is always an item to go by.
LEMMA WayExists ==
  ASSUME NEW h, NEW L, Len(L) \in Nat \ {0}, Rooted(L), NEW k, NEW adds \in BOOLEAN
  PROVE  \E p, i : WayFor(h, L, p, i, k, adds)
<1>. DEFINE Below(x) == Child(h, x, Chosen(h, x, k, adds))
            Goes(n, p) == p = [j \in 1 .. n |-> IF j = 1 THEN m_root ELSE Below(p[j - 1])]
            T == {n \in Nat : ~ \E p : Goes(n, p)}
<1>. HIDE DEF Below
<1>0. T \in SUBSET Nat /\ \A n \in Nat : n \notin T => \E p : Goes(n, p)
  OBVIOUS
<1>9. \A n, p : Goes(n, p) => n \notin T
  OBVIOUS
<1>. HIDE DEF T
<1>1. T = {}
  <2>. SUFFICES ASSUME T # {} PROVE FALSE
    OBVIOUS
  <2>1. PICK m \in T : \A n \in T : m <= n
    BY <1>0, HasLeast
  <2>2. m # 0
    <3>. DEFINE q == [j \in 1 .. 0 |-> m_root]
    <3>1. Goes(0, q)
      OBVIOUS
    <3>. HIDE DEF q, Goes
    <3>2. 0 \notin T
      BY <3>1, <1>9
    <3>. QED
      BY <3>2, <2>1
  <2>3. m - 1 \in Nat /\ m - 1 \notin T /\ m \in Nat /\ m >= 1
    BY <1>0, <2>1, <2>2
  <2>4. PICK p : Goes(m - 1, p)
    <3>. HIDE DEF Goes
    <3>. QED
      BY <1>0, <2>3
  <2>. DEFINE q == [j \in 1 .. m |-> IF j = 1 THEN m_root ELSE Below(p[j - 1])]
  <2>5. \A j \in 1 .. m - 1 : p[j] = q[j]
    BY <2>3, <2>4
  <2>6. \A j \in 1 .. m : q[j] = IF j = 1 THEN m_root ELSE Below(q[j - 1])
    <3>. SUFFICES ASSUME NEW j \in 1 .. m, j # 1 PROVE q[j] = Below(q[j - 1])
      OBVIOUS
    <3>1. j - 1 \in 1 .. m - 1
      BY <2>3
    <3>2. q[j] = Below(p[j - 1])
      OBVIOUS
    <3>. HIDE DEF q
    <3>. QED
      BY <3>1, <3>2, <2>5
  <2>7. q = [j \in 1 .. m |-> IF j = 1 THEN m_root ELSE Below(q[j - 1])]
    BY <2>6
  <2>. HIDE DEF q
  <2>8. Goes(m, q)
    BY <2>7
  <2>. HIDE DEF Goes
  <2>. QED
    BY <2>8, <2>1, <1>9
<1>2. PICK p : Goes(Len(L), p)
  <2>. HIDE DEF Goes
  <2>. QED
    BY <1>0, <1>1
<1>. DEFINE i == [j \in 1 .. Len(L) |-> Chosen(h, p[j], k, adds)]
<1>3. p[1] = m_root
  BY <1>2
<1>4. \A j \in 1 .. Len(L) - 1 : p[j + 1] = Child(h, p[j], i[j]) /\ i[j] = Chosen(h, p[j], k, adds)
  <2>. SUFFICES ASSUME NEW j \in 1 .. Len(L) - 1
                PROVE  p[j + 1] = Child(h, p[j], i[j]) /\ i[j] = Chosen(h, p[j], k, adds)
    OBVIOUS
  <2>1. j + 1 \in 1 .. Len(L) /\ j + 1 # 1 /\ (j + 1) - 1 = j /\ j \in 1 .. Len(L)
    OBVIOUS
  <2>2. p[j + 1] = Below(p[j])
    BY <2>1, <1>2
  <2>3. i[j] = Chosen(h, p[j], k, adds)
    BY <2>1
  <2>. QED
    BY <2>2, <2>3 DEF Below
<1>. HIDE DEF i
<1>5. Way(h, L, p, i)
  BY <1>3, <1>4 DEF Way, Rooted
<1>6. WayFor(h, L, p, i, k, adds)
  BY <1>4, <1>5 DEF WayFor, WayToAdd, WayToFind, Chosen
<1>. QED
  BY <1>6

-----------------------------------------------------------------------------
(* The members that call themselves: what they give at one node, from what they give at the next. *)

\* The leaf found from node m with d levels to go, x[n] being the one found from its child n.
FoundBelow(h, k, d, m, x) ==
  LET i == LowerBound(Items(h, m), k)
  IN IF d = 0 \/ i > Size(h, m) THEN None ELSE IF h[m].leaf THEN m ELSE x[Items(h, m)[i].data]
FindSteps(h, k, f) ==
  \A d \in 0 .. Len(h) : \A m \in DOMAIN h : f[d][m] = FoundBelow(h, k, d, m, f[d - 1])

\* So does getChildWithKey find it.
LEMMA FindRecursion ==
  ASSUME NEW h, Len(h) \in Nat, NEW k
  PROVE  \E f : FindSteps(h, k, f) /\ \A n : getChildWithKey(h, n, k) = f[Len(h)][n]
<1>. DEFINE N == Len(h)
            Step(d, x) == [m \in DOMAIN h |-> FoundBelow(h, k, d, m, x)]
            Is(n, f) == f = [d \in 0 .. n |-> Step(d, f[d - 1])]
            T == {n \in Nat : ~ \E f : Is(n, f)}
            fun == CHOOSE f : Is(N, f)
<1>1. \A n : getChildWithKey(h, n, k) = fun[Len(h)][n]
  BY DEF getChildWithKey, FoundBelow
<1>2. \A x, y : Step(0, x) = Step(0, y)
  BY DEF FoundBelow
<1>3. \A f : (\A d \in 0 .. N : f[d] = Step(d, f[d - 1])) => FindSteps(h, k, f)
  BY DEF FindSteps
<1>. HIDE DEF Step
<1>4. T \in SUBSET Nat /\ \A n \in Nat : n \notin T => \E f : Is(n, f)
  OBVIOUS
<1>5. \A n, f : Is(n, f) => n \notin T
  OBVIOUS
<1>. HIDE DEF T
<1>6. T = {}
  <2>. SUFFICES ASSUME T # {} PROVE FALSE
    OBVIOUS
  <2>1. PICK m \in T : \A n \in T : m <= n
    BY <1>4, HasLeast
  <2>2. m \in Nat /\ (m # 0 => m - 1 \in Nat /\ m - 1 \notin T)
    BY <1>4, <2>1
  <2>3. \E p : m # 0 => Is(m - 1, p)
    <3>. HIDE DEF Is
    <3>. QED
      BY <1>4, <2>2
  <2>4. PICK p : m # 0 => Is(m - 1, p)
    BY <2>3
  <2>. DEFINE q == [d \in 0 .. m |-> Step(d, p[d - 1])]
  <2>5. ASSUME NEW d \in 0 .. m PROVE q[d] = Step(d, q[d - 1])
    <3>1. CASE d = 0
      BY <3>1, <1>2, <2>2
    <3>2. CASE d # 0
      <4>1. d - 1 \in 0 .. m - 1 /\ d - 1 \in 0 .. m /\ m # 0
        BY <3>2, <2>2
      <4>2. p[d - 1] = q[d - 1]
        BY <4>1, <2>4
      <4>. QED
        BY <4>2
    <3>. QED
      BY <3>1, <3>2
  <2>6. q = [d \in 0 .. m |-> Step(d, q[d - 1])]
    BY <2>5
  <2>. HIDE DEF q
  <2>7. Is(m, q)
    BY <2>6
  <2>. HIDE DEF Is
  <2>. QED
    BY <2>7, <2>1, <1>5
<1>7. Is(N, fun)
  <2>1. \E f : Is(N, f)
    <3>. HIDE DEF Is
    <3>. QED
      BY <1>4, <1>6
  <2>. HIDE DEF Is
  <2>. QED
    BY <2>1
<1>8. \A d \in 0 .. N : fun[d] = Step(d, fun[d - 1])
  <2>. HIDE DEF fun
  <2>. QED
    BY <1>7
<1>. HIDE DEF fun, Is, N
<1>. QED
  BY <1>1, <1>3, <1>8

\* The node the walk to the right stops at, from node m with d steps to go.
StopsAt(h, goesOn, d, m, x) == IF d = 0 \/ ~goesOn[m] THEN m ELSE x[h[m].right]
WalkSteps(h, goesOn, f) ==
  \A d \in 0 .. Len(h) : \A m \in DOMAIN h : f[d][m] = StopsAt(h, goesOn, d, m, f[d - 1])

\* So does WalkRight.
LEMMA WalkRecursion ==
  ASSUME NEW h, Len(h) \in Nat, NEW goesOn
  PROVE  \E f : WalkSteps(h, goesOn, f) /\ \A n : WalkRight(h, goesOn, n) = f[Len(h)][n]
<1>. DEFINE N == Len(h)
            Step(d, x) == [m \in DOMAIN h |-> StopsAt(h, goesOn, d, m, x)]
            Is(n, f) == f = [d \in 0 .. n |-> Step(d, f[d - 1])]
            T == {n \in Nat : ~ \E f : Is(n, f)}
            fun == CHOOSE f : Is(N, f)
<1>1. \A n : WalkRight(h, goesOn, n) = fun[Len(h)][n]
  BY DEF WalkRight, StopsAt
<1>2. \A x, y : Step(0, x) = Step(0, y)
  BY DEF StopsAt
<1>3. \A f : (\A d \in 0 .. N : f[d] = Step(d, f[d - 1])) => WalkSteps(h, goesOn, f)
  BY DEF WalkSteps
<1>. HIDE DEF Step
<1>4. T \in SUBSET Nat /\ \A n \in Nat : n \notin T => \E f : Is(n, f)
  OBVIOUS
<1>5. \A n, f : Is(n, f) => n \notin T
  OBVIOUS
<1>. HIDE DEF T
<1>6. T = {}
  <2>. SUFFICES ASSUME T # {} PROVE FALSE
    OBVIOUS
  <2>1. PICK m \in T : \A n \in T : m <= n
    BY <1>4, HasLeast
  <2>2. m \in Nat /\ (m # 0 => m - 1 \in Nat /\ m - 1 \notin T)
    BY <1>4, <2>1
  <2>3. \E p : m # 0 => Is(m - 1, p)
    <3>. HIDE DEF Is
    <3>. QED
      BY <1>4, <2>2
  <2>4. PICK p : m # 0 => Is(m - 1, p)
    BY <2>3
  <2>. DEFINE q == [d \in 0 .. m |-> Step(d, p[d - 1])]
  <2>5. ASSUME NEW d \in 0 .. m PROVE q[d] = Step(d, q[d - 1])
    <3>1. CASE d = 0
      BY <3>1, <1>2, <2>2
    <3>2. CASE d # 0
      <4>1. d - 1 \in 0 .. m - 1 /\ d - 1 \in 0 .. m /\ m # 0
        BY <3>2, <2>2
      <4>2. p[d - 1] = q[d - 1]
        BY <4>1, <2>4
      <4>. QED
        BY <4>2
    <3>. QED
      BY <3>1, <3>2
  <2>6. q = [d \in 0 .. m |-> Step(d, q[d - 1])]
    BY <2>5
  <2>. HIDE DEF q
  <2>7. Is(m, q)
    BY <2>6
  <2>. HIDE DEF Is
  <2>. QED
    BY <2>7, <2>1, <1>5
<1>7. Is(N, fun)
  <2>1. \E f : Is(N, f)
    <3>. HIDE DEF Is
    <3>. QED
      BY <1>4, <1>6
  <2>. HIDE DEF Is
  <2>. QED
    BY <2>1
<1>8. \A d \in 0 .. N : fun[d] = Step(d, fun[d - 1])
  <2>. HIDE DEF fun
  <2>. QED
    BY <1>7
<1>. HIDE DEF fun, Is, N
<1>. QED
  BY <1>1, <1>3, <1>8

\* What an addition gives at node m, x[n] being what it gives at its child n.
AddedAt(h, item, d, m, x) ==
  LET i == ChildFor(Items(h, m), item.key)
      child == Items(h, m)[i].data
  IN IF d = 0 \/ h[m].leaf THEN AddToLeaf(h, m, item) ELSE AddedBelow(x[child], m, i, child)
AddSteps(h, item, f) ==
  \A d \in 0 .. Len(h) : \A m \in DOMAIN h : f[d][m] = AddedAt(h, item, d, m, f[d - 1])

\* So does internalAddData.
LEMMA AddRecursion ==
  ASSUME NEW h, Len(h) \in Nat, NEW item
  PROVE  \E f : AddSteps(h, item, f) /\ \A n : internalAddData(h, n, item) = f[Len(h)][n]
<1>. DEFINE N == Len(h)
            Step(d, x) == [m \in DOMAIN h |-> AddedAt(h, item, d, m, x)]
            Is(n, f) == f = [d \in 0 .. n |-> Step(d, f[d - 1])]
            T == {n \in Nat : ~ \E f : Is(n, f)}
            fun == CHOOSE f : Is(N, f)
<1>1. \A n : internalAddData(h, n, item) = fun[Len(h)][n]
  BY DEF internalAddData, AddedAt
<1>2. \A x, y : Step(0, x) = Step(0, y)
  BY DEF AddedAt
<1>3. \A f : (\A d \in 0 .. N : f[d] = Step(d, f[d - 1])) => AddSteps(h, item, f)
  BY DEF AddSteps
<1>. HIDE DEF Step
<1>4. T \in SUBSET Nat /\ \A n \in Nat : n \notin T => \E f : Is(n, f)
  OBVIOUS
<1>5. \A n, f : Is(n, f) => n \notin T
  OBVIOUS
<1>. HIDE DEF T
<1>6. T = {}
  <2>. SUFFICES ASSUME T # {} PROVE FALSE
    OBVIOUS
  <2>1. PICK m \in T : \A n \in T : m <= n
    BY <1>4, HasLeast
  <2>2. m \in Nat /\ (m # 0 => m - 1 \in Nat /\ m - 1 \notin T)
    BY <1>4, <2>1
  <2>3. \E p : m # 0 => Is(m - 1, p)
    <3>. HIDE DEF Is
    <3>. QED
      BY <1>4, <2>2
  <2>4. PICK p : m # 0 => Is(m - 1, p)
    BY <2>3
  <2>. DEFINE q == [d \in 0 .. m |-> Step(d, p[d - 1])]
  <2>5. ASSUME NEW d \in 0 .. m PROVE q[d] = Step(d, q[d - 1])
    <3>1. CASE d = 0
      BY <3>1, <1>2, <2>2
    <3>2. CASE d # 0
      <4>1. d - 1 \in 0 .. m - 1 /\ d - 1 \in 0 .. m /\ m # 0
        BY <3>2, <2>2
      <4>2. p[d - 1] = q[d - 1]
        BY <4>1, <2>4
      <4>. QED
        BY <4>2
    <3>. QED
      BY <3>1, <3>2
  <2>6. q = [d \in 0 .. m |-> Step(d, q[d - 1])]
    BY <2>5
  <2>. HIDE DEF q
  <2>7. Is(m, q)
    BY <2>6
  <2>. HIDE DEF Is
  <2>. QED
    BY <2>7, <2>1, <1>5
<1>7. Is(N, fun)
  <2>1. \E f : Is(N, f)
    <3>. HIDE DEF Is
    <3>. QED
      BY <1>4, <1>6
  <2>. HIDE DEF Is
  <2>. QED
    BY <2>1
<1>8. \A d \in 0 .. N : fun[d] = Step(d, fun[d - 1])
  <2>. HIDE DEF fun
  <2>. QED
    BY <1>7
<1>. HIDE DEF fun, Is, N
<1>. QED
  BY <1>1, <1>3, <1>8

\* What a removal gives at node m, x[n] being what it gives at its child n.
RemovedAt(h, k, p, d, m, x) ==
  LET i == LowerBound(Items(h, m), k)
      s == SearchSiblings(h, x, Items(h, m)[i].data, k)
  IN IF d = 0 \/ h[m].leaf THEN RemoveFromLeaf(h, m, k, p)
     ELSE IF i > Size(h, m) THEN Result(h, "NoSuchPath", Nothing)
     ELSE RemovedBelow(s.result, m, i, s.child)
RemoveSteps(h, k, p, f) ==
  \A d \in 0 .. Len(h) : \A m \in DOMAIN h : f[d][m] = RemovedAt(h, k, p, d, m, f[d - 1])

\* So does internalRemoveData.
LEMMA RemoveRecursion ==
  ASSUME NEW h, Len(h) \in Nat, NEW k, NEW p
  PROVE  \E f : RemoveSteps(h, k, p, f) /\ \A n : internalRemoveData(h, n, k, p) = f[Len(h)][n]
<1>. DEFINE N == Len(h)
            Step(d, x) == [m \in DOMAIN h |-> RemovedAt(h, k, p, d, m, x)]
            Is(n, f) == f = [d \in 0 .. n |-> Step(d, f[d - 1])]
            T == {n \in Nat : ~ \E f : Is(n, f)}
            fun == CHOOSE f : Is(N, f)
<1>1. \A n : internalRemoveData(h, n, k, p) = fun[Len(h)][n]
  BY DEF internalRemoveData, RemovedAt
<1>2. \A x, y : Step(0, x) = Step(0, y)
  BY DEF RemovedAt
<1>3. \A f : (\A d \in 0 .. N : f[d] = Step(d, f[d - 1])) => RemoveSteps(h, k, p, f)
  BY DEF RemoveSteps
<1>. HIDE DEF Step
<1>4. T \in SUBSET Nat /\ \A n \in Nat : n \notin T => \E f : Is(n, f)
  OBVIOUS
<1>5. \A n, f : Is(n, f) => n \notin T
  OBVIOUS
<1>. HIDE DEF T
<1>6. T = {}
  <2>. SUFFICES ASSUME T # {} PROVE FALSE
    OBVIOUS
  <2>1. PICK m \in T : \A n \in T : m <= n
    BY <1>4, HasLeast
  <2>2. m \in Nat /\ (m # 0 => m - 1 \in Nat /\ m - 1 \notin T)
    BY <1>4, <2>1
  <2>3. \E g : m # 0 => Is(m - 1, g)
    <3>. HIDE DEF Is
    <3>. QED
      BY <1>4, <2>2
  <2>4. PICK g : m # 0 => Is(m - 1, g)
    BY <2>3
  <2>. DEFINE q == [d \in 0 .. m |-> Step(d, g[d - 1])]
  <2>5. ASSUME NEW d \in 0 .. m PROVE q[d] = Step(d, q[d - 1])
    <3>1. CASE d = 0
      BY <3>1, <1>2, <2>2
    <3>2. CASE d # 0
      <4>1. d - 1 \in 0 .. m - 1 /\ d - 1 \in 0 .. m /\ m # 0
        BY <3>2, <2>2
      <4>2. g[d - 1] = q[d - 1]
        BY <4>1, <2>4
      <4>. QED
        BY <4>2
    <3>. QED
      BY <3>1, <3>2
  <2>6. q = [d \in 0 .. m |-> Step(d, q[d - 1])]
    BY <2>5
  <2>. HIDE DEF q
  <2>7. Is(m, q)
    BY <2>6
  <2>. HIDE DEF Is
  <2>. QED
    BY <2>7, <2>1, <1>5
<1>7. Is(N, fun)
  <2>1. \E f : Is(N, f)
    <3>. HIDE DEF Is
    <3>. QED
      BY <1>4, <1>6
  <2>. HIDE DEF Is
  <2>. QED
    BY <2>1
<1>8. \A d \in 0 .. N : fun[d] = Step(d, fun[d - 1])
  <2>. HIDE DEF fun
  <2>. QED
    BY <1>7
<1>. HIDE DEF fun, Is, N
<1>. QED
  BY <1>1, <1>3, <1>8

\* Row j of the tree, x being the row above it.
NextRow(h, j, x) == IF j = 1 THEN {m_root} ELSE UNION {ToSet(Children(h[n])) : n \in x}
RowSteps(h, f) == \A j \in 1 .. Len(h) : f[j] = NextRow(h, j, f[j - 1])
RowsOf(h, f) == [j \in 1 .. Cardinality({i \in 1 .. Len(h) : f[i] # {}}) |-> f[j]]

\* So come the rows one under another.
LEMMA RowRecursion ==
  ASSUME NEW h, Len(h) \in Nat
  PROVE  \E f : RowSteps(h, f) /\ Rows(h) = RowsOf(h, f)
<1>. DEFINE N == Len(h)
            Step(d, x) == NextRow(h, d, x)
            Is(n, f) == f = [d \in 1 .. n |-> Step(d, f[d - 1])]
            T == {n \in Nat : ~ \E f : Is(n, f)}
            fun == CHOOSE f : Is(N, f)
<1>1. Rows(h) = RowsOf(h, fun)
  BY DEF Rows, RowsOf, NextRow
<1>2. \A x, y : Step(1, x) = Step(1, y)
  BY DEF NextRow
<1>3. \A f : (\A d \in 1 .. N : f[d] = Step(d, f[d - 1])) => RowSteps(h, f)
  BY DEF RowSteps
<1>. HIDE DEF Step
<1>4. T \in SUBSET Nat /\ \A n \in Nat : n \notin T => \E f : Is(n, f)
  OBVIOUS
<1>5. \A n, f : Is(n, f) => n \notin T
  OBVIOUS
<1>. HIDE DEF T
<1>6. T = {}
  <2>. SUFFICES ASSUME T # {} PROVE FALSE
    OBVIOUS
  <2>1. PICK m \in T : \A n \in T : m <= n
    BY <1>4, HasLeast
  <2>2. m \in Nat /\ (m # 0 => m - 1 \in Nat /\ m - 1 \notin T)
    BY <1>4, <2>1
  <2>3. \E p : m # 0 => Is(m - 1, p)
    <3>. HIDE DEF Is
    <3>. QED
      BY <1>4, <2>2
  <2>4. PICK p : m # 0 => Is(m - 1, p)
    BY <2>3
  <2>. DEFINE q == [d \in 1 .. m |-> Step(d, p[d - 1])]
  <2>5. ASSUME NEW d \in 1 .. m PROVE q[d] = Step(d, q[d - 1])
    <3>1. CASE d = 1
      BY <3>1, <1>2, <2>2
    <3>2. CASE d # 1
      <4>1. d - 1 \in 1 .. m - 1 /\ d - 1 \in 1 .. m /\ m # 0
        BY <3>2, <2>2
      <4>2. p[d - 1] = q[d - 1]
        BY <4>1, <2>4
      <4>. QED
        BY <4>2
    <3>. QED
      BY <3>1, <3>2
  <2>6. q = [d \in 1 .. m |-> Step(d, q[d - 1])]
    BY <2>5
  <2>. HIDE DEF q
  <2>7. Is(m, q)
    BY <2>6
  <2>. HIDE DEF Is
  <2>. QED
    BY <2>7, <2>1, <1>5
<1>7. Is(N, fun)
  <2>1. \E f : Is(N, f)
    <3>. HIDE DEF Is
    <3>. QED
      BY <1>4, <1>6
  <2>. HIDE DEF Is
  <2>. QED
    BY <2>1
<1>8. \A d \in 1 .. N : fun[d] = Step(d, fun[d - 1])
  <2>. HIDE DEF fun
  <2>. QED
    BY <1>7
<1>. HIDE DEF fun, Is, N
<1>. QED
  BY <1>1, <1>3, <1>8

\* What is done after j steps, x being what is done before the last of them.
Begun(h, d) == [todo |-> <<Begin(m_root)>>, offs |-> [n \in DOMAIN h |-> h[n].off], disk |-> d]
DoneAfter(h, d, j, x) == IF j = 0 THEN {Begun(h, d)} ELSE {StoreStep(h, s) : s \in x}
StoreSteps(h, d, f) == \A j \in 0 .. 2 * Len(h) : f[j] = DoneAfter(h, d, j, f[j - 1])
Stored(h, s) == [heap |-> [n \in DOMAIN h |-> [h[n] EXCEPT !.off = s.offs[n]]], disk |-> s.disk]

\* So is the tree stored.
LEMMA StoreRecursion ==
  ASSUME NEW h, Len(h) \in Nat, NEW dsk
  PROVE  \E f : StoreSteps(h, dsk, f) /\ storeSubtree(h, dsk) = {Stored(h, s) : s \in f[2 * Len(h)]}
<1>. DEFINE N == 2 * Len(h)
            Step(d, x) == DoneAfter(h, dsk, d, x)
            Is(n, f) == f = [d \in 0 .. n |-> Step(d, f[d - 1])]
            T == {n \in Nat : ~ \E f : Is(n, f)}
            fun == CHOOSE f : Is(N, f)
<1>1. storeSubtree(h, dsk) = {Stored(h, s) : s \in fun[2 * Len(h)]}
  BY DEF storeSubtree, Stored, DoneAfter, Begun
<1>2. \A x, y : Step(0, x) = Step(0, y)
  BY DEF DoneAfter
<1>3. \A f : (\A d \in 0 .. N : f[d] = Step(d, f[d - 1])) => StoreSteps(h, dsk, f)
  BY DEF StoreSteps
<1>. HIDE DEF Step
<1>4. T \in SUBSET Nat /\ \A n \in Nat : n \notin T => \E f : Is(n, f)
  OBVIOUS
<1>5. \A n, f : Is(n, f) => n \notin T
  OBVIOUS
<1>. HIDE DEF T
<1>6. T = {}
  <2>. SUFFICES ASSUME T # {} PROVE FALSE
    OBVIOUS
  <2>1. PICK m \in T : \A n \in T : m <= n
    BY <1>4, HasLeast
  <2>2. m \in Nat /\ (m # 0 => m - 1 \in Nat /\ m - 1 \notin T)
    BY <1>4, <2>1
  <2>3. \E p : m # 0 => Is(m - 1, p)
    <3>. HIDE DEF Is
    <3>. QED
      BY <1>4, <2>2
  <2>4. PICK p : m # 0 => Is(m - 1, p)
    BY <2>3
  <2>. DEFINE q == [d \in 0 .. m |-> Step(d, p[d - 1])]
  <2>5. ASSUME NEW d \in 0 .. m PROVE q[d] = Step(d, q[d - 1])
    <3>1. CASE d = 0
      BY <3>1, <1>2, <2>2
    <3>2. CASE d # 0
      <4>1. d - 1 \in 0 .. m - 1 /\ d - 1 \in 0 .. m /\ m # 0
        BY <3>2, <2>2
      <4>2. p[d - 1] = q[d - 1]
        BY <4>1, <2>4
      <4>. QED
        BY <4>2
    <3>. QED
      BY <3>1, <3>2
  <2>6. q = [d \in 0 .. m |-> Step(d, q[d - 1])]
    BY <2>5
  <2>. HIDE DEF q
  <2>7. Is(m, q)
    BY <2>6
  <2>. HIDE DEF Is
  <2>. QED
    BY <2>7, <2>1, <1>5
<1>7. Is(N, fun)
  <2>1. \E f : Is(N, f)
    <3>. HIDE DEF Is
    <3>. QED
      BY <1>4, <1>6
  <2>. HIDE DEF Is
  <2>. QED
    BY <2>1
<1>8. \A d \in 0 .. N : fun[d] = Step(d, fun[d - 1])
  <2>. HIDE DEF fun
  <2>. QED
    BY <1>7
<1>. HIDE DEF fun, Is, N
<1>. QED
  BY <1>1, <1>3, <1>8

-----------------------------------------------------------------------------
(* A tree and the ways down in it. *)

\* The last row is one of leaves, the others are not.
LEMMA KindsOfRows ==
  ASSUME NEW E, NEW h, NEW L, RootedTree(E, h, L), NEW j \in 1 .. Len(L), NEW x \in L[j]
  PROVE  /\ x \in DOMAIN h /\ Items(h, x) # <<>> /\ Items(h, x) \in Seq(Entry(E))
         /\ InOrder(Items(h, x)) /\ (h[x].leaf <=> j = Len(L))
<1>. DEFINE S == L[j]
            D == Beneath(L, j)
<1>1. h \in Seq(BTreeNode(E)) /\ L \in Seq(SUBSET Nat) /\ RowRight(h, L, j)
  BY DEF RootedTree, TreeRight
<1>2. Row(h, S, D) /\ x \in S
  BY <1>1, RightRow
<1>3. j < Len(L) => ~h[x].leaf
  BY <1>1 DEF RowRight, InnerRow
<1>4. ~(j < Len(L)) => D = {} /\ j = Len(L)
  BY <1>1 DEF Beneath
<1>. HIDE DEF S, D
<1>5. /\ x \in DOMAIN h /\ Items(h, x) # <<>> /\ Items(h, x) \in Seq(Entry(E))
      /\ Head(Items(h, x)) \in ToSet(Items(h, x)) /\ InOrder(Items(h, x))
  BY <1>1, <1>2, NodeKeys, RowEnds
<1>6. D = {} => h[x].leaf
  <2>1. ~h[x].leaf => \A e \in ToSet(Items(h, x)) : e.data \in D
    BY <1>2 DEF Row, RowNode, Inner
  <2>. QED
    BY <2>1, <1>5
<1>7. j \in Nat /\ Len(L) \in Nat
  BY <1>1
<1>. QED
  BY <1>3, <1>4, <1>5, <1>6, <1>7

\* What a way down meets.
LEMMA OnTheWay ==
  ASSUME NEW E, NEW h, NEW L, RootedTree(E, h, L), NEW k \in Nat, NEW adds \in BOOLEAN,
         NEW p, NEW i, WayFor(h, L, p, i, k, adds), adds \/ k <= MaxKey(h, m_root)
  PROVE  /\ p[1] = m_root
         /\ \A j \in 1 .. Len(L) : p[j] \in L[j] /\ p[j] \in DOMAIN h
         /\ \A j \in 1 .. Len(L) : k <= MaxKey(h, m_root) => k <= MaxKey(h, p[j])
         /\ \A j \in 1 .. Len(L) - 1 :
              /\ ~h[p[j]].leaf /\ i[j] \in 1 .. Size(h, p[j])
              /\ i[j] = Chosen(h, p[j], k, adds) /\ p[j + 1] = Items(h, p[j])[i[j]].data
         /\ h[p[Len(L)]].leaf
<1>. DEFINE root == m_root
<1>1. /\ h \in Seq(BTreeNode(E)) /\ L \in Seq(SUBSET Nat) /\ TreeRight(h, L) /\ L[1] = {root}
      /\ Len(L) \in Nat /\ Len(L) >= 1
  BY DEF RootedTree, Rooted, TreeRight
<1>2. /\ WayToAdd(h, L, p, i, k) \/ (WayToFind(h, L, p, i, k) /\ k <= MaxKey(h, root))
      /\ Way(h, L, p, i)
  BY DEF WayFor, WayToAdd, WayToFind
<1>3. \A j \in 1 .. Len(L) - 1 : i[j] = Chosen(h, p[j], k, adds)
  BY DEF WayFor, WayToAdd, WayToFind, Chosen
<1>. HIDE DEF root
<1>4. \A j \in 1 .. Len(L) : p[j] \in L[j] /\ Routed(h, p[j], k)
  BY <1>1, <1>2, WayIsRouted
<1>5. \A j \in 1 .. Len(L) : k <= MaxKey(h, root) => k <= MaxKey(h, p[j])
  BY <1>1, <1>2, WayIsRouted
<1>6. \A j \in 1 .. Len(L) - 1 : i[j] \in 1 .. Len(Items(h, p[j]))
  BY <1>1, <1>2, WayIsRouted
<1>7. ASSUME NEW j \in 1 .. Len(L)
      PROVE  p[j] \in DOMAIN h /\ (h[p[j]].leaf <=> j = Len(L))
  <2>1. p[j] \in L[j]
    BY <1>4
  <2>. QED
    BY <2>1, KindsOfRows
<1>8. p[1] = root
  BY <1>1, <1>2 DEF Way
<1>9. \A j \in 1 .. Len(L) - 1 : p[j + 1] = Items(h, p[j])[i[j]].data
  BY <1>2 DEF Way, Child
<1>10. \A j \in 1 .. Len(L) - 1 : ~h[p[j]].leaf
  BY <1>1, <1>7
<1>11. h[p[Len(L)]].leaf
  BY <1>1, <1>7
<1>. QED
  BY <1>3, <1>4, <1>5, <1>6, <1>7, <1>8, <1>9, <1>10, <1>11 DEF root, Size, Items

\* The first n numbers.
LEMMA UpTo ==
  ASSUME NEW n \in Nat
  PROVE  IsFiniteSet(1 .. n) /\ Cardinality(1 .. n) = n
<1>1. 1 \in Int /\ n \in Int
  OBVIOUS
<1>2. IsFiniteSet(1 .. n) /\ Cardinality(1 .. n) = IF 1 > n THEN 0 ELSE n - 1 + 1
  BY <1>1, FS_Interval, Zenon
<1>. QED
  BY <1>2

\* A tree has no more rows than its heap has nodes.
LEMMA RowsFit ==
  ASSUME NEW E, NEW h, NEW L, RootedTree(E, h, L)
  PROVE  Len(L) \in Nat /\ Len(h) \in Nat /\ 1 <= Len(L) /\ Len(L) <= Len(h) /\ m_root \in DOMAIN h
<1>1. h \in Seq(BTreeNode(E)) /\ Len(h) \in Nat /\ Len(L) \in Nat \ {0} /\ Rooted(L) /\ Apart(L)
  BY DEF RootedTree, TreeRight
<1>2. PICK p, i : WayFor(h, L, p, i, 0, TRUE)
  BY <1>1, WayExists
<1>3. p[1] = m_root /\ \A j \in 1 .. Len(L) : p[j] \in L[j] /\ p[j] \in DOMAIN h
  BY <1>2, OnTheWay
<1>. SUFFICES ASSUME Len(h) < Len(L) PROVE FALSE
  BY <1>1, <1>3
<1>. DEFINE f == [j \in 1 .. Len(L) |-> p[j]]
<1>4. f \in [1 .. Len(L) -> 1 .. Len(h)]
  BY <1>1, <1>3
<1>5. /\ IsFiniteSet(1 .. Len(L)) /\ Cardinality(1 .. Len(L)) = Len(L)
      /\ IsFiniteSet(1 .. Len(h)) /\ Cardinality(1 .. Len(h)) = Len(h)
  BY <1>1, UpTo
<1>. HIDE DEF f
<1>6. PICK j, l \in 1 .. Len(L) : j # l /\ f[j] = f[l]
  <2>1. Cardinality(1 .. Len(h)) < Cardinality(1 .. Len(L))
    BY <1>5
  <2>. QED
    BY <2>1, <1>4, <1>5, FS_PigeonHole, Zenon
<1>7. p[j] \in L[j] \cap L[l]
  BY <1>3, <1>6 DEF f
<1>. QED
  BY <1>1, <1>6, <1>7 DEF Apart

\* Nothing is in the empty sequence.
LEMMA NoneInEmpty == ToSet(<<>>) = {}
BY DEF ToSet

\* No row is empty.
LEMMA RowsFilled ==
  ASSUME NEW E, NEW h, NEW L, RootedTree(E, h, L), NEW j \in 1 .. Len(L)
  PROVE  L[j] # {}
<1>1. Len(L) \in Nat \ {0} /\ Rooted(L)
  BY DEF RootedTree, TreeRight
<1>2. PICK p, i : WayFor(h, L, p, i, 0, TRUE)
  BY <1>1, WayExists
<1>3. p[j] \in L[j]
  BY <1>2, OnTheWay
<1>. QED
  BY <1>3

\* The children of a row are the next.
LEMMA ChildrenOfRow ==
  ASSUME NEW E, NEW h \in Seq(BTreeNode(E)), NEW P, NEW S, InnerRow(h, P, S)
  PROVE  UNION {ToSet(Children(h[n])) : n \in P} = S
<1>1. Row(h, P, S) /\ Parented(h, P, S) /\ \A x \in P : ~h[x].leaf
  BY DEF InnerRow
<1>2. \A x \in P : Items(h, x) \in Seq(Entry(E)) /\ Inner(h, Items(h, x), S)
  BY <1>1, NodeKeys DEF Row, RowNode
<1>3. ASSUME NEW x \in P
      PROVE  ToSet(Children(h[x])) = {Child(h, x, q) : q \in 1 .. Len(Items(h, x))}
  <2>1. Children(h[x]) = [q \in 1 .. Len(Items(h, x)) |-> Child(h, x, q)]
    BY <1>1 DEF Children, Child, Items
  <2>2. Len(Items(h, x)) \in Nat
    BY <1>2
  <2>. HIDE DEF Child
  <2>. QED
    BY <2>1, <2>2 DEF ToSet
<1>4. ASSUME NEW x \in P, NEW q \in 1 .. Len(Items(h, x))
      PROVE  Child(h, x, q) \in S
  BY <1>2 DEF Inner, Child, ToSet
<1>5. ASSUME NEW x \in P
      PROVE  ToSet(Children(h[x])) \subseteq S
  <2>1. ToSet(Children(h[x])) = {Child(h, x, q) : q \in 1 .. Len(Items(h, x))}
    BY <1>3
  <2>2. \A q \in 1 .. Len(Items(h, x)) : Child(h, x, q) \in S
    BY <1>4
  <2>. QED
    BY <2>1, <2>2, Zenon
<1>6. ASSUME NEW y \in S
      PROVE  \E x \in P : y \in ToSet(Children(h[x]))
  <2>1. PICK x \in P : \E q \in 1 .. Len(Items(h, x)) : Child(h, x, q) = y
    BY <1>1 DEF Parented
  <2>. QED
    BY <2>1, <1>3
<1>. DEFINE C(x) == ToSet(Children(h[x]))
<1>. SUFFICES UNION {C(n) : n \in P} = S
  OBVIOUS
<1>7. (\A x \in P : C(x) \subseteq S) /\ \A y \in S : \E x \in P : y \in C(x)
  BY <1>5, <1>6
<1>. HIDE DEF C
<1>. QED
  BY <1>7

\* The rows that are read off the heap are those of the tree.
LEMMA TreeRows ==
  ASSUME NEW E, NEW h, NEW L, RootedTree(E, h, L)
  PROVE  Rows(h) = L
<1>1. /\ h \in Seq(BTreeNode(E)) /\ L \in Seq(SUBSET Nat) /\ TreeRight(h, L) /\ L[1] = {m_root}
      /\ Len(h) \in Nat /\ Len(L) \in Nat /\ Len(L) >= 1 /\ Len(L) <= Len(h)
  BY RowsFit DEF RootedTree, Rooted
<1>2. PICK f : RowSteps(h, f) /\ Rows(h) = RowsOf(h, f)
  BY <1>1, RowRecursion
<1>. DEFINE RowAt(j) == IF j <= Len(L) THEN L[j] ELSE {}
            T == {j \in 1 .. Len(h) : f[j] # RowAt(j)}
<1>3. \A j \in 1 .. Len(L) - 1 : UNION {ToSet(Children(h[n])) : n \in L[j]} = L[j + 1]
  <2>. SUFFICES ASSUME NEW j \in 1 .. Len(L) - 1
                PROVE  UNION {ToSet(Children(h[n])) : n \in L[j]} = L[j + 1]
    OBVIOUS
  <2>1. j \in 1 .. Len(L) /\ j < Len(L)
    BY <1>1
  <2>2. InnerRow(h, L[j], L[j + 1])
    BY <1>1, <2>1 DEF TreeRight, RowRight
  <2>. QED
    BY <1>1, <2>2, ChildrenOfRow
<1>4. UNION {ToSet(Children(h[n])) : n \in L[Len(L)]} = {}
  <2>1. \A n \in L[Len(L)] : h[n].leaf
    BY <1>1, KindsOfRows
  <2>2. \A n \in L[Len(L)] : ToSet(Children(h[n])) = {}
    BY <2>1, NoneInEmpty DEF Children
  <2>. QED
    BY <2>2
<1>5. \A j \in 1 .. Len(h) : f[j] = NextRow(h, j, f[j - 1])
  BY <1>2 DEF RowSteps
<1>6. T = {}
  <2>. SUFFICES ASSUME T # {} PROVE FALSE
    OBVIOUS
  <2>1. PICK m \in T : \A n \in T : m <= n
    <3>1. T \in SUBSET Nat
      BY <1>1
    <3>. HIDE DEF T
    <3>. QED
      BY <3>1, HasLeast
  <2>2. m \in 1 .. Len(h) /\ f[m] # RowAt(m) /\ f[m] = NextRow(h, m, f[m - 1])
    BY <1>5
  <2>3. m # 1
    BY <2>2, <1>1 DEF NextRow
  <2>4. m - 1 \in 1 .. Len(h) /\ m - 1 \notin T
    BY <1>1, <2>1, <2>2, <2>3
  <2>5. f[m - 1] = RowAt(m - 1)
    BY <2>4
  <2>6. f[m] = UNION {ToSet(Children(h[n])) : n \in RowAt(m - 1)}
    BY <2>2, <2>3, <2>5 DEF NextRow
  <2>7. CASE m - 1 < Len(L)
    <3>1. m - 1 \in 1 .. Len(L) - 1 /\ (m - 1) + 1 = m /\ RowAt(m) = L[m] /\ RowAt(m - 1) = L[m - 1]
      BY <1>1, <2>2, <2>4, <2>7
    <3>2. UNION {ToSet(Children(h[n])) : n \in L[m - 1]} = L[m]
      BY <3>1, <1>3
    <3>. QED
      BY <2>2, <2>6, <3>1, <3>2
  <2>8. CASE m - 1 = Len(L)
    <3>1. RowAt(m) = {} /\ RowAt(m - 1) = L[Len(L)]
      BY <1>1, <2>2, <2>8
    <3>. QED
      BY <2>2, <2>6, <3>1, <1>4
  <2>9. CASE m - 1 > Len(L)
    <3>1. RowAt(m) = {} /\ RowAt(m - 1) = {}
      BY <1>1, <2>2, <2>9
    <3>. QED
      BY <2>2, <2>6, <3>1
  <2>. QED
    BY <1>1, <2>2, <2>7, <2>8, <2>9
<1>7. \A j \in 1 .. Len(h) : f[j] = IF j <= Len(L) THEN L[j] ELSE {}
  BY <1>6
<1>. HIDE DEF T, Row
<1>8. {j \in 1 .. Len(h) : f[j] # {}} = 1 .. Len(L)
  <2>1. \A j \in 1 .. Len(L) : L[j] # {}
    BY RowsFilled
  <2>. QED
    BY <1>1, <1>7, <2>1
<1>9. Rows(h) = [j \in 1 .. Len(L) |-> f[j]]
  BY <1>1, <1>2, <1>8, UpTo DEF RowsOf
<1>. QED
  BY <1>1, <1>7, <1>9

\* The tree without records has one row.
LEMMA BareRows ==
  ASSUME NEW E, NEW h, Bare(E, h)
  PROVE  Rows(h) = OneRow /\ Len(h) \in Nat /\ Len(h) >= 1
<1>1. h \in Seq(BTreeNode(E)) /\ m_root \in DOMAIN h /\ h[m_root].leaf /\ Len(h) \in Nat /\ Len(h) >= 1
  BY DEF Bare, m_root
<1>2. PICK f : RowSteps(h, f) /\ Rows(h) = RowsOf(h, f)
  BY <1>1, RowRecursion
<1>. DEFINE T == {j \in 2 .. Len(h) : f[j] # {}}
<1>3. \A j \in 1 .. Len(h) : f[j] = NextRow(h, j, f[j - 1])
  BY <1>2 DEF RowSteps
<1>4. f[1] = {m_root}
  <2>1. \A x : NextRow(h, 1, x) = {m_root}
    BY DEF NextRow
  <2>2. 1 \in 1 .. Len(h)
    BY <1>1
  <2>. HIDE DEF m_root
  <2>. QED
    BY <1>3, <2>1, <2>2
<1>5. T = {}
  <2>. SUFFICES ASSUME T # {} PROVE FALSE
    OBVIOUS
  <2>1. PICK m \in T : \A n \in T : m <= n
    <3>1. T \in SUBSET Nat
      BY <1>1
    <3>. HIDE DEF T
    <3>. QED
      BY <3>1, HasLeast
  <2>2. m \in 2 .. Len(h) /\ f[m] # {} /\ f[m] = UNION {ToSet(Children(h[n])) : n \in f[m - 1]}
    <3>1. m \in 1 .. Len(h) /\ m # 1 /\ m \in 2 .. Len(h) /\ f[m] # {}
      BY <1>1
    <3>2. f[m] = NextRow(h, m, f[m - 1])
      BY <1>3, <3>1
    <3>. QED
      BY <3>1, <3>2 DEF NextRow
  <2>3. f[m - 1] = {} \/ f[m - 1] = {m_root}
    BY <1>1, <1>4, <2>1, <2>2
  <2>4. ToSet(Children(h[m_root])) = {}
    BY <1>1, NoneInEmpty DEF Children
  <2>. QED
    BY <2>2, <2>3, <2>4
<1>6. {j \in 1 .. Len(h) : f[j] # {}} = 1 .. 1
  BY <1>1, <1>4, <1>5
<1>7. Rows(h) = [j \in 1 .. 1 |-> f[j]]
  BY <1>2, <1>6, UpTo DEF RowsOf
<1>8. OneRow = [j \in 1 .. 1 |-> f[j]]
  BY <1>4 DEF OneRow, Alone
<1>. QED
  BY <1>1, <1>7, <1>8

-----------------------------------------------------------------------------
(* The members that call themselves go down such a way, and come back along it. *)

\* How deep the call in row j may go on.
Depth(h, j) == Len(h) + 1 - j
LEMMA Depths ==
  ASSUME NEW E, NEW h, NEW L, RootedTree(E, h, L), NEW j \in 1 .. Len(L)
  PROVE  /\ Depth(h, j) \in 0 .. Len(h) /\ Depth(h, j) # 0
         /\ Depth(h, 1) = Len(h) /\ Depth(h, j + 1) = Depth(h, j) - 1
<1>1. Len(L) \in Nat /\ Len(h) \in Nat /\ Len(L) <= Len(h)
  BY RowsFit
<1>. QED
  BY <1>1 DEF Depth

\* The results of the calls along the way.
AlongWay(h, L, p, f) == [j \in 1 .. Len(L) |-> f[Depth(h, j)][p[j]]]

\* internalAddData of an item whose key has a way.
LEMMA AddFollowsWay ==
  ASSUME NEW E, NEW h, NEW L, RootedTree(E, h, L), NEW e \in Entry(E)
  PROVE  \E p, i, r : AdditionAlong(h, L, p, i, e, r) /\ internalAddData(h, m_root, e) = r[1]
<1>1. /\ Len(L) \in Nat \ {0} /\ Rooted(L) /\ Len(h) \in Nat /\ e.key \in Nat /\ TRUE \in BOOLEAN
      /\ 1 \in 1 .. Len(L) /\ Len(L) \in 1 .. Len(L)
  BY RowsFit DEF RootedTree, Entry
<1>2. PICK f : AddSteps(h, e, f) /\ \A n : internalAddData(h, n, e) = f[Len(h)][n]
  BY <1>1, AddRecursion
<1>3. PICK p, i : WayFor(h, L, p, i, e.key, TRUE)
  BY <1>1, WayExists
<1>. DEFINE k == e.key
            r == AlongWay(h, L, p, f)
<1>4. /\ p[1] = m_root /\ \A j \in 1 .. Len(L) : p[j] \in DOMAIN h
      /\ \A j \in 1 .. Len(L) - 1 :
           /\ ~h[p[j]].leaf /\ i[j] = Chosen(h, p[j], k, TRUE) /\ p[j + 1] = Items(h, p[j])[i[j]].data
      /\ h[p[Len(L)]].leaf
  <2>1. k \in Nat /\ (TRUE \/ k <= MaxKey(h, m_root))
    BY <1>1
  <2>2. /\ p[1] = m_root
        /\ \A j \in 1 .. Len(L) : p[j] \in L[j] /\ p[j] \in DOMAIN h
        /\ \A j \in 1 .. Len(L) : k <= MaxKey(h, m_root) => k <= MaxKey(h, p[j])
        /\ \A j \in 1 .. Len(L) - 1 :
             /\ ~h[p[j]].leaf /\ i[j] \in 1 .. Size(h, p[j])
             /\ i[j] = Chosen(h, p[j], k, TRUE) /\ p[j + 1] = Items(h, p[j])[i[j]].data
        /\ h[p[Len(L)]].leaf
    BY <1>1, <1>3, <2>1, OnTheWay, Zenon
  <2>. QED
    BY <2>2
<1>5. \A j \in 1 .. Len(L) :
        r[j] = f[Depth(h, j)][p[j]] /\ r[j] = AddedAt(h, e, Depth(h, j), p[j], f[Depth(h, j) - 1])
  <2>. SUFFICES ASSUME NEW j \in 1 .. Len(L)
                PROVE  /\ r[j] = f[Depth(h, j)][p[j]]
                       /\ r[j] = AddedAt(h, e, Depth(h, j), p[j], f[Depth(h, j) - 1])
    OBVIOUS
  <2>1. Depth(h, j) \in 0 .. Len(h) /\ p[j] \in DOMAIN h
    BY <1>4, Depths
  <2>2. f[Depth(h, j)][p[j]] = AddedAt(h, e, Depth(h, j), p[j], f[Depth(h, j) - 1])
    BY <1>2, <2>1 DEF AddSteps
  <2>. QED
    BY <2>2 DEF AlongWay
<1>. HIDE DEF r
<1>6. r[Len(L)] = AddToLeaf(h, p[Len(L)], e)
  BY <1>1, <1>4, <1>5 DEF AddedAt
<1>7. ASSUME NEW j \in 1 .. Len(L) - 1
      PROVE  r[j] = AddedBelow(r[j + 1], p[j], i[j], p[j + 1])
  <2>1. j \in 1 .. Len(L) /\ j + 1 \in 1 .. Len(L)
    BY <1>1
  <2>2. r[j + 1] = f[Depth(h, j) - 1][p[j + 1]] /\ Depth(h, j) # 0
    BY <1>5, <2>1, Depths
  <2>3. i[j] = ChildFor(Items(h, p[j]), k) /\ p[j + 1] = Items(h, p[j])[i[j]].data /\ ~h[p[j]].leaf
    BY <1>4 DEF Chosen
  <2>4. r[j] = AddedAt(h, e, Depth(h, j), p[j], f[Depth(h, j) - 1])
    BY <1>5, <2>1
  <2>. QED
    BY <2>2, <2>3, <2>4 DEF AddedAt
<1>8. AdditionAlong(h, L, p, i, e, r)
  BY <1>3, <1>6, <1>7 DEF AdditionAlong, WayFor
<1>9. internalAddData(h, m_root, e) = r[1]
  <2>1. r[1] = f[Depth(h, 1)][p[1]] /\ Depth(h, 1) = Len(h)
    BY <1>1, <1>5, Depths
  <2>. QED
    BY <1>2, <1>4, <2>1
<1>. QED
  BY <1>8, <1>9

\* getChildWithKey of a key that is not above all.
LEMMA SearchFollowsWay ==
  ASSUME NEW E, NEW h, NEW L, RootedTree(E, h, L), NEW k \in Nat, k <= MaxKey(h, m_root)
  PROVE  \E p, i : WayToFind(h, L, p, i, k) /\ getChildWithKey(h, m_root, k) = p[Len(L)]
<1>1. /\ Len(L) \in Nat \ {0} /\ Rooted(L) /\ Len(h) \in Nat /\ FALSE \in BOOLEAN
      /\ 1 \in 1 .. Len(L) /\ Len(L) \in 1 .. Len(L) /\ h \in Seq(BTreeNode(E))
  BY RowsFit DEF RootedTree
<1>2. PICK f : FindSteps(h, k, f) /\ \A n : getChildWithKey(h, n, k) = f[Len(h)][n]
  BY <1>1, FindRecursion
<1>3. PICK p, i : WayFor(h, L, p, i, k, FALSE)
  BY <1>1, WayExists
<1>. DEFINE r == AlongWay(h, L, p, f)
<1>4. /\ p[1] = m_root /\ \A j \in 1 .. Len(L) : p[j] \in L[j] /\ p[j] \in DOMAIN h
      /\ \A j \in 1 .. Len(L) : k <= MaxKey(h, p[j])
      /\ \A j \in 1 .. Len(L) - 1 :
           /\ ~h[p[j]].leaf /\ i[j] = Chosen(h, p[j], k, FALSE)
           /\ p[j + 1] = Items(h, p[j])[i[j]].data
      /\ h[p[Len(L)]].leaf
  <2>1. /\ p[1] = m_root
        /\ \A j \in 1 .. Len(L) : p[j] \in L[j] /\ p[j] \in DOMAIN h
        /\ \A j \in 1 .. Len(L) : k <= MaxKey(h, m_root) => k <= MaxKey(h, p[j])
        /\ \A j \in 1 .. Len(L) - 1 :
             /\ ~h[p[j]].leaf /\ i[j] \in 1 .. Size(h, p[j])
             /\ i[j] = Chosen(h, p[j], k, FALSE) /\ p[j + 1] = Items(h, p[j])[i[j]].data
        /\ h[p[Len(L)]].leaf
    BY <1>1, <1>3, OnTheWay, Zenon
  <2>. QED
    BY <2>1
<1>5. ASSUME NEW j \in 1 .. Len(L) PROVE LowerBound(Items(h, p[j]), k) <= Size(h, p[j])
  <2>. DEFINE s == Items(h, p[j])
  <2>1. p[j] \in L[j] /\ k <= MaxKey(h, p[j])
    BY <1>4
  <2>2. s \in Seq(Entry(E)) /\ InOrder(s) /\ s # <<>>
    BY <2>1, KindsOfRows
  <2>3. MaxKey(h, p[j]) = s[Len(s)].key /\ Len(s) \in 1 .. Len(s)
    <3>1. MaxKey(h, p[j]) = Last(s).key
      BY DEF MaxKey, Items
    <3>. HIDE DEF s
    <3>. QED
      BY <2>2, <3>1, Ends
  <2>4. /\ LowerBound(s, k) \in 1 .. Len(s) + 1 /\ s[Len(s)].key \in Nat
        /\ Len(s) < LowerBound(s, k) => s[Len(s)].key < k
    BY <2>2, <2>3, LowerBoundProperties
  <2>. HIDE DEF s
  <2>. QED
    BY <2>1, <2>2, <2>3, <2>4 DEF s, Size, Items
<1>6. \A j \in 1 .. Len(L) :
        r[j] = f[Depth(h, j)][p[j]] /\ r[j] = FoundBelow(h, k, Depth(h, j), p[j], f[Depth(h, j) - 1])
  <2>. SUFFICES ASSUME NEW j \in 1 .. Len(L)
                PROVE  /\ r[j] = f[Depth(h, j)][p[j]]
                       /\ r[j] = FoundBelow(h, k, Depth(h, j), p[j], f[Depth(h, j) - 1])
    OBVIOUS
  <2>1. Depth(h, j) \in 0 .. Len(h) /\ p[j] \in DOMAIN h
    BY <1>4, Depths
  <2>2. f[Depth(h, j)][p[j]] = FoundBelow(h, k, Depth(h, j), p[j], f[Depth(h, j) - 1])
    BY <1>2, <2>1 DEF FindSteps
  <2>. QED
    BY <2>2 DEF AlongWay
<1>. HIDE DEF r
<1>7. ASSUME NEW j \in 1 .. Len(L)
      PROVE  /\ Depth(h, j) # 0 /\ Size(h, p[j]) \in Nat
             /\ ~(LowerBound(Items(h, p[j]), k) > Size(h, p[j]))
  <2>. DEFINE s == Items(h, p[j])
  <2>1. p[j] \in L[j]
    BY <1>4
  <2>2. s \in Seq(Entry(E)) /\ InOrder(s)
    BY <2>1, KindsOfRows
  <2>3. LowerBound(s, k) \in 1 .. Len(s) + 1
    BY <2>2, LowerBoundProperties
  <2>4. Size(h, p[j]) \in Nat /\ LowerBound(s, k) \in Nat
    BY <2>2, <2>3 DEF Size, Items
  <2>. HIDE DEF s
  <2>. QED
    BY <1>5, <2>4, Depths DEF s
<1>8. r[Len(L)] = p[Len(L)]
  BY <1>1, <1>4, <1>6, <1>7 DEF FoundBelow
<1>9. ASSUME NEW j \in 1 .. Len(L) - 1
      PROVE  r[j] = r[j + 1]
  <2>1. j \in 1 .. Len(L) /\ j + 1 \in 1 .. Len(L)
    BY <1>1
  <2>2. r[j + 1] = f[Depth(h, j) - 1][p[j + 1]]
    BY <1>6, <2>1, Depths
  <2>3. /\ p[j + 1] = Items(h, p[j])[LowerBound(Items(h, p[j]), k)].data /\ ~h[p[j]].leaf
        /\ Depth(h, j) # 0 /\ ~(LowerBound(Items(h, p[j]), k) > Size(h, p[j]))
    BY <1>4, <1>7, <2>1 DEF Chosen
  <2>4. r[j] = FoundBelow(h, k, Depth(h, j), p[j], f[Depth(h, j) - 1])
    BY <1>6, <2>1
  <2>. QED
    BY <2>2, <2>3, <2>4 DEF FoundBelow
<1>10. r[1] = p[Len(L)]
  <2>. DEFINE T == {n \in 0 .. Len(L) - 1 : r[Len(L) - n] # p[Len(L)]}
  <2>1. T = {}
    <3>. SUFFICES ASSUME T # {} PROVE FALSE
      OBVIOUS
    <3>1. PICK m \in T : \A n \in T : m <= n
      <4>1. T \in SUBSET Nat
        BY <1>1
      <4>. HIDE DEF T
      <4>. QED
        BY <4>1, HasLeast
    <3>2. m # 0 /\ m \in 0 .. Len(L) - 1 /\ r[Len(L) - m] # p[Len(L)]
      BY <1>1, <1>8
    <3>3. m - 1 \in 0 .. Len(L) - 1 /\ m - 1 \notin T
      <4>1. m \in Nat /\ m - 1 \in 0 .. Len(L) - 1 /\ m > m - 1
        BY <1>1, <3>2
      <4>. HIDE DEF T
      <4>. QED
        BY <3>1, <4>1
    <3>4. r[Len(L) - (m - 1)] = p[Len(L)]
      BY <3>3
    <3>5. Len(L) - m \in 1 .. Len(L) - 1 /\ (Len(L) - m) + 1 = Len(L) - (m - 1)
      BY <1>1, <3>2
    <3>. QED
      BY <1>9, <3>2, <3>4, <3>5
  <2>2. Len(L) - 1 \in 0 .. Len(L) - 1 /\ Len(L) - (Len(L) - 1) = 1
    BY <1>1
  <2>. QED
    BY <2>1, <2>2
<1>11. getChildWithKey(h, m_root, k) = r[1]
  <2>1. r[1] = f[Depth(h, 1)][p[1]] /\ Depth(h, 1) = Len(h)
    BY <1>1, <1>6, Depths
  <2>. QED
    BY <1>2, <1>4, <2>1
<1>. QED
  BY <1>3, <1>10, <1>11 DEF WayFor

\* The status with which the call in an inner node ends.
LEMMA RemovedBelowFinds ==
  ASSUME NEW r, NEW n, NEW i, NEW c
  PROVE  RemovedBelow(r, n, i, c).status # "NOT_FOUND"
<1>. DEFINE b == Rebalance(r.heap, n, i, c, r.gone)
<1>1. b.status # "NOT_FOUND"
  <2>. DEFINE j == SiblingIndex(r.heap, n, i)
  <2>1. \A h1, h2, h3, h4, gone :
          \A t \in {Result(h1, "REMOVED", gone), Result(h2, "StorageException", gone),
                    Result(h3, "OK", gone), Result(h4, "undefined", gone)} : t.status # "NOT_FOUND"
    BY DEF Result
  <2>2. \E h1, h2, h3, h4 :
          b \in {Result(h1, "REMOVED", r.gone), Result(h2, "StorageException", r.gone),
                 Result(h3, "OK", r.gone), Result(h4, "undefined", r.gone)}
    BY DEF Rebalance
  <2>. QED
    BY <2>1, <2>2
<1>2. /\ Result(r.heap, "NoSuchPath", Nothing).status # "NOT_FOUND"
      /\ \A h : Result(h, "OK", r.gone).status # "NOT_FOUND"
  BY DEF Result
<1>. HIDE DEF b
<1>. QED
  BY <1>1, <1>2 DEF RemovedBelow, b

\* A child that does not answer NOT_FOUND is the last that is looked into.
LEMMA FirstSearched ==
  ASSUME NEW h, Len(h) \in Nat, NEW x, NEW c \in DOMAIN h, x[c].status # "NOT_FOUND", NEW k
  PROVE  SearchSiblings(h, x, c, k).result = x[c] /\ SearchSiblings(h, x, c, k).child = c
<1>. DEFINE goesOn == [m \in DOMAIN h |->
                         /\ x[m].status = "NOT_FOUND" /\ h[m].right # None
                         /\ Size(h, h[m].right) # 0 /\ Head(Items(h, h[m].right)).key = k]
            last == WalkRight(h, goesOn, c)
<1>1. ~goesOn[c]
  BY Zenon
<1>2. x[last].status # "NOT_FOUND" =>
        SearchSiblings(h, x, c, k).result = x[last] /\ SearchSiblings(h, x, c, k).child = last
  BY Zenon DEF SearchSiblings
<1>. HIDE DEF goesOn
<1>3. PICK f : WalkSteps(h, goesOn, f) /\ \A n : WalkRight(h, goesOn, n) = f[Len(h)][n]
  BY WalkRecursion
<1>4. f[Len(h)][c] = c
  BY <1>1, <1>3 DEF WalkSteps, StopsAt
<1>. QED
  BY <1>2, <1>3, <1>4

\* internalRemoveData of a path whose key is not above all, when the leaf does not answer
\* NOT_FOUND.
LEMMA RemoveFollowsWay ==
  ASSUME NEW E, NEW h, NEW L, RootedTree(E, h, L), NEW e, e.key \in Nat,
         e.key <= MaxKey(h, m_root),
         \A x \in L[Len(L)] : RemoveFromLeaf(h, x, e.key, e.data.path).status # "NOT_FOUND"
  PROVE  \E p, i, r : /\ WayToFind(h, L, p, i, e.key) /\ RemovalAlong(h, L, p, i, e, r)
                      /\ p[Len(L)] \in L[Len(L)]
                      /\ internalRemoveData(h, m_root, e.key, e.data.path) = r[1]
<1>. DEFINE k == e.key
            path == e.data.path
<1>1. /\ Len(L) \in Nat \ {0} /\ Rooted(L) /\ Len(h) \in Nat /\ FALSE \in BOOLEAN
      /\ 1 \in 1 .. Len(L) /\ Len(L) \in 1 .. Len(L) /\ h \in Seq(BTreeNode(E)) /\ k \in Nat
  BY RowsFit DEF RootedTree
<1>2. PICK f : RemoveSteps(h, k, path, f)
                 /\ \A n : internalRemoveData(h, n, k, path) = f[Len(h)][n]
  BY <1>1, RemoveRecursion
<1>3. PICK p, i : WayFor(h, L, p, i, k, FALSE)
  BY <1>1, WayExists
<1>. DEFINE r == AlongWay(h, L, p, f)
<1>4. /\ p[1] = m_root
      /\ \A j \in 1 .. Len(L) : p[j] \in L[j] /\ p[j] \in DOMAIN h
      /\ \A j \in 1 .. Len(L) : k <= MaxKey(h, m_root) => k <= MaxKey(h, p[j])
      /\ \A j \in 1 .. Len(L) - 1 :
           /\ ~h[p[j]].leaf /\ i[j] \in 1 .. Size(h, p[j])
           /\ i[j] = Chosen(h, p[j], k, FALSE) /\ p[j + 1] = Items(h, p[j])[i[j]].data
      /\ h[p[Len(L)]].leaf
  BY <1>1, <1>3, OnTheWay, Zenon
<1>5. \A j \in 1 .. Len(L) :
        /\ r[j] = f[Depth(h, j)][p[j]]
        /\ r[j] = RemovedAt(h, k, path, Depth(h, j), p[j], f[Depth(h, j) - 1])
  <2>. SUFFICES ASSUME NEW j \in 1 .. Len(L)
                PROVE  /\ r[j] = f[Depth(h, j)][p[j]]
                       /\ r[j] = RemovedAt(h, k, path, Depth(h, j), p[j], f[Depth(h, j) - 1])
    OBVIOUS
  <2>1. Depth(h, j) \in 0 .. Len(h) /\ p[j] \in DOMAIN h
    BY <1>4, Depths
  <2>2. f[Depth(h, j)][p[j]] = RemovedAt(h, k, path, Depth(h, j), p[j], f[Depth(h, j) - 1])
    BY <1>2, <2>1 DEF RemoveSteps
  <2>. QED
    BY <2>2 DEF AlongWay
<1>. HIDE DEF r
<1>6. r[Len(L)] = RemoveFromLeaf(h, p[Len(L)], k, path)
  BY <1>1, <1>4, <1>5 DEF RemovedAt
<1>7. ASSUME NEW j \in 1 .. Len(L) - 1
      PROVE  \E b, s : r[j] = IF b THEN Result(h, "NoSuchPath", Nothing)
                              ELSE RemovedBelow(s.result, p[j], i[j], s.child)
  <2>1. j \in 1 .. Len(L) /\ i[j] = LowerBound(Items(h, p[j]), k) /\ ~h[p[j]].leaf
    BY <1>1, <1>4 DEF Chosen
  <2>2. r[j] = RemovedAt(h, k, path, Depth(h, j), p[j], f[Depth(h, j) - 1]) /\ Depth(h, j) # 0
    BY <1>5, <2>1, Depths
  <2>. QED
    BY <2>1, <2>2 DEF RemovedAt
<1>8. ASSUME NEW j \in 1 .. Len(L)
      PROVE  r[j].status # "NOT_FOUND"
  <2>1. CASE j = Len(L)
    BY <1>4, <1>6, <2>1
  <2>2. CASE j # Len(L)
    <3>1. j \in 1 .. Len(L) - 1
      BY <1>1, <2>2
    <3>2. PICK b, s : r[j] = IF b THEN Result(h, "NoSuchPath", Nothing)
                             ELSE RemovedBelow(s.result, p[j], i[j], s.child)
      BY <1>7, <3>1
    <3>3. Result(h, "NoSuchPath", Nothing).status # "NOT_FOUND"
      BY DEF Result
    <3>4. RemovedBelow(s.result, p[j], i[j], s.child).status # "NOT_FOUND"
      BY RemovedBelowFinds
    <3>. QED
      BY <3>2, <3>3, <3>4
  <2>. QED
    BY <2>1, <2>2
<1>9. ASSUME NEW j \in 1 .. Len(L) - 1
      PROVE  r[j] = RemovedBelow(r[j + 1], p[j], i[j], p[j + 1])
  <2>. DEFINE x == f[Depth(h, j) - 1]
              c == p[j + 1]
  <2>1. j \in 1 .. Len(L) /\ j + 1 \in 1 .. Len(L)
    BY <1>1
  <2>2. r[j + 1] = x[c] /\ Depth(h, j) # 0 /\ c \in DOMAIN h
    BY <1>4, <1>5, <2>1, Depths
  <2>3. /\ i[j] = LowerBound(Items(h, p[j]), k) /\ c = Items(h, p[j])[i[j]].data /\ ~h[p[j]].leaf
        /\ i[j] \in 1 .. Size(h, p[j])
    BY <1>4 DEF Chosen
  <2>4. r[j] = RemovedAt(h, k, path, Depth(h, j), p[j], x)
    BY <1>5, <2>1
  <2>5. SearchSiblings(h, x, c, k).result = x[c] /\ SearchSiblings(h, x, c, k).child = c
    <3>1. x[c].status # "NOT_FOUND"
      BY <1>8, <2>1, <2>2
    <3>. HIDE DEF x, c
    <3>. QED
      BY <1>1, <2>2, <3>1, FirstSearched
  <2>6. ~(i[j] > Size(h, p[j]))
    <3>1. Items(h, p[j]) \in Seq(Entry(E))
      BY <1>1, <1>4, <2>1, HeapNode
    <3>2. Size(h, p[j]) \in Nat
      BY <3>1 DEF Size, Items
    <3>. QED
      BY <2>3, <3>2
  <2>. HIDE DEF x, c
  <2>. QED
    BY <2>2, <2>3, <2>4, <2>5, <2>6 DEF RemovedAt, c
<1>10. RemovalAlong(h, L, p, i, e, r)
  BY <1>6, <1>9 DEF RemovalAlong
<1>11. internalRemoveData(h, m_root, k, path) = r[1]
  <2>1. r[1] = f[Depth(h, 1)][p[1]] /\ Depth(h, 1) = Len(h)
    BY <1>1, <1>5, Depths
  <2>. QED
    BY <1>2, <1>4, <2>1
<1>12. WayToFind(h, L, p, i, k) /\ p[Len(L)] \in L[Len(L)]
  BY <1>1, <1>3, <1>4 DEF WayFor
<1>. QED
  BY <1>10, <1>11, <1>12

-----------------------------------------------------------------------------
(* What is looked for in a leaf. *)

\* The first item with a key, where there is one.
LEMMA FirstKeyProperties ==
  ASSUME NEW E, NEW items \in Seq(Entry(E)), NEW k
  PROVE  \/ FirstWithKey(items, k) = 0 /\ \A q \in 1 .. Len(items) : items[q].key # k
         \/ FirstWithKey(items, k) \in 1 .. Len(items) /\ items[FirstWithKey(items, k)].key = k
<1>. DEFINE T == {i \in 1 .. Len(items) : items[i].key = k}
            i == FirstWithKey(items, k)
<1>1. i = IF T # {} THEN Min(T) ELSE 0
  BY DEF FirstWithKey, SelectInSeq
<1>2. Len(items) \in Nat /\ T \in SUBSET (1 .. Len(items))
      /\ \A q \in 1 .. Len(items) : q \in T <=> items[q].key = k
  OBVIOUS
<1>. HIDE DEF T, i
<1>3. (i = 0 /\ T = {}) \/ i \in T
  BY <1>1, <1>2, FirstPassing
<1>. QED
  BY <1>2, <1>3 DEF i

\* A leaf without the key.
LEMMA LeafMisses ==
  ASSUME NEW E, NEW h, NEW n, Items(h, n) \in Seq(Entry(E)), NEW k,
         \A e \in ToSet(Items(h, n)) : e.key # k
  PROVE  /\ FirstWithKey(Items(h, n), k) = 0
         /\ \A p : RemoveFromLeaf(h, n, k, p) = Result(h, "NoSuchPath", Nothing)
<1>. DEFINE items == Items(h, n)
<1>1. FirstWithKey(items, k) = 0
  <2>1. \A q \in 1 .. Len(items) : items[q] \in ToSet(items)
    BY DEF ToSet
  <2>. HIDE DEF items
  <2>2. \A q \in 1 .. Len(items) : items[q].key # k
    BY <2>1 DEF items
  <2>3. items \in Seq(Entry(E)) /\ 0 \notin 1 .. Len(items)
    BY DEF items
  <2>. QED
    BY <2>2, <2>3, FirstKeyProperties
<1>. QED
  BY <1>1 DEF RemoveFromLeaf

\* FindFrom in a leaf that has the record of path p.
LEMMA FoundFrom ==
  ASSUME NEW E, NEW h \in Seq(BTreeNode(E)), NEW n \in DOMAIN h, KeysInOrder(h, n), NEW p,
         NEW e \in ToSet(Items(h, n)), e.key = Hash[p], e.data.path = p, Hash[p] \in Nat
  PROVE  \E i \in 1 .. Size(h, n) :
           FindFrom(h, p)[n] = [result |-> "found", node |-> n, at |-> i] /\ Items(h, n)[i] = e
<1>. DEFINE items == Items(h, n)
            k == Hash[p]
            m == Len(items)
            start == [x \in DOMAIN h |-> IF x = n THEN FirstWithKey(items, k) ELSE 1]
            stop == [x \in DOMAIN h |->
                       SelectInSubSeq(Items(h, x), start[x], Size(h, x),
                                      LAMBDA it : it.key # k \/ it.data.path = p)]
            goesOn == [x \in DOMAIN h |-> stop[x] = 0 /\ Size(h, x) # 0 /\ h[x].right # None]
            answer == [x \in DOMAIN h |->
                         LET i == stop[x]
                         IN IF Size(h, x) = 0 THEN [result |-> "undefined"]
                            ELSE IF i = 0 THEN [result |-> "NoSuchPath"]
                            ELSE IF Items(h, x)[i].key # k THEN [result |-> "NoSuchPath"]
                            ELSE [result |-> "found", node |-> x, at |-> i]]
<1>1. start[n] # 0 => FindFrom(h, p)[n] = answer[WalkRight(h, goesOn, n)]
  BY Zenon DEF FindFrom
<1>2. items \in Seq(Entry(E)) /\ m \in Nat /\ InOrder(items) /\ Len(h) \in Nat
  BY HeapNode DEF KeysInOrder
<1>3. PICK a \in 1 .. m : items[a] = e
  BY <1>2 DEF ToSet
<1>4. \A q \in 1 .. m : items[q].key = k => q = a
  <2>. HIDE DEF items
  <2>. QED
    BY <1>2, <1>3 DEF InOrder
<1>5. start[n] = a
  <2>. DEFINE i == FirstWithKey(items, k)
  <2>1. start[n] = i
    OBVIOUS
  <2>. HIDE DEF items, start
  <2>2. i = a
    BY <1>2, <1>3, <1>4, FirstKeyProperties
  <2>. QED
    BY <2>1, <2>2
<1>6. stop[n] = a
  <2>. DEFINE U == {q \in a .. m : items[q].key # k \/ items[q].data.path = p}
  <2>1. stop[n] = IF U # {} THEN Min(U) ELSE 0
    <3>1. stop[n] = SelectInSubSeq(items, start[n], m, LAMBDA it : it.key # k \/ it.data.path = p)
      BY Zenon DEF Size, Items
    <3>. HIDE DEF stop, start, items
    <3>. QED
      BY <1>5, <3>1 DEF SelectInSubSeq
  <2>. HIDE DEF stop, start
  <2>2. a \in U /\ U \in SUBSET (1 .. m) /\ \A q \in U : q >= a
    <3>. HIDE DEF items
    <3>. QED
      BY <1>2, <1>3
  <2>. HIDE DEF U, items
  <2>3. stop[n] \in U /\ \A q \in 1 .. stop[n] - 1 : q \notin U
    BY <1>2, <2>1, <2>2, FirstPassing
  <2>4. stop[n] \in Nat /\ a \in Nat /\ a >= 1 /\ stop[n] >= a
    <3>1. stop[n] \in U
      BY <2>3
    <3>2. stop[n] \in 1 .. m /\ stop[n] >= a
      BY <2>2, <3>1
    <3>. QED
      BY <1>2, <1>3, <3>2
  <2>5. ~(a \in 1 .. stop[n] - 1)
    BY <2>2, <2>3
  <2>. QED
    BY <2>4, <2>5
<1>7. ~goesOn[n] /\ a # 0 /\ Size(h, n) # 0
  <2>1. a # 0 /\ m # 0 /\ Size(h, n) = m
    BY <1>2, <1>3 DEF Size, Items
  <2>2. goesOn[n] => stop[n] = 0
    BY Zenon
  <2>. HIDE DEF goesOn, stop, m
  <2>. QED
    BY <1>6, <2>1, <2>2
<1>8. answer[n] = [result |-> "found", node |-> n, at |-> a]
  <2>1. items[a].key = k
    BY <1>3
  <2>2. /\ stop[n] = a => answer[n] = IF Size(h, n) = 0 THEN [result |-> "undefined"]
                         ELSE IF a = 0 THEN [result |-> "NoSuchPath"]
                         ELSE IF Items(h, n)[a].key # k THEN [result |-> "NoSuchPath"]
                         ELSE [result |-> "found", node |-> n, at |-> a]
    BY Zenon
  <2>. HIDE DEF answer, stop
  <2>. QED
    BY <1>6, <1>7, <2>1, <2>2, Zenon DEF items
<1>9. WalkRight(h, goesOn, n) = n
  <2>. HIDE DEF goesOn
  <2>1. PICK f : WalkSteps(h, goesOn, f) /\ \A x : WalkRight(h, goesOn, x) = f[Len(h)][x]
    BY <1>2, WalkRecursion
  <2>2. f[Len(h)][n] = n
    BY <1>2, <1>7, <2>1 DEF WalkSteps, StopsAt
  <2>. QED
    BY <2>1, <2>2
<1>. HIDE DEF start, stop, goesOn, answer
<1>10. FindFrom(h, p)[n] = [result |-> "found", node |-> n, at |-> a]
  BY <1>1, <1>5, <1>7, <1>8, <1>9
<1>11. a \in 1 .. Size(h, n)
  BY <1>3 DEF Size, Items
<1>. QED
  BY <1>3, <1>10, <1>11

\* FindFrom in a leaf without the key of path p.
LEMMA MissedFrom ==
  ASSUME NEW h, NEW n \in DOMAIN h, NEW p, FirstWithKey(Items(h, n), Hash[p]) = 0
  PROVE  FindFrom(h, p)[n] = [result |-> "NoSuchPath"]
BY Zenon DEF FindFrom

-----------------------------------------------------------------------------
(* What is looked for in a tree. *)

\* A root that is a leaf.
LEMMA RootIsLeaf ==
  ASSUME NEW h, Len(h) \in Nat, m_root \in DOMAIN h, h[m_root].leaf
  PROVE  /\ \A item : internalAddData(h, m_root, item) = AddToLeaf(h, m_root, item)
         /\ \A k, path : internalRemoveData(h, m_root, k, path) = RemoveFromLeaf(h, m_root, k, path)
<1>1. Len(h) \in 0 .. Len(h)
  OBVIOUS
<1>. HIDE DEF m_root
<1>2. ASSUME NEW item PROVE internalAddData(h, m_root, item) = AddToLeaf(h, m_root, item)
  <2>1. PICK f : AddSteps(h, item, f) /\ \A n : internalAddData(h, n, item) = f[Len(h)][n]
    BY AddRecursion
  <2>2. f[Len(h)][m_root] = AddedAt(h, item, Len(h), m_root, f[Len(h) - 1])
    BY <1>1, <2>1 DEF AddSteps
  <2>. QED
    BY <2>1, <2>2 DEF AddedAt
<1>3. ASSUME NEW k, NEW path
      PROVE  internalRemoveData(h, m_root, k, path) = RemoveFromLeaf(h, m_root, k, path)
  <2>1. PICK f : RemoveSteps(h, k, path, f)
                   /\ \A n : internalRemoveData(h, n, k, path) = f[Len(h)][n]
    BY RemoveRecursion
  <2>2. f[Len(h)][m_root] = RemovedAt(h, k, path, Len(h), m_root, f[Len(h) - 1])
    BY <1>1, <2>1 DEF RemoveSteps
  <2>. QED
    BY <2>1, <2>2 DEF RemovedAt
<1>. QED
  BY <1>2, <1>3

\* A root no item of which has so great a key.
LEMMA RunsOffRoot ==
  ASSUME NEW h, Len(h) \in Nat, m_root \in DOMAIN h, NEW k,
         LowerBound(Items(h, m_root), k) > Size(h, m_root)
  PROVE  /\ getChildWithKey(h, m_root, k) = None
         /\ ~h[m_root].leaf /\ Len(h) # 0 =>
              \A path : internalRemoveData(h, m_root, k, path) = Result(h, "NoSuchPath", Nothing)
<1>1. Len(h) \in 0 .. Len(h)
  OBVIOUS
<1>. HIDE DEF m_root
<1>2. getChildWithKey(h, m_root, k) = None
  <2>1. PICK f : FindSteps(h, k, f) /\ \A n : getChildWithKey(h, n, k) = f[Len(h)][n]
    BY FindRecursion
  <2>2. f[Len(h)][m_root] = FoundBelow(h, k, Len(h), m_root, f[Len(h) - 1])
    BY <1>1, <2>1 DEF FindSteps
  <2>. QED
    BY <2>1, <2>2 DEF FoundBelow
<1>3. ASSUME NEW path, ~h[m_root].leaf, Len(h) # 0
      PROVE  internalRemoveData(h, m_root, k, path) = Result(h, "NoSuchPath", Nothing)
  <2>1. PICK f : RemoveSteps(h, k, path, f)
                   /\ \A n : internalRemoveData(h, n, k, path) = f[Len(h)][n]
    BY RemoveRecursion
  <2>2. f[Len(h)][m_root] = RemovedAt(h, k, path, Len(h), m_root, f[Len(h) - 1])
    BY <1>1, <2>1 DEF RemoveSteps
  <2>. QED
    BY <1>3, <2>1, <2>2 DEF RemovedAt
<1>. QED
  BY <1>2, <1>3

\* A result that is an exception is handed on all the way.
LEMMA ThrownOn ==
  ASSUME NEW h, NEW L, Len(L) \in Nat \ {0}, NEW p, NEW i, NEW e, NEW r,
         RemovalAlong(h, L, p, i, e, r), r[Len(L)] = Result(h, "NoSuchPath", Nothing)
  PROVE  r[1] = Result(h, "NoSuchPath", Nothing)
<1>. DEFINE n == Len(L)
            t == Result(h, "NoSuchPath", Nothing)
            T == {m \in 0 .. n - 1 : r[n - m] # t}
<1>0. /\ n \in Nat /\ n # 0 /\ r[n] = t
      /\ \A j \in 1 .. n - 1 : r[j] = RemovedBelow(r[j + 1], p[j], i[j], p[j + 1])
  BY DEF RemovalAlong
<1>. HIDE DEF n
<1>1. \A x, q, c : RemovedBelow(t, x, q, c) = t
  BY DEF RemovedBelow, Result
<1>. HIDE DEF t
<1>2. T = {}
  <2>. SUFFICES ASSUME T # {} PROVE FALSE
    OBVIOUS
  <2>1. PICK m \in T : \A q \in T : m <= q
    <3>1. T \in SUBSET Nat
      BY <1>0
    <3>. HIDE DEF T
    <3>. QED
      BY <3>1, HasLeast
  <2>2. m # 0 /\ m \in 0 .. n - 1 /\ r[n - m] # t
    BY <1>0 DEF t
  <2>3. m - 1 \in 0 .. n - 1 /\ m - 1 \notin T
    <3>1. m \in Nat /\ m - 1 \in 0 .. n - 1 /\ m > m - 1
      BY <1>0, <2>2
    <3>. HIDE DEF T
    <3>. QED
      BY <2>1, <3>1
  <2>4. r[n - (m - 1)] = t
    BY <2>3
  <2>5. n - m \in 1 .. n - 1 /\ (n - m) + 1 = n - (m - 1)
    BY <1>0, <2>2
  <2>6. r[n - m] = RemovedBelow(r[n - (m - 1)], p[n - m], i[n - m], p[n - (m - 1)])
    <3>1. r[n - m] = RemovedBelow(r[(n - m) + 1], p[n - m], i[n - m], p[(n - m) + 1])
      BY <1>0, <2>5
    <3>. QED
      BY <2>5, <3>1
  <2>. QED
    BY <1>1, <2>2, <2>4, <2>6
<1>3. n - 1 \in 0 .. n - 1 /\ n - (n - 1) = 1
  BY <1>0
<1>. QED
  BY <1>2, <1>3 DEF t

\* A key that no record has: the search finds no leaf or one without the key, and a removal finds
\* no path.
LEMMA KeyNotThere ==
  ASSUME NEW E, NEW h, NEW L, RootedTree(E, h, L), NEW k \in Nat, \A d \in Records(h, L) : d.key # k
  PROVE  /\ \/ getChildWithKey(h, m_root, k) = None
            \/ /\ getChildWithKey(h, m_root, k) \in DOMAIN h
               /\ FirstWithKey(Items(h, getChildWithKey(h, m_root, k)), k) = 0
         /\ \A path : internalRemoveData(h, m_root, k, path) = Result(h, "NoSuchPath", Nothing)
<1>1. /\ Len(L) \in Nat \ {0} /\ Len(L) \in 1 .. Len(L) /\ 1 \in 1 .. Len(L) /\ Rooted(L)
      /\ Len(h) \in Nat /\ Len(h) # 0 /\ m_root \in DOMAIN h /\ h \in Seq(BTreeNode(E))
      /\ m_root \in L[1]
  BY RowsFit DEF RootedTree, Rooted
<1>2. ASSUME NEW x \in L[Len(L)]
      PROVE  /\ x \in DOMAIN h /\ FirstWithKey(Items(h, x), k) = 0
             /\ \A path : RemoveFromLeaf(h, x, k, path) = Result(h, "NoSuchPath", Nothing)
  <2>1. Items(h, x) \in Seq(Entry(E)) /\ x \in DOMAIN h
    BY <1>1, KindsOfRows
  <2>2. \A d \in ToSet(Items(h, x)) : d.key # k
    BY DEF Records, Held
  <2>. QED
    BY <2>1, <2>2, LeafMisses
<1>. HIDE DEF m_root
<1>3. CASE k <= MaxKey(h, m_root)
  <2>1. PICK p, i : WayToFind(h, L, p, i, k) /\ getChildWithKey(h, m_root, k) = p[Len(L)]
    BY <1>3, SearchFollowsWay
  <2>2. p[Len(L)] \in L[Len(L)]
    <3>1. TreeRight(h, L) /\ L \in Seq(SUBSET Nat) /\ L[1] = {m_root}
      BY DEF RootedTree, Rooted
    <3>. QED
      BY <1>1, <1>3, <2>1, <3>1, WayIsRouted
  <2>3. ASSUME NEW path
        PROVE  internalRemoveData(h, m_root, k, path) = Result(h, "NoSuchPath", Nothing)
    <3>1. PICK e : e.key = k /\ e.data.path = path
      <4>1. Item(k, [path |-> path]).key = k /\ Item(k, [path |-> path]).data.path = path
        BY DEF Item
      <4>. QED
        BY <4>1
    <3>2. Result(h, "NoSuchPath", Nothing).status # "NOT_FOUND"
      BY DEF Result
    <3>3. \A x \in L[Len(L)] : RemoveFromLeaf(h, x, e.key, e.data.path).status # "NOT_FOUND"
      BY <1>2, <3>1, <3>2
    <3>4. PICK q, j, r : /\ WayToFind(h, L, q, j, e.key) /\ RemovalAlong(h, L, q, j, e, r)
                         /\ q[Len(L)] \in L[Len(L)]
                         /\ internalRemoveData(h, m_root, e.key, e.data.path) = r[1]
      <4>1. e.key \in Nat /\ e.key <= MaxKey(h, m_root)
        BY <1>3, <3>1
      <4>. QED
        BY <3>3, <4>1, RemoveFollowsWay
    <3>5. r[Len(L)] = Result(h, "NoSuchPath", Nothing)
      BY <1>2, <3>1, <3>4 DEF RemovalAlong
    <3>6. r[1] = Result(h, "NoSuchPath", Nothing)
      BY <1>1, <3>4, <3>5, ThrownOn
    <3>. QED
      BY <3>1, <3>4, <3>6
  <2>. QED
    BY <1>2, <2>1, <2>2, <2>3
<1>4. CASE ~(k <= MaxKey(h, m_root))
  <2>. DEFINE s == Items(h, m_root)
  <2>1. s \in Seq(Entry(E)) /\ InOrder(s) /\ s # <<>>
    BY <1>1, KindsOfRows
  <2>2. MaxKey(h, m_root) = s[Len(s)].key /\ Len(s) \in 1 .. Len(s) /\ Len(s) = Size(h, m_root)
    <3>1. MaxKey(h, m_root) = Last(s).key /\ Len(s) = Size(h, m_root)
      BY DEF MaxKey, Items, Size
    <3>. HIDE DEF s
    <3>. QED
      BY <2>1, <3>1, Ends
  <2>3. LowerBound(s, k) > Size(h, m_root)
    <3>. HIDE DEF s
    <3>1. /\ LowerBound(s, k) \in 1 .. Len(s) + 1 /\ s[Len(s)].key \in Nat
          /\ Len(s) < LowerBound(s, k) <=> s[Len(s)].key < k
      BY <2>1, <2>2, LowerBoundProperties
    <3>. QED
      BY <1>4, <2>2, <3>1
  <2>4. /\ getChildWithKey(h, m_root, k) = None
        /\ ~h[m_root].leaf =>
              \A path : internalRemoveData(h, m_root, k, path) = Result(h, "NoSuchPath", Nothing)
    BY <1>1, <2>3, RunsOffRoot
  <2>5. CASE h[m_root].leaf
    <3>1. m_root \in L[Len(L)]
      <4>1. 1 = Len(L)
        BY <1>1, <2>5, KindsOfRows
      <4>. QED
        BY <1>1, <4>1
    <3>. QED
      BY <1>1, <1>2, <2>4, <2>5, <3>1, RootIsLeaf
  <2>. QED
    BY <2>4, <2>5
<1>. QED
  BY <1>3, <1>4

\* The leaf in which the search for a record ends.
LEMMA RecordThere ==
  ASSUME NEW E, NEW h, NEW L, RootedTree(E, h, L), NEW e \in Records(h, L)
  PROVE  /\ getChildWithKey(h, m_root, e.key) \in L[Len(L)]
         /\ getChildWithKey(h, m_root, e.key) \in DOMAIN h
         /\ getChildWithKey(h, m_root, e.key) # None
         /\ e \in ToSet(Items(h, getChildWithKey(h, m_root, e.key)))
         /\ KeysInOrder(h, getChildWithKey(h, m_root, e.key))
         /\ e.key \in Nat /\ e.key <= MaxKey(h, m_root)
<1>1. /\ Len(L) \in Nat \ {0} /\ Len(L) \in 1 .. Len(L) /\ Rooted(L) /\ L[1] = {m_root}
      /\ h \in Seq(BTreeNode(E)) /\ L \in Seq(SUBSET Nat) /\ TreeRight(h, L)
  BY RowsFit DEF RootedTree, Rooted
<1>. HIDE DEF m_root
<1>2. PICK p, i : WayFor(h, L, p, i, e.key, FALSE)
  BY <1>1, WayExists
<1>3. e.key \in Nat /\ e.key <= MaxKey(h, m_root)
  BY <1>1, <1>2, SearchReachesLeaf DEF WayFor
<1>4. PICK q, j : WayToFind(h, L, q, j, e.key) /\ getChildWithKey(h, m_root, e.key) = q[Len(L)]
  BY <1>3, SearchFollowsWay
<1>5. q[Len(L)] \in L[Len(L)] /\ e \in ToSet(Items(h, q[Len(L)]))
  BY <1>1, <1>4, SearchReachesLeaf
<1>6. q[Len(L)] \in DOMAIN h /\ InOrder(Items(h, q[Len(L)]))
  BY <1>1, <1>5, KindsOfRows
<1>7. q[Len(L)] # None
  BY <1>1, <1>6, HeapNode
<1>. QED
  BY <1>3, <1>4, <1>5, <1>6, <1>7 DEF KeysInOrder

\* internalRemoveData of a path that a record has.
LEMMA RecordTakenOut ==
  ASSUME NEW E, NEW h, NEW L, RootedTree(E, h, L), Size(h, m_root) <= MaxLoad,
         NEW e \in Records(h, L), NEW t, t = internalRemoveData(h, m_root, e.key, e.data.path)
  PROVE  \/ RemovedFrom(E, h, L, e, t)
         \/ t.status = "REMOVED" /\ t.gone = <<e.data>> /\ Records(h, L) = {e} /\ Bare(E, t.heap)
<1>1. /\ Len(L) \in Nat \ {0} /\ Len(L) \in 1 .. Len(L) /\ 1 \in 1 .. Len(L) /\ Rooted(L)
      /\ Len(h) \in Nat /\ m_root \in DOMAIN h /\ h \in Seq(BTreeNode(E)) /\ m_root \in L[1]
  BY RowsFit DEF RootedTree, Rooted
<1>2. /\ e.key \in Nat /\ e.key <= MaxKey(h, m_root)
  BY RecordThere
<1>3. ASSUME NEW x \in L[Len(L)]
      PROVE  RemoveFromLeaf(h, x, e.key, e.data.path).status # "NOT_FOUND"
  <2>1. x \in DOMAIN h /\ Items(h, x) \in Seq(Entry(E)) /\ InOrder(Items(h, x))
    BY <1>1, KindsOfRows
  <2>2. CASE \E d \in ToSet(Items(h, x)) : d.key = e.key
    <3>1. PICK d \in ToSet(Items(h, x)) : d.key = e.key
      BY <2>2
    <3>2. PICK y \in L[Len(L)] : e \in ToSet(Items(h, y))
      BY DEF Records, Held
    <3>3. Distinct(h, L[Len(L)])
      BY <1>1, RightRow DEF RootedTree, TreeRight
    <3>4. x = y
      BY <3>1, <3>2, <3>3 DEF Distinct
    <3>5. RemoveFromLeaf(h, x, e.key, e.data.path).status = "REMOVED"
      BY <1>1, <1>2, <2>1, <3>2, <3>4, LeafFinds DEF KeysInOrder
    <3>. QED
      BY <3>5
  <2>3. CASE ~ \E d \in ToSet(Items(h, x)) : d.key = e.key
    <3>1. RemoveFromLeaf(h, x, e.key, e.data.path) = Result(h, "NoSuchPath", Nothing)
      BY <2>1, <2>3, LeafMisses
    <3>. QED
      BY <3>1 DEF Result
  <2>. QED
    BY <2>2, <2>3
<1>4. CASE NotTheLast(h, L)
  <2>1. PICK p, i, r : /\ WayToFind(h, L, p, i, e.key) /\ RemovalAlong(h, L, p, i, e, r)
                       /\ t = r[1]
    BY <1>2, <1>3, RemoveFollowsWay
  <2>2. WayToRemove(E, h, L, p, i, e)
    BY <1>4, <2>1 DEF WayToRemove
  <2>. QED
    BY <2>1, <2>2, RemovalKeepsTree
<1>5. CASE ~NotTheLast(h, L)
  <2>1. Len(L) = 1 /\ ~(Size(h, m_root) >= 2)
    BY <1>5 DEF NotTheLast
  <2>2. h[m_root].leaf /\ Items(h, m_root) \in Seq(Entry(E)) /\ Items(h, m_root) # <<>>
    BY <1>1, <2>1, KindsOfRows
  <2>3. Size(h, m_root) = 1
    <3>1. Size(h, m_root) = Len(Items(h, m_root))
      BY DEF Size, Items
    <3>2. Len(Items(h, m_root)) \in Nat /\ Len(Items(h, m_root)) # 0
      BY <2>2
    <3>. QED
      BY <2>1, <3>1, <3>2
  <2>4. t = RemoveFromLeaf(h, m_root, e.key, e.data.path)
    BY <1>1, <2>2, RootIsLeaf
  <2>. QED
    BY <2>1, <2>3, <2>4, LastRemovalBaresTree
<1>. QED
  BY <1>4, <1>5

-----------------------------------------------------------------------------
(* Heaps that differ in what is at the keys of the leaves, and in offsets. *)
Alike(h, g) ==
  /\ DOMAIN g = DOMAIN h
  /\ \A x \in DOMAIN h :
       /\ g[x].leaf = h[x].leaf /\ g[x].left = h[x].left /\ g[x].right = h[x].right
       /\ Len(Items(g, x)) = Len(Items(h, x))
       /\ \A q \in 1 .. Len(Items(h, x)) : Items(g, x)[q].key = Items(h, x)[q].key
       /\ ~h[x].leaf => Items(g, x) = Items(h, x)

\* Their nodes have the same keys.
LEMMA AlikeNodes ==
  ASSUME NEW E, NEW h \in Seq(BTreeNode(E)), NEW g \in Seq(BTreeNode(E)), Alike(h, g),
         NEW x \in DOMAIN h
  PROVE  /\ x \in DOMAIN g /\ Size(g, x) = Size(h, x)
         /\ KeysInOrder(h, x) => KeysInOrder(g, x)
         /\ Items(h, x) # <<>> => /\ Items(g, x) # <<>> /\ MaxKey(g, x) = MaxKey(h, x)
                                  /\ Head(Items(g, x)).key = Head(Items(h, x)).key
         /\ \A e \in ToSet(Items(g, x)) : \E d \in ToSet(Items(h, x)) : d.key = e.key
<1>. DEFINE v == Items(h, x)
            w == Items(g, x)
<1>1. /\ x \in DOMAIN g /\ Len(w) = Len(v)
      /\ \A q \in 1 .. Len(v) : w[q].key = v[q].key
  BY DEF Alike
<1>2. v \in Seq(Entry(E)) /\ w \in Seq(Entry(E))
  BY <1>1, HeapNode
<1>3. Size(g, x) = Len(w) /\ Size(h, x) = Len(v) /\ MaxKey(g, x) = Last(w).key
      /\ MaxKey(h, x) = Last(v).key
  BY DEF Size, MaxKey, Items
<1>4. KeysInOrder(h, x) => KeysInOrder(g, x)
  <2>. SUFFICES ASSUME InOrder(v) PROVE InOrder(w)
    BY DEF KeysInOrder
  <2>. HIDE DEF v, w
  <2>. QED
    BY <1>1, <1>2 DEF InOrder
<1>. HIDE DEF v, w
<1>5. v # <<>> => w # <<>> /\ Last(w).key = Last(v).key /\ Head(w).key = Head(v).key
  <2>. SUFFICES ASSUME v # <<>> PROVE w # <<>> /\ Last(w).key = Last(v).key /\ Head(w).key = Head(v).key
    OBVIOUS
  <2>1. w # <<>> /\ Len(v) \in 1 .. Len(v) /\ 1 \in 1 .. Len(v)
    BY <1>1, <1>2
  <2>2. Last(w) = w[Len(v)] /\ Last(v) = v[Len(v)] /\ Head(w) = w[1] /\ Head(v) = v[1]
    BY <1>1, <1>2, <2>1, Ends
  <2>. QED
    BY <1>1, <2>1, <2>2
<1>6. ASSUME NEW e \in ToSet(w)
      PROVE  \E d \in ToSet(v) : d.key = e.key
  <2>1. PICK q \in DOMAIN w : e = w[q]
    BY DEF ToSet
  <2>2. q \in 1 .. Len(v) /\ q \in DOMAIN v
    BY <1>1, <1>2, <2>1
  <2>3. v[q] \in ToSet(v) /\ v[q].key = e.key
    BY <1>1, <2>1, <2>2 DEF ToSet
  <2>. QED
    BY <2>3
<1>7. Size(g, x) = Size(h, x)
  BY <1>1, <1>3
<1>8. Items(h, x) # <<>> => /\ Items(g, x) # <<>> /\ MaxKey(g, x) = MaxKey(h, x)
                            /\ Head(Items(g, x)).key = Head(Items(h, x)).key
  BY <1>3, <1>5, Zenon DEF v, w
<1>9. \A e \in ToSet(Items(g, x)) : \E d \in ToSet(Items(h, x)) : d.key = e.key
  BY <1>6, Zenon DEF v, w
<1>. QED
  BY <1>1, <1>4, <1>7, <1>8, <1>9

\* Their rows are right if those of one are.
LEMMA RowAlike ==
  ASSUME NEW E, NEW h \in Seq(BTreeNode(E)), NEW g \in Seq(BTreeNode(E)), Alike(h, g),
         NEW S, NEW D, Row(h, S, D), Distinct(h, S), \A x \in D : Items(h, x) # <<>>
  PROVE  /\ Row(g, S, D) /\ Distinct(g, S)
         /\ Parented(h, S, D) /\ (\A x \in S : ~h[x].leaf) => Parented(g, S, D)
<1>1. /\ S \subseteq DOMAIN h /\ D \subseteq DOMAIN h /\ S \cap D = {}
      /\ \A x, y \in S : h[x].leaf = h[y].leaf
      /\ \A x \in S : RowNode(h, S, D, x)
  BY DEF Row
<1>2. /\ DOMAIN g = DOMAIN h
      /\ \A x \in DOMAIN h :
           /\ g[x].leaf = h[x].leaf /\ g[x].left = h[x].left /\ g[x].right = h[x].right
           /\ ~h[x].leaf => Items(g, x) = Items(h, x)
  BY DEF Alike
<1>3. \A x \in S \cup D :
        /\ Items(g, x) # <<>> /\ MaxKey(g, x) = MaxKey(h, x)
        /\ Head(Items(g, x)).key = Head(Items(h, x)).key
  <2>1. \A x \in S \cup D : x \in DOMAIN h /\ Items(h, x) # <<>>
    BY <1>1 DEF RowNode
  <2>. QED
    BY <2>1, AlikeNodes
<1>4. ASSUME NEW x \in S
      PROVE  RowNode(g, S, D, x)
  <2>1. /\ x \in DOMAIN h /\ KeysInOrder(h, x) /\ NeighboursInOrder(h, x)
        /\ h[x].left \in S \cup {None} /\ h[x].right \in S \cup {None}
        /\ ~h[x].leaf => Inner(h, Items(h, x), D) /\ CousinsLinked(h, x)
    BY <1>1 DEF RowNode
  <2>2. KeysInOrder(g, x)
    BY <2>1, AlikeNodes
  <2>3. \A y, z \in DOMAIN h : Adjacent(h, y, z) => Adjacent(g, y, z)
    BY <1>2 DEF Adjacent
  <2>4. NeighboursInOrder(g, x)
    <3>1. g[x].left = h[x].left /\ g[x].right = h[x].right
      BY <1>2, <2>1
    <3>2. h[x].left # None => Adjacent(g, h[x].left, x)
      BY <1>1, <2>1, <2>3 DEF NeighboursInOrder
    <3>3. h[x].right # None => Adjacent(g, x, h[x].right)
      BY <1>1, <2>1, <2>3 DEF NeighboursInOrder
    <3>4. h[x].right # None => MaxKey(g, x) < Head(Items(g, h[x].right)).key
      BY <1>3, <2>1 DEF NeighboursInOrder
    <3>. QED
      BY <3>1, <3>2, <3>3, <3>4 DEF NeighboursInOrder
  <2>5. ASSUME ~g[x].leaf
        PROVE  Inner(g, Items(g, x), D) /\ CousinsLinked(g, x)
    <3>. DEFINE s == Items(h, x)
    <3>1. Items(g, x) = s /\ Inner(h, s, D) /\ CousinsLinked(h, x)
      BY <1>2, <2>1, <2>5
    <3>2. s \in Seq(Entry(E)) /\ s # <<>>
      BY <1>1, NodeKeys
    <3>3. \A q \in 1 .. Len(s) : s[q].data \in D
      BY <3>1, <3>2 DEF Inner, ToSet
    <3>4. Exact(g, s)
      <4>1. Exact(h, s)
        BY <3>1 DEF Inner
      <4>. HIDE DEF s
      <4>. QED
        BY <1>3, <3>3, <4>1 DEF Exact
    <3>5. Chain(g, s)
      <4>1. Chain(h, s)
        BY <3>1 DEF Inner
      <4>2. \A q \in 2 .. Len(s) : s[q - 1].data \in DOMAIN h /\ s[q].data \in DOMAIN h
        <5>1. \A q \in 2 .. Len(s) : q - 1 \in 1 .. Len(s) /\ q \in 1 .. Len(s)
          BY <3>2
        <5>. HIDE DEF s
        <5>. QED
          BY <1>1, <3>3, <5>1
      <4>. HIDE DEF s
      <4>. QED
        BY <2>3, <4>1, <4>2 DEF Chain
    <3>6. Inner(g, s, D)
      BY <3>1, <3>4, <3>5 DEF Inner
    <3>7. CousinsLinked(g, x)
      <4>1. /\ g[x].left = h[x].left /\ g[x].right = h[x].right
            /\ h[x].right # None => h[x].right \in S
        BY <1>2, <2>1
      <4>2. Head(s).data \in D /\ Last(s).data \in D
        <5>. HIDE DEF s
        <5>1. Head(s) = s[1] /\ Last(s) = s[Len(s)] /\ 1 \in 1 .. Len(s) /\ Len(s) \in 1 .. Len(s)
          BY <3>2, Ends
        <5>. QED
          BY <3>3, <5>1
      <4>3. /\ g[Head(s).data].left = h[Head(s).data].left
            /\ g[Last(s).data].right = h[Last(s).data].right
        <5>. HIDE DEF s
        <5>. QED
          BY <1>1, <1>2, <4>2
      <4>4. CASE h[x].right = None
        <5>. HIDE DEF s
        <5>1. (h[x].left = None => h[Head(s).data].left = None) /\ h[Last(s).data].right = None
          BY <3>1, <4>4 DEF CousinsLinked, s
        <5>. QED
          BY <3>1, <4>1, <4>3, <4>4, <5>1 DEF CousinsLinked
      <4>5. CASE h[x].right # None
        <5>. DEFINE z == h[x].right
        <5>1. z \in S /\ z \in DOMAIN h /\ Items(g, z) = Items(h, z)
          BY <1>1, <1>2, <2>1, <2>5, <4>1, <4>5
        <5>2. Head(Items(h, z)).data \in DOMAIN h
          <6>1. ~h[z].leaf
            BY <1>1, <1>2, <2>1, <2>5, <5>1
          <6>2. Head(Items(h, z)).data \in D
            BY <5>1, <6>1, RowEnds
          <6>. QED
            BY <1>1, <6>2
        <5>3. Adjacent(h, Last(s).data, Head(Items(h, z)).data)
          BY <3>1, <4>5 DEF CousinsLinked
        <5>4. h[x].left = None => h[Head(s).data].left = None
          BY <3>1 DEF CousinsLinked
        <5>5. Adjacent(g, Last(s).data, Head(Items(h, z)).data)
          BY <1>1, <2>3, <4>2, <5>2, <5>3
        <5>. HIDE DEF s
        <5>. QED
          BY <3>1, <4>1, <4>3, <4>5, <5>1, <5>4, <5>5 DEF CousinsLinked
      <4>. QED
        BY <4>4, <4>5
    <3>. QED
      BY <3>1, <3>6, <3>7
  <2>. QED
    BY <1>2, <1>3, <2>1, <2>2, <2>4, <2>5 DEF RowNode
<1>5. Row(g, S, D)
  BY <1>1, <1>2, <1>4 DEF Row
<1>6. Distinct(g, S)
  <2>. SUFFICES ASSUME NEW x \in S, NEW y \in S, NEW e \in ToSet(Items(g, x)),
                       NEW f \in ToSet(Items(g, y)), e.key = f.key
                PROVE  x = y
    BY DEF Distinct
  <2>1. PICK d \in ToSet(Items(h, x)) : d.key = e.key
    BY <1>1, AlikeNodes
  <2>2. PICK c \in ToSet(Items(h, y)) : c.key = f.key
    BY <1>1, AlikeNodes
  <2>. QED
    BY <2>1, <2>2 DEF Distinct
<1>7. ASSUME Parented(h, S, D), \A x \in S : ~h[x].leaf
      PROVE  Parented(g, S, D)
  <2>1. \A x \in S : Items(g, x) = Items(h, x)
    BY <1>1, <1>2, <1>7
  <2>. QED
    BY <1>7, <2>1 DEF Parented, Child
<1>. QED
  BY <1>5, <1>6, <1>7

\* So is the tree.
LEMMA TreeAlike ==
  ASSUME NEW E, NEW h, NEW L, RootedTree(E, h, L), NEW g \in Seq(BTreeNode(E)), Alike(h, g)
  PROVE  RootedTree(E, g, L) /\ Size(g, m_root) = Size(h, m_root)
<1>1. /\ h \in Seq(BTreeNode(E)) /\ L \in Seq(SUBSET Nat) /\ TreeRight(h, L) /\ m_root \in DOMAIN h
      /\ Len(L) \in Nat /\ Rooted(L) /\ LoadsInTree(h, L)
  BY RowsFit DEF RootedTree
<1>2. ASSUME NEW j \in 1 .. Len(L)
      PROVE  RowRight(g, L, j)
  <2>1. Row(h, L[j], Beneath(L, j)) /\ Distinct(h, L[j]) /\ (j < Len(L) => InnerRow(h, L[j], L[j + 1]))
    BY <1>1, RightRow DEF TreeRight
  <2>2. \A x \in Beneath(L, j) : Items(h, x) # <<>>
    <3>1. CASE j < Len(L)
      <4>1. j + 1 \in 1 .. Len(L) /\ Beneath(L, j) = L[j + 1]
        BY <1>1, <3>1 DEF Beneath
      <4>. QED
        BY <4>1, KindsOfRows
    <3>2. CASE ~(j < Len(L))
      BY <3>2 DEF Beneath
    <3>. QED
      BY <3>1, <3>2
  <2>3. /\ Row(g, L[j], Beneath(L, j)) /\ Distinct(g, L[j])
        /\ Parented(h, L[j], Beneath(L, j)) /\ (\A x \in L[j] : ~h[x].leaf)
             => Parented(g, L[j], Beneath(L, j))
    BY <1>1, <2>1, <2>2, RowAlike
  <2>4. CASE j < Len(L)
    <3>1. Parented(h, L[j], L[j + 1]) /\ (\A x \in L[j] : ~h[x].leaf) /\ Beneath(L, j) = L[j + 1]
      BY <2>1, <2>4 DEF InnerRow, Beneath
    <3>2. \A x \in L[j] : ~g[x].leaf
      <4>1. \A x \in L[j] : x \in DOMAIN h
        BY <2>1 DEF Row
      <4>. QED
        BY <3>1, <4>1 DEF Alike
    <3>. QED
      BY <2>3, <2>4, <3>1, <3>2 DEF RowRight, InnerRow
  <2>5. CASE ~(j < Len(L))
    BY <2>3, <2>5 DEF RowRight, Beneath
  <2>. QED
    BY <2>4, <2>5
<1>3. TreeRight(g, L)
  BY <1>1, <1>2 DEF TreeRight
<1>4. ASSUME NEW j \in 2 .. Len(L)
      PROVE  LoadsRight(g, L[j])
  <2>1. LoadsRight(h, L[j]) /\ j \in 1 .. Len(L)
    BY <1>1 DEF LoadsInTree
  <2>2. \A x \in L[j] : Size(g, x) = Size(h, x)
    BY <1>1, <2>1, KindsOfRows, AlikeNodes
  <2>. QED
    BY <2>1, <2>2 DEF LoadsRight
<1>5. LoadsInTree(g, L)
  BY <1>4 DEF LoadsInTree
<1>. QED
  BY <1>1, <1>3, <1>5, AlikeNodes DEF RootedTree

-----------------------------------------------------------------------------
(* Storing. *)

\* What is known of the offsets and the blocks while the tree is stored.
IsSequence(d) == \E S : d \in Seq(S)
Storing(h, s) ==
  /\ DOMAIN s = {"todo", "offs", "disk"}
  /\ s.offs \in [DOMAIN h -> Int] /\ IsSequence(s.disk)

\* It stays so, whatever a block holds.
LEMMA BlockWritten ==
  ASSUME NEW h, NEW s, Storing(h, s), NEW todo, NEW n, NEW block
  PROVE  /\ Storing(h, [s EXCEPT !.todo = todo])
         /\ Storing(h, [s EXCEPT !.todo = todo, !.disk[s.offs[n]] = block])
         /\ Storing(h, [s EXCEPT !.todo = todo, !.offs[n] = Len(s.disk) + 1,
                                 !.disk = Append(@, block)])
<1>1. PICK S : s.disk \in Seq(S)
  BY DEF Storing, IsSequence
<1>2. s.offs \in [DOMAIN h -> Int] /\ DOMAIN s = {"todo", "offs", "disk"}
  BY DEF Storing
<1>3. Storing(h, [s EXCEPT !.todo = todo])
  BY <1>1, <1>2 DEF Storing, IsSequence
<1>4. ASSUME NEW offs \in [DOMAIN h -> Int], NEW d, IsSequence(d)
      PROVE  Storing(h, [s EXCEPT !.todo = todo, !.offs = offs, !.disk = d])
  <2>. DEFINE t == [s EXCEPT !.todo = todo, !.offs = offs, !.disk = d]
  <2>1. DOMAIN t = {"todo", "offs", "disk"} /\ t.offs = offs /\ t.disk = d
    BY <1>2
  <2>. HIDE DEF t
  <2>2. Storing(h, t)
    BY <1>4, <2>1 DEF Storing
  <2>. QED
    BY <2>2 DEF t
<1>5. IsSequence([s.disk EXCEPT ![s.offs[n]] = block])
  <2>. DEFINE d == s.disk
              g == [d EXCEPT ![s.offs[n]] = block]
  <2>0. d \in Seq(S)
    BY <1>1
  <2>1. g \in Seq(S \cup {block})
    <3>1. Len(d) \in Nat /\ DOMAIN d = 1 .. Len(d) /\ \A x \in DOMAIN d : d[x] \in S
      BY <2>0
    <3>2. DOMAIN g = DOMAIN d /\ g = [x \in DOMAIN d |-> g[x]]
      OBVIOUS
    <3>3. \A x \in DOMAIN d : g[x] = d[x] \/ g[x] = block
      OBVIOUS
    <3>. HIDE DEF d, g
    <3>4. g \in [1 .. Len(d) -> S \cup {block}]
      BY <3>1, <3>2, <3>3
    <3>. QED
      BY <3>1, <3>4
  <2>. QED
    BY <2>1 DEF IsSequence
<1>6. IsSequence(Append(s.disk, block))
  <2>1. Append(s.disk, block) \in Seq(S \cup {block})
    BY <1>1
  <2>. QED
    BY <2>1 DEF IsSequence
<1>7. [s.offs EXCEPT ![n] = Len(s.disk) + 1] \in [DOMAIN h -> Int]
  <2>1. Len(s.disk) + 1 \in Int
    BY <1>1
  <2>. QED
    BY <1>2, <2>1
<1>8. Storing(h, [s EXCEPT !.todo = todo, !.disk[s.offs[n]] = block])
  <2>1. [s EXCEPT !.todo = todo, !.disk[s.offs[n]] = block]
          = [s EXCEPT !.todo = todo, !.offs = s.offs, !.disk = [s.disk EXCEPT ![s.offs[n]] = block]]
    BY <1>2
  <2>2. Storing(h, [s EXCEPT !.todo = todo, !.offs = s.offs,
                             !.disk = [s.disk EXCEPT ![s.offs[n]] = block]])
    BY <1>2, <1>4, <1>5
  <2>. QED
    BY <2>1, <2>2
<1>9. Storing(h, [s EXCEPT !.todo = todo, !.offs[n] = Len(s.disk) + 1, !.disk = Append(@, block)])
  <2>1. [s EXCEPT !.todo = todo, !.offs[n] = Len(s.disk) + 1, !.disk = Append(@, block)]
          = [s EXCEPT !.todo = todo, !.offs = [s.offs EXCEPT ![n] = Len(s.disk) + 1],
                      !.disk = Append(s.disk, block)]
    BY <1>2
  <2>2. Storing(h, [s EXCEPT !.todo = todo, !.offs = [s.offs EXCEPT ![n] = Len(s.disk) + 1],
                             !.disk = Append(s.disk, block)])
    BY <1>4, <1>6, <1>7
  <2>. QED
    BY <2>1, <2>2
<1>. QED
  BY <1>3, <1>8, <1>9

\* So a step of storeSubtree keeps it.
LEMMA StepStores ==
  ASSUME NEW h, NEW s, Storing(h, s)
  PROVE  Storing(h, StoreStep(h, s))
<1>. DEFINE job == Head(s.todo)
            n == job.node
            begins == [i \in 1 .. Len(Children(h[n])) |-> Begin(Children(h[n])[i])]
            writes == <<Write(n, SiblingField(s.offs, h[n].left), SiblingField(s.offs, h[n].right))>>
            block ==
              [leaf |-> h[n].leaf, left |-> job.left, right |-> job.right,
               items |-> IF h[n].leaf THEN Items(h, n)
                         ELSE [i \in 1 .. Size(h, n) |->
                                 Item(Items(h, n)[i].key, s.offs[Items(h, n)[i].data])]]
            begun == [s EXCEPT !.todo = begins \o writes \o Tail(@)]
            again == [s EXCEPT !.todo = Tail(@), !.disk[s.offs[n]] = block]
            first == [s EXCEPT !.todo = Tail(@), !.offs[n] = Len(s.disk) + 1, !.disk = Append(@, block)]
<1>1. StoreStep(h, s) =
        IF s.todo = <<>> THEN s
        ELSE IF ~job.begun THEN begun
        ELSE IF s.offs[n] # NULL_OFFSET THEN again ELSE first
  BY Zenon DEF StoreStep
<1>. HIDE DEF job, n, begins, writes, block
<1>2. Storing(h, begun)
  BY Zenon, BlockWritten
<1>3. Storing(h, again)
  BY Zenon, BlockWritten
<1>4. Storing(h, first)
  BY Zenon, BlockWritten
<1>. HIDE DEF begun, again, first
<1>. QED
  BY <1>1, <1>2, <1>3, <1>4

\* The tree in memory is as before but for the offsets.
LEMMA StoredAlike ==
  ASSUME NEW E, NEW h \in Seq(BTreeNode(E)), NEW dsk, IsSequence(dsk), NEW t \in storeSubtree(h, dsk)
  PROVE  /\ t.heap \in Seq(BTreeNode(E)) /\ Alike(h, t.heap) /\ IsSequence(t.disk)
         /\ \A x \in DOMAIN h : Items(t.heap, x) = Items(h, x)
<1>1. Len(h) \in Nat /\ DOMAIN h = 1 .. Len(h)
  OBVIOUS
<1>2. PICK f : StoreSteps(h, dsk, f) /\ storeSubtree(h, dsk) = {Stored(h, s) : s \in f[2 * Len(h)]}
  BY <1>1, StoreRecursion
<1>3. PICK s \in f[2 * Len(h)] : t = Stored(h, s)
  BY <1>2
<1>. DEFINE T == {j \in 0 .. 2 * Len(h) : \E u \in f[j] : ~Storing(h, u)}
<1>4. \A j \in 0 .. 2 * Len(h) : f[j] = DoneAfter(h, dsk, j, f[j - 1])
  BY <1>2 DEF StoreSteps
<1>5. T = {}
  <2>. SUFFICES ASSUME T # {} PROVE FALSE
    OBVIOUS
  <2>1. PICK m \in T : \A j \in T : m <= j
    <3>1. T \in SUBSET Nat
      BY <1>1
    <3>. HIDE DEF T
    <3>. QED
      BY <3>1, HasLeast
  <2>2. m \in 0 .. 2 * Len(h) /\ f[m] = DoneAfter(h, dsk, m, f[m - 1])
    BY <1>4
  <2>3. PICK u \in f[m] : ~Storing(h, u)
    OBVIOUS
  <2>4. CASE m = 0
    <3>1. u = Begun(h, dsk)
      BY <2>2, <2>3, <2>4 DEF DoneAfter
    <3>2. ASSUME NEW n \in DOMAIN h PROVE h[n].off \in Int
      <4>1. h[n] \in BTreeNode(E)
        BY HeapNode
      <4>. QED
        BY <4>1 DEF BTreeNode
    <3>. QED
      BY <2>3, <3>1, <3>2 DEF Begun, Storing
  <2>5. CASE m # 0
    <3>1. m - 1 \in 0 .. 2 * Len(h) /\ m - 1 \notin T
      <4>1. m - 1 \in 0 .. 2 * Len(h) /\ m \in Nat /\ m > m - 1
        BY <1>1, <2>2, <2>5
      <4>. HIDE DEF T
      <4>. QED
        BY <2>1, <4>1
    <3>2. PICK w \in f[m - 1] : u = StoreStep(h, w)
      BY <2>2, <2>3, <2>5 DEF DoneAfter
    <3>3. Storing(h, w)
      BY <3>1, <3>2
    <3>. QED
      BY <2>3, <3>2, <3>3, StepStores
  <2>. QED
    BY <2>4, <2>5
<1>6. Storing(h, s)
  <2>1. 2 * Len(h) \in 0 .. 2 * Len(h)
    BY <1>1
  <2>. QED
    BY <1>3, <1>5, <2>1
<1>. DEFINE g == [n \in DOMAIN h |-> [h[n] EXCEPT !.off = s.offs[n]]]
<1>7. t.heap = g /\ t.disk = s.disk
  BY <1>3 DEF Stored
<1>8. ASSUME NEW x \in DOMAIN h
      PROVE  /\ g[x] \in BTreeNode(E) /\ g[x].items = h[x].items /\ g[x].leaf = h[x].leaf
             /\ g[x].left = h[x].left /\ g[x].right = h[x].right
  <2>1. g[x] = [h[x] EXCEPT !.off = s.offs[x]]
    OBVIOUS
  <2>2. h[x] \in BTreeNode(E) /\ s.offs[x] \in Int
    BY <1>6 DEF Storing
  <2>. HIDE DEF g
  <2>. QED
    BY <2>1, <2>2 DEF BTreeNode
<1>9. DOMAIN g = 1 .. Len(h)
  OBVIOUS
<1>. HIDE DEF g
<1>10. g \in Seq(BTreeNode(E))
  <2>1. g \in [1 .. Len(h) -> BTreeNode(E)]
    <3>1. g = [x \in 1 .. Len(h) |-> g[x]]
      BY <1>1 DEF g
    <3>. QED
      BY <1>1, <1>8, <3>1
  <2>. QED
    BY <1>1, <2>1
<1>11. \A x \in DOMAIN h : Items(g, x) = Items(h, x)
  BY <1>8 DEF Items
<1>12. Alike(h, g)
  BY <1>1, <1>8, <1>9, <1>11 DEF Alike
<1>. QED
  BY <1>6, <1>7, <1>10, <1>11, <1>12 DEF Storing

-----------------------------------------------------------------------------
(* A record that gets other data. *)
WithRecord(v, i, d) == [v EXCEPT ![i].data = d]

\* The data of one item is replaced.
LEMMA DataWritten ==
  ASSUME NEW E, NEW v \in Seq(Entry(E)), NEW i \in 1 .. Len(v), NEW d \in E,
         NEW w, w = WithRecord(v, i, d)
  PROVE  /\ w \in Seq(Entry(E)) /\ Len(w) = Len(v) /\ w[i] = Item(v[i].key, d)
         /\ \A j \in 1 .. Len(v) : w[j].key = v[j].key /\ (j # i => w[j] = v[j])
<1>1. v[i] \in Entry(E)
  OBVIOUS
<1>. DEFINE e == [v[i] EXCEPT !.data = d]
<1>2. e \in Entry(E) /\ e.key = v[i].key /\ e = Item(v[i].key, d)
  BY <1>1 DEF Entry, Item
<1>3. w = [v EXCEPT ![i] = e]
  BY DEF WithRecord
<1>. HIDE DEF e
<1>4. /\ w \in Seq(Entry(E)) /\ Len(w) = Len(v) /\ w[i] = e
      /\ \A j \in 1 .. Len(v) : j # i => w[j] = v[j]
  BY <1>2, <1>3
<1>. QED
  BY <1>2, <1>4

\* A leaf in whose item i other data was written (updateValue).
Rewritten(h, n, i, d) == [h EXCEPT ![n].items[i].data = d]
LEMMA RecordWritten ==
  ASSUME NEW E, NEW h, NEW L, RootedTree(E, h, L), NEW n \in L[Len(L)], NEW i \in 1 .. Size(h, n),
         NEW d \in E, NEW g, g = Rewritten(h, n, i, d),
         NEW k, k = Items(h, n)[i].key
  PROVE  /\ g \in Seq(BTreeNode(E)) /\ Alike(h, g)
         /\ \A e : e \in Records(g, L) <=>
                     e = Item(k, d) \/ (e \in Records(h, L) /\ e.key # k)
<1>. DEFINE v == Items(h, n)
            w == WithRecord(v, i, d)
<1>1. /\ h \in Seq(BTreeNode(E)) /\ Len(L) \in 1 .. Len(L) /\ TreeRight(h, L)
  BY RowsFit DEF RootedTree
<1>2. n \in DOMAIN h /\ v \in Seq(Entry(E)) /\ InOrder(v) /\ h[n].leaf
  BY <1>1, KindsOfRows
<1>3. i \in 1 .. Len(v) /\ k = v[i].key
  BY DEF Size, Items
<1>4. /\ w \in Seq(Entry(E)) /\ Len(w) = Len(v) /\ w[i] = Item(k, d)
      /\ \A j \in 1 .. Len(v) : w[j].key = v[j].key /\ (j # i => w[j] = v[j])
  <2>. HIDE DEF v
  <2>. QED
    BY <1>2, <1>3, DataWritten
<1>5. g = WithItems(h, n, w)
  BY DEF Rewritten, WithItems, WithRecord, Items
<1>. HIDE DEF w
<1>6. /\ g \in Seq(BTreeNode(E)) /\ DOMAIN g = DOMAIN h /\ Items(g, n) = w
      /\ g[n].left = h[n].left /\ g[n].right = h[n].right /\ g[n].leaf = h[n].leaf
      /\ \A x \in DOMAIN h : x # n => g[x] = h[x]
  <2>1. h \in Seq(BTreeNode(E)) /\ n \in DOMAIN h /\ w \in Seq(Entry(E)) /\ g = WithItems(h, n, w)
    BY <1>1, <1>2, <1>4, <1>5
  <2>. QED
    BY <2>1, ItemsWritten
<1>7. \A x \in DOMAIN h : x # n => Items(g, x) = Items(h, x)
  BY <1>6 DEF Items
<1>8. Alike(h, g)
  <2>. SUFFICES ASSUME NEW x \in DOMAIN h
                PROVE  /\ g[x].leaf = h[x].leaf /\ g[x].left = h[x].left /\ g[x].right = h[x].right
                       /\ Len(Items(g, x)) = Len(Items(h, x))
                       /\ \A q \in 1 .. Len(Items(h, x)) : Items(g, x)[q].key = Items(h, x)[q].key
                       /\ ~h[x].leaf => Items(g, x) = Items(h, x)
    BY <1>6 DEF Alike
  <2>1. CASE x = n
    BY <1>2, <1>4, <1>6, <2>1
  <2>2. CASE x # n
    BY <1>6, <1>7, <2>2
  <2>. QED
    BY <2>1, <2>2
<1>. HIDE DEF v
<1>9. ToSet(v) = {v[q] : q \in 1 .. Len(v)} /\ ToSet(w) = {w[q] : q \in 1 .. Len(v)}
  <2>1. DOMAIN v = 1 .. Len(v) /\ DOMAIN w = 1 .. Len(v)
    BY <1>2, <1>4
  <2>. QED
    BY <2>1, Zenon DEF ToSet
<1>10. ASSUME NEW q \in 1 .. Len(v)
       PROVE  v[q].key = k <=> q = i
  <2>1. v[q] \in Entry(E) /\ v[i] \in Entry(E)
    BY <1>2, <1>3
  <2>2. v[q].key \in Nat /\ v[i].key \in Nat
    BY <2>1 DEF Entry
  <2>3. (q < i => v[q].key < v[i].key) /\ (i < q => v[i].key < v[q].key)
    BY <1>2, <1>3 DEF InOrder
  <2>. QED
    BY <1>2, <1>3, <2>2, <2>3
<1>11. \A e : e \in ToSet(w) <=> e = Item(k, d) \/ (e \in ToSet(v) /\ e.key # k)
  <2>1. Item(k, d).key = k
    BY DEF Item
  <2>2. ASSUME NEW e \in ToSet(w) PROVE e = Item(k, d) \/ (e \in ToSet(v) /\ e.key # k)
    <3>1. PICK q \in 1 .. Len(v) : e = w[q]
      BY <1>9
    <3>. QED
      BY <1>4, <1>9, <1>10, <3>1
  <2>3. ASSUME NEW e \in ToSet(v), e.key # k PROVE e \in ToSet(w)
    <3>1. PICK q \in 1 .. Len(v) : e = v[q]
      BY <1>9
    <3>. QED
      BY <1>4, <1>9, <1>10, <2>3, <3>1
  <2>4. Item(k, d) \in ToSet(w)
    <3>1. w[i] \in {w[q] : q \in 1 .. Len(v)}
      BY <1>3
    <3>. QED
      BY <1>4, <1>9, <3>1
  <2>. QED
    BY <2>2, <2>3, <2>4
<1>12. ASSUME NEW x \in L[Len(L)], x # n
       PROVE  Items(g, x) = Items(h, x) /\ \A e \in ToSet(Items(h, x)) : e.key # k
  <2>1. Items(g, x) = Items(h, x)
    BY <1>1, <1>7, <1>12, KindsOfRows
  <2>2. Distinct(h, L[Len(L)])
    BY <1>1, RightRow DEF TreeRight
  <2>3. v[i] \in ToSet(v) /\ v[i].key = k
    BY <1>3, <1>9
  <2>4. \A e \in ToSet(Items(h, x)) : e.key # k
    BY <1>12, <2>2, <2>3 DEF Distinct, v
  <2>. QED
    BY <2>1, <2>4
<1>13. ASSUME NEW e
       PROVE  e \in Records(g, L) <=> e = Item(k, d) \/ (e \in Records(h, L) /\ e.key # k)
  <2>1. \A x \in L[Len(L)] : e \in ToSet(Items(g, x)) <=>
          IF x = n THEN e = Item(k, d) \/ (e \in ToSet(Items(h, x)) /\ e.key # k)
          ELSE e \in ToSet(Items(h, x)) /\ e.key # k
    BY <1>6, <1>11, <1>12 DEF v
  <2>2. /\ e \in Records(g, L) <=> \E x \in L[Len(L)] : e \in ToSet(Items(g, x))
        /\ e \in Records(h, L) <=> \E x \in L[Len(L)] : e \in ToSet(Items(h, x))
    BY DEF Records, Held
  <2>. QED
    BY <2>1, <2>2
<1>. QED
  BY <1>6, <1>8, <1>13

-----------------------------------------------------------------------------
(* The map that a tree holds. *)

\* What is at the keys: nodes, or records.
Data == Nat \cup [path : Paths, val : Values]

\* A finite map from paths to values, and its records.
IsMap(m) == DOMAIN m \subseteq Paths /\ IsFiniteSet(DOMAIN m) /\ m \in [DOMAIN m -> Values]
RecordOf(p, v) == Item(Hash[p], DataRecord(p, v))
RecordsOf(m) == {RecordOf(p, m[p]) : p \in DOMAIN m}

\* The tree with the rows L has those records, and the root as many items as it may have.
TreeOf(h, L, m) ==
  RootedTree(Data, h, L) /\ Size(h, m_root) <= MaxLoad /\ Records(h, L) = RecordsOf(m)
Holds(h, m) == IsMap(m) /\ ((DOMAIN m = {} /\ Bare(Data, h)) \/ \E L : TreeOf(h, L, m))

With(m, p, v) == [q \in DOMAIN m \cup {p} |-> IF q = p THEN v ELSE m[q]]
Without(m, p) == [q \in DOMAIN m \ {p} |-> m[q]]

\* No two paths have the same hash.
HashesDiffer == \A p, q \in Paths : Hash[p] = Hash[q] => p = q

\* What is in a record.
LEMMA RecordParts ==
  ASSUME NEW p, NEW v
  PROVE  /\ RecordOf(p, v).key = Hash[p] /\ RecordOf(p, v).data = DataRecord(p, v)
         /\ RecordOf(p, v).data.path = p /\ RecordOf(p, v).data.val = v
BY DEF RecordOf, Item, DataRecord

\* It may be an item of a leaf.
LEMMA RecordIsEntry ==
  ASSUME NEW p \in Paths, NEW v \in Values
  PROVE  RecordOf(p, v) \in Entry(Data) /\ DataRecord(p, v) \in Data /\ Hash[p] \in Nat
<1>1. Hash[p] \in Nat
  BY TreeAssumption
<1>2. DataRecord(p, v) \in Data
  BY DEF Data, DataRecord
<1>. QED
  BY <1>1, <1>2 DEF Entry, RecordOf, Item

\* The records of a map with one more path, or one path less.
LEMMA RecordsChanged ==
  ASSUME HashesDiffer, NEW m, IsMap(m), NEW p \in Paths, NEW v \in Values
  PROVE  /\ IsMap(With(m, p, v)) /\ IsMap(Without(m, p))
         /\ \A e : e \in RecordsOf(With(m, p, v)) <=>
                     e = RecordOf(p, v) \/ (e \in RecordsOf(m) /\ e.key # Hash[p])
         /\ \A e : e \in RecordsOf(Without(m, p)) <=> e \in RecordsOf(m) /\ e.key # Hash[p]
         /\ \A e \in RecordsOf(m) :
              e.key = Hash[p] <=> p \in DOMAIN m /\ e = RecordOf(p, m[p])
<1>1. DOMAIN m \subseteq Paths /\ IsFiniteSet(DOMAIN m) /\ m \in [DOMAIN m -> Values]
  BY DEF IsMap
<1>2. /\ DOMAIN With(m, p, v) = DOMAIN m \cup {p}
      /\ \A q \in DOMAIN m \cup {p} : With(m, p, v)[q] = IF q = p THEN v ELSE m[q]
      /\ With(m, p, v) \in [DOMAIN m \cup {p} -> Values]
  BY <1>1 DEF With
<1>3. /\ DOMAIN Without(m, p) = DOMAIN m \ {p}
      /\ \A q \in DOMAIN m \ {p} : Without(m, p)[q] = m[q]
      /\ Without(m, p) \in [DOMAIN m \ {p} -> Values]
  BY <1>1 DEF Without
<1>4. IsMap(With(m, p, v))
  <2>1. IsFiniteSet(DOMAIN m \cup {p})
    BY <1>1, FS_AddElement
  <2>. QED
    BY <1>1, <1>2, <2>1 DEF IsMap
<1>5. IsMap(Without(m, p))
  <2>1. IsFiniteSet(DOMAIN m \ {p})
    BY <1>1, FS_Subset
  <2>. QED
    BY <1>1, <1>3, <2>1 DEF IsMap
<1>6. \A q \in DOMAIN m : Hash[q] = Hash[p] <=> q = p
  BY <1>1 DEF HashesDiffer
<1>7. ASSUME NEW e
      PROVE  e \in RecordsOf(With(m, p, v)) <=>
               e = RecordOf(p, v) \/ (e \in RecordsOf(m) /\ e.key # Hash[p])
  <2>1. e \in RecordsOf(With(m, p, v)) <=>
          \E q \in DOMAIN m \cup {p} : e = RecordOf(q, IF q = p THEN v ELSE m[q])
    BY <1>2 DEF RecordsOf
  <2>2. e \in RecordsOf(m) <=> \E q \in DOMAIN m : e = RecordOf(q, m[q])
    BY DEF RecordsOf
  <2>3. \A q, x : RecordOf(q, x).key = Hash[q]
    BY RecordParts
  <2>. QED
    BY <1>6, <2>1, <2>2, <2>3
<1>8. ASSUME NEW e
      PROVE  e \in RecordsOf(Without(m, p)) <=> e \in RecordsOf(m) /\ e.key # Hash[p]
  <2>1. e \in RecordsOf(Without(m, p)) <=> \E q \in DOMAIN m \ {p} : e = RecordOf(q, m[q])
    BY <1>3 DEF RecordsOf
  <2>2. e \in RecordsOf(m) <=> \E q \in DOMAIN m : e = RecordOf(q, m[q])
    BY DEF RecordsOf
  <2>3. \A q, x : RecordOf(q, x).key = Hash[q]
    BY RecordParts
  <2>. QED
    BY <1>6, <2>1, <2>2, <2>3
<1>9. ASSUME NEW e \in RecordsOf(m)
      PROVE  e.key = Hash[p] <=> p \in DOMAIN m /\ e = RecordOf(p, m[p])
  <2>1. PICK q \in DOMAIN m : e = RecordOf(q, m[q])
    BY DEF RecordsOf
  <2>2. \A x, y : RecordOf(x, y).key = Hash[x]
    BY RecordParts
  <2>. QED
    BY <1>6, <2>1, <2>2
<1>. QED
  BY <1>4, <1>5, <1>7, <1>8, <1>9

\* A path of the map is found, in a leaf.
LEMMA FindsHeld ==
  ASSUME NEW h, NEW m, Holds(h, m), NEW p \in DOMAIN m
  PROVE  \E L : /\ TreeOf(h, L, m)
                /\ \E n \in L[Len(L)] : \E i \in 1 .. Size(h, n) :
                     /\ Find(h, p) = [result |-> "found", node |-> n, at |-> i]
                     /\ Items(h, n)[i] = RecordOf(p, m[p])
<1>1. PICK L : TreeOf(h, L, m)
  BY DEF Holds
<1>. DEFINE e == RecordOf(p, m[p])
            n == getChildWithKey(h, m_root, Hash[p])
<1>2. RootedTree(Data, h, L) /\ h \in Seq(BTreeNode(Data)) /\ p \in Paths /\ m[p] \in Values
  BY <1>1 DEF TreeOf, RootedTree, Holds, IsMap
<1>3. e \in Records(h, L) /\ e.key = Hash[p] /\ e.data.path = p /\ Hash[p] \in Nat
  BY <1>1, <1>2, RecordParts, RecordIsEntry DEF TreeOf, RecordsOf
<1>. HIDE DEF e
<1>4. /\ n \in L[Len(L)] /\ n \in DOMAIN h /\ n # None /\ e \in ToSet(Items(h, n))
      /\ KeysInOrder(h, n)
  BY <1>2, <1>3, RecordThere
<1>5. Find(h, p) = FindFrom(h, p)[n]
  BY <1>4 DEF Find
<1>. HIDE DEF n
<1>6. \E i \in 1 .. Size(h, n) :
        FindFrom(h, p)[n] = [result |-> "found", node |-> n, at |-> i] /\ Items(h, n)[i] = e
  <2>1. /\ h \in Seq(BTreeNode(Data)) /\ n \in DOMAIN h /\ KeysInOrder(h, n)
        /\ e \in ToSet(Items(h, n)) /\ e.key = Hash[p] /\ e.data.path = p /\ Hash[p] \in Nat
    BY <1>2, <1>3, <1>4
  <2>. QED
    BY <2>1, FoundFrom
<1>. QED
  BY <1>1, <1>4, <1>5, <1>6 DEF e

\* No other path is found, and none is taken out.
LEMMA MissesOther ==
  ASSUME HashesDiffer, NEW h, NEW m, Holds(h, m), NEW p \in Paths, p \notin DOMAIN m
  PROVE  /\ Find(h, p) = [result |-> "NoSuchPath"]
         /\ internalRemoveData(h, m_root, Hash[p], p) = Result(h, "NoSuchPath", Nothing)
<1>. DEFINE k == Hash[p]
            n == getChildWithKey(h, m_root, k)
            t == internalRemoveData(h, m_root, k, p)
<1>1. k \in Nat /\ IsMap(m)
  BY TreeAssumption DEF Holds
<1>2. Find(h, p) = IF n = None THEN [result |-> "NoSuchPath"] ELSE FindFrom(h, p)[n]
  BY DEF Find
<1>3. CASE \E L : TreeOf(h, L, m)
  <2>1. PICK L : TreeOf(h, L, m)
    BY <1>3
  <2>2. RootedTree(Data, h, L) /\ Records(h, L) = RecordsOf(m)
    BY <2>1 DEF TreeOf
  <2>3. \A d \in Records(h, L) : d.key # k
    <3>. SUFFICES ASSUME NEW d \in RecordsOf(m) PROVE d.key # Hash[p]
      BY <2>2
    <3>1. PICK q \in DOMAIN m : d = RecordOf(q, m[q])
      BY DEF RecordsOf
    <3>2. q \in Paths /\ d.key = Hash[q]
      BY <1>1, <3>1, RecordParts DEF IsMap
    <3>. QED
      BY <3>2 DEF HashesDiffer
  <2>4. /\ n = None \/ (n \in DOMAIN h /\ FirstWithKey(Items(h, n), k) = 0)
        /\ t = Result(h, "NoSuchPath", Nothing)
    BY <1>1, <2>2, <2>3, KeyNotThere
  <2>. HIDE DEF n
  <2>5. n # None => FindFrom(h, p)[n] = [result |-> "NoSuchPath"]
    BY <2>4, MissedFrom
  <2>. QED
    BY <1>2, <2>4, <2>5
<1>4. CASE Bare(Data, h)
  <2>1. /\ h \in Seq(BTreeNode(Data)) /\ m_root \in DOMAIN h /\ h[m_root].leaf
        /\ Items(h, m_root) = <<>> /\ Len(h) \in Nat
    BY <1>4 DEF Bare
  <2>2. LowerBound(<<>>, k) > 0
    <3>. DEFINE s == <<>>
    <3>1. s \in Seq(Entry(Data)) /\ InOrder(s) /\ Len(s) = 0
      BY DEF InOrder
    <3>2. LowerBound(s, k) \in 1 .. Len(s) + 1
      BY <1>1, <3>1, LowerBoundProperties
    <3>. QED
      BY <3>1, <3>2
  <2>3. n = None
    <3>1. LowerBound(Items(h, m_root), k) > Size(h, m_root)
      BY <2>1, <2>2 DEF Size, Items
    <3>. QED
      BY <2>1, <3>1, RunsOffRoot
  <2>4. t = RemoveFromLeaf(h, m_root, k, p)
    BY <2>1, RootIsLeaf
  <2>5. RemoveFromLeaf(h, m_root, k, p) = Result(h, "NoSuchPath", Nothing)
    <3>1. Items(h, m_root) \in Seq(Entry(Data)) /\ \A d \in ToSet(Items(h, m_root)) : d.key # k
      BY <2>1, NoneInEmpty
    <3>. QED
      BY <3>1, LeafMisses
  <2>. QED
    BY <1>2, <2>3, <2>4, <2>5
<1>. QED
  BY <1>3, <1>4 DEF Holds

\* What getValue answers.
LEMMA ReadsMap ==
  ASSUME HashesDiffer, NEW h, NEW m, Holds(h, m)
  PROVE  getValue(h) = [p \in DOMAIN m |-> Padded[m[p]]]
<1>1. DOMAIN m \subseteq Paths
  BY DEF Holds, IsMap
<1>2. ASSUME NEW p \in DOMAIN m
      PROVE  isExist(h, p) /\ Items(h, Find(h, p).node)[Find(h, p).at].data.val = m[p]
  <2>1. PICK n, i : /\ Find(h, p) = [result |-> "found", node |-> n, at |-> i]
                    /\ Items(h, n)[i] = RecordOf(p, m[p])
    BY FindsHeld
  <2>. QED
    BY <2>1, RecordParts DEF isExist
<1>3. \A p \in Paths : p \notin DOMAIN m => ~isExist(h, p)
  BY MissesOther DEF isExist
<1>4. {q \in Paths : isExist(h, q)} = DOMAIN m
  BY <1>1, <1>2, <1>3
<1>5. getValue(h) = [p \in DOMAIN m |-> Padded[Items(h, Find(h, p).node)[Find(h, p).at].data.val]]
  BY <1>4 DEF getValue
<1>. QED
  BY <1>2, <1>5

\* addData of a path the map does not have.
LEMMA AddHolds ==
  ASSUME HashesDiffer, NEW h, NEW m, Holds(h, m), NEW p \in Paths, p \notin DOMAIN m, NEW v \in Values,
         NEW e, e = RecordOf(p, v)
  PROVE  Holds(addData(h, e), With(m, p, v))
<1>. DEFINE f == addData(h, e)
<1>1. IsMap(m) /\ IsMap(With(m, p, v)) /\ e \in Entry(Data) /\ e.key = Hash[p]
  BY RecordsChanged, RecordIsEntry, RecordParts DEF Holds
<1>2. /\ \A d : d \in RecordsOf(With(m, p, v)) <=> d = e \/ (d \in RecordsOf(m) /\ d.key # Hash[p])
      /\ \A d \in RecordsOf(m) : d.key # Hash[p]
  BY <1>1, RecordsChanged
<1>3. RecordsOf(With(m, p, v)) = RecordsOf(m) \cup {e}
  BY <1>2
<1>4. f = AddedInTree(internalAddData(h, m_root, e))
  BY DEF addData
<1>5. CASE \E L : TreeOf(h, L, m)
  <2>1. PICK L : TreeOf(h, L, m)
    BY <1>5
  <2>2. RootedTree(Data, h, L) /\ Size(h, m_root) <= MaxLoad /\ Records(h, L) = RecordsOf(m)
    BY <2>1 DEF TreeOf
  <2>3. NewRecord(Data, h, L, e) /\ Nat \subseteq Data
    BY <1>1, <1>2, <2>2 DEF NewRecord, Data
  <2>4. PICK q, i, r : AdditionAlong(h, L, q, i, e, r) /\ internalAddData(h, m_root, e) = r[1]
    BY <1>1, <2>2, AddFollowsWay
  <2>5. PICK M : /\ RootedTree(Data, f, M) /\ Size(f, m_root) <= MaxLoad
                 /\ Records(f, M) = RecordsAnd(h, L, e)
    BY <1>4, <2>2, <2>3, <2>4, AdditionKeepsTree
  <2>6. Records(f, M) = RecordsOf(With(m, p, v))
    BY <1>3, <2>2, <2>5 DEF RecordsAnd
  <2>. QED
    BY <1>1, <2>5, <2>6 DEF Holds, TreeOf
<1>6. CASE DOMAIN m = {} /\ Bare(Data, h)
  <2>1. Len(h) \in Nat /\ m_root \in DOMAIN h /\ h[m_root].leaf
    BY <1>6 DEF Bare
  <2>2. f = AddedInTree(AddToLeaf(h, m_root, e))
    BY <1>4, <2>1, RootIsLeaf
  <2>3. RootedTree(Data, f, OneRow) /\ Records(f, OneRow) = {e} /\ Size(f, m_root) = 1
    BY <1>1, <1>6, <2>2, FirstAdditionMakesTree
  <2>4. Size(f, m_root) <= MaxLoad
    BY <2>3, LoadAssumption
  <2>5. RecordsOf(m) = {}
    BY <1>6 DEF RecordsOf
  <2>. QED
    BY <1>1, <1>3, <2>3, <2>4, <2>5 DEF Holds, TreeOf
<1>. QED
  BY <1>5, <1>6 DEF Holds

\* No addition fails: a root without items is a leaf.
LEMMA RootTakesItems ==
  ASSUME NEW h, NEW m, Holds(h, m)
  PROVE  ~(h[m_root].items = <<>> /\ ~h[m_root].leaf)
<1>1. CASE \E L : TreeOf(h, L, m)
  <2>1. PICK L : RootedTree(Data, h, L)
    BY <1>1 DEF TreeOf
  <2>2. 1 \in 1 .. Len(L) /\ m_root \in L[1] /\ TreeRight(h, L) /\ h \in Seq(BTreeNode(Data))
    BY <2>1, RowsFit DEF RootedTree, Rooted
  <2>. HIDE DEF m_root
  <2>3. Items(h, m_root) # <<>>
    BY <2>1, <2>2, KindsOfRows
  <2>. QED
    BY <2>3 DEF Items
<1>2. CASE Bare(Data, h)
  BY <1>2 DEF Bare
<1>. QED
  BY <1>1, <1>2 DEF Holds

\* removeValue of a path of the map.
LEMMA RemoveHolds ==
  ASSUME HashesDiffer, NEW h, NEW m, Holds(h, m), NEW p \in DOMAIN m,
         NEW t, t = internalRemoveData(h, m_root, Hash[p], p)
  PROVE  /\ t.status \in {"OK", "REMOVED"} /\ t.gone = <<DataRecord(p, m[p])>>
         /\ Holds(t.heap, Without(m, p))
<1>. DEFINE e == RecordOf(p, m[p])
<1>1. IsMap(m) /\ p \in Paths /\ m[p] \in Values
  BY DEF Holds, IsMap
<1>2. IsMap(Without(m, p)) /\ RecordsOf(Without(m, p)) = RecordsOf(m) \ {e}
  <2>1. /\ IsMap(Without(m, p))
        /\ \A d : d \in RecordsOf(Without(m, p)) <=> d \in RecordsOf(m) /\ d.key # Hash[p]
        /\ \A d \in RecordsOf(m) : d.key = Hash[p] <=> p \in DOMAIN m /\ d = e
    BY <1>1, RecordsChanged
  <2>. HIDE DEF e
  <2>. QED
    BY <2>1
<1>3. e \in RecordsOf(m) /\ e.key = Hash[p] /\ e.data = DataRecord(p, m[p]) /\ e.data.path = p
  BY RecordParts DEF RecordsOf
<1>. HIDE DEF e
<1>4. PICK L : TreeOf(h, L, m)
  BY DEF Holds
<1>5. \/ RemovedFrom(Data, h, L, e, t)
      \/ t.status = "REMOVED" /\ t.gone = <<e.data>> /\ Records(h, L) = {e} /\ Bare(Data, t.heap)
  <2>1. RootedTree(Data, h, L) /\ Size(h, m_root) <= MaxLoad /\ e \in Records(h, L)
    BY <1>3, <1>4 DEF TreeOf
  <2>. QED
    BY <1>3, <2>1, RecordTakenOut
<1>6. CASE RemovedFrom(Data, h, L, e, t)
  <2>1. PICK M : RootedTree(Data, t.heap, M) /\ Records(t.heap, M) = RecordsBut(h, L, e)
    BY <1>6 DEF RemovedFrom
  <2>2. TreeOf(t.heap, M, Without(m, p))
    BY <1>2, <1>4, <1>6, <2>1 DEF TreeOf, RemovedFrom, RecordsBut
  <2>. QED
    BY <1>2, <1>3, <1>6, <2>2 DEF Holds, RemovedFrom
<1>7. CASE t.status = "REMOVED" /\ t.gone = <<e.data>> /\ Records(h, L) = {e} /\ Bare(Data, t.heap)
  <2>1. RecordsOf(Without(m, p)) = {}
    BY <1>2, <1>4, <1>7 DEF TreeOf
  <2>2. DOMAIN Without(m, p) = {}
    BY <2>1 DEF RecordsOf
  <2>. QED
    BY <1>2, <1>3, <1>7, <2>2 DEF Holds
<1>. QED
  BY <1>5, <1>6, <1>7

\* updateValue of a path of the map.
LEMMA UpdateHolds ==
  ASSUME HashesDiffer, NEW h, NEW m, Holds(h, m), NEW p \in DOMAIN m, NEW v \in Values,
         NEW f, f = Find(h, p)
  PROVE  /\ Items(h, f.node)[f.at].data.val = m[p]
         /\ Holds(Rewritten(h, f.node, f.at, DataRecord(p, v)), With(m, p, v))
<1>1. IsMap(m) /\ p \in Paths /\ m[p] \in Values
  BY DEF Holds, IsMap
<1>2. PICK L : /\ TreeOf(h, L, m)
               /\ \E n \in L[Len(L)] : \E i \in 1 .. Size(h, n) :
                    /\ f = [result |-> "found", node |-> n, at |-> i]
                    /\ Items(h, n)[i] = RecordOf(p, m[p])
  BY FindsHeld
<1>3. PICK n, i : /\ n \in L[Len(L)] /\ i \in 1 .. Size(h, n)
                  /\ f = [result |-> "found", node |-> n, at |-> i]
                  /\ Items(h, n)[i] = RecordOf(p, m[p])
  BY <1>2
<1>4. Items(h, n)[i].key = Hash[p] /\ Items(h, n)[i].data.val = m[p]
  BY <1>3, RecordParts
<1>5. DataRecord(p, v) \in Data /\ RecordOf(p, v) = Item(Hash[p], DataRecord(p, v))
  BY <1>1, RecordIsEntry DEF RecordOf
<1>. DEFINE g == Rewritten(h, n, i, DataRecord(p, v))
<1>6. /\ RootedTree(Data, h, L) /\ Size(h, m_root) <= MaxLoad /\ Records(h, L) = RecordsOf(m)
  BY <1>2 DEF TreeOf
<1>7. /\ g \in Seq(BTreeNode(Data)) /\ Alike(h, g)
      /\ \A e : e \in Records(g, L) <=>
                  e = RecordOf(p, v) \/ (e \in Records(h, L) /\ e.key # Hash[p])
  BY <1>3, <1>4, <1>5, <1>6, RecordWritten
<1>8. IsMap(With(m, p, v)) /\ Records(g, L) = RecordsOf(With(m, p, v))
  <2>1. /\ IsMap(With(m, p, v))
        /\ \A e : e \in RecordsOf(With(m, p, v)) <=>
                    e = RecordOf(p, v) \/ (e \in RecordsOf(m) /\ e.key # Hash[p])
    BY <1>1, RecordsChanged
  <2>. HIDE DEF g
  <2>. QED
    BY <1>6, <1>7, <2>1
<1>9. RootedTree(Data, g, L) /\ Size(g, m_root) = Size(h, m_root)
  BY <1>6, <1>7, TreeAlike
<1>10. Holds(g, With(m, p, v))
  <2>. HIDE DEF g
  <2>. QED
    BY <1>6, <1>8, <1>9 DEF Holds, TreeOf
<1>. QED
  BY <1>3, <1>4, <1>10

\* store(): neither the tree nor its records change.
LEMMA StoreHolds ==
  ASSUME NEW h, NEW m, Holds(h, m), NEW dsk, IsSequence(dsk), NEW t \in storeSubtree(h, dsk)
  PROVE  Holds(t.heap, m) /\ IsSequence(t.disk)
<1>1. h \in Seq(BTreeNode(Data)) /\ IsMap(m)
  BY DEF Holds, TreeOf, RootedTree, Bare
<1>2. /\ t.heap \in Seq(BTreeNode(Data)) /\ Alike(h, t.heap) /\ IsSequence(t.disk)
      /\ \A x \in DOMAIN h : Items(t.heap, x) = Items(h, x)
  BY <1>1, StoredAlike
<1>3. CASE \E L : TreeOf(h, L, m)
  <2>1. PICK L : TreeOf(h, L, m)
    BY <1>3
  <2>2. RootedTree(Data, h, L) /\ TreeRight(h, L) /\ Len(L) \in 1 .. Len(L)
    BY <2>1, RowsFit DEF TreeOf, RootedTree
  <2>3. RootedTree(Data, t.heap, L) /\ Size(t.heap, m_root) = Size(h, m_root)
    BY <1>2, <2>2, TreeAlike
  <2>4. \A x \in L[Len(L)] : x \in DOMAIN h
    BY <1>1, <2>2, KindsOfRows
  <2>5. Records(t.heap, L) = Records(h, L)
    BY <1>2, <2>4, HeldSame DEF Records, Held
  <2>. QED
    BY <1>1, <1>2, <2>1, <2>3, <2>5 DEF Holds, TreeOf
<1>4. CASE DOMAIN m = {} /\ Bare(Data, h)
  <2>1. Bare(Data, t.heap)
    BY <1>2, <1>4 DEF Bare, Alike
  <2>. QED
    BY <1>1, <1>2, <1>4, <2>1 DEF Holds
<1>. QED
  BY <1>3, <1>4 DEF Holds

-----------------------------------------------------------------------------
(* What every call makes of the map. *)

\* The paths of the map with that value.
Users(m, v) == {p \in DOMAIN m : m[p] = v}

\* What getValue answers, and the blocks of the paths and of the values.
Answer(m) == [p \in DOMAIN m |-> Padded[m[p]]]
PathBlocksOf(m) == [p \in Paths |-> IF p \in DOMAIN m THEN 1 ELSE 0]
DataBlocksOf(m) == [v \in Values \ Inline |-> Cardinality(Users(m, v))]

\* How the number of paths with a value changes.
LEMMA UsersChanged ==
  ASSUME NEW m, IsMap(m), NEW p, NEW v, NEW w
  PROVE  /\ Cardinality(Users(m, w)) \in Nat /\ IsFiniteSet(Users(m, w))
         /\ Cardinality(Users(Without(m, p), w)) =
              IF p \in DOMAIN m /\ m[p] = w THEN Cardinality(Users(m, w)) - 1
              ELSE Cardinality(Users(m, w))
         /\ Cardinality(Users(With(m, p, v), w)) =
              IF v = w THEN Cardinality(Users(Without(m, p), w)) + 1
              ELSE Cardinality(Users(Without(m, p), w))
<1>1. IsFiniteSet(Users(m, w))
  <2>1. Users(m, w) \in SUBSET DOMAIN m
    BY DEF Users
  <2>. QED
    BY <2>1, FS_Subset DEF IsMap
<1>2. Users(Without(m, p), w) = Users(m, w) \ {p}
  BY DEF Users, Without
<1>3. /\ IsFiniteSet(Users(m, w) \ {p})
      /\ Cardinality(Users(m, w) \ {p}) =
           IF p \in Users(m, w) THEN Cardinality(Users(m, w)) - 1 ELSE Cardinality(Users(m, w))
  BY <1>1, FS_RemoveElement
<1>4. Users(With(m, p, v), w) =
        IF v = w THEN (Users(m, w) \ {p}) \cup {p} ELSE Users(m, w) \ {p}
  BY DEF Users, With
<1>5. Cardinality((Users(m, w) \ {p}) \cup {p}) = Cardinality(Users(m, w) \ {p}) + 1
  <2>1. p \notin Users(m, w) \ {p}
    OBVIOUS
  <2>. QED
    BY <1>3, <2>1, FS_AddElement
<1>6. p \in Users(m, w) <=> p \in DOMAIN m /\ m[p] = w
  BY DEF Users
<1>7. Cardinality(Users(m, w)) \in Nat
  BY <1>1, FS_CardinalityType
<1>. QED
  BY <1>1, <1>2, <1>3, <1>4, <1>5, <1>6, <1>7

\* The blocks of values after one with path p was stored.
LEMMA BlocksWith ==
  ASSUME NEW m, IsMap(m), NEW p \in Paths, NEW v \in Values, NEW old \in Values,
         NEW b, b = IF v \in Inline THEN DataBlocksOf(m) ELSE Added(DataBlocksOf(m), v),
         NEW n, n = IF p \in DOMAIN m /\ old \notin Inline THEN Freed(b, old) ELSE b,
         p \in DOMAIN m => old = m[p]
  PROVE  n = DataBlocksOf(With(m, p, v))
<1>. DEFINE c(w) == Cardinality(Users(m, w))
            D == Values \ Inline
<1>1. DataBlocksOf(m) = [w \in D |-> c(w)] /\ \A w : c(w) \in Nat
  BY UsersChanged DEF DataBlocksOf
<1>2. DataBlocksOf(With(m, p, v)) = [w \in D |-> Cardinality(Users(With(m, p, v), w))]
  BY DEF DataBlocksOf
<1>3. \A w : Cardinality(Users(With(m, p, v), w)) =
        IF v = w THEN IF p \in DOMAIN m /\ m[p] = w THEN (c(w) - 1) + 1 ELSE c(w) + 1
        ELSE IF p \in DOMAIN m /\ m[p] = w THEN c(w) - 1 ELSE c(w)
  <2>. SUFFICES ASSUME NEW w
                PROVE  Cardinality(Users(With(m, p, v), w)) =
                         IF v = w THEN IF p \in DOMAIN m /\ m[p] = w THEN (c(w) - 1) + 1 ELSE c(w) + 1
                         ELSE IF p \in DOMAIN m /\ m[p] = w THEN c(w) - 1 ELSE c(w)
    OBVIOUS
  <2>. QED
    BY UsersChanged
<1>. HIDE DEF c
<1>4. b = [w \in D |-> IF w = v THEN c(w) + 1 ELSE c(w)]
  <2>1. CASE v \in Inline
    BY <1>1, <2>1
  <2>2. CASE v \notin Inline
    BY <1>1, <2>2 DEF Added
  <2>. QED
    BY <2>1, <2>2
<1>5. n = [w \in D |-> IF p \in DOMAIN m /\ w = old THEN (IF w = v THEN c(w) + 1 ELSE c(w)) - 1
                      ELSE IF w = v THEN c(w) + 1 ELSE c(w)]
  <2>1. CASE p \in DOMAIN m /\ old \notin Inline
    BY <1>4, <2>1 DEF Freed
  <2>2. CASE ~(p \in DOMAIN m /\ old \notin Inline)
    BY <1>4, <2>2
  <2>. QED
    BY <2>1, <2>2
<1>6. ASSUME NEW w \in D
      PROVE  Cardinality(Users(With(m, p, v), w)) =
               IF p \in DOMAIN m /\ w = old THEN (IF w = v THEN c(w) + 1 ELSE c(w)) - 1
               ELSE IF w = v THEN c(w) + 1 ELSE c(w)
  BY <1>1, <1>3
<1>. QED
  BY <1>2, <1>5, <1>6

\* The blocks after a record was taken out.
LEMMA BlocksWithout ==
  ASSUME NEW m, IsMap(m), NEW p \in DOMAIN m
  PROVE  /\ Freed(PathBlocksOf(m), p) = PathBlocksOf(Without(m, p))
         /\ (IF m[p] \in Inline THEN DataBlocksOf(m) ELSE Freed(DataBlocksOf(m), m[p]))
              = DataBlocksOf(Without(m, p))
<1>. DEFINE c(w) == Cardinality(Users(m, w))
            D == Values \ Inline
            n == IF m[p] \in Inline THEN DataBlocksOf(m) ELSE Freed(DataBlocksOf(m), m[p])
<1>1. p \in Paths /\ m[p] \in Values
  BY DEF IsMap
<1>2. Freed(PathBlocksOf(m), p) = PathBlocksOf(Without(m, p))
  <2>1. \A q \in Paths : q \in DOMAIN Without(m, p) <=> q \in DOMAIN m /\ q # p
    BY DEF Without
  <2>. DEFINE f == PathBlocksOf(m)
  <2>2. f = [q \in Paths |-> f[q]] /\ \A q \in Paths : f[q] = IF q \in DOMAIN m THEN 1 ELSE 0
    BY DEF PathBlocksOf
  <2>. HIDE DEF f
  <2>3. Freed(f, p) = [q \in Paths |-> IF q = p THEN f[q] - 1 ELSE f[q]]
    <3>1. f = [q \in Paths |-> f[q]] /\ p \in Paths
      BY <1>1, <2>2
    <3>. QED
      BY <3>1 DEF Freed
  <2>4. \A q \in Paths : (IF q = p THEN f[q] - 1 ELSE f[q]) = IF q \in DOMAIN Without(m, p) THEN 1 ELSE 0
    BY <2>1, <2>2
  <2>5. PathBlocksOf(Without(m, p)) = [q \in Paths |-> IF q \in DOMAIN Without(m, p) THEN 1 ELSE 0]
    BY DEF PathBlocksOf
  <2>6. Freed(f, p) = PathBlocksOf(Without(m, p))
    BY <2>3, <2>4, <2>5
  <2>. QED
    BY <2>6 DEF f
<1>3. DataBlocksOf(m) = [w \in D |-> c(w)] /\ \A w : c(w) \in Nat
  BY UsersChanged DEF DataBlocksOf
<1>4. DataBlocksOf(Without(m, p)) = [w \in D |-> Cardinality(Users(Without(m, p), w))]
  BY DEF DataBlocksOf
<1>5. \A w : Cardinality(Users(Without(m, p), w)) = IF m[p] = w THEN c(w) - 1 ELSE c(w)
  BY UsersChanged
<1>. HIDE DEF c
<1>6. n = [w \in D |-> IF m[p] = w THEN c(w) - 1 ELSE c(w)]
  <2>1. CASE m[p] \in Inline
    BY <1>3, <2>1
  <2>2. CASE m[p] \notin Inline
    BY <1>1, <1>3, <2>2 DEF Freed
  <2>. QED
    BY <2>1, <2>2
<1>7. n = DataBlocksOf(Without(m, p))
  BY <1>4, <1>5, <1>6
<1>. QED
  BY <1>2, <1>7

\* The blocks of the paths after one was stored.
LEMMA PathBlocksWith ==
  ASSUME NEW m, NEW p \in Paths, NEW v
  PROVE  /\ p \in DOMAIN m => PathBlocksOf(With(m, p, v)) = PathBlocksOf(m)
         /\ p \notin DOMAIN m => PathBlocksOf(With(m, p, v)) = Added(PathBlocksOf(m), p)
<1>1. \A q : q \in DOMAIN With(m, p, v) <=> q \in DOMAIN m \/ q = p
  BY DEF With
<1>2. ASSUME p \in DOMAIN m
      PROVE  PathBlocksOf(With(m, p, v)) = PathBlocksOf(m)
  BY <1>1, <1>2 DEF PathBlocksOf
<1>3. ASSUME p \notin DOMAIN m
      PROVE  PathBlocksOf(With(m, p, v)) = Added(PathBlocksOf(m), p)
  <2>. DEFINE f == PathBlocksOf(m)
  <2>1. f = [q \in Paths |-> f[q]] /\ \A q \in Paths : f[q] = IF q \in DOMAIN m THEN 1 ELSE 0
    BY DEF PathBlocksOf
  <2>. HIDE DEF f
  <2>2. Added(f, p) = [q \in Paths |-> IF q = p THEN f[q] + 1 ELSE f[q]]
    <3>1. f = [q \in Paths |-> f[q]]
      BY <2>1
    <3>. QED
      BY <3>1 DEF Added
  <2>3. \A q \in Paths : (IF q = p THEN f[q] + 1 ELSE f[q]) = IF q \in DOMAIN With(m, p, v) THEN 1 ELSE 0
    BY <1>1, <1>3, <2>1
  <2>4. PathBlocksOf(With(m, p, v)) = [q \in Paths |-> IF q \in DOMAIN With(m, p, v) THEN 1 ELSE 0]
    BY DEF PathBlocksOf
  <2>5. Added(f, p) = PathBlocksOf(With(m, p, v))
    BY <2>2, <2>3, <2>4
  <2>. QED
    BY <2>5 DEF f
<1>. QED
  BY <1>2, <1>3

-----------------------------------------------------------------------------
(* The calls. *)

\* The state is that of a storage that holds the map m.
Represents(m) ==
  /\ Holds(heap, m) /\ contents = Answer(m)
  /\ pathBlocks = PathBlocksOf(m) /\ dataBlocks = DataBlocksOf(m)

\* What it is as long as the tree was not made anew.
FirstLife(m) == ~undefined /\ ~behind /\ ~forgotten /\ IsSequence(disk) /\ Represents(m)

\* What store() leaves.
LEMMA StoresMap ==
  ASSUME HashesDiffer, NEW h, NEW m, Holds(h, m), IsSequence(disk), Stores(h)
  PROVE  Holds(heap', m) /\ contents' = Answer(m) /\ IsSequence(disk')
<1>1. PICK t \in storeSubtree(h, disk) : Becomes(t.heap, t.disk)
  BY DEF Stores
<1>2. Holds(t.heap, m) /\ IsSequence(t.disk)
  BY StoreHolds
<1>3. heap' = t.heap /\ disk' = t.disk /\ contents' = getValue(t.heap)
  BY <1>1 DEF Becomes
<1>4. getValue(t.heap) = Answer(m)
  BY <1>2, ReadsMap DEF Answer
<1>. QED
  BY <1>2, <1>3, <1>4

\* setValue of a path that has a value.
LEMMA UpdateStep ==
  ASSUME HashesDiffer, NEW m, FirstLife(m), NEW p \in Paths, NEW v \in Values, UpdateValue(p, v)
  PROVE  p \in DOMAIN m /\ FirstLife(With(m, p, v))'
<1>. DEFINE f == Find(heap, p)
            old == Items(heap, f.node)[f.at].data.val
            g == Rewritten(heap, f.node, f.at, DataRecord(p, v))
<1>1. /\ f.result = "found" /\ Stores(g)
      /\ dataBlocks' = IF old \in Inline THEN WithData(v) ELSE Freed(WithData(v), old)
      /\ UNCHANGED <<pathBlocks, undefined, forgotten, behind>>
  BY DEF UpdateValue, Rewritten
<1>2. Holds(heap, m) /\ IsMap(m) /\ IsSequence(disk)
  BY DEF FirstLife, Represents, Holds
<1>3. p \in DOMAIN m
  BY <1>1, <1>2, MissesOther
<1>4. old = m[p] /\ Holds(g, With(m, p, v)) /\ m[p] \in Values
  BY <1>2, <1>3, UpdateHolds DEF IsMap
<1>. HIDE DEF g, f, old
<1>5. /\ Holds(heap', With(m, p, v)) /\ contents' = Answer(With(m, p, v)) /\ IsSequence(disk')
  BY <1>1, <1>2, <1>4, StoresMap
<1>6. pathBlocks' = PathBlocksOf(With(m, p, v))
  BY <1>1, <1>3, PathBlocksWith DEF FirstLife, Represents
<1>7. dataBlocks' = DataBlocksOf(With(m, p, v))
  <2>. DEFINE b == IF v \in Inline THEN DataBlocksOf(m) ELSE Added(DataBlocksOf(m), v)
              n == IF p \in DOMAIN m /\ old \notin Inline THEN Freed(b, old) ELSE b
  <2>1. WithData(v) = b
    BY DEF WithData, FirstLife, Represents
  <2>2. dataBlocks' = n
    <3>. HIDE DEF b
    <3>. QED
      BY <1>1, <1>3, <2>1
  <2>3. n = DataBlocksOf(With(m, p, v))
    BY <1>2, <1>4, BlocksWith
  <2>. QED
    BY <2>2, <2>3
<1>. QED
  BY <1>1, <1>3, <1>5, <1>6, <1>7 DEF FirstLife, Represents

\* setValue of a path that has none.
LEMMA AddStep ==
  ASSUME HashesDiffer, NEW m, FirstLife(m), NEW p \in Paths, NEW v \in Values, AddValue(p, v)
  PROVE  p \notin DOMAIN m /\ FirstLife(With(m, p, v))'
<1>1. /\ Find(heap, p).result = "NoSuchPath" /\ Stores(addData(heap, RecordOf(p, v)))
      /\ dataBlocks' = WithData(v) /\ pathBlocks' = Added(pathBlocks, p)
      /\ UNCHANGED <<undefined, forgotten, behind>>
  BY DEF AddValue, RecordOf
<1>2. Holds(heap, m) /\ IsMap(m) /\ IsSequence(disk)
  BY DEF FirstLife, Represents, Holds
<1>3. p \notin DOMAIN m
  <2>. SUFFICES ASSUME p \in DOMAIN m PROVE FALSE
    OBVIOUS
  <2>1. PICK n, i : Find(heap, p) = [result |-> "found", node |-> n, at |-> i]
    BY <1>2, FindsHeld
  <2>. QED
    BY <1>1, <2>1
<1>4. Holds(addData(heap, RecordOf(p, v)), With(m, p, v))
  BY <1>2, <1>3, AddHolds
<1>5. /\ Holds(heap', With(m, p, v)) /\ contents' = Answer(With(m, p, v)) /\ IsSequence(disk')
  BY <1>1, <1>2, <1>4, StoresMap
<1>6. pathBlocks' = PathBlocksOf(With(m, p, v))
  BY <1>1, <1>3, PathBlocksWith DEF FirstLife, Represents
<1>7. dataBlocks' = DataBlocksOf(With(m, p, v))
  <2>. DEFINE b == IF v \in Inline THEN DataBlocksOf(m) ELSE Added(DataBlocksOf(m), v)
              n == IF p \in DOMAIN m /\ v \notin Inline THEN Freed(b, v) ELSE b
  <2>1. dataBlocks' = b
    BY <1>1 DEF WithData, FirstLife, Represents
  <2>2. n = DataBlocksOf(With(m, p, v))
    BY <1>2, <1>3, BlocksWith
  <2>. QED
    BY <1>3, <2>1, <2>2
<1>. QED
  BY <1>1, <1>3, <1>5, <1>6, <1>7 DEF FirstLife, Represents

\* removeValue that throws nothing.
LEMMA RemoveStep ==
  ASSUME HashesDiffer, NEW m, FirstLife(m), NEW p \in Paths, removeValue(p)
  PROVE  p \in DOMAIN m /\ FirstLife(Without(m, p))'
<1>. DEFINE r == internalRemoveData(heap, m_root, Hash[p], p)
<1>1. /\ r.status \in {"OK", "REMOVED", "NOT_FOUND"} /\ GivesBack(r.gone) /\ Stores(r.heap)
      /\ UNCHANGED <<undefined, forgotten, behind>>
  BY DEF removeValue
<1>2. Holds(heap, m) /\ IsMap(m) /\ IsSequence(disk)
  BY DEF FirstLife, Represents, Holds
<1>3. p \in DOMAIN m
  <2>. SUFFICES ASSUME p \notin DOMAIN m PROVE FALSE
    OBVIOUS
  <2>1. r = Result(heap, "NoSuchPath", Nothing)
    BY <1>2, MissesOther
  <2>. HIDE DEF r
  <2>. QED
    BY <1>1, <2>1 DEF Result
<1>4. r.gone = <<DataRecord(p, m[p])>> /\ Holds(r.heap, Without(m, p))
  BY <1>2, <1>3, RemoveHolds
<1>. HIDE DEF r
<1>5. /\ Holds(heap', Without(m, p)) /\ contents' = Answer(Without(m, p)) /\ IsSequence(disk')
  BY <1>1, <1>2, <1>4, StoresMap
<1>6. r.gone # Nothing /\ r.gone[1].path = p /\ r.gone[1].val = m[p]
  BY <1>4 DEF Nothing, DataRecord
<1>7. /\ pathBlocks' = Freed(pathBlocks, p)
      /\ dataBlocks' = IF m[p] \in Inline THEN dataBlocks ELSE Freed(dataBlocks, m[p])
  BY <1>1, <1>6 DEF GivesBack
<1>8. pathBlocks' = PathBlocksOf(Without(m, p)) /\ dataBlocks' = DataBlocksOf(Without(m, p))
  BY <1>2, <1>3, <1>7, BlocksWithout DEF FirstLife, Represents
<1>. QED
  BY <1>1, <1>3, <1>5, <1>8 DEF FirstLife, Represents

\* removeValue that throws: nothing has changed.
LEMMA ThrowStep ==
  ASSUME HashesDiffer, NEW m, FirstLife(m), NEW p \in Paths, RemoveThrows(p)
  PROVE  /\ p \notin DOMAIN m /\ reply' = [path |-> p, result |-> "NoSuchPath"]
         /\ heap' = heap /\ FirstLife(m)'
<1>. DEFINE r == internalRemoveData(heap, m_root, Hash[p], p)
<1>1. /\ r.status \in {"NoSuchPath", "StorageException"} /\ GivesBack(r.gone)
      /\ Becomes(r.heap, disk) /\ Answers(p, r.status) /\ behind' = (behind \/ r.gone # Nothing)
      /\ UNCHANGED <<undefined, forgotten>>
  BY DEF RemoveThrows
<1>2. Holds(heap, m) /\ IsMap(m) /\ IsSequence(disk) /\ ~behind /\ contents = Answer(m)
  BY DEF FirstLife, Represents, Holds
<1>3. p \notin DOMAIN m
  BY <1>1, <1>2, RemoveHolds
<1>4. r.heap = heap /\ r.status = "NoSuchPath" /\ r.gone = Nothing
  <2>1. r = Result(heap, "NoSuchPath", Nothing)
    BY <1>2, <1>3, MissesOther
  <2>. HIDE DEF r
  <2>. QED
    BY <2>1 DEF Result
<1>. HIDE DEF r
<1>5. heap' = heap /\ disk' = disk /\ contents' = getValue(heap)
  BY <1>1, <1>4 DEF Becomes
<1>6. UNCHANGED <<pathBlocks, dataBlocks>> /\ behind' = FALSE
  BY <1>1, <1>2, <1>4 DEF GivesBack, blocks
<1>7. contents' = Answer(m)
  BY <1>2, <1>5, ReadsMap DEF Answer
<1>8. reply' = [path |-> p, result |-> "NoSuchPath"]
  BY <1>1, <1>4 DEF Answers
<1>. QED
  BY <1>1, <1>3, <1>5, <1>6, <1>7, <1>8 DEF FirstLife, Represents

\* No call has undefined behaviour.
LEMMA NoneGoesWrong ==
  ASSUME HashesDiffer, NEW m, FirstLife(m), NEW p \in Paths
  PROVE  ~GoesWrong(p)
<1>1. Holds(heap, m)
  BY DEF FirstLife, Represents
<1>2. Find(heap, p).result # "undefined"
  <2>1. CASE p \in DOMAIN m
    <3>1. PICK n, i : Find(heap, p) = [result |-> "found", node |-> n, at |-> i]
      BY <1>1, <2>1, FindsHeld
    <3>. QED
      BY <3>1
  <2>2. CASE p \notin DOMAIN m
    BY <1>1, <2>2, MissesOther
  <2>. QED
    BY <2>1, <2>2
<1>3. ~(heap[m_root].items = <<>> /\ ~heap[m_root].leaf)
  BY <1>1, RootTakesItems
<1>4. internalRemoveData(heap, m_root, Hash[p], p).status # "undefined"
  <2>1. CASE p \in DOMAIN m
    BY <1>1, <2>1, RemoveHolds
  <2>2. CASE p \notin DOMAIN m
    <3>1. internalRemoveData(heap, m_root, Hash[p], p) = Result(heap, "NoSuchPath", Nothing)
      BY <1>1, <2>2, MissesOther
    <3>. QED
      BY <3>1 DEF Result
  <2>. QED
    BY <2>1, <2>2
<1>. QED
  BY <1>2, <1>3, <1>4 DEF GoesWrong

\* A call keeps the storage one that holds a map, as long as the tree is not made anew.
HoldsMap == opens \in Nat /\ (opens = 0 => \E m : FirstLife(m))

\* A new file holds the empty map.
LEMMA NewFileHoldsMap ==
  ASSUME Init
  PROVE  HoldsMap
<1>. DEFINE m == <<>>
<1>1. DOMAIN m = {} /\ IsMap(m)
  BY FS_EmptySet DEF IsMap
<1>2. Bare(Data, heap)
  <2>. DEFINE n == Node(TRUE, <<>>, RootOffset)
  <2>1. heap = <<n>>
    BY DEF Init
  <2>2. /\ n \in BTreeNode(Data) /\ n.leaf /\ n.items = <<>>
        /\ n.left = None /\ n.right = None
    BY DEF Node, BTreeNode, None, RootOffset
  <2>. HIDE DEF n
  <2>3. heap \in Seq(BTreeNode(Data)) /\ heap[1] = n /\ 1 \in DOMAIN heap
    BY <2>1, <2>2
  <2>. QED
    BY <2>2, <2>3 DEF Bare, m_root, Items
<1>3. Holds(heap, m)
  BY <1>1, <1>2 DEF Holds
<1>4. contents = Answer(m)
  BY <1>1 DEF Init, Answer
<1>5. pathBlocks = PathBlocksOf(m)
  BY <1>1 DEF Init, PathBlocksOf
<1>6. dataBlocks = DataBlocksOf(m)
  <2>1. \A v : Users(m, v) = {}
    BY <1>1 DEF Users
  <2>2. \A v : Cardinality(Users(m, v)) = 0
    BY <2>1, FS_EmptySet
  <2>. QED
    BY <2>2 DEF Init, DataBlocksOf
<1>7. IsSequence(disk)
  <2>. DEFINE b == [leaf |-> FALSE, items |-> <<>>, left |-> 0, right |-> 0]
  <2>1. disk = <<b>>
    BY DEF Init
  <2>2. <<b>> \in Seq({b})
    OBVIOUS
  <2>. QED
    BY <2>1, <2>2 DEF IsSequence
<1>8. FirstLife(m)
  BY <1>3, <1>4, <1>5, <1>6, <1>7 DEF Init, FirstLife, Represents
<1>. QED
  BY <1>8 DEF Init, HoldsMap

\* What a step does to the map while the tree is not made anew.
LEMMA StepOfMap ==
  ASSUME HashesDiffer, NEW m, FirstLife(m), opens = 0, [Next]_vars, opens' = 0
  PROVE  \/ \E p \in Paths, v \in Values :
              (UpdateValue(p, v) \/ AddValue(p, v)) /\ FirstLife(With(m, p, v))'
         \/ \E p \in DOMAIN m : removeValue(p) /\ FirstLife(Without(m, p))'
         \/ \E p \in Paths \ DOMAIN m :
              /\ reply' = [path |-> p, result |-> "NoSuchPath"]
              /\ FirstLife(m)'
         \/ UNCHANGED <<contents, reply>> /\ FirstLife(m)'
<1>1. ASSUME NEW p \in Paths, NEW v \in Values, UpdateValue(p, v)
      PROVE  FirstLife(With(m, p, v))'
  BY <1>1, UpdateStep
<1>2. ASSUME NEW p \in Paths, NEW v \in Values, AddValue(p, v)
      PROVE  FirstLife(With(m, p, v))'
  BY <1>2, AddStep
<1>3. ASSUME NEW p \in Paths, removeValue(p)
      PROVE  p \in DOMAIN m /\ FirstLife(Without(m, p))'
  BY <1>3, RemoveStep
<1>4. ASSUME NEW p \in Paths, RemoveThrows(p)
      PROVE  /\ p \notin DOMAIN m /\ reply' = [path |-> p, result |-> "NoSuchPath"]
             /\ FirstLife(m)'
  BY <1>4, ThrowStep
<1>5. ASSUME NEW p \in Paths PROVE ~GoesWrong(p)
  BY NoneGoesWrong
<1>6. ~Reopen /\ ~Restart /\ ~LoadsGarbled
  BY DEF Reopen, Restart, LoadsGarbled
<1>7. ASSUME UNCHANGED vars
      PROVE  UNCHANGED <<contents, reply>> /\ FirstLife(m)'
  BY <1>7 DEF vars, blocks, FirstLife, Represents
<1>8. ASSUME NEW p \in Paths, NEW v \in Values, Overwrites(p, v)
      PROVE  UNCHANGED <<contents, reply>> /\ FirstLife(m)'
  BY <1>8 DEF Overwrites, blocks, FirstLife, Represents
<1>9. CASE \E p \in Paths, v \in Values : UpdateValue(p, v) \/ AddValue(p, v) \/ Overwrites(p, v)
  BY <1>1, <1>2, <1>8, <1>9
<1>10. CASE \E p \in Paths : removeValue(p) \/ RemoveThrows(p) \/ GoesWrong(p)
  BY <1>3, <1>4, <1>5, <1>10
<1>. QED
  BY <1>6, <1>7, <1>9, <1>10 DEF Next

\* How often the tree was made anew never shrinks.
LEMMA StepOpens ==
  ASSUME HoldsMap, [Next]_vars
  PROVE  opens' \in Nat /\ (opens' = 0 => opens = 0)
<1>1. ASSUME NEW p \in Paths, NEW v \in Values,
             UpdateValue(p, v) \/ AddValue(p, v) \/ Overwrites(p, v)
      PROVE  opens' = opens
  BY <1>1 DEF UpdateValue, AddValue, Overwrites
<1>2. ASSUME NEW p \in Paths, removeValue(p) \/ RemoveThrows(p) \/ GoesWrong(p)
      PROVE  opens' = opens
  BY <1>2 DEF removeValue, RemoveThrows, GoesWrong
<1>3. ASSUME Reopen \/ Restart \/ LoadsGarbled PROVE opens' = opens + 1
  BY <1>3 DEF Reopen, Restart, LoadsGarbled
<1>4. ASSUME UNCHANGED vars PROVE opens' = opens
  BY <1>4 DEF vars
<1>5. opens' = opens \/ opens' = opens + 1
  BY <1>1, <1>2, <1>3, <1>4 DEF Next
<1>. QED
  BY <1>5 DEF HoldsMap

\* Every step keeps the storage one that holds a map.
LEMMA StepHoldsMap ==
  ASSUME HashesDiffer, HoldsMap, [Next]_vars
  PROVE  HoldsMap'
<1>1. opens' \in Nat /\ (opens' = 0 => opens = 0)
  BY StepOpens
<1>2. ASSUME opens' = 0 PROVE \E m : FirstLife(m)'
  <2>1. PICK m : FirstLife(m)
    BY <1>1, <1>2 DEF HoldsMap
  <2>. QED
    BY <1>1, <1>2, <2>1, StepOfMap
<1>. QED
  BY <1>1, <1>2 DEF HoldsMap

\* Unless the tree was made anew, the storage always holds a map.
THEOREM AlwaysHoldsMap ==
  ASSUME HashesDiffer
  PROVE  Spec => []HoldsMap
<1>1. Init => HoldsMap
  BY NewFileHoldsMap
<1>2. HoldsMap /\ [Next]_vars => HoldsMap'
  BY StepHoldsMap
<1>. QED
  BY <1>1, <1>2, PTL DEF Spec

-----------------------------------------------------------------------------
(* What holds in every state before the tree is made anew. *)

\* The rows of the tree.
LEMMA TreeOfRows ==
  ASSUME NEW E, NEW h, NEW L, RootedTree(E, h, L)
  PROVE  /\ Rows(h) = L /\ \A n : n \in Tree(h) <=> \E j \in 1 .. Len(L) : n \in L[j]
<1>1. Rows(h) = L
  BY TreeRows
<1>2. DOMAIN L = 1 .. Len(L)
  BY DEF RootedTree
<1>. QED
  BY <1>1, <1>2, Zenon DEF Tree, ToSet

\* The one row of a tree without records.
LEMMA TreeOfBare ==
  ASSUME NEW E, NEW h, Bare(E, h)
  PROVE  Tree(h) = {m_root}
<1>1. Rows(h) = OneRow
  BY BareRows
<1>2. DOMAIN OneRow = {1} /\ OneRow[1] = {m_root}
  BY DEF OneRow, Alone
<1>3. Tree(h) = UNION {OneRow[j] : j \in DOMAIN OneRow}
  BY <1>1, Zenon DEF Tree, ToSet
<1>. HIDE DEF m_root
<1>. QED
  BY <1>2, <1>3

\* The heap of a storage that holds a map has right levels, or an empty leaf for its root.
LEMMA HeldIsRight ==
  ASSUME NEW h, NEW m, Holds(h, m)
  PROVE  h[m_root] = Node(TRUE, <<>>, h[m_root].off) \/ TreeRight(h, Rows(h))
<1>1. CASE \E L : TreeOf(h, L, m)
  BY <1>1, TreeRows DEF TreeOf, RootedTree
<1>2. CASE Bare(Data, h)
  <2>1. h[m_root] \in BTreeNode(Data)
    BY <1>2 DEF Bare
  <2>. QED
    BY <1>2, <2>1 DEF Bare, BTreeNode, Node, Items
<1>. QED
  BY <1>1, <1>2 DEF Holds

\* What assertInvariants asserts of every node.
LEMMA HeldIsAsserted ==
  ASSUME NEW h, NEW m, Holds(h, m), NEW n \in Tree(h)
  PROVE  /\ LoadInBounds(h, n) /\ KeysInOrder(h, n)
         /\ ~h[n].leaf => KeysBoundChildren(h, n) /\ SiblingsLinked(h, n)
<1>1. CASE \E L : TreeOf(h, L, m)
  <2>1. PICK L : RootedTree(Data, h, L) /\ Size(h, m_root) <= MaxLoad
    BY <1>1 DEF TreeOf
  <2>2. PICK j \in 1 .. Len(L) : n \in L[j]
    BY <2>1, TreeOfRows
  <2>3. /\ Row(h, L[j], Beneath(L, j)) /\ L[1] = {m_root} /\ LoadsInTree(h, L)
        /\ Len(L) \in Nat
    BY <2>1, <2>2, RightRow DEF RootedTree, TreeRight, Rooted
  <2>4. RowNode(h, L[j], Beneath(L, j), n)
    BY <2>2, <2>3 DEF Row
  <2>5. LoadInBounds(h, n)
    <3>1. CASE j = 1
      BY <2>1, <2>2, <2>3, <3>1 DEF LoadInBounds
    <3>2. CASE j # 1
      <4>1. j \in 2 .. Len(L)
        BY <2>2, <2>3, <3>2
      <4>. QED
        BY <2>2, <2>3, <4>1 DEF LoadInBounds, LoadsInTree, LoadsRight
    <3>. QED
      BY <3>1, <3>2
  <2>. QED
    BY <2>4, <2>5 DEF RowNode, Inner, KeysBoundChildren, SiblingsLinked
<1>2. CASE Bare(Data, h)
  <2>1. n = m_root /\ h[n].leaf /\ Items(h, n) = <<>>
    BY <1>2, TreeOfBare DEF Bare
  <2>2. Len(Items(h, n)) = 0 /\ MaxLoad >= 0
    BY <2>1, LoadAssumption
  <2>3. Size(h, n) <= MaxLoad
    BY <2>2 DEF Size, Items
  <2>4. KeysInOrder(h, n)
    BY <2>2 DEF KeysInOrder, InOrder
  <2>. QED
    BY <2>1, <2>3, <2>4 DEF LoadInBounds
<1>. QED
  BY <1>1, <1>2 DEF Holds

\* The places of the records and the paths of the map stand for each other.
LEMMA PlacesOfMap ==
  ASSUME NEW h, NEW m, Holds(h, m)
  PROVE  /\ \A x \in Places(h) : \E p \in DOMAIN m : RecordAt(h, x) = DataRecord(p, m[p])
         /\ \A p \in DOMAIN m : \E x \in Places(h) : RecordAt(h, x) = DataRecord(p, m[p])
         /\ \A x, y \in Places(h) : RecordAt(h, x).path = RecordAt(h, y).path => x = y
<1>0. \A x : x \in Places(h) <=>
        \E n \in Tree(h) : h[n].leaf /\ \E i \in 1 .. Size(h, n) : x = <<n, i>>
  <2>. DEFINE Of(n) == {<<n, i>> : i \in 1 .. Size(h, n)}
  <2>1. Places(h) = UNION {Of(n) : n \in {l \in Tree(h) : h[l].leaf}}
    BY Zenon DEF Places
  <2>2. \A n, x : x \in Of(n) <=> \E i \in 1 .. Size(h, n) : x = <<n, i>>
    OBVIOUS
  <2>. HIDE DEF Of
  <2>. QED
    BY <2>1, <2>2
<1>1. CASE \E L : TreeOf(h, L, m)
  <2>1. PICK L : RootedTree(Data, h, L) /\ Records(h, L) = RecordsOf(m)
    BY <1>1 DEF TreeOf
  <2>. DEFINE S == L[Len(L)]
  <2>2. Len(L) \in 1 .. Len(L) /\ TreeRight(h, L)
    BY <2>1, RowsFit DEF RootedTree
  <2>3. \A n : n \in Tree(h) /\ h[n].leaf <=> n \in S
    BY <2>1, <2>2, TreeOfRows, KindsOfRows
  <2>4. ASSUME NEW n \in S
        PROVE  /\ Items(h, n) \in Seq(Entry(Data)) /\ InOrder(Items(h, n))
               /\ Size(h, n) = Len(Items(h, n)) /\ Size(h, n) \in Nat
    <3>1. Items(h, n) \in Seq(Entry(Data)) /\ InOrder(Items(h, n))
      BY <2>1, <2>2, KindsOfRows
    <3>2. Size(h, n) = Len(Items(h, n))
      BY DEF Size, Items
    <3>. QED
      BY <3>1, <3>2
  <2>5. \A e : e \in Records(h, L) <=> \E n \in S : \E i \in 1 .. Size(h, n) : e = Items(h, n)[i]
    <3>1. \A e : e \in Records(h, L) <=> \E n \in S : e \in ToSet(Items(h, n))
      BY DEF Records, Held
    <3>2. \A n \in S : DOMAIN Items(h, n) = 1 .. Size(h, n)
      BY <2>4
    <3>3. \A n \in S : \A e : e \in ToSet(Items(h, n)) <=> \E i \in 1 .. Size(h, n) : e = Items(h, n)[i]
      BY <3>2, Zenon DEF ToSet
    <3>. HIDE DEF S
    <3>. QED
      BY <3>1, <3>3
  <2>6. Distinct(h, S)
    BY <2>2, RightRow DEF TreeRight
  <2>7. \A x : x \in Places(h) <=> \E n \in S : \E i \in 1 .. Size(h, n) : x = <<n, i>>
    <3>. HIDE DEF S
    <3>. QED
      BY <1>0, <2>3
  <2>. HIDE DEF S
  <2>8. \A e : e \in Records(h, L) <=> \E p \in DOMAIN m : e = RecordOf(p, m[p])
    BY <2>1 DEF RecordsOf
  <2>9. ASSUME NEW x \in Places(h)
        PROVE  \E p \in DOMAIN m : Items(h, x[1])[x[2]] = RecordOf(p, m[p])
    <3>1. PICK n, i : n \in S /\ i \in 1 .. Size(h, n) /\ x = <<n, i>>
      BY <2>7
    <3>2. Items(h, n)[i] \in Records(h, L)
      BY <2>5, <3>1
    <3>. QED
      BY <2>8, <3>1, <3>2
  <2>10. ASSUME NEW p \in DOMAIN m
         PROVE  \E x \in Places(h) : Items(h, x[1])[x[2]] = RecordOf(p, m[p])
    <3>1. RecordOf(p, m[p]) \in Records(h, L)
      BY <2>8
    <3>2. PICK n, i : n \in S /\ i \in 1 .. Size(h, n) /\ RecordOf(p, m[p]) = Items(h, n)[i]
      BY <2>5, <3>1
    <3>3. <<n, i>> \in Places(h) /\ <<n, i>>[1] = n /\ <<n, i>>[2] = i
      BY <2>7, <3>2
    <3>. QED
      BY <3>2, <3>3
  <2>11. ASSUME NEW x \in Places(h), NEW y \in Places(h), RecordAt(h, x).path = RecordAt(h, y).path
         PROVE  x = y
    <3>1. PICK n, i : n \in S /\ i \in 1 .. Size(h, n) /\ x = <<n, i>>
      BY <2>7
    <3>2. PICK l, j : l \in S /\ j \in 1 .. Size(h, l) /\ y = <<l, j>>
      BY <2>7
    <3>3. PICK p \in DOMAIN m : Items(h, n)[i] = RecordOf(p, m[p])
      BY <2>9, <3>1
    <3>4. PICK q \in DOMAIN m : Items(h, l)[j] = RecordOf(q, m[q])
      BY <2>9, <3>2
    <3>5. RecordAt(h, x).path = p /\ RecordAt(h, y).path = q
      BY <3>1, <3>2, <3>3, <3>4, RecordParts DEF RecordAt
    <3>6. Items(h, n)[i] = Items(h, l)[j]
      BY <2>11, <3>3, <3>4, <3>5
    <3>7. n = l
      <4>1. Items(h, n)[i] \in ToSet(Items(h, n)) /\ Items(h, l)[j] \in ToSet(Items(h, l))
        <5>1. i \in DOMAIN Items(h, n) /\ j \in DOMAIN Items(h, l)
          BY <2>4, <3>1, <3>2
        <5>. QED
          BY <5>1, Zenon DEF ToSet
      <4>. QED
        BY <2>6, <3>1, <3>2, <3>6, <4>1 DEF Distinct
    <3>8. i = j
      <4>. DEFINE s == Items(h, n)
      <4>1. s \in Seq(Entry(Data)) /\ InOrder(s) /\ i \in 1 .. Len(s) /\ j \in 1 .. Len(s) /\ s[i] = s[j]
        BY <2>4, <3>1, <3>2, <3>6, <3>7
      <4>. HIDE DEF s
      <4>2. s[i].key \in Nat /\ s[i].key = s[j].key
        <5>1. s[i] \in Entry(Data)
          BY <4>1
        <5>. QED
          BY <4>1, <5>1 DEF Entry
      <4>. QED
        BY <4>1, <4>2 DEF InOrder
    <3>. QED
      BY <3>1, <3>2, <3>7, <3>8
  <2>. QED
    BY <2>9, <2>10, <2>11, RecordParts DEF RecordAt
<1>2. CASE DOMAIN m = {} /\ Bare(Data, h)
  <2>1. Tree(h) = {m_root} /\ Items(h, m_root) = <<>>
    BY <1>2, TreeOfBare DEF Bare
  <2>2. Size(h, m_root) = 0
    BY <2>1 DEF Size, Items
  <2>3. Places(h) = {}
    BY <1>0, <2>1, <2>2
  <2>. QED
    BY <1>2, <2>3
<1>. QED
  BY <1>1, <1>2 DEF Holds

\* How many records have a path, or a value.
LEMMA CountsOfMap ==
  ASSUME NEW h, NEW m, Holds(h, m), NEW places, places = Places(h)
  PROVE  /\ \A p \in Paths : CountPath(h, places, p) = PathBlocksOf(m)[p]
         /\ \A v \in Values \ Inline : CountData(h, places, v) = DataBlocksOf(m)[v]
<1>1. /\ \A x \in places : \E p \in DOMAIN m : RecordAt(h, x) = DataRecord(p, m[p])
      /\ \A p \in DOMAIN m : \E x \in places : RecordAt(h, x) = DataRecord(p, m[p])
      /\ \A x, y \in places : RecordAt(h, x).path = RecordAt(h, y).path => x = y
  BY PlacesOfMap
<1>2. \A p, v : DataRecord(p, v).path = p /\ DataRecord(p, v).val = v
  BY DEF DataRecord
<1>3. ASSUME NEW p \in Paths
      PROVE  CountPath(h, places, p) = PathBlocksOf(m)[p]
  <2>. DEFINE S == {x \in places : RecordAt(h, x).path = p}
  <2>1. CountPath(h, places, p) = Cardinality(S)
    BY DEF CountPath
  <2>2. CASE p \in DOMAIN m
    <3>1. PICK x \in places : RecordAt(h, x) = DataRecord(p, m[p])
      BY <1>1, <2>2
    <3>2. S = {x}
      BY <1>1, <1>2, <3>1
    <3>3. Cardinality(S) = 1
      BY <3>2, FS_Singleton
    <3>. QED
      BY <2>1, <2>2, <3>3 DEF PathBlocksOf
  <2>3. CASE p \notin DOMAIN m
    <3>1. S = {}
      BY <1>1, <1>2, <2>3
    <3>2. Cardinality(S) = 0
      BY <3>1, FS_EmptySet
    <3>. QED
      BY <2>1, <2>3, <3>2 DEF PathBlocksOf
  <2>. QED
    BY <2>2, <2>3
<1>4. ASSUME NEW v \in Values \ Inline
      PROVE  CountData(h, places, v) = DataBlocksOf(m)[v]
  <2>. DEFINE T == {x \in places : RecordAt(h, x).val = v}
              S == Users(m, v)
              f == [p \in S |-> CHOOSE x \in places : RecordAt(h, x) = DataRecord(p, m[p])]
  <2>1. CountData(h, places, v) = Cardinality(T) /\ DataBlocksOf(m)[v] = Cardinality(S)
    BY DEF CountData, DataBlocksOf
  <2>2. \A p : p \in S <=> p \in DOMAIN m /\ m[p] = v
    BY DEF Users
  <2>3. IsFiniteSet(S)
    BY UsersChanged DEF Holds
  <2>. HIDE DEF S
  <2>4. ASSUME NEW p \in S
        PROVE  f[p] \in places /\ RecordAt(h, f[p]) = DataRecord(p, m[p])
    BY <1>1, <2>2
  <2>5. f = [p \in S |-> f[p]]
    OBVIOUS
  <2>. HIDE DEF f
  <2>6. f \in [S -> T]
    <3>1. \A p \in S : f[p] \in T
      BY <1>2, <2>2, <2>4
    <3>. HIDE DEF T
    <3>. QED
      BY <2>5, <3>1
  <2>7. \A p, q \in S : f[p] = f[q] => p = q
    <3>. SUFFICES ASSUME NEW p \in S, NEW q \in S, f[p] = f[q] PROVE p = q
      OBVIOUS
    <3>1. DataRecord(p, m[p]) = DataRecord(q, m[q])
      BY <2>4
    <3>. QED
      BY <1>2, <3>1
  <2>8. ASSUME NEW x \in T PROVE \E p \in S : f[p] = x
    <3>1. PICK p \in DOMAIN m : RecordAt(h, x) = DataRecord(p, m[p])
      BY <1>1
    <3>2. p \in S
      BY <1>2, <2>2, <3>1
    <3>3. RecordAt(h, f[p]) = RecordAt(h, x) /\ f[p] \in places
      BY <2>4, <3>1, <3>2
    <3>. QED
      BY <1>1, <3>2, <3>3
  <2>. HIDE DEF T
  <2>9. ExistsBijection(S, T)
    <3>1. IsInjective(f) /\ DOMAIN f = S
      BY <2>6, <2>7 DEF IsInjective
    <3>2. f \in Bijection(S, T)
      BY <2>6, <2>8, <3>1 DEF Bijection, Injection, Surjection
    <3>. QED
      BY <3>2 DEF ExistsBijection
  <2>. QED
    BY <2>1, <2>3, <2>9, FS_Bijection
<1>. QED
  BY <1>3, <1>4

-----------------------------------------------------------------------------
(* The properties of the storage, as long as no two paths have the same hash. *)

\* In every state before the tree is made anew, all levels of the tree are right: the nodes of
\* a level form one list in key order, through all parents.
THEOREM LevelsStayRight ==
  ASSUME HashesDiffer
  PROVE  Spec => []LevelsRight
<1>1. HoldsMap => LevelsRight
  BY HeldIsRight DEF HoldsMap, FirstLife, Represents, LevelsRight
<1>. QED
  BY <1>1, AlwaysHoldsMap, PTL

\* What assertInvariants asserts of the nodes when it is compiled in holds after every call.
THEOREM AssertionsHold ==
  ASSUME HashesDiffer
  PROVE  Spec => []assertInvariants
<1>1. HoldsMap => assertInvariants
  BY HeldIsAsserted DEF HoldsMap, FirstLife, Represents, assertInvariants
<1>. QED
  BY <1>1, AlwaysHoldsMap, PTL

\* A removal that throws has taken nothing out of the tree, whatever the number of levels: before
\* the tree is made anew, removeValue passes by store() harmlessly.
THEOREM ThrowsAreHarmless ==
  ASSUME HashesDiffer
  PROVE  Spec => []ThrowsUnchanged
<1>1. HoldsMap => ThrowsUnchanged
  BY DEF HoldsMap, FirstLife, ThrowsUnchanged
<1>. QED
  BY <1>1, AlwaysHoldsMap, PTL

\* Every block of a path or a value is referred to by exactly one record: setValue, updateValue
\* and removeValue take and give back the right blocks.
THEOREM BlocksHaveOneOwner ==
  ASSUME HashesDiffer
  PROVE  Spec => [](opens = 0 => NoLeak)
<1>1. HoldsMap => (opens = 0 => NoLeak)
  <2>. SUFFICES ASSUME NEW m, FirstLife(m) PROVE NoLeak
    BY DEF HoldsMap
  <2>1. Holds(heap, m) /\ pathBlocks = PathBlocksOf(m) /\ dataBlocks = DataBlocksOf(m)
    BY DEF FirstLife, Represents
  <2>. QED
    BY <2>1, CountsOfMap DEF NoLeak
<1>. QED
  BY <1>1, AlwaysHoldsMap, PTL

\* No call of a storage that was not made anew has undefined behaviour: no empty sibling is
\* dereferenced, no item added below a root without children.
THEOREM NoUndefinedBehaviour ==
  ASSUME HashesDiffer
  PROVE  Spec => [](opens = 0 => ~undefined)
<1>1. HoldsMap => (opens = 0 => ~undefined)
  BY DEF HoldsMap, FirstLife
<1>. QED
  BY <1>1, AlwaysHoldsMap, PTL

\* Only a tree that was made anew goes astray: before that the first free offset of the block
\* manager is a free block's, so no block in use is written over, and no file is loaded.
THEOREM AstrayOnlyAnew ==
  Spec => [](opens = 0 => ~taken /\ astray = "no")
<1>. DEFINE Inv == opens \in Nat /\ (opens = 0 => taken = FALSE /\ astray = "no")
<1>1. Init => Inv
  BY DEF Init
<1>2. Inv /\ [Next]_vars => Inv'
  <2>. SUFFICES ASSUME Inv, [Next]_vars PROVE Inv'
    OBVIOUS
  <2>1. ASSUME NEW p \in Paths, NEW v \in Values, UpdateValue(p, v)
        PROVE  Inv'
    <3>1. opens' = opens /\ astray' = astray /\ taken' \in {taken, FALSE}
      BY <2>1 DEF UpdateValue, FreesBlock
    <3>. QED
      BY <3>1
  <2>2. ASSUME NEW p \in Paths, NEW v \in Values, AddValue(p, v)
        PROVE  Inv'
    BY <2>2 DEF AddValue
  <2>3. ASSUME NEW p \in Paths, NEW v \in Values, Overwrites(p, v)
        PROVE  Inv'
    BY <2>3 DEF Overwrites
  <2>4. ASSUME NEW p \in Paths, removeValue(p) \/ RemoveThrows(p)
        PROVE  Inv'
    <3>1. PICK gone : GivesBack(gone) /\ opens' = opens /\ astray' = astray
      BY <2>4 DEF removeValue, RemoveThrows
    <3>2. taken' \in {taken, FALSE}
      BY <3>1 DEF GivesBack, FreesBlock
    <3>. QED
      BY <3>1, <3>2
  <2>5. ASSUME NEW p \in Paths, GoesWrong(p)
        PROVE  Inv'
    BY <2>5 DEF GoesWrong
  <2>6. ASSUME Reopen \/ Restart \/ LoadsGarbled
        PROVE  Inv'
    <3>1. opens' = opens + 1
      BY <2>6 DEF Reopen, Restart, LoadsGarbled
    <3>. QED
      BY <3>1
  <2>7. CASE UNCHANGED vars
    BY <2>7 DEF vars
  <2>. QED
    BY <2>1, <2>2, <2>3, <2>4, <2>5, <2>6, <2>7 DEF Next
<1>3. Inv => (opens = 0 => ~taken /\ astray = "no")
  OBVIOUS
<1>. QED
  BY <1>1, <1>2, <1>3, PTL DEF Spec

\* What getValue answers once a path has a value, or has none.
AnswerWith(a, p, v) == [q \in DOMAIN a \cup {p} |-> IF q = p THEN Padded[v] ELSE a[q]]
AnswerWithout(a, p) == [q \in DOMAIN a \ {p} |-> a[q]]

\* What it answers after a call, and what it answered before.
LEMMA AnswersChanged ==
  ASSUME NEW m, NEW a, a = Answer(m)
  PROVE  /\ DOMAIN a = DOMAIN m
         /\ \A p, v : Answer(With(m, p, v)) = AnswerWith(a, p, v)
         /\ \A p : Answer(Without(m, p)) = AnswerWithout(a, p)
<1>1. DOMAIN a = DOMAIN m /\ \A q \in DOMAIN m : a[q] = Padded[m[q]]
  BY DEF Answer
<1>2. ASSUME NEW p, NEW v
      PROVE  Answer(With(m, p, v)) = AnswerWith(a, p, v)
  <2>1. Answer(With(m, p, v)) = [q \in DOMAIN m \cup {p} |-> IF q = p THEN Padded[v] ELSE Padded[m[q]]]
    BY DEF Answer, With
  <2>. QED
    BY <1>1, <2>1 DEF AnswerWith
<1>3. ASSUME NEW p
      PROVE  Answer(Without(m, p)) = AnswerWithout(a, p)
  <2>1. Answer(Without(m, p)) = [q \in DOMAIN m \ {p} |-> Padded[m[q]]]
    BY DEF Answer, Without
  <2>. QED
    BY <1>1, <2>1 DEF AnswerWithout
<1>. QED
  BY <1>1, <1>2, <1>3

\* The tree is the map IStorage promises: setValue makes a path hold a value, removeValue forgets
\* it or throws NoSuchPath, and no other path is touched.
THEOREM StorageIsMap ==
  ASSUME HashesDiffer, Paths # {}
  PROVE  Spec => ImplementsMap
<1>1. Init => Map!Init
  <2>. SUFFICES ASSUME Init PROVE Map!Init
    OBVIOUS
  <2>1. contents \in [{} -> {Padded[v] : v \in Values}]
    BY DEF Init
  <2>2. \E S \in SUBSET Paths : contents \in [S -> {Padded[v] : v \in Values}]
    BY <2>1
  <2>3. (CHOOSE p \in Paths : TRUE) \in Paths
    OBVIOUS
  <2>4. \E p \in Paths : reply = [path |-> p, result |-> "done"]
    BY <2>3 DEF Init
  <2>. QED
    BY <2>2, <2>4 DEF Map!Init, Map!Done
<1>2. HoldsMap /\ [Next]_vars => [opens' = 0 => Map!Next]_<<contents, reply>>
  <2>. SUFFICES ASSUME HoldsMap, [Next]_vars, opens' = 0
                PROVE  Map!Next \/ UNCHANGED <<contents, reply>>
    OBVIOUS
  <2>1. opens = 0
    BY StepOpens
  <2>2. PICK m : FirstLife(m)
    BY <2>1 DEF HoldsMap
  <2>3. contents = Answer(m) /\ DOMAIN contents = DOMAIN m /\ DOMAIN m \subseteq Paths
    BY <2>2, AnswersChanged DEF FirstLife, Represents, Holds, IsMap
  <2>4. CASE \E p \in Paths, v \in Values :
               (UpdateValue(p, v) \/ AddValue(p, v)) /\ FirstLife(With(m, p, v))'
    <3>1. PICK p \in Paths, v \in Values :
                 (UpdateValue(p, v) \/ AddValue(p, v)) /\ FirstLife(With(m, p, v))'
      BY <2>4
    <3>2. reply' = [path |-> p, result |-> "done"]
      BY <3>1 DEF UpdateValue, AddValue, Answers
    <3>3. contents' = Answer(With(m, p, v))
      BY <3>1 DEF FirstLife, Represents
    <3>4. contents' = AnswerWith(contents, p, v)
      BY <2>3, <3>3, AnswersChanged
    <3>5. Map!Set(p, v)
      BY <3>2, <3>4 DEF Map!Set, Map!Done, AnswerWith
    <3>. QED
      BY <3>5 DEF Map!Next
  <2>5. CASE \E p \in DOMAIN m : removeValue(p) /\ FirstLife(Without(m, p))'
    <3>1. PICK p \in DOMAIN m : removeValue(p) /\ FirstLife(Without(m, p))'
      BY <2>5
    <3>2. reply' = [path |-> p, result |-> "done"]
      BY <3>1 DEF removeValue, Answers
    <3>3. contents' = Answer(Without(m, p))
      BY <3>1 DEF FirstLife, Represents
    <3>4. contents' = AnswerWithout(contents, p)
      BY <2>3, <3>3, AnswersChanged
    <3>5. Map!Remove(p) /\ p \in Paths
      BY <2>3, <3>2, <3>4 DEF Map!Remove, Map!Done, AnswerWithout
    <3>. QED
      BY <3>5 DEF Map!Next
  <2>6. CASE \E p \in Paths \ DOMAIN m :
               reply' = [path |-> p, result |-> "NoSuchPath"] /\ FirstLife(m)'
    <3>1. PICK p \in Paths \ DOMAIN m :
                 reply' = [path |-> p, result |-> "NoSuchPath"] /\ FirstLife(m)'
      BY <2>6
    <3>2. contents' = contents
      BY <2>3, <3>1 DEF FirstLife, Represents
    <3>3. Map!RemoveMissing(p)
      BY <2>3, <3>1, <3>2 DEF Map!RemoveMissing, Map!NoSuchPath
    <3>. QED
      BY <3>3 DEF Map!Next
  <2>7. CASE UNCHANGED <<contents, reply>>
    BY <2>7
  <2>. QED
    BY <2>1, <2>2, <2>4, <2>5, <2>6, <2>7, StepOfMap
<1>. QED
  BY <1>1, <1>2, AlwaysHoldsMap, PTL DEF Spec, ImplementsMap

=============================================================================
