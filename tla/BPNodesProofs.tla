---------------------------- MODULE BPNodesProofs ---------------------------
(* Theorems about the nodes of the B+ tree: the search finds the child that may hold a *)
(* key, and splitting, borrowing and merging leave a node, its children and their      *)
(* neighbours as assertInvariants wants them, with all that they held.                 *)
EXTENDS
  BPNodes, TLAPS, SequenceTheorems, WellFoundedInduction, NaturalsInduction, FiniteSetTheorems

\* The items of nodes whose data are in E, and the heaps of such nodes.
Entry(E) == [key : Nat, data : E]
\* A node with such items, its neighbours named by numbers.
BTreeNode(E) ==
  [leaf : BOOLEAN, items : Seq(Entry(E)), left : Nat, right : Nat, off : Int]

-----------------------------------------------------------------------------
(* Numbers and sequences. *)

\* A non-empty set of naturals has a least element.
LEMMA HasLeast ==
  ASSUME NEW S \in SUBSET Nat, S # {}
  PROVE  \E m \in S : \A n \in S : m <= n
<1>. DEFINE R == {p \in Nat \X Nat : p[1] < p[2]}
<1>1. IsWellFoundedOn(R, Nat)
  <2>1. R = OpToRel(<, Nat)
    BY Zenon DEF OpToRel
  <2>. QED
    BY <2>1, NatLessThanWellFounded
<1>2. PICK m \in S : \A n \in S : <<n, m>> \notin R
  BY <1>1, WFMin, Zenon
<1>3. \A n \in S : m <= n
  <2>. SUFFICES ASSUME NEW n \in S PROVE m <= n
    OBVIOUS
  <2>1. <<n, m>> \in Nat \X Nat /\ ~(<<n, m>>[1] < <<n, m>>[2])
    BY <1>2
  <2>. QED
    BY <2>1
<1>. QED
  BY <1>3

\* What the first number that passes a test is, of those from one to another.
LEMMA FirstIn ==
  ASSUME NEW T \in SUBSET Nat, T # {}
  PROVE  /\ Min(T) \in T
         /\ \A i \in T : Min(T) <= i
BY HasLeast DEF Min

\* A part of a sequence, which may be empty.
LEMMA PartProperties ==
  ASSUME NEW S, NEW s \in Seq(S), NEW m \in 1 .. Len(s) + 1, NEW n \in m - 1 .. Len(s)
  PROVE  /\ SubSeq(s, m, n) \in Seq(S)
         /\ Len(SubSeq(s, m, n)) = n - m + 1
         /\ \A j \in 1 .. n - m + 1 : SubSeq(s, m, n)[j] = s[m + j - 1]
<1>1. m \in Int /\ n \in Int /\ \A i \in m .. n : s[i] \in S
  OBVIOUS
<1>2. /\ SubSeq(s, m, n) \in Seq(S)
      /\ Len(SubSeq(s, m, n)) = IF m <= n THEN n - m + 1 ELSE 0
      /\ \A i \in 1 .. n - m + 1 : SubSeq(s, m, n)[i] = s[m + i - 1]
  BY <1>1, SubSeqProperties
<1>3. Len(s) \in Nat /\ m \in Nat /\ n \in Int /\ n >= m - 1
  OBVIOUS
<1>. QED
  BY <1>2, <1>3

\* Two sequences joined, of known lengths.
LEMMA JoinProperties ==
  ASSUME NEW S, NEW s \in Seq(S), NEW t \in Seq(S), NEW m \in Nat, NEW n \in Nat,
         Len(s) = m, Len(t) = n
  PROVE  /\ s \o t \in Seq(S)
         /\ Len(s \o t) = m + n
         /\ \A j \in 1 .. m : (s \o t)[j] = s[j]
         /\ \A j \in 1 .. n : (s \o t)[m + j] = t[j]
OBVIOUS

\* Item e is put in at place i.
LEMMA InsertAtProperties ==
  ASSUME NEW S, NEW s \in Seq(S), NEW i \in 1 .. Len(s) + 1, NEW e \in S
  PROVE  /\ InsertAt(s, i, e) \in Seq(S)
         /\ Len(InsertAt(s, i, e)) = Len(s) + 1
         /\ \A j \in 1 .. i - 1 : InsertAt(s, i, e)[j] = s[j]
         /\ InsertAt(s, i, e)[i] = e
         /\ \A j \in i .. Len(s) : InsertAt(s, i, e)[j + 1] = s[j]
<1>. DEFINE m == i - 1
            n == Len(s) - i + 1
            a == SubSeq(s, 1, i - 1)
            b == SubSeq(s, i, Len(s))
            c == a \o <<e>>
            r == c \o b
<1>1. m \in Nat /\ n \in Nat /\ i = m + 1 /\ i \in Nat /\ i + n = Len(s) + 1 /\ Len(s) \in Nat
  OBVIOUS
<1>2. a \in Seq(S) /\ Len(a) = m /\ \A j \in 1 .. m : a[j] = s[j]
  BY PartProperties
<1>3. b \in Seq(S) /\ Len(b) = n /\ \A j \in 1 .. n : b[j] = s[i + j - 1]
  BY PartProperties
<1>4. InsertAt(s, i, e) = r
  BY DEF InsertAt
<1>5. <<e>> \in Seq(S) /\ Len(<<e>>) = 1 /\ <<e>>[1] = e
  OBVIOUS
<1>. HIDE DEF a, b, m, n
<1>6. /\ c \in Seq(S) /\ Len(c) = m + 1
      /\ \A j \in 1 .. m : c[j] = a[j]
      /\ \A j \in 1 .. 1 : c[m + j] = <<e>>[j]
  BY <1>1, <1>2, <1>5, JoinProperties
<1>. HIDE DEF c
<1>11. Len(c) = i
  BY <1>1, <1>6
<1>7. /\ r \in Seq(S) /\ Len(r) = i + n
      /\ \A j \in 1 .. i : r[j] = c[j]
      /\ \A j \in 1 .. n : r[i + j] = b[j]
  <2>1. b \in Seq(S) /\ Len(b) = n /\ c \in Seq(S)
    BY <1>3, <1>6
  <2>. QED
    BY <2>1, <1>1, <1>11
<1>. HIDE DEF r
<1>8. ASSUME NEW j \in 1 .. i - 1 PROVE r[j] = s[j]
  BY <1>1, <1>2, <1>6, <1>7
<1>9. r[i] = e
  BY <1>1, <1>5, <1>6, <1>7
<1>10. ASSUME NEW j \in i .. Len(s) PROVE r[j + 1] = s[j]
  <2>1. j - i + 1 \in 1 .. n /\ i + (j - i + 1) = j + 1 /\ i + (j - i + 1) - 1 = j
    BY <1>1
  <2>. QED
    BY <2>1, <1>3, <1>7
<1>. QED
  BY <1>1, <1>4, <1>7, <1>8, <1>9, <1>10

\* The item at place i is taken out.
LEMMA RemoveAtProperties ==
  ASSUME NEW S, NEW s \in Seq(S), NEW i \in 1 .. Len(s)
  PROVE  /\ RemoveAt(s, i) \in Seq(S)
         /\ Len(RemoveAt(s, i)) = Len(s) - 1
         /\ \A j \in 1 .. i - 1 : RemoveAt(s, i)[j] = s[j]
         /\ \A j \in i .. Len(s) - 1 : RemoveAt(s, i)[j] = s[j + 1]
<1>. DEFINE m == i - 1
            n == Len(s) - i
            a == SubSeq(s, 1, i - 1)
            b == SubSeq(s, i + 1, Len(s))
            r == a \o b
<1>1. m \in Nat /\ n \in Nat /\ i = m + 1 /\ m + n = Len(s) - 1 /\ Len(s) \in Nat /\ i \in Nat
  OBVIOUS
<1>2. a \in Seq(S) /\ Len(a) = m /\ \A j \in 1 .. m : a[j] = s[j]
  BY PartProperties
<1>3. b \in Seq(S) /\ Len(b) = n /\ \A j \in 1 .. n : b[j] = s[i + 1 + j - 1]
  BY PartProperties
<1>4. RemoveAt(s, i) = r
  BY DEF RemoveAt
<1>. HIDE DEF a, b, m, n
<1>5. /\ r \in Seq(S) /\ Len(r) = m + n
      /\ \A j \in 1 .. m : r[j] = a[j]
      /\ \A j \in 1 .. n : r[m + j] = b[j]
  <2>1. a \in Seq(S) /\ Len(a) = m /\ b \in Seq(S) /\ Len(b) = n
    BY <1>2, <1>3
  <2>2. m \in Nat /\ n \in Nat
    BY <1>1
  <2>. QED
    BY <2>1, <2>2
<1>. HIDE DEF r
<1>6. ASSUME NEW j \in 1 .. i - 1 PROVE r[j] = s[j]
  BY <1>1, <1>2, <1>5
<1>7. ASSUME NEW j \in i .. Len(s) - 1 PROVE r[j] = s[j + 1]
  <2>1. j - m \in 1 .. n /\ m + (j - m) = j /\ i + 1 + (j - m) - 1 = j + 1
    BY <1>1
  <2>. QED
    <3>1. r[m + (j - m)] = b[j - m]
      BY <2>1, <1>5
    <3>2. b[j - m] = s[i + 1 + (j - m) - 1]
      BY <2>1, <1>3
    <3>. QED
      BY <2>1, <3>1, <3>2
<1>. QED
  BY <1>1, <1>4, <1>5, <1>6, <1>7

\* The first and the last item.
LEMMA Ends ==
  ASSUME NEW S, NEW s \in Seq(S), s # <<>>
  PROVE  /\ Len(s) \in Nat /\ Len(s) >= 1
         /\ Head(s) = s[1] /\ s[1] \in S
         /\ Last(s) = s[Len(s)] /\ s[Len(s)] \in S
BY DEF Last

\* Joined sequences begin as the first and end as the second.
LEMMA JoinedEnds ==
  ASSUME NEW S, NEW s \in Seq(S), NEW t \in Seq(S), s # <<>>, t # <<>>
  PROVE  Head(s \o t) = Head(s) /\ Last(s \o t) = Last(t) /\ s \o t # <<>>
<1>1. /\ s \o t \in Seq(S) /\ Len(s \o t) = Len(s) + Len(t)
      /\ \A j \in 1 .. Len(s) : (s \o t)[j] = s[j]
      /\ \A j \in 1 .. Len(t) : (s \o t)[Len(s) + j] = t[j]
  OBVIOUS
<1>. DEFINE w == s \o t
<1>2. w \in Seq(S) /\ Len(w) = Len(s) + Len(t) /\ w[1] = s[1] /\ w[Len(s) + Len(t)] = t[Len(t)]
  BY <1>1, Ends
<1>. HIDE DEF w
<1>3. w # <<>> /\ Head(w) = w[1] /\ Last(w) = w[Len(w)]
  BY <1>2, Ends
<1>. QED
  BY <1>2, <1>3, Ends DEF w

-----------------------------------------------------------------------------
(* What holds of the items of a node, and how it is made up of what holds of two parts. *)

\* Items in order, in two parts: each part is, and the first ends below the second.
LEMMA OrderJoined ==
  ASSUME NEW E, NEW s \in Seq(Entry(E)), NEW t \in Seq(Entry(E)), s # <<>>, t # <<>>
  PROVE  InOrder(s \o t) <=> InOrder(s) /\ InOrder(t) /\ Last(s).key < Head(t).key
<1>. DEFINE w == s \o t
            m == Len(s)
            n == Len(t)
<1>1. /\ w \in Seq(Entry(E)) /\ Len(w) = m + n
      /\ \A j \in 1 .. m : w[j] = s[j]
      /\ \A j \in 1 .. n : w[m + j] = t[j]
  OBVIOUS
<1>2. m \in Nat /\ n \in Nat /\ m >= 1 /\ n >= 1 /\ Last(s) = s[m] /\ Head(t) = t[1]
  BY Ends
<1>3. /\ \A j \in 1 .. m : s[j].key \in Nat
      /\ \A j \in 1 .. n : t[j].key \in Nat
  <2>1. /\ \A j \in 1 .. m : s[j] \in Entry(E)
        /\ \A j \in 1 .. n : t[j] \in Entry(E)
    OBVIOUS
  <2>. QED
    BY <2>1 DEF Entry
<1>. HIDE DEF w, m, n
<1>4. ASSUME InOrder(w)
      PROVE  InOrder(s) /\ InOrder(t) /\ Last(s).key < Head(t).key
  <2>1. ASSUME NEW i \in 1 .. m, NEW j \in 1 .. m, i < j PROVE s[i].key < s[j].key
    BY <1>1, <1>2, <1>4, <2>1 DEF InOrder
  <2>2. ASSUME NEW i \in 1 .. n, NEW j \in 1 .. n, i < j PROVE t[i].key < t[j].key
    <3>1. m + i \in 1 .. m + n /\ m + j \in 1 .. m + n /\ m + i < m + j
      BY <1>2, <2>2
    <3>. QED
      BY <3>1, <1>1, <1>4 DEF InOrder
  <2>3. s[m].key < t[1].key
    <3>1. m \in 1 .. m + n /\ m + 1 \in 1 .. m + n /\ m < m + 1
      BY <1>2
    <3>2. w[m].key < w[m + 1].key
      BY <3>1, <1>1, <1>4 DEF InOrder
    <3>. QED
      BY <3>2, <1>1, <1>2
  <2>. QED
    BY <2>1, <2>2, <2>3, <1>2 DEF InOrder, m, n
<1>5. ASSUME InOrder(s), InOrder(t), Last(s).key < Head(t).key
      PROVE  InOrder(w)
  <2>. SUFFICES ASSUME NEW i \in 1 .. m + n, NEW j \in 1 .. m + n, i < j
                PROVE  w[i].key < w[j].key
    BY <1>1 DEF InOrder
  <2>1. CASE j <= m
    BY <2>1, <1>1, <1>2, <1>5 DEF InOrder, m
  <2>2. CASE i > m
    <3>1. i - m \in 1 .. n /\ j - m \in 1 .. n /\ m + (i - m) = i /\ m + (j - m) = j /\ i - m < j - m
      BY <2>2, <1>2
    <3>2. w[i] = t[i - m] /\ w[j] = t[j - m]
      BY <3>1, <1>1
    <3>. QED
      BY <3>1, <3>2, <1>5 DEF InOrder, n
  <2>3. CASE i <= m /\ j > m
    <3>1. i \in 1 .. m /\ j - m \in 1 .. n /\ m + (j - m) = j
      BY <2>3, <1>2
    <3>2. w[i] = s[i] /\ w[j] = t[j - m]
      BY <3>1, <1>1
    <3>3. s[i].key <= s[m].key
      BY <3>1, <1>2, <1>3, <1>5 DEF InOrder, m
    <3>4. t[1].key <= t[j - m].key
      BY <3>1, <1>2, <1>3, <1>5 DEF InOrder, n
    <3>5. s[i].key \in Nat /\ s[m].key \in Nat /\ t[1].key \in Nat /\ t[j - m].key \in Nat
      BY <3>1, <1>2, <1>3
    <3>6. s[m].key < t[1].key
      BY <1>2, <1>5
    <3>. QED
      BY <3>2, <3>3, <3>4, <3>5, <3>6
  <2>. QED
    BY <2>1, <2>2, <2>3, <1>2
<1>. QED
  BY <1>4, <1>5 DEF w

\* The first key is the least and the last the greatest.
LEMMA OrderedEnds ==
  ASSUME NEW E, NEW s \in Seq(Entry(E)), s # <<>>, InOrder(s)
  PROVE  /\ Head(s).key \in Nat /\ Last(s).key \in Nat
         /\ \A i \in 1 .. Len(s) : /\ s[i].key \in Nat
                                  /\ Head(s).key <= s[i].key /\ s[i].key <= Last(s).key
         /\ Head(s) \in ToSet(s) /\ Last(s) \in ToSet(s)
<1>1. /\ Len(s) \in Nat /\ Len(s) >= 1 /\ Head(s) = s[1] /\ Last(s) = s[Len(s)]
      /\ 1 \in DOMAIN s /\ Len(s) \in DOMAIN s
  BY Ends
<1>2. \A i \in 1 .. Len(s) : s[i].key \in Nat
  <2>1. \A i \in 1 .. Len(s) : s[i] \in Entry(E)
    OBVIOUS
  <2>. QED
    BY <2>1 DEF Entry
<1>3. ASSUME NEW i \in 1 .. Len(s)
      PROVE  s[1].key <= s[i].key /\ s[i].key <= s[Len(s)].key
  <2>1. s[1].key <= s[i].key
    BY <1>2, <1>1 DEF InOrder
  <2>2. s[i].key <= s[Len(s)].key
    BY <1>2, <1>1 DEF InOrder
  <2>. QED
    BY <2>1, <2>2
<1>. QED
  BY <1>1, <1>2, <1>3 DEF ToSet

\* Nodes linked in order, in two parts.
LEMMA ChainJoined ==
  ASSUME NEW h, NEW S, NEW s \in Seq(S), NEW t \in Seq(S), s # <<>>, t # <<>>
  PROVE  Chain(h, s \o t)
           <=> Chain(h, s) /\ Chain(h, t) /\ Adjacent(h, Last(s).data, Head(t).data)
<1>. DEFINE w == s \o t
            m == Len(s)
            n == Len(t)
            A(x, y) == Adjacent(h, x.data, y.data)
<1>1. /\ w \in Seq(S) /\ Len(w) = m + n
      /\ \A j \in 1 .. m : w[j] = s[j]
      /\ \A j \in 1 .. n : w[m + j] = t[j]
  OBVIOUS
<1>2. m \in Nat /\ n \in Nat /\ m >= 1 /\ n >= 1 /\ Last(s) = s[m] /\ Head(t) = t[1]
  BY Ends
<1>3. /\ Chain(h, w) <=> \A i \in 2 .. m + n : A(w[i - 1], w[i])
      /\ Chain(h, s) <=> \A i \in 2 .. m : A(s[i - 1], s[i])
      /\ Chain(h, t) <=> \A i \in 2 .. n : A(t[i - 1], t[i])
  BY <1>1 DEF Chain
<1>. HIDE DEF w, m, n, A
<1>4. ASSUME \A i \in 2 .. m + n : A(w[i - 1], w[i])
      PROVE  /\ \A i \in 2 .. m : A(s[i - 1], s[i])
             /\ \A i \in 2 .. n : A(t[i - 1], t[i])
             /\ A(s[m], t[1])
  <2>1. ASSUME NEW i \in 2 .. m PROVE A(s[i - 1], s[i])
    <3>1. i \in 2 .. m + n /\ i - 1 \in 1 .. m /\ i \in 1 .. m
      BY <1>2
    <3>. QED
      BY <3>1, <1>1, <1>4
  <2>2. ASSUME NEW i \in 2 .. n PROVE A(t[i - 1], t[i])
    <3>1. m + i \in 2 .. m + n /\ i - 1 \in 1 .. n /\ i \in 1 .. n /\ (m + i) - 1 = m + (i - 1)
      BY <1>2
    <3>2. w[m + i] = t[i] /\ w[(m + i) - 1] = t[i - 1]
      BY <3>1, <1>1
    <3>3. PICK k \in 2 .. m + n : w[k] = t[i] /\ w[k - 1] = t[i - 1]
      BY <3>1, <3>2
    <3>4. A(w[k - 1], w[k])
      BY <1>4
    <3>. QED
      BY <3>3, <3>4
  <2>3. A(s[m], t[1])
    <3>1. m + 1 \in 2 .. m + n /\ m \in 1 .. m /\ 1 \in 1 .. n /\ m + 1 - 1 = m
      BY <1>2
    <3>. QED
      BY <3>1, <1>1, <1>4
  <2>. QED
    BY <2>1, <2>2, <2>3
<1>5. ASSUME /\ \A i \in 2 .. m : A(s[i - 1], s[i])
             /\ \A i \in 2 .. n : A(t[i - 1], t[i])
             /\ A(s[m], t[1])
      PROVE  \A i \in 2 .. m + n : A(w[i - 1], w[i])
  <2>. SUFFICES ASSUME NEW i \in 2 .. m + n PROVE A(w[i - 1], w[i])
    OBVIOUS
  <2>1. CASE i <= m
    <3>1. i \in 2 .. m /\ i - 1 \in 1 .. m /\ i \in 1 .. m
      BY <2>1, <1>2
    <3>. QED
      BY <3>1, <1>1, <1>5
  <2>2. CASE i = m + 1
    <3>1. i - 1 = m /\ m \in 1 .. m /\ 1 \in 1 .. n
      BY <2>2, <1>2
    <3>. QED
      BY <3>1, <2>2, <1>1, <1>5
  <2>3. CASE i > m + 1
    <3>1. i - m \in 2 .. n /\ i - m \in 1 .. n /\ i - m - 1 \in 1 .. n
          /\ m + (i - m) = i /\ m + (i - m - 1) = i - 1
      BY <2>3, <1>2
    <3>2. w[i] = t[i - m] /\ w[i - 1] = t[i - m - 1]
      BY <3>1, <1>1
    <3>. QED
      BY <3>1, <3>2, <1>5
  <2>. QED
    BY <2>1, <2>2, <2>3, <1>2
<1>. QED
  BY <1>2, <1>3, <1>4, <1>5, Zenon DEF w, A

\* All the items of two parts.
LEMMA ToSetJoined ==
  ASSUME NEW S, NEW s \in Seq(S), NEW t \in Seq(S)
  PROVE  ToSet(s \o t) = ToSet(s) \cup ToSet(t)
<1>. DEFINE w == s \o t
            m == Len(s)
            n == Len(t)
<1>1. /\ w \in Seq(S) /\ Len(w) = m + n /\ m \in Nat /\ n \in Nat
      /\ \A j \in 1 .. m : w[j] = s[j]
      /\ \A j \in 1 .. n : w[m + j] = t[j]
  OBVIOUS
<1>2. /\ ToSet(w) = {w[i] : i \in 1 .. m + n}
      /\ ToSet(s) = {s[i] : i \in 1 .. m}
      /\ ToSet(t) = {t[i] : i \in 1 .. n}
  BY <1>1 DEF ToSet
<1>. HIDE DEF w, m, n
<1>3. \A i \in 1 .. m : i \in 1 .. m + n
  BY <1>1
<1>4. \A i \in 1 .. n : m + i \in 1 .. m + n
  BY <1>1
<1>5. \A i \in 1 .. m + n : i \in 1 .. m \/ (i - m \in 1 .. n /\ m + (i - m) = i)
  BY <1>1
<1>6. ToSet(w) \subseteq ToSet(s) \cup ToSet(t)
  <2>. SUFFICES ASSUME NEW i \in 1 .. m + n PROVE w[i] \in ToSet(s) \cup ToSet(t)
    BY <1>2
  <2>1. CASE i \in 1 .. m
    BY <2>1, <1>1, <1>2
  <2>2. CASE i - m \in 1 .. n /\ m + (i - m) = i
    BY <2>2, <1>1, <1>2
  <2>. QED
    BY <2>1, <2>2, <1>5
<1>7. ToSet(s) \subseteq ToSet(w) /\ ToSet(t) \subseteq ToSet(w)
  BY <1>1, <1>2, <1>3, <1>4
<1>. QED
  BY <1>6, <1>7 DEF w

\* Keys that are the largest of their nodes, in two parts.
LEMMA ExactJoined ==
  ASSUME NEW h, NEW S, NEW s \in Seq(S), NEW t \in Seq(S)
  PROVE  Exact(h, s \o t) <=> Exact(h, s) /\ Exact(h, t)
<1>. DEFINE w == s \o t
            m == Len(s)
            n == Len(t)
            X(x) == x.key = MaxKey(h, x.data)
<1>1. /\ w \in Seq(S) /\ Len(w) = m + n /\ m \in Nat /\ n \in Nat
      /\ \A j \in 1 .. m : w[j] = s[j]
      /\ \A j \in 1 .. n : w[m + j] = t[j]
  OBVIOUS
<1>2. /\ Exact(h, w) <=> \A i \in 1 .. m + n : X(w[i])
      /\ Exact(h, s) <=> \A i \in 1 .. m : X(s[i])
      /\ Exact(h, t) <=> \A i \in 1 .. n : X(t[i])
  BY <1>1 DEF Exact
<1>. HIDE DEF w, m, n, X
<1>3. \A i \in 1 .. m : i \in 1 .. m + n
  BY <1>1
<1>4. \A i \in 1 .. n : m + i \in 1 .. m + n
  BY <1>1
<1>5. \A i \in 1 .. m + n : i \in 1 .. m \/ (i - m \in 1 .. n /\ m + (i - m) = i)
  BY <1>1
<1>6. Exact(h, w) <=> Exact(h, s) /\ Exact(h, t)
  BY <1>1, <1>2, <1>3, <1>4, <1>5
<1>. QED
  BY <1>6 DEF w

\* Two runs of an inner node's items are right together if each is and the last child of the
\* one is linked to the first of the other.
LEMMA InnerJoined ==
  ASSUME NEW h, NEW D, NEW S, NEW s \in Seq(S), NEW t \in Seq(S), s # <<>>, t # <<>>
  PROVE  Inner(h, s \o t, D)
           <=> Inner(h, s, D) /\ Inner(h, t, D) /\ Adjacent(h, Last(s).data, Head(t).data)
<1>1. Chain(h, s \o t)
        <=> Chain(h, s) /\ Chain(h, t) /\ Adjacent(h, Last(s).data, Head(t).data)
  BY ChainJoined
<1>2. /\ Exact(h, s \o t) <=> Exact(h, s) /\ Exact(h, t)
      /\ ToSet(s \o t) = ToSet(s) \cup ToSet(t)
  BY ExactJoined, ToSetJoined
<1>3. (\A e \in ToSet(s \o t) : e.data \in D)
        <=> (\A e \in ToSet(s) : e.data \in D) /\ (\A e \in ToSet(t) : e.data \in D)
  BY <1>2
<1>. QED
  BY <1>1, <1>2, <1>3, Zenon DEF Inner

\* What holds of them depends on the nodes in D only.
LEMMA InnerAgrees ==
  ASSUME NEW g, NEW h, NEW D, NEW S, NEW s \in Seq(S), \A d \in D : g[d] = h[d], Inner(h, s, D)
  PROVE  Inner(g, s, D)
<1>1. \A i \in 1 .. Len(s) : s[i].data \in D
  BY DEF Inner, ToSet
<1>2. Exact(g, s)
  BY <1>1 DEF Inner, Exact, MaxKey
<1>3. Chain(g, s)
  <2>. SUFFICES ASSUME NEW i \in 2 .. Len(s)
                PROVE  Adjacent(g, s[i - 1].data, s[i].data)
    BY DEF Chain
  <2>1. i - 1 \in 1 .. Len(s) /\ i \in 1 .. Len(s)
    OBVIOUS
  <2>2. Adjacent(h, s[i - 1].data, s[i].data)
    BY DEF Inner, Chain
  <2>. QED
    BY <1>1, <2>1, <2>2 DEF Adjacent
<1>. QED
  BY <1>2, <1>3 DEF Inner

-----------------------------------------------------------------------------
\* All items of a row.
Held(h, S) == UNION {ToSet(Items(h, x)) : x \in S}

\* Row S of one heap has become row T of another, with the same items.
BecomesRow(h, S, g, T, D) == Row(g, T, D) /\ Held(g, T) = Held(h, S)

\* Rows that differ in some nodes only hold the same if those nodes do.
LEMMA HeldSame ==
  ASSUME NEW g, NEW h, NEW S, NEW T, NEW A, NEW B, A \subseteq S, B \subseteq T,
         \A x \in S : x \in A \/ (x \in T /\ Items(g, x) = Items(h, x)),
         \A x \in T : x \in B \/ (x \in S /\ Items(g, x) = Items(h, x)),
         Held(g, B) = Held(h, A)
  PROVE  Held(g, T) = Held(h, S)
<1>1. /\ \A e : e \in Held(g, T) <=> \E x \in T : e \in ToSet(Items(g, x))
      /\ \A e : e \in Held(h, S) <=> \E x \in S : e \in ToSet(Items(h, x))
      /\ \A e : e \in Held(g, B) <=> \E x \in B : e \in ToSet(Items(g, x))
      /\ \A e : e \in Held(h, A) <=> \E x \in A : e \in ToSet(Items(h, x))
  BY DEF Held
<1>2. ASSUME NEW e \in Held(g, T)
      PROVE  e \in Held(h, S)
  BY <1>1
<1>3. ASSUME NEW e \in Held(h, S)
      PROVE  e \in Held(g, T)
  BY <1>1
<1>. QED
  BY <1>2, <1>3

\* What a single node holds.
LEMMA HeldInOne ==
  ASSUME NEW h, NEW x
  PROVE  Held(h, {x}) = ToSet(Items(h, x))
BY DEF Held

\* What two nodes hold.
LEMMA HeldInTwo ==
  ASSUME NEW h, NEW x, NEW y
  PROVE  Held(h, {x, y}) = ToSet(Items(h, x)) \cup ToSet(Items(h, y))
BY DEF Held

\* What a place of a heap has in it.
LEMMA HeapNode ==
  ASSUME NEW E, NEW h \in Seq(BTreeNode(E)), NEW x \in DOMAIN h
  PROVE  /\ x \in Nat /\ x # None /\ h[x] \in BTreeNode(E)
         /\ Items(h, x) \in Seq(Entry(E)) /\ Size(h, x) \in Nat
         /\ h[x].left \in Nat /\ h[x].right \in Nat /\ h[x].leaf \in BOOLEAN
<1>1. x \in Nat /\ x # None /\ h[x] \in BTreeNode(E)
  BY DEF None
<1>2. /\ h[x].items \in Seq(Entry(E))
      /\ h[x].left \in Nat /\ h[x].right \in Nat /\ h[x].leaf \in BOOLEAN
  BY <1>1 DEF BTreeNode
<1>. QED
  BY <1>1, <1>2 DEF Items, Size

\* The items at the ends of a node of a row.
LEMMA RowEnds ==
  ASSUME NEW E, NEW h \in Seq(BTreeNode(E)), NEW S, NEW D, Row(h, S, D), NEW x \in S
  PROVE  /\ x \in DOMAIN h /\ x # None
         /\ Items(h, x) \in Seq(Entry(E)) /\ Items(h, x) # <<>>
         /\ Head(Items(h, x)).key \in Nat /\ Last(Items(h, x)).key \in Nat
         /\ Head(Items(h, x)).key <= Last(Items(h, x)).key
         /\ Head(Items(h, x)) \in ToSet(Items(h, x)) /\ Last(Items(h, x)) \in ToSet(Items(h, x))
         /\ ~h[x].leaf => /\ Head(Items(h, x)).data \in D
                          /\ Last(Items(h, x)).data \in D
<1>. DEFINE s == Items(h, x)
<1>1. x \in DOMAIN h /\ x # None /\ s \in Seq(Entry(E)) /\ s # <<>>
  BY HeapNode DEF Row, RowNode
<1>2. InOrder(s) /\ (~h[x].leaf => \A e \in ToSet(s) : e.data \in D)
  BY DEF Row, RowNode, KeysInOrder, Inner
<1>. HIDE DEF s
<1>3. /\ Head(s).key \in Nat /\ Last(s).key \in Nat /\ Head(s).key <= Last(s).key
      /\ Head(s) \in ToSet(s) /\ Last(s) \in ToSet(s)
  <2>1. 1 \in 1 .. Len(s) /\ Head(s) = s[1]
    BY <1>1, Ends
  <2>. QED
    BY <2>1, <1>1, <1>2, OrderedEnds
<1>. QED
  BY <1>1, <1>2, <1>3 DEF s

\* A row without two nodes that have the same right neighbour.
LEMMA RightOf ==
  ASSUME NEW h, NEW S, NEW D, Row(h, S, D), NEW l \in S, NEW r \in S, Adjacent(h, l, r),
         NEW x \in S, h[x].right = r, None \notin S
  PROVE  x = l
BY DEF Row, RowNode, NeighboursInOrder, Adjacent

\* Items move between two neighbours, their order kept.
LEMMA ShiftKeepsRow ==
  ASSUME NEW E, NEW h \in Seq(BTreeNode(E)), NEW S, NEW D, Row(h, S, D),
         NEW g \in Seq(BTreeNode(E)), DOMAIN h \subseteq DOMAIN g,
         NEW l \in S, NEW r \in S, l # r, Adjacent(h, l, r),
         \A x \in S : h[x].left = g[x].left /\ h[x].right = g[x].right /\ h[x].leaf = g[x].leaf,
         \A x \in S \ {l, r} : Items(g, x) = Items(h, x),
         \A d \in D : g[d] = h[d],
         Items(g, l) # <<>>, Items(g, r) # <<>>,
         Items(g, l) \o Items(g, r) = Items(h, l) \o Items(h, r)
  PROVE  BecomesRow(h, S, g, S, D)
<1>. DEFINE u == Items(h, l)
            v == Items(h, r)
            a == Items(g, l)
            b == Items(g, r)
<1>1. /\ u \in Seq(Entry(E)) /\ u # <<>> /\ v \in Seq(Entry(E)) /\ v # <<>>
      /\ a \in Seq(Entry(E)) /\ a # <<>> /\ b \in Seq(Entry(E)) /\ b # <<>>
      /\ a \o b = u \o v
  <2>1. l \in DOMAIN g /\ r \in DOMAIN g
    BY DEF Row
  <2>. QED
    BY <2>1, RowEnds, HeapNode
<1>2. /\ InOrder(u) /\ InOrder(v) /\ Last(u).key < Head(v).key
  <2>1. l # None /\ r # None
    BY RowEnds
  <2>. QED
    BY <2>1 DEF Row, RowNode, KeysInOrder, NeighboursInOrder, Adjacent, MaxKey, Items
<1>. HIDE DEF u, v, a, b
<1>3. InOrder(a) /\ InOrder(b) /\ Last(a).key < Head(b).key
  <2>1. InOrder(u \o v)
    BY <1>1, <1>2, OrderJoined
  <2>. QED
    BY <2>1, <1>1, OrderJoined
<1>4. Head(a) = Head(u) /\ Last(b) = Last(v)
  <2>1. Head(u \o v) = Head(u) /\ Last(u \o v) = Last(v)
    BY <1>1, JoinedEnds
  <2>2. Head(a \o b) = Head(a) /\ Last(a \o b) = Last(b)
    BY <1>1, JoinedEnds
  <2>. QED
    BY <2>1, <2>2, <1>1
<1>5. /\ \A x \in S : x # r => Head(Items(g, x)) = Head(Items(h, x))
      /\ \A x \in S : x # l => Last(Items(g, x)) = Last(Items(h, x))
  BY <1>4 DEF a, b, u, v
<1>6. \A x \in S : x # l => h[x].right # r
  <2>1. None \notin S
    BY RowEnds
  <2>. QED
    BY <2>1, RightOf
<1>7. ASSUME ~h[l].leaf
      PROVE  Inner(g, a, D) /\ Inner(g, b, D) /\ Adjacent(g, Last(a).data, Head(b).data)
  <2>1. ~h[r].leaf
    BY <1>7 DEF Row
  <2>2. Inner(h, u, D) /\ Inner(h, v, D) /\ Adjacent(h, Last(u).data, Head(v).data)
    <3>1. r # None
      BY RowEnds
    <3>. QED
      BY <1>7, <2>1, <3>1 DEF Row, RowNode, CousinsLinked, Adjacent, u, v
  <2>3. Inner(h, u \o v, D)
    BY <2>2, <1>1, InnerJoined
  <2>4. Inner(g, u \o v, D)
    <3>1. u \o v \in Seq(Entry(E))
      BY <1>1
    <3>. QED
      BY <2>3, <3>1, InnerAgrees
  <2>. QED
    BY <2>4, <1>1, InnerJoined
<1>8. ASSUME NEW x \in S
      PROVE  RowNode(g, S, D, x)
  <2>0. /\ RowNode(h, S, D, x) /\ h[x].left = g[x].left /\ h[x].right = g[x].right
        /\ h[x].leaf = g[x].leaf
    BY DEF Row
  <2>1. Items(g, x) # <<>> /\ KeysInOrder(g, x)
    BY <2>0, <1>1, <1>3 DEF RowNode, KeysInOrder, a, b
  <2>2. NeighboursInOrder(g, x)
    <3>1. g[x].left # None => Adjacent(g, g[x].left, x)
      BY <2>0 DEF RowNode, NeighboursInOrder, Adjacent
    <3>2. g[x].right # None => Adjacent(g, x, g[x].right)
      BY <2>0 DEF RowNode, NeighboursInOrder, Adjacent
    <3>3. CASE x = l
      BY Zenon, <3>1, <3>2, <3>3, <2>0, <1>3 DEF NeighboursInOrder, Adjacent, MaxKey, Items, a, b
    <3>4. CASE x # l
      <4>1. ASSUME g[x].right # None
            PROVE  Last(Items(g, x)).key < Head(Items(g, g[x].right)).key
        <5>1. g[x].right \in S /\ g[x].right # r
          BY <4>1, <3>4, <2>0, <1>6 DEF RowNode
        <5>2. Last(Items(h, x)).key < Head(Items(h, g[x].right)).key
          BY <4>1, <2>0 DEF RowNode, NeighboursInOrder, MaxKey, Items
        <5>. QED
          BY <5>1, <5>2, <3>4, <1>5
      <4>. QED
        BY <3>1, <3>2, <4>1 DEF NeighboursInOrder, MaxKey, Items
    <3>. QED
      BY <3>3, <3>4
  <2>3. ASSUME ~g[x].leaf
        PROVE  Inner(g, Items(g, x), D) /\ CousinsLinked(g, x)
    <3>1. ~h[x].leaf /\ ~h[l].leaf /\ ~h[r].leaf
      BY <2>3, <2>0 DEF Row
    <3>2. Inner(g, Items(g, x), D)
      <4>1. CASE x \in {l, r}
        BY <4>1, <3>1, <1>7 DEF a, b
      <4>2. CASE x \notin {l, r}
        BY <4>2, <3>1, <2>0, InnerAgrees, RowEnds DEF RowNode
      <4>. QED
        BY <4>1, <4>2
    <3>. DEFINE F(y) == Head(Items(h, y)).data
                L(y) == Last(Items(h, y)).data
    <3>3. /\ F(x) \in D /\ L(x) \in D
          /\ h[x].right # None => h[x].right \in S /\ F(h[x].right) \in D
      <4>1. h[x].right # None => h[x].right \in S
        BY <2>0 DEF RowNode
      <4>2. \A y \in S : F(y) \in D /\ L(y) \in D
        BY <3>1, RowEnds DEF Row
      <4>. QED
        BY <4>1, <4>2
    <3>4. /\ h[x].left = None => h[F(x)].left = None
          /\ h[x].right = None => h[L(x)].right = None
          /\ h[x].right # None => Adjacent(h, L(x), F(h[x].right))
      BY <3>1, <2>0 DEF RowNode, CousinsLinked
    <3>5. g[x].left = None => g[Head(Items(g, x)).data].left = None
      <4>1. x = r => h[x].left = l /\ l # None
        BY RowEnds DEF Adjacent
      <4>. QED
        BY <4>1, <3>3, <3>4, <2>0, <1>5
    <3>6. g[x].right = None => g[Last(Items(g, x)).data].right = None
      <4>1. x = l => h[x].right = r /\ r # None
        BY RowEnds DEF Adjacent
      <4>. QED
        BY <4>1, <3>3, <3>4, <2>0, <1>5
    <3>7. g[x].right # None
            => Adjacent(g, Last(Items(g, x)).data, Head(Items(g, g[x].right)).data)
      <4>1. CASE x = l
        BY <4>1, <3>1, <1>7, <2>0 DEF Adjacent, a, b
      <4>2. CASE x # l
        <5>. SUFFICES ASSUME g[x].right # None
                      PROVE  Adjacent(g, Last(Items(g, x)).data, Head(Items(g, g[x].right)).data)
          OBVIOUS
        <5>1. /\ Last(Items(g, x)) = Last(Items(h, x))
              /\ Head(Items(g, g[x].right)) = Head(Items(h, g[x].right))
          BY <4>2, <3>3, <2>0, <1>5, <1>6
        <5>2. Adjacent(h, L(x), F(h[x].right)) /\ L(x) \in D /\ F(h[x].right) \in D
          BY <3>3, <3>4, <2>0
        <5>. QED
          BY <5>1, <5>2, <2>0 DEF Adjacent
      <4>. QED
        BY <4>1, <4>2
    <3>. QED
      BY <3>2, <3>5, <3>6, <3>7 DEF CousinsLinked
  <2>. QED
    BY <2>0, <2>1, <2>2, <2>3 DEF RowNode
<1>9. Row(g, S, D)
  BY <1>8 DEF Row
<1>10. Held(g, S) = Held(h, S)
  <2>1. ToSet(a) \cup ToSet(b) = ToSet(u) \cup ToSet(v)
    <3>3. a \in Seq(Entry(E)) /\ b \in Seq(Entry(E)) /\ u \in Seq(Entry(E)) /\ v \in Seq(Entry(E))
      BY <1>1
    <3>1. ToSet(a \o b) = ToSet(a) \cup ToSet(b)
      BY <3>3, ToSetJoined
    <3>2. ToSet(u \o v) = ToSet(u) \cup ToSet(v)
      BY <3>3, ToSetJoined
    <3>. QED
      BY <3>1, <3>2, <1>1
  <2>2. S = (S \ {l, r}) \cup {l, r}
    OBVIOUS
  <2>3. \A x \in S \ {l, r} : ToSet(Items(g, x)) = ToSet(Items(h, x))
    OBVIOUS
  <2>. QED
    <3>. DEFINE A == {l, r}
    <3>. HIDE DEF a, b, u, v
    <3>1. Held(g, A) = Held(h, A)
      BY <2>1 DEF Held, a, b, u, v
    <3>2. A \subseteq S /\ \A x \in S : x \in A \/ Items(g, x) = Items(h, x)
      OBVIOUS
    <3>. HIDE DEF A
    <3>. QED
      BY <3>1, <3>2, HeldSame
<1>. QED
  BY <1>9, <1>10 DEF BecomesRow

\* The list that a node of a row is in.
LEMMA RowLinks ==
  ASSUME NEW E, NEW h \in Seq(BTreeNode(E)), NEW S, NEW D, Row(h, S, D)
  PROVE  /\ None \notin S
         /\ \A x \in S :
              /\ h[x].left # None => h[x].left \in S /\ h[h[x].left].right = x
              /\ h[x].right # None =>
                   /\ h[x].right \in S /\ h[h[x].right].left = x
                   /\ Last(Items(h, x)).key < Head(Items(h, h[x].right)).key
<1>1. None \notin S
  BY RowEnds
<1>. QED
  BY <1>1 DEF Row, RowNode, NeighboursInOrder, Adjacent, MaxKey, Items

\* A list in key order does not come back.
LEMMA NoCycle ==
  ASSUME NEW E, NEW h \in Seq(BTreeNode(E)), NEW S, NEW D, Row(h, S, D),
         NEW l \in S, NEW r \in S, Adjacent(h, l, r)
  PROVE  /\ l # r /\ h[l].left # r /\ h[r].right # l /\ h[l].left # l /\ h[r].right # r
         /\ Last(Items(h, l)).key < Head(Items(h, r)).key
<1>1. /\ l # None /\ r # None
      /\ Head(Items(h, l)).key \in Nat /\ Last(Items(h, l)).key \in Nat
      /\ Head(Items(h, r)).key \in Nat /\ Last(Items(h, r)).key \in Nat
      /\ Head(Items(h, l)).key <= Last(Items(h, l)).key
      /\ Head(Items(h, r)).key <= Last(Items(h, r)).key
  BY RowEnds
<1>2. \A x, y \in S : Adjacent(h, x, y) /\ y # None
                        => Last(Items(h, x)).key < Head(Items(h, y)).key
  BY DEF Row, RowNode, NeighboursInOrder, Adjacent, MaxKey, Items
<1>3. Last(Items(h, l)).key < Head(Items(h, r)).key
  BY <1>1, <1>2
<1>4. l # r
  BY <1>1, <1>3
<1>5. ~Adjacent(h, r, l)
  BY <1>1, <1>2, <1>3
<1>6. h[l].left # r /\ h[r].right # l
  BY <1>1, <1>5 DEF Row, RowNode, NeighboursInOrder
<1>7. h[l].left # l /\ h[r].right # r
  BY <1>1, <1>4 DEF Row, RowNode, NeighboursInOrder, Adjacent
<1>. QED
  BY <1>3, <1>4, <1>6, <1>7

\* What row S becomes when its neighbours l and r become node c, one of them: row T.
Joined(h, g, S, T, D, l, r, c) ==
  /\ c \in {l, r} /\ \A x : x \in T <=> x \in S \ {l, r} \/ x = c
  /\ Items(g, c) = Items(h, l) \o Items(h, r)
  /\ g[c].left = h[l].left /\ g[c].right = h[r].right
  /\ \A x \in T : g[x].leaf = h[x].leaf
  /\ \A x \in S \ {l, r} : /\ Items(g, x) = Items(h, x)
                           /\ g[x].left = (IF h[x].left = r THEN c ELSE h[x].left)
                           /\ g[x].right = (IF h[x].right = l THEN c ELSE h[x].right)
  /\ \A d \in D : g[d] = h[d]

\* Two neighbours become one of them.
LEMMA MergeKeepsRow ==
  ASSUME NEW E, NEW h \in Seq(BTreeNode(E)), NEW S, NEW D, Row(h, S, D),
         NEW g \in Seq(BTreeNode(E)), DOMAIN h \subseteq DOMAIN g,
         NEW l \in S, NEW r \in S, Adjacent(h, l, r),
         NEW c, NEW T, Joined(h, g, S, T, D, l, r, c)
  PROVE  BecomesRow(h, S, g, T, D)
<1>20. /\ c \in {l, r} /\ \A x : x \in T <=> x \in S \ {l, r} \/ x = c
       /\ Items(g, c) = Items(h, l) \o Items(h, r)
       /\ g[c].left = h[l].left /\ g[c].right = h[r].right
       /\ \A x \in T : g[x].leaf = h[x].leaf
       /\ \A x \in S \ {l, r} : /\ Items(g, x) = Items(h, x)
                                /\ g[x].left = (IF h[x].left = r THEN c ELSE h[x].left)
                                /\ g[x].right = (IF h[x].right = l THEN c ELSE h[x].right)
       /\ \A d \in D : g[d] = h[d]
  BY DEF Joined
<1>. USE <1>20
<1>. DEFINE u == Items(h, l)
            v == Items(h, r)
            w == Items(g, c)
            F(y) == Head(Items(h, y))
            L(y) == Last(Items(h, y))
<1>1. /\ u \in Seq(Entry(E)) /\ u # <<>> /\ v \in Seq(Entry(E)) /\ v # <<>> /\ w = u \o v
  BY RowEnds
<1>2. /\ l # r /\ h[l].left # r /\ h[r].right # l /\ h[l].left # l /\ h[r].right # r
      /\ Last(u).key < Head(v).key
  BY NoCycle
<1>3. l # None /\ r # None /\ c # None /\ None \notin S
  BY RowEnds
<1>4. InOrder(w) /\ w # <<>> /\ Head(w) = Head(u) /\ Last(w) = Last(v)
  <2>1. InOrder(u) /\ InOrder(v)
    BY DEF Row, RowNode, KeysInOrder
  <2>. HIDE DEF u, v, w
  <2>. QED
    BY <1>1, <1>2, <2>1, OrderJoined, JoinedEnds
<1>5. ASSUME ~h[l].leaf
      PROVE  Inner(g, w, D)
  <2>1. ~h[r].leaf
    BY <1>5 DEF Row
  <2>2. Inner(h, u, D) /\ Inner(h, v, D) /\ Adjacent(h, Last(u).data, Head(v).data)
    BY <1>5, <2>1, <1>3 DEF Row, RowNode, CousinsLinked, Adjacent, u, v
  <2>. HIDE DEF u, v, w
  <2>3. Inner(h, u \o v, D)
    BY <2>2, <1>1, InnerJoined
  <2>4. u \o v \in Seq(Entry(E))
    BY <1>1
  <2>. QED
    BY <2>3, <2>4, <1>1, InnerAgrees
<1>0. \A x \in S :
        /\ h[x].left # None => h[x].left \in S /\ h[h[x].left].right = x
        /\ h[x].right # None => /\ h[x].right \in S /\ h[h[x].right].left = x
                                /\ L(x).key < F(h[x].right).key
  BY RowLinks
<1>6. /\ h[l].right = r /\ h[r].left = l
      /\ \A x \in S \ {l, r} : h[x].right # r /\ h[x].left # l
  BY <1>0, <1>3 DEF Adjacent
<1>13. c \in T /\ S \ {l, r} \subseteq T /\ T \subseteq (S \ {l, r}) \cup {c}
  OBVIOUS
<1>. HIDE DEF F, L, u, v, w
\* The node that x has on its right.
<1>7. ASSUME NEW x \in S \ {l, r}
      PROVE  /\ h[x].right = None => g[x].right = None
             /\ h[x].right # None => /\ g[x].right \in T /\ g[x].right # None
                                     /\ g[g[x].right].left = x
                                     /\ Head(Items(g, g[x].right)) = F(h[x].right)
  <2>1. h[x].right = None => g[x].right = None
    BY <1>3
  <2>2. CASE h[x].right = l
    <3>1. g[x].right = c /\ h[l].left = x
      BY <2>2, <1>3, <1>0
    <3>2. Head(Items(g, c)) = F(l)
      BY <1>4 DEF F, u, w
    <3>. QED
      BY <3>1, <3>2, <2>2, <1>3, <1>13
  <2>3. CASE h[x].right # None /\ h[x].right # l
    <3>1. /\ g[x].right = h[x].right /\ h[x].right \in S \ {l, r}
          /\ h[h[x].right].left = x
      BY <2>3, <1>6, <1>0
    <3>2. Items(g, h[x].right) = Items(h, h[x].right) /\ g[h[x].right].left = x
      BY <3>1
    <3>. QED
      BY <3>1, <3>2, <2>3, <1>13 DEF F
  <2>. QED
    BY <2>1, <2>2, <2>3
<1>8. /\ h[r].right # None => /\ h[r].right \in S \ {l, r} /\ g[h[r].right].left = c
                              /\ Items(g, h[r].right) = Items(h, h[r].right)
      /\ h[l].left # None => h[l].left \in S \ {l, r} /\ g[h[l].left].right = c
  <2>1. h[r].right # None => h[r].right \in S \ {l, r} /\ h[h[r].right].left = r
    BY <1>2, <1>0
  <2>2. h[l].left # None => h[l].left \in S \ {l, r} /\ h[h[l].left].right = l
    BY <1>2, <1>0
  <2>. QED
    BY <2>1, <2>2
<1>9. ASSUME NEW x \in S \ {l, r}, g[x].left # None
      PROVE  g[x].left \in T /\ g[g[x].left].right = x
  <2>1. CASE h[x].left = r
    <3>1. g[x].left = c /\ h[r].right = x
      BY <2>1, <1>3, <1>0
    <3>. QED
      BY <3>1, <1>13
  <2>2. CASE h[x].left # r
    <3>1. /\ g[x].left = h[x].left /\ h[x].left \in S \ {l, r}
          /\ h[h[x].left].right = x
      BY <2>2, <1>6, <1>9, <1>0
    <3>2. g[h[x].left].right = x
      BY <3>1
    <3>. QED
      BY <3>1, <3>2, <1>13
  <2>. QED
    BY <2>1, <2>2
<1>10. ASSUME NEW x \in T
       PROVE  RowNode(g, T, D, x)
  <2>1. CASE x = c
    <3>1. Items(g, c) # <<>> /\ KeysInOrder(g, c)
      BY <1>4 DEF KeysInOrder, w
    <3>2. g[c].left \in T \cup {None} /\ g[c].right \in T \cup {None}
      BY <1>8, <1>13
    <3>3. NeighboursInOrder(g, c)
      <4>1. h[r].right # None => L(r).key < F(h[r].right).key
        BY <1>0
      <4>2. Last(Items(g, c)) = L(r)
        BY <1>4 DEF L, v, w
      <4>. QED
        BY <4>1, <4>2, <1>8 DEF NeighboursInOrder, Adjacent, MaxKey, Items, F
    <3>4. ASSUME ~g[c].leaf
          PROVE  Inner(g, Items(g, c), D) /\ CousinsLinked(g, c)
      <4>1. ~h[l].leaf /\ ~h[r].leaf
        BY <3>4 DEF Row
      <4>2. /\ h[l].left = None => h[F(l).data].left = None
            /\ h[r].right = None => h[L(r).data].right = None
            /\ h[r].right # None => Adjacent(h, L(r).data, F(h[r].right).data)
        BY <4>1 DEF Row, RowNode, CousinsLinked, F, L
      <4>3. \A y \in S : F(y).data \in D /\ L(y).data \in D
        BY <4>1, RowEnds DEF Row, F, L
      <4>5. Head(Items(g, c)) = F(l) /\ Last(Items(g, c)) = L(r)
        BY <1>4 DEF F, L, u, v, w
      <4>6. h[r].right # None => Head(Items(g, h[r].right)) = F(h[r].right) /\ h[r].right \in S
        BY <1>8 DEF F
      <4>7. g[c].left = None => g[F(l).data].left = None
        BY <4>2, <4>3
      <4>8. g[c].right = None => g[L(r).data].right = None
        BY <4>2, <4>3
      <4>9. g[c].right # None => Adjacent(g, L(r).data, Head(Items(g, g[c].right)).data)
        BY <4>2, <4>3, <4>6 DEF Adjacent
      <4>4. CousinsLinked(g, c)
        BY <4>5, <4>7, <4>8, <4>9 DEF CousinsLinked
      <4>. QED
        BY <4>1, <4>4, <1>5 DEF w
    <3>. QED
      BY <2>1, <3>1, <3>2, <3>3, <3>4 DEF RowNode
  <2>2. CASE x \in S \ {l, r}
    <3>1. RowNode(h, S, D, x) /\ Items(g, x) = Items(h, x) /\ g[x].leaf = h[x].leaf
      BY <2>2 DEF Row
    <3>2. Items(g, x) # <<>> /\ KeysInOrder(g, x)
      BY <3>1 DEF RowNode, KeysInOrder
    <3>3. g[x].left \in T \cup {None} /\ g[x].right \in T \cup {None}
      BY <2>2, <1>7, <1>9
    <3>4. NeighboursInOrder(g, x)
      <4>1. h[x].right # None => L(x).key < F(h[x].right).key
        BY <1>0, <2>2
      <4>2. g[x].right # None => /\ g[g[x].right].left = x
                                 /\ L(x).key < Head(Items(g, g[x].right)).key
        BY <4>1, <2>2, <1>7
      <4>. QED
        BY <4>2, <3>1, <2>2, <1>9 DEF NeighboursInOrder, Adjacent, MaxKey, Items, L
    <3>5. ASSUME ~g[x].leaf
          PROVE  Inner(g, Items(g, x), D) /\ CousinsLinked(g, x)
      <4>1. \A y \in S : ~h[y].leaf
        BY <3>1, <3>5, <2>2 DEF Row
      <4>2. \A y \in S : F(y).data \in D /\ L(y).data \in D
        BY <4>1, RowEnds DEF F, L
      <4>3. /\ h[x].left = None => h[F(x).data].left = None
            /\ h[x].right = None => h[L(x).data].right = None
            /\ h[x].right # None => /\ h[x].right \in S
                                    /\ Adjacent(h, L(x).data, F(h[x].right).data)
        BY <3>1, <3>5, <1>0, <2>2 DEF RowNode, CousinsLinked, F, L
      <4>4. Inner(g, Items(g, x), D)
        BY <3>1, <3>5, <2>2, InnerAgrees, RowEnds DEF RowNode
      <4>5. g[x].left = None => h[x].left = None
        BY <2>2, <1>3
      <4>6. IF g[x].right = None THEN g[L(x).data].right = None
            ELSE Adjacent(g, L(x).data, Head(Items(g, g[x].right)).data)
        BY <4>2, <4>3, <2>2, <1>7 DEF Adjacent
      <4>7. g[x].left = None => g[F(x).data].left = None
        BY <4>2, <4>3, <4>5, <2>2
      <4>. QED
        BY <3>1, <4>4, <4>6, <4>7 DEF CousinsLinked, F, L
    <3>. QED
      BY <3>1, <3>2, <3>3, <3>4, <3>5 DEF RowNode
  <2>. QED
    BY <2>1, <2>2, <1>13
<1>11. Row(g, T, D)
  BY SMTT(20), <1>10, <1>13 DEF Row
<1>12. Held(g, T) = Held(h, S)
  <2>1. u \in Seq(Entry(E)) /\ v \in Seq(Entry(E)) /\ w = u \o v
    BY <1>1
  <2>2. ToSet(w) = ToSet(u) \cup ToSet(v)
    BY <2>1, ToSetJoined
  <2>3. Held(h, {l, r}) = ToSet(u) \cup ToSet(v)
    BY HeldInTwo DEF u, v
  <2>4. Held(g, {c}) = ToSet(w)
    BY HeldInOne DEF w
  <2>5. /\ \A x \in S : x \in {l, r} \/ (x \in T /\ Items(g, x) = Items(h, x))
        /\ \A x \in T : x \in {c} \/ (x \in S /\ Items(g, x) = Items(h, x))
    BY <1>13
  <2>6. {c} \subseteq T /\ {l, r} \subseteq S
    BY <1>13
  <2>7. Held(g, {c}) = Held(h, {l, r})
    BY <2>2, <2>3, <2>4
  <2>. DEFINE A == {l, r}
              B == {c}
  <2>. HIDE DEF A, B
  <2>8. /\ A \subseteq S /\ B \subseteq T /\ Held(g, B) = Held(h, A)
        /\ \A x \in S : x \in A \/ (x \in T /\ Items(g, x) = Items(h, x))
        /\ \A x \in T : x \in B \/ (x \in S /\ Items(g, x) = Items(h, x))
    BY <2>5, <2>6, <2>7 DEF A, B
  <2>. QED
    BY SMTT(20), <2>8, HeldSame
<1>. QED
  BY <1>11, <1>12 DEF BecomesRow

\* A node gets a new right neighbour, which takes its upper items.
LEMMA SplitKeepsRow ==
  ASSUME NEW E, NEW h \in Seq(BTreeNode(E)), NEW S, NEW D, Row(h, S, D),
         NEW g \in Seq(BTreeNode(E)), DOMAIN h \subseteq DOMAIN g,
         NEW l \in S, NEW n \in DOMAIN g, n \notin DOMAIN h,
         Items(g, l) # <<>>, Items(g, n) # <<>>,
         Items(g, l) \o Items(g, n) = Items(h, l),
         g[l].left = h[l].left, g[l].right = n, g[n].left = l, g[n].right = h[l].right,
         g[l].leaf = h[l].leaf, g[n].leaf = h[l].leaf,
         \A x \in S \ {l} : Items(g, x) = Items(h, x) /\ g[x].leaf = h[x].leaf,
         \A x \in S \ {l} : g[x].right = h[x].right,
         \A x \in S \ {l} : g[x].left = (IF h[x].left = l THEN n ELSE h[x].left),
         \A d \in D : g[d] = h[d]
  PROVE  BecomesRow(h, S, g, S \cup {n}, D)
<1>. DEFINE w == Items(h, l)
            a == Items(g, l)
            b == Items(g, n)
            S2 == S \cup {n}
            F(y) == Head(Items(h, y))
            L(y) == Last(Items(h, y))
<1>1. /\ a \in Seq(Entry(E)) /\ a # <<>> /\ b \in Seq(Entry(E)) /\ b # <<>> /\ a \o b = w
  <2>1. l \in DOMAIN g
    BY DEF Row
  <2>. QED
    BY <2>1, HeapNode
<1>2. InOrder(w) /\ (~h[l].leaf => Inner(h, w, D))
  BY DEF Row, RowNode, KeysInOrder
<1>3. n # None /\ None \notin S /\ n \notin S /\ n \notin D
  BY HeapNode, RowEnds DEF Row
<1>4. \A x \in S :
        /\ h[x].left # None => h[x].left \in S /\ h[h[x].left].right = x
        /\ h[x].right # None => /\ h[x].right \in S /\ h[h[x].right].left = x
                                /\ L(x).key < F(h[x].right).key
  BY RowLinks
<1>5. h[l].right # l /\ h[l].left # l
  <2>1. h[l].right # l
    <3>1. F(l).key \in Nat /\ L(l).key \in Nat /\ F(l).key <= L(l).key
      BY RowEnds
    <3>. HIDE DEF F, L
    <3>2. l # None
      BY <1>3
    <3>. SUFFICES ASSUME h[l].right = l PROVE FALSE
      OBVIOUS
    <3>3. L(l).key < F(l).key
      BY <1>4, <3>2
    <3>. QED
      BY <3>1, <3>3
  <2>2. h[l].left = l => h[l].right = l
    BY <1>3, <1>4
  <2>. QED
    BY <2>1, <2>2
<1>. HIDE DEF F, L, w, a, b, S2
<1>6. InOrder(a) /\ InOrder(b) /\ Last(a).key < Head(b).key
  BY <1>1, <1>2, OrderJoined
<1>7. Head(a) = F(l) /\ Last(b) = L(l)
  <2>1. Head(a \o b) = Head(a) /\ Last(a \o b) = Last(b)
    BY <1>1, JoinedEnds
  <2>. QED
    BY <2>1, <1>1 DEF F, L, w
<1>8. ASSUME ~h[l].leaf
      PROVE  Inner(g, a, D) /\ Inner(g, b, D) /\ Adjacent(g, Last(a).data, Head(b).data)
  <2>1. w \in Seq(Entry(E))
    BY RowEnds DEF w
  <2>2. Inner(g, w, D)
    BY <2>1, <1>2, <1>8, InnerAgrees
  <2>. QED
    BY <2>2, <1>1, InnerJoined
\* The first items are where they were, and the last ones, but for l and n.
<1>9. /\ \A x \in S : Head(Items(g, x)) = F(x)
      /\ \A x \in S \ {l} : Last(Items(g, x)) = L(x)
      /\ Last(Items(g, n)) = L(l)
  BY <1>7 DEF F, L, a, b
<1>10. /\ \A x \in S \ {l} : h[x].right # None => g[h[x].right].left = x
       /\ h[l].right # None => g[h[l].right].left = n
       /\ h[l].left # None => g[h[l].left].right = l
  <2>1. ASSUME NEW x \in S \ {l}, h[x].right # None
        PROVE  g[h[x].right].left = x
    <3>1. h[x].right \in S /\ h[h[x].right].left = x
      BY <2>1, <1>4
    <3>. QED
      BY <3>1
  <2>2. ASSUME h[l].right # None PROVE g[h[l].right].left = n
    <3>1. h[l].right \in S \ {l} /\ h[h[l].right].left = l
      BY <2>2, <1>4, <1>5
    <3>. QED
      BY <3>1
  <2>3. ASSUME h[l].left # None PROVE g[h[l].left].right = l
    <3>1. h[l].left \in S \ {l} /\ h[h[l].left].right = l
      BY <2>3, <1>4, <1>5
    <3>. QED
      BY <3>1
  <2>. QED
    BY <2>1, <2>2, <2>3
<1>11. ASSUME NEW x \in S2
       PROVE  RowNode(g, S2, D, x)
  <2>1. CASE x = n
    <3>1. Items(g, n) # <<>> /\ KeysInOrder(g, n)
      BY <1>1, <1>6 DEF KeysInOrder, b
    <3>2. g[n].left \in S2 \cup {None} /\ g[n].right \in S2 \cup {None}
      BY <1>4 DEF S2
    <3>3. NeighboursInOrder(g, n)
      <4>1. g[n].left # None => Adjacent(g, g[n].left, n)
        BY DEF Adjacent
      <4>2. ASSUME g[n].right # None
            PROVE  /\ Adjacent(g, n, g[n].right)
                   /\ Last(Items(g, n)).key < Head(Items(g, g[n].right)).key
        BY <4>2, <1>4, <1>9, <1>10 DEF Adjacent
      <4>. QED
        BY <4>1, <4>2 DEF NeighboursInOrder, MaxKey, Items
    <3>4. ASSUME ~g[n].leaf
          PROVE  Inner(g, Items(g, n), D) /\ CousinsLinked(g, n)
      <4>1. /\ h[l].right = None => h[L(l).data].right = None
            /\ h[l].right # None => Adjacent(h, L(l).data, F(h[l].right).data)
        BY <3>4 DEF Row, RowNode, CousinsLinked, F, L
      <4>2. \A y \in S : F(y).data \in D /\ L(y).data \in D
        <5>1. \A y \in S : ~h[y].leaf
          BY <3>4 DEF Row
        <5>. QED
          BY <5>1, RowEnds DEF F, L
      <4>3. g[n].right = None => g[Last(Items(g, n)).data].right = None
        BY <4>1, <4>2, <1>9
      <4>4. g[n].right # None
              => Adjacent(g, Last(Items(g, n)).data, Head(Items(g, g[n].right)).data)
        BY <4>1, <4>2, <1>4, <1>9 DEF Adjacent
      <4>5. g[n].left # None
        BY <1>3
      <4>. QED
        BY <3>4, <4>3, <4>4, <4>5, <1>8 DEF CousinsLinked, b
    <3>. QED
      BY <2>1, <3>1, <3>2, <3>3, <3>4 DEF RowNode
  <2>2. CASE x = l
    <3>1. Items(g, l) # <<>> /\ KeysInOrder(g, l)
      BY <1>1, <1>6 DEF KeysInOrder, a
    <3>2. g[l].left \in S2 \cup {None} /\ g[l].right \in S2 \cup {None}
      BY <1>4 DEF S2
    <3>3. NeighboursInOrder(g, l)
      <4>1. g[l].left # None => Adjacent(g, g[l].left, l)
        BY <1>10 DEF Adjacent
      <4>2. /\ Adjacent(g, l, g[l].right)
            /\ Last(Items(g, l)).key < Head(Items(g, g[l].right)).key
        BY <1>6 DEF Adjacent, a, b
      <4>. QED
        BY <4>1, <4>2 DEF NeighboursInOrder, MaxKey, Items
    <3>4. ASSUME ~g[l].leaf
          PROVE  Inner(g, Items(g, l), D) /\ CousinsLinked(g, l)
      <4>1. h[l].left = None => h[F(l).data].left = None
        BY <3>4 DEF Row, RowNode, CousinsLinked, F
      <4>2. F(l).data \in D
        BY <3>4, RowEnds DEF F
      <4>3. g[l].left = None => g[Head(Items(g, l)).data].left = None
        BY <4>1, <4>2, <1>9
      <4>4. Adjacent(g, Last(Items(g, l)).data, Head(Items(g, g[l].right)).data)
        BY <3>4, <1>8 DEF a, b
      <4>5. g[l].right # None
        BY <1>3
      <4>. QED
        BY <3>4, <4>3, <4>4, <4>5, <1>8 DEF CousinsLinked, a
    <3>. QED
      BY <2>2, <3>1, <3>2, <3>3, <3>4 DEF RowNode
  <2>3. CASE x \in S \ {l}
    <3>1. RowNode(h, S, D, x) /\ Items(g, x) = Items(h, x) /\ g[x].leaf = h[x].leaf
      BY <2>3 DEF Row
    <3>2. Items(g, x) # <<>> /\ KeysInOrder(g, x)
      BY <3>1 DEF RowNode, KeysInOrder
    <3>3. g[x].left \in S2 \cup {None} /\ g[x].right \in S2 \cup {None}
      BY <3>1, <2>3 DEF RowNode, S2
    <3>4. NeighboursInOrder(g, x)
      <4>1. ASSUME g[x].left # None PROVE Adjacent(g, g[x].left, x)
        <5>1. CASE h[x].left = l
          <6>1. h[l].right = x
            BY <5>1, <2>3, <1>3, <1>4
          <6>. QED
            BY <6>1, <5>1, <2>3 DEF Adjacent
        <5>2. CASE h[x].left # l
          <6>1. g[x].left = h[x].left /\ h[x].left \in S \ {l} /\ h[h[x].left].right = x
            BY <5>2, <4>1, <2>3, <1>4
          <6>. QED
            BY <6>1 DEF Adjacent
        <5>. QED
          BY <5>1, <5>2
      <4>2. ASSUME g[x].right # None
            PROVE  /\ Adjacent(g, x, g[x].right)
                   /\ Last(Items(g, x)).key < Head(Items(g, g[x].right)).key
        <5>1. g[x].right = h[x].right /\ h[x].right \in S
          BY <4>2, <2>3, <1>4
        <5>2. Last(Items(g, x)) = L(x) /\ Head(Items(g, h[x].right)) = F(h[x].right)
          BY <5>1, <2>3, <1>9
        <5>3. L(x).key < F(h[x].right).key /\ g[h[x].right].left = x
          BY <5>1, <4>2, <2>3, <1>4, <1>10
        <5>. QED
          BY <5>1, <5>2, <5>3 DEF Adjacent
      <4>. QED
        BY <4>1, <4>2 DEF NeighboursInOrder, MaxKey, Items
    <3>5. ASSUME ~g[x].leaf
          PROVE  Inner(g, Items(g, x), D) /\ CousinsLinked(g, x)
      <4>1. \A y \in S : F(y).data \in D /\ L(y).data \in D
        <5>1. \A y \in S : ~h[y].leaf
          BY <3>1, <3>5, <2>3 DEF Row
        <5>. QED
          BY <5>1, RowEnds DEF F, L
      <4>2. /\ h[x].left = None => h[F(x).data].left = None
            /\ h[x].right = None => h[L(x).data].right = None
            /\ h[x].right # None => /\ h[x].right \in S
                                    /\ Adjacent(h, L(x).data, F(h[x].right).data)
        BY <3>1, <3>5, <1>4, <2>3 DEF RowNode, CousinsLinked, F, L
      <4>3. Inner(g, Items(g, x), D)
        BY <3>1, <3>5, <2>3, InnerAgrees, RowEnds DEF RowNode
      <4>4. g[x].left = None => h[x].left = None
        BY <2>3, <1>3
      <4>5. g[x].left = None => g[Head(Items(g, x)).data].left = None
        BY <4>1, <4>2, <4>4, <2>3, <1>9
      <4>6. g[x].right = None => g[Last(Items(g, x)).data].right = None
        BY <4>1, <4>2, <2>3, <1>9
      <4>7. g[x].right # None
              => Adjacent(g, Last(Items(g, x)).data, Head(Items(g, g[x].right)).data)
        BY <4>1, <4>2, <2>3, <1>9 DEF Adjacent
      <4>. QED
        BY <4>3, <4>5, <4>6, <4>7 DEF CousinsLinked
    <3>. QED
      BY <3>1, <3>2, <3>3, <3>4, <3>5 DEF RowNode
  <2>. QED
    BY <2>1, <2>2, <2>3 DEF S2
<1>12. Row(g, S2, D)
  <2>1. S2 \subseteq DOMAIN g /\ D \subseteq DOMAIN g /\ S2 \cap D = {}
    BY <1>3 DEF Row, S2
  <2>2. \A x \in S2 : g[x].leaf = h[l].leaf
    BY DEF Row, S2
  <2>. QED
    BY <2>1, <2>2, <1>11 DEF Row
<1>13. Held(g, S2) = Held(h, S)
  <2>1. a \in Seq(Entry(E)) /\ b \in Seq(Entry(E))
    BY <1>1
  <2>2. ToSet(a \o b) = ToSet(a) \cup ToSet(b)
    BY <2>1, ToSetJoined
  <2>3. ToSet(w) = ToSet(a) \cup ToSet(b)
    BY <2>2, <1>1
  <2>4. Held(g, {l, n}) = ToSet(a) \cup ToSet(b)
    BY HeldInTwo DEF a, b
  <2>5. Held(h, {l}) = ToSet(w)
    BY HeldInOne DEF w
  <2>6. /\ \A x \in S : x \in {l} \/ (x \in S2 /\ Items(g, x) = Items(h, x))
        /\ \A x \in S2 : x \in {l, n} \/ (x \in S /\ Items(g, x) = Items(h, x))
    BY DEF S2
  <2>7. {l, n} \subseteq S2 /\ {l} \subseteq S
    BY DEF S2
  <2>8. Held(g, {l, n}) = Held(h, {l})
    BY <2>3, <2>4, <2>5
  <2>. DEFINE A == {l}
              B == {l, n}
  <2>. HIDE DEF A, B
  <2>9. /\ A \subseteq S /\ B \subseteq S2 /\ Held(g, B) = Held(h, A)
        /\ \A x \in S : x \in A \/ (x \in S2 /\ Items(g, x) = Items(h, x))
        /\ \A x \in S2 : x \in B \/ (x \in S /\ Items(g, x) = Items(h, x))
    BY <2>6, <2>7, <2>8 DEF A, B
  <2>. QED
    BY <2>9, HeldSame
<1>. QED
  BY <1>12, <1>13 DEF S2, BecomesRow

-----------------------------------------------------------------------------
(* Searching in one node. *)

\* The number a search returns is that of the first place that passes, or 0.
LEMMA FirstPassing ==
  ASSUME NEW n \in Nat, NEW T \in SUBSET (1 .. n), NEW i,
         i = IF T # {} THEN Min(T) ELSE 0
  PROVE  \/ i = 0 /\ T = {}
         \/ i \in T /\ \A j \in 1 .. i - 1 : j \notin T
<1>1. CASE T = {}
  BY <1>1
<1>2. CASE T # {}
  <2>1. T \in SUBSET Nat
    OBVIOUS
  <2>2. Min(T) \in T /\ \A j \in T : Min(T) <= j
    BY <2>1, <1>2, FirstIn
  <2>. DEFINE m == Min(T)
  <2>. HIDE DEF m
  <2>3. m \in T /\ (\A j \in T : m <= j) /\ i = m
    BY <2>2, <1>2 DEF m
  <2>4. ASSUME NEW j \in 1 .. m - 1 PROVE j \notin T
    BY <2>3
  <2>. QED
    BY <2>3, <2>4
<1>. QED
  BY <1>1, <1>2

\* In a node in order the items before LowerBound's have smaller keys, the others do not.
LEMMA LowerBoundProperties ==
  ASSUME NEW E, NEW items \in Seq(Entry(E)), InOrder(items), NEW k \in Nat
  PROVE  /\ LowerBound(items, k) \in 1 .. Len(items) + 1
         /\ \A j \in 1 .. Len(items) : /\ items[j].key \in Nat
                                       /\ j < LowerBound(items, k) <=> items[j].key < k
<1>. DEFINE T == {i \in 1 .. Len(items) : items[i].key >= k}
            i == SelectInSeq(items, LAMBDA it : it.key >= k)
            b == LowerBound(items, k)
<1>1. Len(items) \in Nat /\ \A j \in 1 .. Len(items) : items[j].key \in Nat
  <2>1. \A j \in 1 .. Len(items) : items[j] \in Entry(E)
    OBVIOUS
  <2>. QED
    BY <2>1 DEF Entry
<1>2. i = IF T # {} THEN Min(T) ELSE 0
  BY DEF SelectInSeq
<1>3. b = IF i = 0 THEN Len(items) + 1 ELSE i
  BY DEF LowerBound
<1>4. T \in SUBSET (1 .. Len(items))
  OBVIOUS
<1>5. \A p, q \in 1 .. Len(items) : p < q => items[p].key < items[q].key
  BY DEF InOrder
<1>6. \A p \in 1 .. Len(items) : p \in T <=> items[p].key >= k
  OBVIOUS
<1>. HIDE DEF T, i, b
<1>7. \/ i = 0 /\ T = {}
      \/ i \in T /\ \A j \in 1 .. i - 1 : j \notin T
  BY <1>1, <1>2, <1>4, FirstPassing
<1>8. b \in 1 .. Len(items) + 1
  BY <1>1, <1>3, <1>4, <1>7
<1>9. ASSUME NEW j \in 1 .. Len(items)
      PROVE  j < b <=> items[j].key < k
  <2>1. CASE i = 0 /\ T = {}
    BY <2>1, <1>1, <1>3, <1>6
  <2>2. CASE i \in T /\ \A p \in 1 .. i - 1 : p \notin T
    <3>1. b = i /\ i \in 1 .. Len(items)
      BY <2>2, <1>1, <1>3, <1>4
    <3>2. CASE j < i
      <4>1. j \notin T
        BY <2>2, <3>1, <3>2
      <4>. QED
        BY <4>1, <3>1, <3>2, <1>1, <1>6
    <3>3. CASE ~(j < i)
      <4>1. items[i].key >= k /\ items[i].key \in Nat /\ items[j].key \in Nat
        BY <2>2, <3>1, <1>1, <1>6
      <4>2. items[i].key <= items[j].key
        BY <3>1, <3>3, <4>1, <1>5
      <4>. QED
        BY <4>1, <4>2, <3>1, <3>3
    <3>. QED
      BY <3>2, <3>3
  <2>. QED
    BY <2>1, <2>2, <1>7
<1>. QED
  BY <1>1, <1>8, <1>9 DEF b

\* insertData puts a new key where the order wants it.
THEOREM InsertedInOrder ==
  ASSUME NEW E, NEW items \in Seq(Entry(E)), InOrder(items), NEW it \in Entry(E),
         \A j \in 1 .. Len(items) : items[j].key # it.key
  PROVE  /\ insertData(items, it) \in Seq(Entry(E)) /\ InOrder(insertData(items, it))
         /\ Len(insertData(items, it)) = Len(items) + 1
         /\ ToSet(insertData(items, it)) = ToSet(items) \cup {it}
<1>. DEFINE b == LowerBound(items, it.key)
            w == insertData(items, it)
<1>1. it.key \in Nat /\ Len(items) \in Nat
  BY DEF Entry
<1>2. /\ b \in 1 .. Len(items) + 1
      /\ \A j \in 1 .. Len(items) : /\ items[j].key \in Nat
                                    /\ j < b <=> items[j].key < it.key
  BY <1>1, LowerBoundProperties
<1>3. w = InsertAt(items, b, it)
  BY DEF insertData
<1>. HIDE DEF b, w
<1>4. /\ w \in Seq(Entry(E)) /\ Len(w) = Len(items) + 1
      /\ \A j \in 1 .. b - 1 : w[j] = items[j]
      /\ w[b] = it
      /\ \A j \in b .. Len(items) : w[j + 1] = items[j]
  BY <1>2, <1>3, InsertAtProperties
\* Every place of the new items, and every old item, is one of these.
<1>5. \A j \in 1 .. Len(items) + 1 :
        \/ j < b /\ w[j] = items[j] /\ j \in 1 .. Len(items)
        \/ j = b /\ w[j] = it
        \/ j > b /\ w[j] = items[j - 1] /\ j - 1 \in 1 .. Len(items)
  <2>. SUFFICES ASSUME NEW j \in 1 .. Len(items) + 1, j > b
                PROVE  w[j] = items[j - 1] /\ j - 1 \in 1 .. Len(items)
    BY <1>1, <1>2, <1>4
  <2>1. j - 1 \in b .. Len(items) /\ (j - 1) + 1 = j
    BY <1>1, <1>2
  <2>2. w[(j - 1) + 1] = items[j - 1]
    BY <2>1, <1>4
  <2>. QED
    BY <2>1, <2>2, <1>1, <1>2
<1>6. InOrder(w)
  <2>. SUFFICES ASSUME NEW p \in 1 .. Len(items) + 1, NEW q \in 1 .. Len(items) + 1, p < q
                PROVE  w[p].key < w[q].key
    BY <1>4 DEF InOrder
  <2>1. \A i, j \in 1 .. Len(items) : i < j => items[i].key < items[j].key
    BY DEF InOrder
  <2>2. \A j \in 1 .. Len(items) : j >= b => it.key < items[j].key
    BY <1>1, <1>2
  <2>3. CASE p < b /\ q < b
    <3>1. w[p] = items[p] /\ p \in 1 .. Len(items) /\ w[q] = items[q] /\ q \in 1 .. Len(items)
      BY <2>3, <1>2, <1>5
    <3>. QED
      BY <3>1, <2>1
  <2>4. CASE p < b /\ q = b
    <3>1. w[p] = items[p] /\ p \in 1 .. Len(items) /\ w[q] = it
      BY <2>4, <1>2, <1>5
    <3>. QED
      BY <3>1, <2>4, <1>2
  <2>5. CASE p < b /\ q > b
    <3>1. w[p] = items[p] /\ p \in 1 .. Len(items)
      BY <2>5, <1>2, <1>5
    <3>2. w[q] = items[q - 1] /\ q - 1 \in 1 .. Len(items)
      BY <2>5, <1>2, <1>5
    <3>3. p < q - 1
      BY <2>5, <1>2
    <3>. QED
      BY <3>1, <3>2, <3>3, <2>1
  <2>6. CASE p = b /\ q > b
    <3>1. w[p] = it /\ w[q] = items[q - 1] /\ q - 1 \in 1 .. Len(items)
      BY <2>6, <1>2, <1>5
    <3>2. q - 1 >= b
      BY <2>6, <1>2
    <3>. QED
      BY <3>1, <3>2, <2>2
  <2>7. CASE p > b /\ q > b
    <3>1. /\ w[p] = items[p - 1] /\ p - 1 \in 1 .. Len(items)
          /\ w[q] = items[q - 1] /\ q - 1 \in 1 .. Len(items)
      BY <2>7, <1>2, <1>5
    <3>2. p - 1 < q - 1
      BY <1>1
    <3>. QED
      BY <3>1, <3>2, <2>1
  <2>. QED
    BY <2>3, <2>4, <2>5, <2>6, <2>7, <1>2
<1>7. ToSet(w) = ToSet(items) \cup {it}
  <2>1. ToSet(w) = {w[j] : j \in 1 .. Len(items) + 1} /\ ToSet(items) = {items[j] : j \in 1 .. Len(items)}
    <3>1. DOMAIN w = 1 .. Len(items) + 1 /\ DOMAIN items = 1 .. Len(items)
      BY <1>4
    <3>. QED
      BY <3>1 DEF ToSet
  <2>2. ASSUME NEW j \in 1 .. Len(items) + 1 PROVE w[j] \in {items[i] : i \in 1 .. Len(items)} \cup {it}
    BY <1>5
  <2>3. ASSUME NEW j \in 1 .. Len(items) PROVE \E i \in 1 .. Len(items) + 1 : w[i] = items[j]
    <3>1. CASE j < b
      <4>1. j \in 1 .. b - 1 /\ j \in 1 .. Len(items) + 1
        BY <3>1, <1>1, <1>2
      <4>. QED
        BY <4>1, <1>4
    <3>2. CASE j >= b
      <4>1. j \in b .. Len(items) /\ j + 1 \in 1 .. Len(items) + 1
        BY <3>2, <1>1, <1>2
      <4>. QED
        BY <4>1, <1>4
    <3>. QED
      BY <3>1, <3>2, <1>1, <1>2
  <2>4. \E i \in 1 .. Len(items) + 1 : w[i] = it
    BY <1>2, <1>4
  <2>5. \A e \in ToSet(w) : e \in ToSet(items) \cup {it}
    BY <2>1, <2>2
  <2>6. \A e \in ToSet(items) \cup {it} : e \in ToSet(w)
    BY <2>1, <2>3, <2>4
  <2>. QED
    BY <2>5, <2>6
<1>. QED
  BY <1>4, <1>6, <1>7 DEF w

\* Items in order stay so when one is taken out, and are the others.
LEMMA RemovedInOrder ==
  ASSUME NEW E, NEW items \in Seq(Entry(E)), InOrder(items), NEW i \in 1 .. Len(items)
  PROVE  /\ RemoveAt(items, i) \in Seq(Entry(E)) /\ InOrder(RemoveAt(items, i))
         /\ Len(RemoveAt(items, i)) = Len(items) - 1
         /\ ToSet(RemoveAt(items, i)) = ToSet(items) \ {items[i]}
<1>. DEFINE w == RemoveAt(items, i)
            n == Len(items)
<1>1. /\ w \in Seq(Entry(E)) /\ Len(w) = n - 1
      /\ \A j \in 1 .. i - 1 : w[j] = items[j]
      /\ \A j \in i .. n - 1 : w[j] = items[j + 1]
  BY RemoveAtProperties
<1>2. n \in Nat /\ i \in 1 .. n
  OBVIOUS
<1>3. \A p, q \in 1 .. n : p < q => items[p].key < items[q].key
  BY DEF InOrder
<1>8. \A j \in 1 .. n : items[j].key \in Nat
  <2>1. \A j \in 1 .. n : items[j] \in Entry(E)
    OBVIOUS
  <2>. QED
    BY <2>1 DEF Entry
<1>4. ToSet(items) = {items[j] : j \in 1 .. n}
  BY DEF ToSet
<1>5. ToSet(w) = {w[j] : j \in 1 .. n - 1}
  <2>1. DOMAIN w = 1 .. n - 1
    BY <1>1
  <2>. QED
    BY <2>1 DEF ToSet
<1>. HIDE DEF w, n
<1>6. InOrder(w)
  <2>. SUFFICES ASSUME NEW p \in 1 .. n - 1, NEW q \in 1 .. n - 1, p < q
                PROVE  w[p].key < w[q].key
    BY <1>1 DEF InOrder
  <2>1. CASE q < i
    <3>1. p \in 1 .. i - 1 /\ q \in 1 .. i - 1 /\ p \in 1 .. n /\ q \in 1 .. n
      BY <2>1, <1>2
    <3>. QED
      BY <3>1, <1>1, <1>3
  <2>2. CASE p < i /\ q >= i
    <3>1. p \in 1 .. i - 1 /\ q \in i .. n - 1 /\ p \in 1 .. n /\ q + 1 \in 1 .. n /\ p < q + 1
      BY <2>2, <1>2
    <3>. QED
      BY <3>1, <1>1, <1>3
  <2>3. CASE p >= i
    <3>1. p \in i .. n - 1 /\ q \in i .. n - 1 /\ p + 1 \in 1 .. n /\ q + 1 \in 1 .. n /\ p + 1 < q + 1
      BY <2>3, <1>2
    <3>. QED
      BY <3>1, <1>1, <1>3
  <2>. QED
    BY <2>1, <2>2, <2>3, <1>2
<1>7. ToSet(w) = ToSet(items) \ {items[i]}
  <2>0. \A j \in 1 .. n : j # i => items[j] # items[i]
    <3>. SUFFICES ASSUME NEW j \in 1 .. n, j # i PROVE items[j].key # items[i].key
      OBVIOUS
    <3>1. j < i \/ i < j
      BY <1>2
    <3>. QED
      BY <3>1, <1>2, <1>3, <1>8
  <2>1. ASSUME NEW j \in 1 .. n - 1 PROVE w[j] \in ToSet(items) /\ w[j] # items[i]
    <3>1. CASE j < i
      <4>1. j \in 1 .. i - 1 /\ j \in 1 .. n /\ j # i
        BY <3>1, <1>2
      <4>. QED
        BY <4>1, <2>0, <1>1, <1>4
    <3>2. CASE j >= i
      <4>1. j \in i .. n - 1 /\ j + 1 \in 1 .. n /\ j + 1 # i
        BY <3>2, <1>2
      <4>. QED
        BY <4>1, <2>0, <1>1, <1>4
    <3>. QED
      BY <3>1, <3>2, <1>2
  <2>2. ASSUME NEW j \in 1 .. n, j # i PROVE \E p \in 1 .. n - 1 : w[p] = items[j]
    <3>1. CASE j < i
      <4>1. j \in 1 .. i - 1 /\ j \in 1 .. n - 1
        BY <3>1, <1>2
      <4>. QED
        BY <4>1, <1>1
    <3>2. CASE j > i
      <4>1. j - 1 \in i .. n - 1 /\ j - 1 \in 1 .. n - 1 /\ (j - 1) + 1 = j
        BY <3>2, <1>2
      <4>. QED
        BY <4>1, <1>1
    <3>. QED
      BY <3>1, <3>2, <2>2, <1>2
  <2>3. \A e \in ToSet(w) : e \in ToSet(items) \ {items[i]}
    BY <2>1, <1>5
  <2>4. \A e \in ToSet(items) \ {items[i]} : e \in ToSet(w)
    BY <2>2, <1>4, <1>5
  <2>. QED
    BY <2>3, <2>4
<1>. QED
  BY <1>1, <1>6, <1>7 DEF w, n

\* A leaf with its keys in order gives up the record of path p if it holds it, whatever
\* the loop over the equal keys meets first, and nothing else; otherwise it answers so and
\* stays as it was, and sends the search on to the next leaf only from its last item.
THEOREM RemovesWhatItHolds ==
  ASSUME NEW E, NEW h \in Seq(BTreeNode(E)), NEW n \in DOMAIN h, KeysInOrder(h, n),
         NEW k \in Nat, NEW p
  PROVE  LET r == RemoveFromLeaf(h, n, k, p)
             items == Items(h, n)
         IN \/ \E i \in 1 .. Len(items) :
                 /\ items[i].key = k /\ items[i].data.path = p
                 /\ r = Result([h EXCEPT ![n].items = RemoveAt(@, i)], "REMOVED", <<items[i].data>>)
            \/ /\ \A i \in 1 .. Len(items) : ~(items[i].key = k /\ items[i].data.path = p)
               /\ r.heap = h /\ r.gone = Nothing
               /\ \/ r.status = "NoSuchPath"
                  \/ r.status = "NOT_FOUND" /\ items # <<>> /\ Last(items).key = k
<1>. DEFINE items == Items(h, n)
            m == Len(items)
            T == {i \in 1 .. m : items[i].key = k}
            i == FirstWithKey(items, k)
            U == {q \in i .. m : items[q].key # k \/ items[q].data.path = p}
            j == SelectInSubSeq(items, i, m, LAMBDA it : it.key # k \/ it.data.path = p)
            r == RemoveFromLeaf(h, n, k, p)
<1>1. items \in Seq(Entry(E)) /\ m \in Nat
  BY HeapNode
<1>2. \A q \in 1 .. m : items[q].key \in Nat
  <2>1. \A q \in 1 .. m : items[q] \in Entry(E)
    BY <1>1
  <2>. QED
    BY <2>1 DEF Entry
<1>3. \A a, b \in 1 .. m : a < b => items[a].key < items[b].key
  BY DEF KeysInOrder, InOrder
<1>4. i = IF T # {} THEN Min(T) ELSE 0
  BY DEF FirstWithKey, SelectInSeq
<1>5. j = IF U # {} THEN Min(U) ELSE 0
  BY DEF SelectInSubSeq
<1>6. /\ i = 0 => r = Result(h, "NoSuchPath", Nothing)
      /\ i # 0 /\ j = 0 => r = Result(h, "NOT_FOUND", Nothing)
      /\ i # 0 /\ j # 0 /\ items[j].key # k => r = Result(h, "NoSuchPath", Nothing)
      /\ i # 0 /\ j # 0 /\ items[j].key = k
           => r = Result([h EXCEPT ![n].items = RemoveAt(@, j)], "REMOVED", <<items[j].data>>)
  BY DEF RemoveFromLeaf
<1>7. /\ T \in SUBSET (1 .. m) /\ \A q \in 1 .. m : q \in T <=> items[q].key = k
  OBVIOUS
<1>8. \A q : q \in U <=> q \in i .. m /\ (items[q].key # k \/ items[q].data.path = p)
  OBVIOUS
<1>. HIDE DEF items, m, T, U, i, j, r
<1>9. \/ i = 0 /\ T = {}
      \/ i \in T /\ \A q \in 1 .. i - 1 : q \notin T
  BY <1>1, <1>4, <1>7, FirstPassing
<1>10. CASE i = 0 /\ T = {}
  <2>1. \A q \in 1 .. m : items[q].key # k
    BY <1>10, <1>7
  <2>2. r.heap = h /\ r.gone = Nothing /\ r.status = "NoSuchPath"
    BY <1>10, <1>6 DEF Result
  <2>. QED
    BY <2>1, <2>2 DEF items, m, r
<1>11. CASE i \in T
  <2>1. i \in 1 .. m /\ i # 0 /\ items[i].key = k
    BY <1>1, <1>7, <1>11
  <2>2. \A q \in 1 .. m : q # i => items[q].key # k
    <3>. SUFFICES ASSUME NEW q \in 1 .. m, q # i PROVE items[q].key # k
      OBVIOUS
    <3>1. q < i \/ i < q
      BY <2>1
    <3>. QED
      BY <3>1, <2>1, <1>2, <1>3
  <2>3. U \in SUBSET (1 .. m)
    BY <2>1, <1>8, <1>1
  <2>4. \/ j = 0 /\ U = {}
        \/ j \in U /\ \A q \in 1 .. j - 1 : q \notin U
    BY <2>3, <1>1, <1>5, FirstPassing
  <2>5. CASE items[i].data.path = p
    <3>1. i \in U /\ \A q \in U : q >= i
      BY <2>1, <2>5, <1>1, <1>8
    <3>2. j = i
      <4>1. j \in U /\ \A q \in 1 .. j - 1 : q \notin U
        BY <3>1, <2>4
      <4>2. j \in Nat /\ i \in Nat /\ j >= i /\ i >= 1
        BY <4>1, <3>1, <2>1, <2>3
      <4>3. ~(i \in 1 .. j - 1)
        BY <4>1, <3>1
      <4>. QED
        BY <4>2, <4>3
    <3>3. r = Result([h EXCEPT ![n].items = RemoveAt(@, i)], "REMOVED", <<items[i].data>>)
      BY <3>2, <2>1, <1>6
    <3>. QED
      BY <3>3, <2>1, <2>5 DEF items, m, r
  <2>6. CASE items[i].data.path # p
    <3>1. \A q \in 1 .. m : ~(items[q].key = k /\ items[q].data.path = p)
      BY <2>2, <2>6
    <3>2. CASE j = 0 /\ U = {}
      <4>1. i = m
        <5>. SUFFICES ASSUME i # m PROVE FALSE
          OBVIOUS
        <5>1. i + 1 \in i .. m /\ i + 1 \in 1 .. m /\ i + 1 # i
          BY <2>1, <1>1
        <5>2. i + 1 \in U
          BY <5>1, <2>2, <1>8
        <5>. QED
          BY <5>2, <3>2
      <4>2. items # <<>> /\ Last(items).key = k
        BY <4>1, <2>1 DEF m, Last
      <4>3. r.heap = h /\ r.gone = Nothing /\ r.status = "NOT_FOUND"
        BY <3>2, <2>1, <1>6 DEF Result
      <4>. QED
        BY <4>2, <4>3, <3>1 DEF items, m, r
    <3>3. CASE j \in U
      <4>1. j # 0 /\ j \in 1 .. m
        BY <3>3, <2>3
      <4>2. items[j].key # k
        BY <3>1, <3>3, <4>1, <1>8
      <4>3. r.heap = h /\ r.gone = Nothing /\ r.status = "NoSuchPath"
        BY <4>1, <4>2, <2>1, <1>6 DEF Result
      <4>. QED
        BY <4>3, <3>1 DEF items, m, r
    <3>. QED
      BY <3>2, <3>3, <2>4
  <2>. QED
    BY <2>5, <2>6
<1>. QED
  BY <1>9, <1>10, <1>11

-----------------------------------------------------------------------------
\* Row P, whose children are row S, whose data are in D.
Levels(h, P, S, D) ==
  /\ Row(h, P, S) /\ Row(h, S, D) /\ P \cap D = {}
  /\ \A x \in P : ~h[x].leaf
  /\ Parented(h, P, S)
  /\ Distinct(h, P) /\ Distinct(h, S)

\* Numbers of which each is below the next are in order.
LEMMA OrderFromNeighbours ==
  ASSUME NEW n \in Nat, NEW K \in [1 .. n -> Nat],
         \A i \in 2 .. n : K[i - 1] < K[i],
         NEW a \in 1 .. n, NEW b \in 1 .. n, a < b
  PROVE  K[a] < K[b]
<1>. DEFINE T == {j \in 1 .. n : a < j /\ ~(K[a] < K[j])}
<1>. SUFFICES ASSUME T # {} PROVE FALSE
  OBVIOUS
<1>1. T \in SUBSET Nat
  OBVIOUS
<1>2. PICK m \in T : \A j \in T : m <= j
  BY <1>1, HasLeast
<1>3. m \in 1 .. n /\ a < m /\ ~(K[a] < K[m]) /\ m \in 2 .. n /\ m - 1 \in 1 .. n
  OBVIOUS
<1>4. K[m - 1] < K[m]
  BY <1>3
<1>5. K[a] < K[m - 1] \/ a = m - 1
  <2>1. m - 1 \notin T
    BY <1>2, <1>3
  <2>. QED
    BY <2>1, <1>3
<1>. DEFINE x == K[a]
            y == K[m - 1]
            z == K[m]
<1>6. x \in Nat /\ y \in Nat /\ z \in Nat
  BY <1>3
<1>7. y < z /\ (x < y \/ x = y) /\ ~(x < z)
  BY <1>3, <1>4, <1>5
<1>. HIDE DEF x, y, z
<1>. QED
  BY <1>6, <1>7

\* The keys of a node follow from its children: they are in order and so are the children.
LEMMA KeysFromChildren ==
  ASSUME NEW E, NEW h \in Seq(BTreeNode(E)), NEW S, NEW D, Row(h, S, D),
         NEW items \in Seq(Entry(E)), Inner(h, items, S)
  PROVE  /\ InOrder(items)
         /\ \A i \in 1 .. Len(items) :
              /\ items[i].data \in S
              /\ items[i].key = Last(Items(h, items[i].data)).key
              /\ items[i].key \in Nat
         /\ \A i \in 2 .. Len(items) :
              /\ Adjacent(h, items[i - 1].data, items[i].data)
              /\ items[i - 1].key < Head(Items(h, items[i].data)).key
         /\ \A i, j \in 1 .. Len(items) : i # j => items[i].data # items[j].data
<1>. DEFINE n == Len(items)
            K == [i \in 1 .. Len(items) |-> items[i].key]
            C(i) == items[i].data
            F(y) == Head(Items(h, y)).key
            L(y) == Last(Items(h, y)).key
<1>1. n \in Nat /\ \A i \in 1 .. n : C(i) \in S
  BY DEF Inner, ToSet
<1>2. \A i \in 1 .. n : K[i] = L(C(i))
  BY DEF Inner, Exact, MaxKey, Items
<1>3. \A y \in S : y # None /\ F(y) \in Nat /\ L(y) \in Nat /\ F(y) <= L(y)
  BY RowEnds
<1>4. \A i \in 2 .. n : Adjacent(h, C(i - 1), C(i))
  BY DEF Inner, Chain
<1>5. \A x, y \in S : Adjacent(h, x, y) => L(x) < F(y)
  BY NoCycle
<1>. HIDE DEF n, K, C, F, L
<1>6. ASSUME NEW i \in 2 .. n PROVE K[i - 1] < F(C(i)) /\ F(C(i)) <= K[i]
  <2>1. i \in 1 .. n /\ i - 1 \in 1 .. n
    BY <1>1
  <2>. QED
    BY <2>1, <1>1, <1>2, <1>3, <1>4, <1>5
<1>7. \A i \in 1 .. n : K[i] \in Nat
  BY <1>1, <1>2, <1>3
<1>8. \A i \in 2 .. n : K[i - 1] < K[i]
  <2>. SUFFICES ASSUME NEW i \in 2 .. n PROVE K[i - 1] < K[i]
    OBVIOUS
  <2>1. i \in 1 .. n /\ i - 1 \in 1 .. n /\ F(C(i)) \in Nat
    BY <1>1, <1>3
  <2>. QED
    BY <2>1, <1>6, <1>7
<1>9. \A a, b \in 1 .. n : a < b => K[a] < K[b]
  <2>1. K \in [1 .. n -> Nat]
    BY <1>7 DEF K, n
  <2>. QED
    BY <2>1, <1>1, <1>8, OrderFromNeighbours
<1>10. InOrder(items)
  BY <1>9 DEF InOrder, n, K
<1>11. \A i, j \in 1 .. n : i # j => C(i) # C(j)
  <2>. SUFFICES ASSUME NEW i \in 1 .. n, NEW j \in 1 .. n, i # j PROVE K[i] # K[j]
    BY <1>2
  <2>1. i < j \/ j < i
    BY <1>1
  <2>. QED
    BY <2>1, <1>7, <1>9
<1>12. \A i \in 1 .. n : K[i] = items[i].key
  BY DEF n, K
<1>13. \A i \in 2 .. n : i - 1 \in 1 .. n
  BY <1>1
<1>14. \A i \in 1 .. n : items[i].data \in S /\ items[i].key = L(items[i].data) /\ items[i].key \in Nat
  BY <1>1, <1>2, <1>7, <1>12 DEF C
<1>15. \A i \in 2 .. n : /\ Adjacent(h, items[i - 1].data, items[i].data)
                          /\ items[i - 1].key < F(items[i].data)
  BY <1>4, <1>6, <1>12, <1>13 DEF C
<1>16. \A i, j \in 1 .. n : i # j => items[i].data # items[j].data
  BY <1>11 DEF C
<1>. QED
  BY <1>10, <1>14, <1>15, <1>16 DEF n, F, L

\* A row stays one when the row below it does, if its nodes keep their places in it.
LEMMA UpperRowKept ==
  ASSUME NEW E, NEW h \in Seq(BTreeNode(E)), NEW P, NEW S, Row(h, P, S),
         NEW g \in Seq(BTreeNode(E)), NEW T, NEW D, Row(g, T, D),
         P \subseteq DOMAIN g, P \cap T = {},
         \A x \in P : /\ g[x].left = h[x].left /\ g[x].right = h[x].right
                      /\ ~h[x].leaf /\ ~g[x].leaf
                      /\ Items(g, x) # <<>> /\ Inner(g, Items(g, x), T) /\ CousinsLinked(g, x)
  PROVE  Row(g, P, T)
<1>. DEFINE F(y) == Head(Items(g, y))
            L(y) == Last(Items(g, y))
<1>1. \A x \in P : /\ x # None
                   /\ h[x].left # None => h[x].left \in P /\ h[h[x].left].right = x
                   /\ h[x].right # None => h[x].right \in P /\ h[h[x].right].left = x
  BY RowLinks
<1>2. \A x \in P : Items(g, x) \in Seq(Entry(E))
  BY HeapNode
<1>3. \A y \in T : F(y).key \in Nat /\ L(y).key \in Nat /\ F(y).key <= L(y).key
  BY RowEnds
<1>4. \A y, z \in T : Adjacent(g, y, z) => L(y).key < F(z).key
  BY NoCycle
<1>5. ASSUME NEW x \in P
      PROVE  /\ KeysInOrder(g, x)
             /\ F(x).data \in T /\ F(x).key = L(F(x).data).key
             /\ L(x).data \in T /\ L(x).key = L(L(x).data).key
  <2>1. Items(g, x) \in Seq(Entry(E)) /\ Items(g, x) # <<>> /\ Inner(g, Items(g, x), T)
    BY <1>2
  <2>. DEFINE w == Items(g, x)
  <2>2. /\ Len(w) \in Nat /\ Len(w) >= 1 /\ F(x) = w[1] /\ L(x) = w[Len(w)]
    BY <2>1, Ends
  <2>3. InOrder(w) /\ \A i \in 1 .. Len(w) : w[i].data \in T /\ w[i].key = L(w[i].data).key
    BY <2>1, KeysFromChildren
  <2>4. 1 \in 1 .. Len(w) /\ Len(w) \in 1 .. Len(w)
    BY <2>2
  <2>. QED
    BY <2>2, <2>3, <2>4 DEF KeysInOrder
<1>. HIDE DEF F, L
<1>6. ASSUME NEW x \in P
      PROVE  NeighboursInOrder(g, x)
  <2>1. g[x].left # None => Adjacent(g, g[x].left, x)
    BY <1>1 DEF Adjacent
  <2>2. ASSUME g[x].right # None
        PROVE  Adjacent(g, x, g[x].right) /\ L(x).key < F(g[x].right).key
    <3>1. g[x].right \in P /\ Adjacent(g, x, g[x].right)
      BY <2>2, <1>1 DEF Adjacent
    <3>2. Adjacent(g, L(x).data, F(g[x].right).data)
      BY <2>2 DEF CousinsLinked, F, L
    <3>. DEFINE z == F(g[x].right).data
                y == L(x).data
    <3>3. y \in T /\ z \in T /\ L(x).key = L(y).key /\ F(g[x].right).key = L(z).key
      BY <3>1, <1>5
    <3>. HIDE DEF y, z
    <3>4. L(y).key < F(z).key /\ F(z).key <= L(z).key
      BY <3>2, <3>3, <1>3, <1>4 DEF y, z
    <3>5. L(y).key \in Nat /\ F(z).key \in Nat /\ L(z).key \in Nat
      BY <3>3, <1>3
    <3>6. L(y).key < L(z).key
      BY <3>4, <3>5
    <3>. QED
      BY <3>1, <3>3, <3>6
  <2>. QED
    BY <2>1, <2>2 DEF NeighboursInOrder, MaxKey, F, L, Items
<1>7. \A x \in P : RowNode(g, P, T, x)
  BY <1>1, <1>5, <1>6 DEF RowNode
<1>8. T \subseteq DOMAIN g
  BY DEF Row
<1>9. \A x \in P : g[x].leaf = FALSE
  BY HeapNode
<1>. QED
  BY <1>7, <1>8, <1>9 DEF Row

\* No node is the child of two.
LEMMA OneParent ==
  ASSUME NEW h, NEW P, NEW S, Row(h, P, S), Distinct(h, P),
         NEW x \in P, NEW y \in P, ~h[x].leaf, ~h[y].leaf,
         NEW i \in DOMAIN Items(h, x), NEW j \in DOMAIN Items(h, y),
         Items(h, x)[i].data = Items(h, y)[j].data, NEW E, h \in Seq(BTreeNode(E))
  PROVE  x = y
<1>1. x \in DOMAIN h /\ y \in DOMAIN h
  BY DEF Row
<1>2. /\ Items(h, x) \in Seq(Entry(E)) /\ Items(h, y) \in Seq(Entry(E))
  BY <1>1, HeapNode
<1>3. Inner(h, Items(h, x), S) /\ Inner(h, Items(h, y), S)
  BY DEF Row, RowNode
<1>4. i \in 1 .. Len(Items(h, x)) /\ j \in 1 .. Len(Items(h, y))
  BY <1>2
<1>5. /\ Items(h, x)[i].key = MaxKey(h, Items(h, x)[i].data)
      /\ Items(h, y)[j].key = MaxKey(h, Items(h, y)[j].data)
  BY <1>3, <1>4 DEF Inner, Exact
<1>6. Items(h, x)[i] \in ToSet(Items(h, x)) /\ Items(h, y)[j] \in ToSet(Items(h, y))
  BY DEF ToSet
<1>. QED
  BY <1>5, <1>6 DEF Distinct

\* Keys that differ below differ above, if no node is the child of two.
LEMMA DistinctAbove ==
  ASSUME NEW E, NEW g \in Seq(BTreeNode(E)), NEW P, NEW S, NEW D, Row(g, P, S), Row(g, S, D),
         Distinct(g, S), \A x \in P : ~g[x].leaf,
         \A x, y \in P : \A e \in ToSet(Items(g, x)), f \in ToSet(Items(g, y)) :
           e.data = f.data => x = y
  PROVE  Distinct(g, P)
<1>. SUFFICES ASSUME NEW x \in P, NEW y \in P, NEW e \in ToSet(Items(g, x)),
                     NEW f \in ToSet(Items(g, y)), e.key = f.key
              PROVE  e.data = f.data
  BY DEF Distinct
<1>1. ASSUME NEW z \in P, NEW d \in ToSet(Items(g, z))
      PROVE  d.data \in S /\ d.key = Last(Items(g, d.data)).key
  <2>1. Inner(g, Items(g, z), S) /\ z \in DOMAIN g
    BY DEF Row, RowNode
  <2>2. Items(g, z) \in Seq(Entry(E))
    BY <2>1, HeapNode
  <2>3. PICK i \in 1 .. Len(Items(g, z)) : d = Items(g, z)[i]
    BY <2>2 DEF ToSet
  <2>. QED
    BY <2>1, <2>3 DEF Inner, Exact, MaxKey, Items
<1>2. \A z \in S : Last(Items(g, z)) \in ToSet(Items(g, z))
  BY RowEnds
<1>3. /\ e.data \in S /\ e.key = Last(Items(g, e.data)).key
      /\ f.data \in S /\ f.key = Last(Items(g, f.data)).key
  BY <1>1
<1>. DEFINE y1 == e.data
            y2 == f.data
            l1 == Last(Items(g, y1))
            l2 == Last(Items(g, y2))
<1>4. y1 \in S /\ y2 \in S /\ l1.key = l2.key /\ l1 \in ToSet(Items(g, y1)) /\ l2 \in ToSet(Items(g, y2))
  BY <1>2, <1>3
<1>. HIDE DEF y1, y2, l1, l2
<1>5. y1 = y2
  BY <1>4 DEF Distinct
<1>. QED
  BY <1>5 DEF y1, y2

\* Items that name linked children in a set, each by the child's last key, are an inner node's.
LEMMA InnerOf ==
  ASSUME NEW E, NEW g, NEW items \in Seq(Entry(E)), NEW T,
         \A i \in 1 .. Len(items) : items[i].data \in T /\ items[i].key = MaxKey(g, items[i].data),
         \A i \in 2 .. Len(items) : Adjacent(g, items[i - 1].data, items[i].data)
  PROVE  Inner(g, items, T)
BY DEF Inner, ToSet, Exact, Chain

\* What two rows give: the children of a node, and that no other node has them.
LEMMA LevelChildren ==
  ASSUME NEW E, NEW h \in Seq(BTreeNode(E)), NEW P, NEW S, NEW D, Levels(h, P, S, D), NEW n \in P
  PROVE  /\ n \in DOMAIN h /\ n \notin S /\ n \notin D
         /\ Items(h, n) \in Seq(Entry(E)) /\ Len(Items(h, n)) \in Nat /\ Len(Items(h, n)) >= 1
         /\ Items(h, n) # <<>> /\ InOrder(Items(h, n))
         /\ Head(Items(h, n)).data = Child(h, n, 1)
         /\ Last(Items(h, n)).data = Child(h, n, Len(Items(h, n)))
         /\ \A i \in 1 .. Len(Items(h, n)) :
              /\ Child(h, n, i) \in S
              /\ Items(h, n)[i].key \in Nat /\ Items(h, n)[i].key = MaxKey(h, Child(h, n, i))
              /\ \A j \in 1 .. Len(Items(h, n)) : i # j => Child(h, n, i) # Child(h, n, j)
         /\ \A i \in 2 .. Len(Items(h, n)) :
              /\ Adjacent(h, Child(h, n, i - 1), Child(h, n, i))
              /\ Items(h, n)[i - 1].key < Head(Items(h, Child(h, n, i))).key
<1>1. n \in DOMAIN h /\ n \notin S /\ n \notin D /\ Row(h, S, D) /\ ~h[n].leaf
  BY DEF Levels, Row
<1>2. Items(h, n) # <<>> /\ Inner(h, Items(h, n), S)
  BY <1>1 DEF Levels, Row, RowNode
<1>3. Items(h, n) \in Seq(Entry(E))
  BY <1>1, HeapNode
<1>. DEFINE w == Items(h, n)
<1>. HIDE DEF w
<1>4. w \in Seq(Entry(E)) /\ w # <<>> /\ Inner(h, w, S)
  BY <1>2, <1>3 DEF w
<1>5. Len(w) \in Nat /\ Len(w) >= 1 /\ Head(w) = w[1] /\ Last(w) = w[Len(w)]
  BY <1>4, Ends
<1>6. /\ InOrder(w)
      /\ \A i \in 1 .. Len(w) : w[i].data \in S /\ w[i].key \in Nat
      /\ \A i \in 2 .. Len(w) : /\ Adjacent(h, w[i - 1].data, w[i].data)
                                /\ w[i - 1].key < Head(Items(h, w[i].data)).key
      /\ \A i, j \in 1 .. Len(w) : i # j => w[i].data # w[j].data
  BY <1>1, <1>4, KeysFromChildren
<1>7. \A i \in 1 .. Len(w) : w[i].key = MaxKey(h, w[i].data)
  BY <1>4 DEF Inner, Exact
<1>. QED
  BY <1>1, <1>4, <1>5, <1>6, <1>7 DEF w, Child

\* A node has one parent.
LEMMA LevelParents ==
  ASSUME NEW E, NEW h \in Seq(BTreeNode(E)), NEW P, NEW S, NEW D, Levels(h, P, S, D),
         NEW x \in P, NEW y \in P, NEW i \in 1 .. Len(Items(h, x)), NEW j \in 1 .. Len(Items(h, y)),
         Child(h, x, i) = Child(h, y, j)
  PROVE  x = y
<1>1. Row(h, P, S) /\ Distinct(h, P) /\ ~h[x].leaf /\ ~h[y].leaf
  BY DEF Levels
<1>2. Items(h, x) \in Seq(Entry(E)) /\ Items(h, y) \in Seq(Entry(E))
  BY LevelChildren
<1>3. i \in DOMAIN Items(h, x) /\ j \in DOMAIN Items(h, y)
  BY <1>2
<1>. QED
  BY <1>1, <1>3, OneParent DEF Child

\* How the lists of the children go on from one node to the next.
LEMMA LevelCousins ==
  ASSUME NEW E, NEW h \in Seq(BTreeNode(E)), NEW P, NEW S, NEW D, Levels(h, P, S, D), NEW x \in P
  PROVE  /\ h[x].left = None => h[Child(h, x, 1)].left = None
         /\ h[x].right = None => h[Child(h, x, Len(Items(h, x)))].right = None
         /\ h[x].right # None =>
              /\ h[x].right \in P
              /\ Adjacent(h, Child(h, x, Len(Items(h, x))), Child(h, h[x].right, 1))
<1>1. Row(h, P, S) /\ CousinsLinked(h, x)
  BY DEF Levels, Row, RowNode
<1>2. h[x].right # None => h[x].right \in P
  BY <1>1, RowLinks
<1>3. \A y \in P : /\ Head(Items(h, y)).data = Child(h, y, 1)
                   /\ Last(Items(h, y)).data = Child(h, y, Len(Items(h, y)))
  BY LevelChildren
<1>. QED
  BY <1>1, <1>2, <1>3 DEF CousinsLinked

\* A row keeps its keys apart if the nodes that changed do, and have no keys of others.
LEMMA DistinctKept ==
  ASSUME NEW h, NEW S, Distinct(h, S), NEW g, NEW T, NEW B, Distinct(g, B),
         \A x \in T : x \in B \/ (x \in S /\ Items(g, x) = Items(h, x)),
         \A x \in B : \A e \in ToSet(Items(g, x)) :
           \E y \in S : e \in ToSet(Items(h, y)) /\ (y \in T => y \in B)
  PROVE  Distinct(g, T)
<1>. SUFFICES ASSUME NEW x \in T, NEW y \in T, NEW e \in ToSet(Items(g, x)),
                     NEW f \in ToSet(Items(g, y)), e.key = f.key
              PROVE  x = y
  BY DEF Distinct
<1>1. CASE x \in B /\ y \in B
  BY <1>1 DEF Distinct
<1>2. CASE x \in B /\ y \notin B
  BY <1>2 DEF Distinct
<1>3. CASE x \notin B /\ y \in B
  BY <1>3 DEF Distinct
<1>4. CASE x \notin B /\ y \notin B
  BY <1>4 DEF Distinct
<1>. QED
  BY <1>1, <1>2, <1>3, <1>4

\* Two nodes whose items are in order, one after the other, share no key.
LEMMA DistinctTwo ==
  ASSUME NEW E, NEW g, NEW l, NEW r, Items(g, l) \in Seq(Entry(E)), Items(g, r) \in Seq(Entry(E)),
         Items(g, l) # <<>>, Items(g, r) # <<>>, InOrder(Items(g, l) \o Items(g, r))
  PROVE  Distinct(g, {l, r})
<1>. DEFINE a == Items(g, l)
            b == Items(g, r)
<1>1. /\ a \in Seq(Entry(E)) /\ b \in Seq(Entry(E)) /\ a # <<>> /\ b # <<>>
      /\ InOrder(a) /\ InOrder(b) /\ Last(a).key < Head(b).key
  BY OrderJoined
<1>2. ASSUME NEW e \in ToSet(a), NEW f \in ToSet(b)
      PROVE  e.key # f.key
  <2>. HIDE DEF a, b
  <2>1. /\ Last(a).key \in Nat /\ Head(b).key \in Nat
        /\ \A i \in 1 .. Len(a) : a[i].key \in Nat /\ a[i].key <= Last(a).key
        /\ \A i \in 1 .. Len(b) : b[i].key \in Nat /\ Head(b).key <= b[i].key
    BY <1>1, OrderedEnds
  <2>2. \E i \in 1 .. Len(a) : e = a[i]
    BY <1>1 DEF ToSet
  <2>3. \E i \in 1 .. Len(b) : f = b[i]
    BY <1>1 DEF ToSet
  <2>4. e.key \in Nat /\ f.key \in Nat /\ e.key <= Last(a).key /\ Head(b).key <= f.key
    BY <2>1, <2>2, <2>3
  <2>. QED
    BY <2>1, <2>4, <1>1
<1>. QED
  BY <1>2 DEF Distinct

\* Nor does one node with another when it is alone.
LEMMA DistinctOne ==
  ASSUME NEW g, NEW c
  PROVE  Distinct(g, {c})
BY DEF Distinct

\* Two rows stay so if the lower one does and the upper nodes name its nodes again as they
\* should.
LEMMA LevelsKept ==
  ASSUME NEW E, NEW h \in Seq(BTreeNode(E)), NEW P, NEW S, NEW D, Levels(h, P, S, D),
         NEW g \in Seq(BTreeNode(E)), NEW T, NEW F, F \subseteq D, Row(g, T, F), Distinct(g, T),
         Parented(g, P, T), P \subseteq DOMAIN g, P \cap T = {},
         \A x \in P : /\ g[x].left = h[x].left /\ g[x].right = h[x].right /\ g[x].leaf = h[x].leaf
                      /\ Items(g, x) # <<>>,
         \A x \in P : \A i \in 1 .. Len(Items(g, x)) :
           Child(g, x, i) \in T /\ Items(g, x)[i].key = MaxKey(g, Child(g, x, i)),
         \A x \in P : \A i \in 2 .. Len(Items(g, x)) :
           Adjacent(g, Child(g, x, i - 1), Child(g, x, i)),
         \A x \in P :
           /\ h[x].left = None => g[Child(g, x, 1)].left = None
           /\ h[x].right = None => g[Child(g, x, Len(Items(g, x)))].right = None
           /\ h[x].right # None =>
                Adjacent(g, Child(g, x, Len(Items(g, x))), Child(g, h[x].right, 1)),
         \A x, y \in P : \A i \in 1 .. Len(Items(g, x)), j \in 1 .. Len(Items(g, y)) :
           Child(g, x, i) = Child(g, y, j) => x = y
  PROVE  Levels(g, P, T, F)
<1>1. /\ Row(h, P, S) /\ P \cap F = {}
      /\ \A x \in P : ~h[x].leaf
  BY DEF Levels
<1>2. \A x \in P : /\ Items(g, x) \in Seq(Entry(E))
                   /\ Len(Items(g, x)) \in Nat
                   /\ Head(Items(g, x)).data = Child(g, x, 1)
                   /\ Last(Items(g, x)).data = Child(g, x, Len(Items(g, x)))
  <2>. SUFFICES ASSUME NEW x \in P
                PROVE  /\ Items(g, x) \in Seq(Entry(E))
                       /\ Len(Items(g, x)) \in Nat
                       /\ Head(Items(g, x)).data = Child(g, x, 1)
                       /\ Last(Items(g, x)).data = Child(g, x, Len(Items(g, x)))
    OBVIOUS
  <2>1. Items(g, x) \in Seq(Entry(E)) /\ Items(g, x) # <<>>
    BY HeapNode
  <2>. QED
    BY <2>1, Ends DEF Child
<1>3. \A x \in P : Inner(g, Items(g, x), T)
  <2>. SUFFICES ASSUME NEW x \in P PROVE Inner(g, Items(g, x), T)
    OBVIOUS
  <2>. DEFINE w == Items(g, x)
  <2>1. /\ w \in Seq(Entry(E))
        /\ \A i \in 1 .. Len(w) : w[i].data \in T /\ w[i].key = MaxKey(g, w[i].data)
        /\ \A i \in 2 .. Len(w) : Adjacent(g, w[i - 1].data, w[i].data)
    BY <1>2 DEF Child
  <2>. QED
    BY <2>1, InnerOf
<1>4. \A x \in P : h[x].right # None => h[x].right \in P
  BY <1>1, RowLinks
<1>5. ASSUME NEW x \in P PROVE CousinsLinked(g, x)
  <2>1. g[x].left = h[x].left /\ g[x].right = h[x].right
    OBVIOUS
  <2>2. /\ Head(Items(g, x)).data = Child(g, x, 1)
        /\ Last(Items(g, x)).data = Child(g, x, Len(Items(g, x)))
        /\ h[x].right # None => Head(Items(g, h[x].right)).data = Child(g, h[x].right, 1)
    BY <1>2, <1>4
  <2>. QED
    BY <2>1, <2>2 DEF CousinsLinked
<1>6. Row(g, P, T)
  BY <1>1, <1>3, <1>5, UpperRowKept
<1>7. \A x, y \in P : \A e \in ToSet(Items(g, x)), f \in ToSet(Items(g, y)) :
        e.data = f.data => x = y
  <2>. SUFFICES ASSUME NEW x \in P, NEW y \in P, NEW e \in ToSet(Items(g, x)),
                       NEW f \in ToSet(Items(g, y)), e.data = f.data
                PROVE  x = y
    OBVIOUS
  <2>1. PICK i \in 1 .. Len(Items(g, x)) : e = Items(g, x)[i]
    BY <1>2 DEF ToSet
  <2>2. PICK j \in 1 .. Len(Items(g, y)) : f = Items(g, y)[j]
    BY <1>2 DEF ToSet
  <2>3. Child(g, x, i) = Child(g, y, j)
    BY <2>1, <2>2 DEF Child
  <2>. QED
    BY <2>3
<1>8. \A x \in P : ~g[x].leaf
  BY <1>1
<1>9. Distinct(g, P)
  BY <1>6, <1>7, <1>8, DistinctAbove
<1>. QED
  BY <1>1, <1>6, <1>8, <1>9 DEF Levels

\* Items have moved between the children p and p + 1 of node n, l and r, which takes their new
\* keys.
Shifts(h, g, P, S, D, n, p, l, r) ==
  /\ DOMAIN h \subseteq DOMAIN g /\ n \in P /\ p \in 1 .. Len(Items(h, n)) - 1
  /\ l = Child(h, n, p) /\ r = Child(h, n, p + 1)
  /\ \A x \in S \cup P :
       h[x].left = g[x].left /\ h[x].right = g[x].right /\ h[x].leaf = g[x].leaf
  /\ \A x \in S \ {l, r} : Items(g, x) = Items(h, x)
  /\ \A x \in P \ {n} : Items(g, x) = Items(h, x)
  /\ \A d \in D : g[d] = h[d]
  /\ Items(g, l) # <<>> /\ Items(g, r) # <<>>
  /\ Items(g, l) \o Items(g, r) = Items(h, l) \o Items(h, r)
  /\ Len(Items(g, n)) = Len(Items(h, n))
  /\ \A i \in 1 .. Len(Items(h, n)) : Child(g, n, i) = Child(h, n, i)
  /\ \A i \in 1 .. Len(Items(h, n)) : i \notin {p, p + 1} => Items(g, n)[i] = Items(h, n)[i]
  /\ \A i \in {p, p + 1} : Items(g, n)[i].key = MaxKey(g, Child(g, n, i))

\* The two rows stay right.
LEMMA ShiftKeepsLevels ==
  ASSUME NEW E, NEW h \in Seq(BTreeNode(E)), NEW P, NEW S, NEW D, Levels(h, P, S, D),
         NEW g \in Seq(BTreeNode(E)), NEW n, NEW p, NEW l, NEW r,
         Shifts(h, g, P, S, D, n, p, l, r)
  PROVE  Levels(g, P, S, D) /\ Held(g, S) = Held(h, S)
<1>. SUFFICES ASSUME DOMAIN h \subseteq DOMAIN g,
                     n \in P, p \in 1 .. Len(Items(h, n)) - 1,
                     l = Child(h, n, p), r = Child(h, n, p + 1),
                     \A x \in S \cup P :
                       h[x].left = g[x].left /\ h[x].right = g[x].right /\ h[x].leaf = g[x].leaf,
                     \A x \in S \ {l, r} : Items(g, x) = Items(h, x),
                     \A x \in P \ {n} : Items(g, x) = Items(h, x),
                     \A d \in D : g[d] = h[d],
                     Items(g, l) # <<>>, Items(g, r) # <<>>,
                     Items(g, l) \o Items(g, r) = Items(h, l) \o Items(h, r),
                     Len(Items(g, n)) = Len(Items(h, n)),
                     \A i \in 1 .. Len(Items(h, n)) : Child(g, n, i) = Child(h, n, i),
                     \A i \in 1 .. Len(Items(h, n)) : i \notin {p, p + 1} => Items(g, n)[i] = Items(h, n)[i],
                     \A i \in {p, p + 1} : Items(g, n)[i].key = MaxKey(g, Child(g, n, i))
              PROVE  Levels(g, P, S, D) /\ Held(g, S) = Held(h, S)
  BY DEF Shifts
<1>. DEFINE m == Len(Items(h, n))
<1>1. /\ Row(h, P, S) /\ Row(h, S, D) /\ Distinct(h, S) /\ P \subseteq DOMAIN h /\ P \cap S = {}
      /\ S \subseteq DOMAIN h
  BY DEF Levels, Row
<1>2. \A x \in P : \A i \in 1 .. Len(Items(h, x)) :
        /\ Child(h, x, i) \in S /\ Items(h, x)[i].key = MaxKey(h, Child(h, x, i))
        /\ \A j \in 1 .. Len(Items(h, x)) : i # j => Child(h, x, i) # Child(h, x, j)
  BY LevelChildren
<1>3. \A x \in P : \A i \in 2 .. Len(Items(h, x)) : Adjacent(h, Child(h, x, i - 1), Child(h, x, i))
  BY LevelChildren
<1>4. m \in Nat /\ p \in 1 .. m /\ p + 1 \in 2 .. m /\ p + 1 \in 1 .. m /\ (p + 1) - 1 = p
  BY LevelChildren
<1>5. l \in S /\ r \in S /\ Adjacent(h, l, r)
  BY <1>2, <1>3, <1>4
<1>6. l # r
  BY <1>1, <1>5, NoCycle
<1>7. Row(g, S, D) /\ Held(g, S) = Held(h, S)
  <2>1. /\ \A x \in S :
             h[x].left = g[x].left /\ h[x].right = g[x].right /\ h[x].leaf = g[x].leaf
        /\ \A x \in S \ {l, r} : Items(g, x) = Items(h, x)
        /\ \A d \in D : g[d] = h[d]
        /\ Items(g, l) # <<>> /\ Items(g, r) # <<>>
        /\ Items(g, l) \o Items(g, r) = Items(h, l) \o Items(h, r)
    OBVIOUS
  <2>2. BecomesRow(h, S, g, S, D)
    BY <2>1, <1>1, <1>5, <1>6, ShiftKeepsRow
  <2>. QED
    BY <2>2 DEF BecomesRow
<1>8. Distinct(g, S)
  <2>. DEFINE B == {l, r}
  <2>1. Items(h, l) \in Seq(Entry(E)) /\ Items(h, r) \in Seq(Entry(E))
        /\ Items(g, l) \in Seq(Entry(E)) /\ Items(g, r) \in Seq(Entry(E))
    BY <1>1, <1>5, HeapNode
  <2>2. /\ Items(h, l) # <<>> /\ Items(h, r) # <<>>
        /\ InOrder(Items(h, l)) /\ InOrder(Items(h, r))
    BY <1>1, <1>5 DEF Row, RowNode, KeysInOrder
  <2>3. Last(Items(h, l)).key < Head(Items(h, r)).key
    BY <1>1, <1>5, NoCycle
  <2>4. InOrder(Items(h, l) \o Items(h, r))
    BY <2>1, <2>2, <2>3, OrderJoined
  <2>5. Distinct(g, B)
    BY <2>1, <2>4, DistinctTwo
  <2>6. ToSet(Items(g, l)) \cup ToSet(Items(g, r)) = ToSet(Items(h, l)) \cup ToSet(Items(h, r))
    <3>1. /\ ToSet(Items(g, l) \o Items(g, r)) = ToSet(Items(g, l)) \cup ToSet(Items(g, r))
          /\ ToSet(Items(h, l) \o Items(h, r)) = ToSet(Items(h, l)) \cup ToSet(Items(h, r))
      BY <2>1, ToSetJoined
    <3>. QED
      BY <3>1
  <2>7. \A x \in B : \A e \in ToSet(Items(g, x)) :
          \E y \in S : e \in ToSet(Items(h, y)) /\ (y \in S => y \in B)
    BY <2>6, <1>5
  <2>8. \A x \in S : x \in B \/ (x \in S /\ Items(g, x) = Items(h, x))
    OBVIOUS
  <2>. HIDE DEF B
  <2>. QED
    BY <1>1, <2>5, <2>7, <2>8, DistinctKept
\* Every node of P names the children it named, with their keys.
<1>9. \A x \in P : Len(Items(g, x)) = Len(Items(h, x)) /\ Items(g, x) # <<>>
  <2>1. \A x \in P : Items(h, x) # <<>>
    BY LevelChildren
  <2>2. Items(g, n) # <<>>
    <3>. SUFFICES ASSUME Items(g, n) = <<>> PROVE FALSE
      OBVIOUS
    <3>1. Len(Items(g, n)) = 0
      OBVIOUS
    <3>. QED
      BY <3>1, <1>4
  <2>. QED
    BY <2>1, <2>2
<1>10. \A x \in P : \A i \in 1 .. Len(Items(h, x)) : Child(g, x, i) = Child(h, x, i)
  BY DEF Child
<1>11. ASSUME NEW x \in P, NEW i \in 1 .. Len(Items(h, x))
       PROVE  Items(g, x)[i].key = MaxKey(g, Child(h, x, i))
  <2>1. CASE x = n /\ i \in {p, p + 1}
    BY <2>1, <1>10
  <2>2. CASE ~(x = n /\ i \in {p, p + 1})
    <3>1. Items(g, x)[i] = Items(h, x)[i]
      BY <2>2
    <3>2. Child(h, x, i) # l /\ Child(h, x, i) # r
      <4>1. CASE x = n
        BY <4>1, <2>2, <1>2, <1>4
      <4>2. CASE x # n
        BY <4>2, <1>4, LevelParents
      <4>. QED
        BY <4>1, <4>2
    <3>3. MaxKey(g, Child(h, x, i)) = MaxKey(h, Child(h, x, i))
      BY <3>2, <1>2 DEF MaxKey, Items
    <3>. QED
      BY <3>1, <3>3, <1>2
  <2>. QED
    BY <2>1, <2>2
<1>12. \A a, b \in S : Adjacent(h, a, b) => Adjacent(g, a, b)
  BY DEF Adjacent
<1>13. \A x \in P : /\ Len(Items(h, x)) \in Nat /\ Len(Items(h, x)) >= 1
                    /\ 1 \in 1 .. Len(Items(h, x)) /\ Len(Items(h, x)) \in 1 .. Len(Items(h, x))
                    /\ \A i \in 2 .. Len(Items(h, x)) : i \in 1 .. Len(Items(h, x))
                                                        /\ i - 1 \in 1 .. Len(Items(h, x))
  <2>1. \A x \in P : Len(Items(h, x)) \in Nat /\ Len(Items(h, x)) >= 1
    BY LevelChildren
  <2>. QED
    BY <2>1
<1>14. \A x \in P : \A i \in 2 .. Len(Items(g, x)) : Adjacent(g, Child(g, x, i - 1), Child(g, x, i))
  <2>. SUFFICES ASSUME NEW x \in P, NEW i \in 2 .. Len(Items(h, x))
                PROVE  Adjacent(g, Child(g, x, i - 1), Child(g, x, i))
    BY <1>9
  <2>. QED
    BY <1>2, <1>3, <1>10, <1>12, <1>13
<1>15. ASSUME NEW x \in P
       PROVE  /\ h[x].left = None => g[Child(g, x, 1)].left = None
              /\ h[x].right = None => g[Child(g, x, Len(Items(g, x)))].right = None
              /\ h[x].right # None =>
                   Adjacent(g, Child(g, x, Len(Items(g, x))), Child(g, h[x].right, 1))
  <2>1. /\ h[x].left = None => h[Child(h, x, 1)].left = None
        /\ h[x].right = None => h[Child(h, x, Len(Items(h, x)))].right = None
        /\ h[x].right # None =>
             /\ h[x].right \in P
             /\ Adjacent(h, Child(h, x, Len(Items(h, x))), Child(h, h[x].right, 1))
    BY LevelCousins
  <2>2. /\ Child(h, x, 1) \in S /\ Child(g, x, 1) = Child(h, x, 1)
        /\ Child(h, x, Len(Items(h, x))) \in S
        /\ Child(g, x, Len(Items(g, x))) = Child(h, x, Len(Items(h, x)))
    BY <1>2, <1>9, <1>10, <1>13
  <2>3. h[x].right # None => /\ Child(h, h[x].right, 1) \in S
                             /\ Child(g, h[x].right, 1) = Child(h, h[x].right, 1)
    BY <2>1, <1>2, <1>10, <1>13
  <2>. QED
    BY <2>1, <2>2, <2>3, <1>12
<1>16. \A x, y \in P : \A i \in 1 .. Len(Items(g, x)), j \in 1 .. Len(Items(g, y)) :
         Child(g, x, i) = Child(g, y, j) => x = y
  BY <1>9, <1>10, LevelParents
<1>17. \A x \in P : \A i \in 1 .. Len(Items(g, x)) :
         Child(g, x, i) \in S /\ Items(g, x)[i].key = MaxKey(g, Child(g, x, i))
  BY <1>2, <1>9, <1>10, <1>11
<1>18. Parented(g, P, S)
  <2>1. Parented(h, P, S)
    BY DEF Levels
  <2>. QED
    BY <2>1, <1>9, <1>10 DEF Parented
<1>. QED
  BY <1>1, <1>7, <1>8, <1>9, <1>14, <1>15, <1>16, <1>17, <1>18, LevelsKept

\* Child p of node n, which is node l, has passed its upper items on to a new node s, between
\* it and its right neighbour, and node n names the two with their keys.
Splits(h, g, P, S, D, n, p, l, s) ==
  /\ Items(g, l) # <<>> /\ Items(g, s) # <<>>
  /\ Items(g, l) \o Items(g, s) = Items(h, l)
  /\ g[l].left = h[l].left /\ g[l].right = s /\ g[s].left = l /\ g[s].right = h[l].right
  /\ g[l].leaf = h[l].leaf /\ g[s].leaf = h[l].leaf
  /\ \A x \in S \ {l} : /\ Items(g, x) = Items(h, x) /\ g[x].leaf = h[x].leaf
                        /\ g[x].right = h[x].right
                        /\ g[x].left = (IF h[x].left = l THEN s ELSE h[x].left)
  /\ \A d \in D : g[d] = h[d]
  /\ \A x \in P : h[x].left = g[x].left /\ h[x].right = g[x].right /\ h[x].leaf = g[x].leaf
  /\ \A x \in P \ {n} : Items(g, x) = Items(h, x)
  /\ Len(Items(g, n)) = Len(Items(h, n)) + 1
  /\ \A i \in 1 .. p - 1 : Items(g, n)[i] = Items(h, n)[i]
  /\ Child(g, n, p) = l /\ Items(g, n)[p].key = MaxKey(g, l)
  /\ Child(g, n, p + 1) = s /\ Items(g, n)[p + 1].key = MaxKey(g, s)
  /\ \A i \in p + 1 .. Len(Items(h, n)) : Items(g, n)[i + 1] = Items(h, n)[i]

\* A child of a node gets a new right neighbour, which the node names after it.
LEMMA SplitKeepsLevels ==
  ASSUME NEW E, NEW h \in Seq(BTreeNode(E)), NEW P, NEW S, NEW D, Levels(h, P, S, D),
         NEW g \in Seq(BTreeNode(E)), DOMAIN h \subseteq DOMAIN g,
         NEW n \in P, NEW p \in 1 .. Len(Items(h, n)), NEW l, l = Child(h, n, p),
         NEW s \in DOMAIN g, s \notin DOMAIN h,
         Splits(h, g, P, S, D, n, p, l, s)
  PROVE  Levels(g, P, S \cup {s}, D) /\ Held(g, S \cup {s}) = Held(h, S)
<1>. SUFFICES ASSUME Items(g, l) # <<>>, Items(g, s) # <<>>,
                     Items(g, l) \o Items(g, s) = Items(h, l),
                     g[l].left = h[l].left, g[l].right = s, g[s].left = l, g[s].right = h[l].right,
                     g[l].leaf = h[l].leaf, g[s].leaf = h[l].leaf,
                     \A x \in S \ {l} : Items(g, x) = Items(h, x) /\ g[x].leaf = h[x].leaf,
                     \A x \in S \ {l} : g[x].right = h[x].right,
                     \A x \in S \ {l} : g[x].left = (IF h[x].left = l THEN s ELSE h[x].left),
                     \A d \in D : g[d] = h[d],
                     \A x \in P : h[x].left = g[x].left /\ h[x].right = g[x].right /\ h[x].leaf = g[x].leaf,
                     \A x \in P \ {n} : Items(g, x) = Items(h, x),
                     Len(Items(g, n)) = Len(Items(h, n)) + 1,
                     \A i \in 1 .. p - 1 : Items(g, n)[i] = Items(h, n)[i],
                     Child(g, n, p) = l, Items(g, n)[p].key = MaxKey(g, l),
                     Child(g, n, p + 1) = s, Items(g, n)[p + 1].key = MaxKey(g, s),
                     \A i \in p + 1 .. Len(Items(h, n)) : Items(g, n)[i + 1] = Items(h, n)[i]
              PROVE  Levels(g, P, S \cup {s}, D) /\ Held(g, S \cup {s}) = Held(h, S)
  BY DEF Splits
<1>. DEFINE m == Len(Items(h, n))
            T == S \cup {s}
<1>1. /\ Row(h, P, S) /\ Row(h, S, D) /\ Distinct(h, S) /\ P \subseteq DOMAIN h /\ P \cap S = {}
      /\ S \subseteq DOMAIN h
  BY DEF Levels, Row
<1>2. \A x \in P : \A i \in 1 .. Len(Items(h, x)) :
        /\ Child(h, x, i) \in S /\ Items(h, x)[i].key = MaxKey(h, Child(h, x, i))
        /\ \A j \in 1 .. Len(Items(h, x)) : i # j => Child(h, x, i) # Child(h, x, j)
  BY LevelChildren
<1>3. \A x \in P : \A i \in 2 .. Len(Items(h, x)) : Adjacent(h, Child(h, x, i - 1), Child(h, x, i))
  BY LevelChildren
<1>4. m \in Nat /\ p \in 1 .. m
  BY LevelChildren
<1>5. l \in S /\ s \notin S /\ s # None /\ l # None /\ None \notin S
  BY <1>1, <1>2, <1>4, RowEnds, HeapNode
<1>6. BecomesRow(h, S, g, T, D)
  BY <1>1, <1>5, SplitKeepsRow
<1>7. Row(g, T, D) /\ Held(g, T) = Held(h, S)
  BY <1>6 DEF BecomesRow
<1>8. Distinct(g, T)
  <2>. DEFINE B == {l, s}
              a == Items(g, l)
              b == Items(g, s)
  <2>1. a \in Seq(Entry(E)) /\ b \in Seq(Entry(E))
    BY <1>1, <1>5, HeapNode
  <2>2. InOrder(Items(g, l) \o Items(g, s))
    BY <1>1, <1>5 DEF Row, RowNode, KeysInOrder
  <2>3. Distinct(g, B)
    BY <2>1, <2>2, DistinctTwo
  <2>4. ToSet(a) \cup ToSet(b) = ToSet(Items(h, l))
    <3>1. a \o b = Items(h, l)
      OBVIOUS
    <3>. HIDE DEF a, b
    <3>2. ToSet(a \o b) = ToSet(a) \cup ToSet(b)
      BY <2>1, ToSetJoined
    <3>. QED
      BY <3>1, <3>2
  <2>5. \A x \in B : \A e \in ToSet(Items(g, x)) :
          \E y \in S : e \in ToSet(Items(h, y)) /\ (y \in T => y \in B)
    BY <2>4, <1>5
  <2>6. \A x \in T : x \in B \/ (x \in S /\ Items(g, x) = Items(h, x))
    OBVIOUS
  <2>. HIDE DEF B, T
  <2>. QED
    BY <1>1, <2>3, <2>5, <2>6, DistinctKept
\* The links of the children's list.
<1>9. /\ \A a, b \in S : a # l /\ Adjacent(h, a, b) => Adjacent(g, a, b)
      /\ \A b \in S : Adjacent(h, l, b) => Adjacent(g, s, b)
      /\ Adjacent(g, l, s)
  <2>1. ASSUME NEW a \in S, NEW b \in S, a # l, Adjacent(h, a, b) PROVE Adjacent(g, a, b)
    BY <2>1 DEF Adjacent
  <2>2. ASSUME NEW b \in S, Adjacent(h, l, b) PROVE Adjacent(g, s, b)
    <3>1. b # l
      BY <1>1, <1>5, <2>2, NoCycle
    <3>. QED
      BY <3>1, <2>2 DEF Adjacent
  <2>. QED
    BY <2>1, <2>2 DEF Adjacent
<1>10. \A x \in S : h[x].left = None => g[x].left = None
  BY <1>5
<1>11. /\ \A x \in S \ {l} : h[x].right = None => g[x].right = None
       /\ h[l].right = None => g[s].right = None
  OBVIOUS
\* The items of n: before l, l, s, and those after l.
<1>12. ASSUME NEW i \in 1 .. m + 1
       PROVE  \/ i < p /\ i \in 1 .. m /\ Items(g, n)[i] = Items(h, n)[i]
              \/ i = p /\ Child(g, n, i) = l
              \/ i = p + 1 /\ Child(g, n, i) = s
              \/ i > p + 1 /\ i - 1 \in 1 .. m /\ Items(g, n)[i] = Items(h, n)[i - 1]
  <2>1. CASE i < p
    <3>1. i \in 1 .. p - 1 /\ i \in 1 .. m
      BY <2>1, <1>4
    <3>. QED
      BY <3>1, <2>1
  <2>2. CASE i > p + 1
    <3>1. i - 1 \in p + 1 .. m /\ (i - 1) + 1 = i /\ i - 1 \in 1 .. m
      BY <2>2, <1>4
    <3>2. Items(g, n)[(i - 1) + 1] = Items(h, n)[i - 1]
      BY <3>1
    <3>. QED
      BY <3>1, <3>2, <2>2
  <2>. QED
    BY <2>1, <2>2, <1>4
<1>13. \A x \in P : /\ Len(Items(h, x)) \in Nat /\ Len(Items(h, x)) >= 1
                    /\ 1 \in 1 .. Len(Items(h, x)) /\ Len(Items(h, x)) \in 1 .. Len(Items(h, x))
                    /\ \A i \in 2 .. Len(Items(h, x)) : i \in 1 .. Len(Items(h, x))
                                                        /\ i - 1 \in 1 .. Len(Items(h, x))
  <2>1. \A x \in P : Len(Items(h, x)) \in Nat /\ Len(Items(h, x)) >= 1
    BY LevelChildren
  <2>. QED
    BY <2>1
<1>14. \A x \in P \ {n} : \A i \in 1 .. Len(Items(h, x)) :
         Child(g, x, i) = Child(h, x, i) /\ Child(h, x, i) # l
  <2>. SUFFICES ASSUME NEW x \in P \ {n}, NEW i \in 1 .. Len(Items(h, x))
                PROVE  Child(g, x, i) = Child(h, x, i) /\ Child(h, x, i) # l
    OBVIOUS
  <2>1. Child(h, x, i) # l
    BY <1>4, LevelParents
  <2>. QED
    BY <2>1 DEF Child
<1>15. \A x \in S \ {l} : MaxKey(g, x) = MaxKey(h, x)
  BY DEF MaxKey, Items
<1>16. \A i \in 1 .. m : i # p => Child(h, n, i) # l
  BY <1>2, <1>4
\* Every node of P names nodes of T, with their keys.
<1>17. ASSUME NEW x \in P, NEW i \in 1 .. Len(Items(g, x))
       PROVE  Child(g, x, i) \in T /\ Items(g, x)[i].key = MaxKey(g, Child(g, x, i))
  <2>1. CASE x # n
    <3>1. i \in 1 .. Len(Items(h, x)) /\ Items(g, x)[i] = Items(h, x)[i]
      BY <2>1
    <3>2. Child(g, x, i) = Child(h, x, i) /\ Child(h, x, i) \in S \ {l}
      BY <3>1, <2>1, <1>2, <1>14
    <3>. QED
      BY <3>1, <3>2, <1>2, <1>15
  <2>2. CASE x = n /\ i \in {p, p + 1}
    BY <2>2, <1>5
  <2>3. CASE x = n /\ i \notin {p, p + 1}
    <3>1. PICK j \in 1 .. m : Items(g, n)[i] = Items(h, n)[j] /\ j # p
      <4>1. i \in 1 .. m + 1
        BY <2>3
      <4>2. CASE i < p
        BY <4>1, <4>2, <1>12, <1>4
      <4>3. CASE i > p + 1
        <5>1. i - 1 \in 1 .. m /\ Items(g, n)[i] = Items(h, n)[i - 1] /\ i - 1 # p
          BY <4>1, <4>3, <1>12, <1>4
        <5>. QED
          BY <5>1
      <4>. QED
        BY <4>1, <4>2, <4>3, <2>3, <1>4
    <3>2. Child(g, n, i) = Child(h, n, j) /\ Child(h, n, j) \in S \ {l}
      BY <3>1, <1>2, <1>16 DEF Child
    <3>. QED
      BY <3>1, <3>2, <2>3, <1>2, <1>15
  <2>. QED
    BY <2>1, <2>2, <2>3
<1>18. \A x \in P : Items(g, x) # <<>>
  <2>1. \A x \in P : Items(h, x) # <<>>
    BY LevelChildren
  <2>2. Items(g, n) # <<>>
    <3>. SUFFICES ASSUME Items(g, n) = <<>> PROVE FALSE
      OBVIOUS
    <3>1. Len(Items(g, n)) = 0
      OBVIOUS
    <3>. QED
      BY <3>1, <1>4
  <2>. QED
    BY <2>1, <2>2
<1>19. ASSUME NEW x \in P, NEW i \in 2 .. Len(Items(g, x))
       PROVE  Adjacent(g, Child(g, x, i - 1), Child(g, x, i))
  <2>1. CASE x # n
    <3>1. i \in 2 .. Len(Items(h, x))
      BY <2>1
    <3>. QED
      BY SMTT(20), <3>1, <2>1, <1>2, <1>3, <1>9, <1>13, <1>14
  <2>2. CASE x = n
    <3>0. i \in 2 .. m + 1 /\ i \in 1 .. m + 1 /\ i - 1 \in 1 .. m + 1
      BY <2>2, <1>4
    <3>1. CASE i <= p
      <4>1. i \in 2 .. m /\ i \in 1 .. m /\ i - 1 \in 1 .. m /\ i - 1 # p /\ i - 1 < p
        BY <3>0, <3>1, <1>4
      <4>2. Child(g, n, i - 1) = Child(h, n, i - 1) /\ Child(h, n, i - 1) # l
        BY <4>1, <3>0, <1>4, <1>12, <1>16 DEF Child
      <4>3. Child(g, n, i) = Child(h, n, i)
        BY <3>1, <3>0, <1>12, <1>4 DEF Child
      <4>4. Adjacent(h, Child(h, n, i - 1), Child(h, n, i)) /\ Child(h, n, i - 1) \in S /\ Child(h, n, i) \in S
        BY <4>1, <1>2, <1>3
      <4>. QED
        BY <4>2, <4>3, <4>4, <2>2, <1>9
    <3>2. CASE i = p + 1
      <4>1. i - 1 = p
        BY <3>2, <1>4
      <4>. QED
        BY <4>1, <3>2, <2>2, <1>9
    <3>3. CASE i = p + 2
      <4>1. i - 1 = p + 1 /\ i > p + 1 /\ p + 1 \in 2 .. m /\ p + 1 \in 1 .. m /\ (p + 1) - 1 = p
        BY <3>0, <3>3, <1>4
      <4>2. Child(g, n, i - 1) = s /\ Child(g, n, i) = Child(h, n, p + 1)
        BY <4>1, <3>0, <1>12, <1>4 DEF Child
      <4>3. Adjacent(h, l, Child(h, n, p + 1)) /\ Child(h, n, p + 1) \in S
        BY <4>1, <1>2, <1>3
      <4>. QED
        BY <4>2, <4>3, <2>2, <1>9
    <3>4. CASE i > p + 2
      <4>0. i \in Nat /\ i <= m + 1 /\ i > p + 2 /\ p \in Nat /\ p >= 1 /\ m \in Nat
        BY <3>0, <3>4, <1>4
      <4>. HIDE DEF m
      <4>1. /\ i - 1 \in 2 .. m /\ i - 1 \in 1 .. m /\ (i - 1) - 1 \in 1 .. m /\ (i - 1) - 1 # p
            /\ i > p + 1 /\ i - 1 > p + 1
        BY <4>0
      <4>2. Child(g, n, i) = Child(h, n, i - 1)
        BY <4>1, <3>0, <1>12, <1>4 DEF Child
      <4>3. Child(g, n, i - 1) = Child(h, n, (i - 1) - 1) /\ Child(h, n, (i - 1) - 1) # l
        <5>1. Items(g, n)[i - 1] = Items(h, n)[(i - 1) - 1]
          BY <4>0, <4>1, <3>0, <1>12
        <5>2. Child(h, n, (i - 1) - 1) # l
          BY <4>1, <1>16
        <5>. QED
          BY <5>1, <5>2 DEF Child
      <4>4. /\ Adjacent(h, Child(h, n, (i - 1) - 1), Child(h, n, i - 1))
            /\ Child(h, n, (i - 1) - 1) \in S /\ Child(h, n, i - 1) \in S
        BY <4>1, <1>2, <1>3 DEF m
      <4>. QED
        BY <4>2, <4>3, <4>4, <2>2, <1>9
    <3>. QED
      BY <3>0, <3>1, <3>2, <3>3, <3>4, <1>4
  <2>. QED
    BY <2>1, <2>2
\* The first child is the one it was; the last one is s if it was l.
<1>20. ASSUME NEW x \in P
       PROVE  /\ Child(g, x, 1) = Child(h, x, 1)
              /\ \/ /\ Child(h, x, Len(Items(h, x))) # l
                    /\ Child(g, x, Len(Items(g, x))) = Child(h, x, Len(Items(h, x)))
                 \/ /\ Child(h, x, Len(Items(h, x))) = l
                    /\ Child(g, x, Len(Items(g, x))) = s
  <2>1. CASE x # n
    BY <2>1, <1>13, <1>14
  <2>2. CASE x = n
    <3>1. Child(g, n, 1) = Child(h, n, 1)
      <4>1. 1 \in 1 .. m + 1 /\ (p = 1 \/ 1 < p)
        BY <1>4
      <4>. QED
        BY <4>1, <1>12, <1>4 DEF Child
    <3>2. CASE p = m
      BY SMTT(20), <3>1, <3>2, <2>2
    <3>3. CASE p # m
      <4>1. m + 1 \in 1 .. m + 1 /\ m + 1 > p + 1 /\ (m + 1) - 1 = m /\ m \in 1 .. m
        BY <3>3, <1>4
      <4>2. Child(g, n, m + 1) = Child(h, n, m)
        BY <4>1, <1>12, <1>4 DEF Child
      <4>. QED
        BY Zenon, <3>1, <3>3, <4>1, <4>2, <2>2, <1>16
    <3>. QED
      BY <3>2, <3>3
  <2>. QED
    BY <2>1, <2>2
<1>21. ASSUME NEW x \in P
       PROVE  /\ h[x].left = None => g[Child(g, x, 1)].left = None
              /\ h[x].right = None => g[Child(g, x, Len(Items(g, x)))].right = None
              /\ h[x].right # None =>
                   Adjacent(g, Child(g, x, Len(Items(g, x))), Child(g, h[x].right, 1))
  <2>1. /\ h[x].left = None => h[Child(h, x, 1)].left = None
        /\ h[x].right = None => h[Child(h, x, Len(Items(h, x)))].right = None
        /\ h[x].right # None =>
             /\ h[x].right \in P
             /\ Adjacent(h, Child(h, x, Len(Items(h, x))), Child(h, h[x].right, 1))
    BY LevelCousins
  <2>2. Child(h, x, 1) \in S /\ Child(h, x, Len(Items(h, x))) \in S
    BY <1>2, <1>13
  <2>3. h[x].right # None => /\ Child(h, h[x].right, 1) \in S
                             /\ Child(g, h[x].right, 1) = Child(h, h[x].right, 1)
    BY <2>1, <1>2, <1>13, <1>20
  <2>. QED
    BY SMTT(20), <2>1, <2>2, <2>3, <1>9, <1>10, <1>11, <1>20
<1>22. ASSUME NEW x \in P, NEW i \in 1 .. Len(Items(g, x))
       PROVE  \/ x = n /\ Child(g, x, i) = s
              \/ \E j \in 1 .. Len(Items(h, x)) : Child(g, x, i) = Child(h, x, j)
  <2>1. CASE x # n
    BY <2>1, <1>14
  <2>2. CASE x = n
    <3>1. i \in 1 .. m + 1
      BY <2>2
    <3>. QED
      BY <3>1, <2>2, <1>12, <1>4 DEF Child
  <2>. QED
    BY <2>1, <2>2
<1>23. \A x, y \in P : \A i \in 1 .. Len(Items(g, x)), j \in 1 .. Len(Items(g, y)) :
         Child(g, x, i) = Child(g, y, j) => x = y
  <2>. SUFFICES ASSUME NEW x \in P, NEW y \in P, NEW i \in 1 .. Len(Items(g, x)),
                       NEW j \in 1 .. Len(Items(g, y)), Child(g, x, i) = Child(g, y, j), x # y
                PROVE  FALSE
    OBVIOUS
  <2>1. CASE Child(g, x, i) = s
    <3>1. \A z \in P : \A k \in 1 .. Len(Items(h, z)) : Child(h, z, k) # s
      BY <1>2, <1>5
    <3>2. x = n
      BY <2>1, <3>1, <1>22
    <3>3. y = n
      <4>1. Child(g, y, j) = s
        BY <2>1
      <4>2. y = n \/ \E k \in 1 .. Len(Items(h, y)) : Child(g, y, j) = Child(h, y, k)
        BY <1>22
      <4>. QED
        BY <4>1, <4>2, <3>1
    <3>. QED
      BY <3>2, <3>3
  <2>2. CASE Child(g, x, i) # s
    BY <2>2, <1>22, LevelParents
  <2>. QED
    BY <2>1, <2>2
<1>24. P \subseteq DOMAIN g /\ P \cap T = {}
  BY <1>1
<1>27. Parented(g, P, T)
  <2>. SUFFICES ASSUME NEW y \in T
                PROVE  \E x \in P : \E i \in 1 .. Len(Items(g, x)) : Child(g, x, i) = y
    BY DEF Parented
  <2>1. CASE y = s
    <3>1. p + 1 \in 1 .. m + 1
      BY <1>4
    <3>. QED
      BY <3>1, <2>1
  <2>2. CASE y \in S
    <3>0. Parented(h, P, S)
      BY DEF Levels
    <3>1. PICK x \in P : \E i \in 1 .. Len(Items(h, x)) : Child(h, x, i) = y
      BY <3>0, <2>2 DEF Parented
    <3>2. PICK i \in 1 .. Len(Items(h, x)) : Child(h, x, i) = y
      BY <3>1
    <3>3. CASE x # n
      BY <3>2, <3>3, <1>14
    <3>4. CASE x = n /\ i < p
      <4>1. i \in 1 .. p - 1 /\ i \in 1 .. m + 1
        BY <3>4, <1>4
      <4>2. Child(g, n, i) = y
        BY <4>1, <3>2, <3>4 DEF Child
      <4>. QED
        BY <4>1, <4>2
    <3>5. CASE x = n /\ i = p
      <4>1. p \in 1 .. m + 1 /\ y = l
        BY <3>5, <3>2, <1>4
      <4>. QED
        BY <4>1
    <3>6. CASE x = n /\ i > p
      <4>1. i \in p + 1 .. m /\ i + 1 \in 1 .. m + 1
        BY <3>6, <3>2, <1>4
      <4>2. Child(g, n, i + 1) = y
        BY <4>1, <3>2, <3>6 DEF Child
      <4>. QED
        BY <4>1, <4>2
    <3>. QED
      BY <3>3, <3>4, <3>5, <3>6, <1>4
  <2>. QED
    BY <2>1, <2>2
<1>. HIDE DEF T
<1>25. \A x \in P : /\ g[x].left = h[x].left /\ g[x].right = h[x].right /\ g[x].leaf = h[x].leaf
                    /\ Items(g, x) # <<>>
  BY <1>18
<1>26. Levels(g, P, T, D)
  BY <1>7, <1>8, <1>17, <1>19, <1>21, <1>23, <1>24, <1>25, <1>27, LevelsKept
<1>. QED
  BY <1>7, <1>26 DEF T

\* Node n names node c, with its key, instead of its children p and p + 1.
NamesJoined(h, g, P, n, p, l, r, c) ==
  /\ DOMAIN h \subseteq DOMAIN g /\ n \in P /\ p \in 1 .. Len(Items(h, n)) - 1
  /\ l = Child(h, n, p) /\ r = Child(h, n, p + 1)
  /\ \A x \in P : h[x].left = g[x].left /\ h[x].right = g[x].right /\ h[x].leaf = g[x].leaf
  /\ \A x \in P \ {n} : Items(g, x) = Items(h, x)
  /\ Len(Items(g, n)) = Len(Items(h, n)) - 1
  /\ \A i \in 1 .. p - 1 : Items(g, n)[i] = Items(h, n)[i]
  /\ Child(g, n, p) = c /\ Items(g, n)[p].key = MaxKey(g, c)
  /\ \A i \in p + 1 .. Len(Items(h, n)) - 1 : Items(g, n)[i] = Items(h, n)[i + 1]

\* Two neighbouring children of a node become one of them, the only one it names.
LEMMA MergeKeepsLevels ==
  ASSUME NEW E, NEW h \in Seq(BTreeNode(E)), NEW P, NEW S, NEW D, Levels(h, P, S, D),
         NEW g \in Seq(BTreeNode(E)), NEW n, NEW p, NEW l, NEW r,
         NEW c, NEW T, Joined(h, g, S, T, D, l, r, c), NamesJoined(h, g, P, n, p, l, r, c)
  PROVE  Levels(g, P, T, D) /\ Held(g, T) = Held(h, S)
<1>. SUFFICES ASSUME DOMAIN h \subseteq DOMAIN g,
                     n \in P, p \in 1 .. Len(Items(h, n)) - 1,
                     l = Child(h, n, p), r = Child(h, n, p + 1),
                     \A x \in P : h[x].left = g[x].left /\ h[x].right = g[x].right /\ h[x].leaf = g[x].leaf,
                     \A x \in P \ {n} : Items(g, x) = Items(h, x),
                     Len(Items(g, n)) = Len(Items(h, n)) - 1,
                     \A i \in 1 .. p - 1 : Items(g, n)[i] = Items(h, n)[i],
                     Child(g, n, p) = c, Items(g, n)[p].key = MaxKey(g, c),
                     \A i \in p + 1 .. Len(Items(h, n)) - 1 : Items(g, n)[i] = Items(h, n)[i + 1]
              PROVE  Levels(g, P, T, D) /\ Held(g, T) = Held(h, S)
  BY DEF NamesJoined
<1>. DEFINE m == Len(Items(h, n))
            N(y) == IF y \in {l, r} THEN c ELSE y
<1>20. /\ c \in {l, r} /\ \A x : x \in T <=> x \in S \ {l, r} \/ x = c
       /\ Items(g, c) = Items(h, l) \o Items(h, r)
       /\ g[c].left = h[l].left /\ g[c].right = h[r].right
       /\ \A x \in T : g[x].leaf = h[x].leaf
       /\ \A x \in S \ {l, r} : /\ Items(g, x) = Items(h, x)
                                /\ g[x].left = (IF h[x].left = r THEN c ELSE h[x].left)
                                /\ g[x].right = (IF h[x].right = l THEN c ELSE h[x].right)
       /\ \A d \in D : g[d] = h[d]
  BY DEF Joined
<1>1. /\ Row(h, P, S) /\ Row(h, S, D) /\ Distinct(h, S) /\ P \subseteq DOMAIN h /\ P \cap S = {}
      /\ S \subseteq DOMAIN h
  BY DEF Levels, Row
<1>2. \A x \in P : \A i \in 1 .. Len(Items(h, x)) :
        /\ Child(h, x, i) \in S /\ Items(h, x)[i].key = MaxKey(h, Child(h, x, i))
        /\ \A j \in 1 .. Len(Items(h, x)) : i # j => Child(h, x, i) # Child(h, x, j)
  BY LevelChildren
<1>3. \A x \in P : \A i \in 2 .. Len(Items(h, x)) : Adjacent(h, Child(h, x, i - 1), Child(h, x, i))
  BY LevelChildren
<1>4. m \in Nat /\ p \in 1 .. m /\ p + 1 \in 2 .. m /\ p + 1 \in 1 .. m /\ (p + 1) - 1 = p
  BY LevelChildren
<1>5. l \in S /\ r \in S /\ Adjacent(h, l, r)
  BY <1>2, <1>3, <1>4
<1>6. /\ l # r /\ h[l].left # r /\ h[r].right # l /\ h[l].left # l /\ h[r].right # r
      /\ Last(Items(h, l)).key < Head(Items(h, r)).key
      /\ l # None /\ r # None /\ None \notin S
  BY <1>1, <1>5, NoCycle, RowEnds
<1>7. BecomesRow(h, S, g, T, D)
  BY <1>1, <1>5, MergeKeepsRow
<1>8. Row(g, T, D) /\ Held(g, T) = Held(h, S)
  BY <1>7 DEF BecomesRow
<1>9. Distinct(g, T)
  <2>. DEFINE B == {c}
              a == Items(h, l)
              b == Items(h, r)
  <2>1. a \in Seq(Entry(E)) /\ b \in Seq(Entry(E))
    BY <1>1, <1>5, HeapNode
  <2>2. Distinct(g, B)
    BY DistinctOne
  <2>3. ToSet(Items(g, c)) = ToSet(a) \cup ToSet(b)
    <3>1. a \o b = Items(g, c)
      BY <1>20
    <3>. HIDE DEF a, b
    <3>2. ToSet(a \o b) = ToSet(a) \cup ToSet(b)
      BY <2>1, ToSetJoined
    <3>. QED
      BY <3>1, <3>2
  <2>4. \A x \in B : \A e \in ToSet(Items(g, x)) :
          \E y \in S : e \in ToSet(Items(h, y)) /\ (y \in T => y \in B)
    BY <2>3, <1>5, <1>20
  <2>5. \A x \in T : x \in B \/ (x \in S /\ Items(g, x) = Items(h, x))
    BY <1>20
  <2>. HIDE DEF B
  <2>. QED
    BY <1>1, <2>2, <2>4, <2>5, DistinctKept, SMTT(60)
\* The links of the children's list, in which c stands for both.
<1>10. ASSUME NEW a \in S, NEW b \in S, a # l, Adjacent(h, a, b)
       PROVE  Adjacent(g, N(a), N(b))
  <2>0. h[l].right = r /\ h[r].left = l /\ h[a].right = b /\ h[b].left = a
    BY <1>5, <1>10 DEF Adjacent
  <2>1. CASE a = r
    <3>1. b \notin {l, r}
      BY <2>0, <2>1, <1>6
    <3>2. g[c].right = b /\ g[b].left = c
      BY <2>0, <2>1, <3>1, <1>6, <1>10, <1>20
    <3>. QED
      BY <2>1, <3>1, <3>2 DEF Adjacent
  <2>2. CASE a # r /\ b = l
    <3>1. g[a].right = c /\ g[c].left = a
      BY <2>0, <2>2, <1>10, <1>20, <1>6
    <3>. QED
      BY <2>2, <3>1, <1>10 DEF Adjacent
  <2>3. CASE a # r /\ b # l
    <3>1. b # r
      BY <2>0, <1>10
    <3>2. g[a].right = b /\ g[b].left = a
      BY <2>0, <2>3, <3>1, <1>10, <1>20
    <3>. QED
      BY <2>3, <3>1, <3>2, <1>10 DEF Adjacent
  <2>. QED
    BY <2>1, <2>2, <2>3
<1>11. /\ \A x \in S : x # r /\ h[x].left = None => g[N(x)].left = None
       /\ \A x \in S : x # l /\ h[x].right = None => g[N(x)].right = None
  <2>1. ASSUME NEW x \in S, x # r, h[x].left = None PROVE g[N(x)].left = None
    <3>1. CASE x = l
      BY <2>1, <3>1, <1>20
    <3>2. CASE x # l
      BY <2>1, <3>2, <1>6, <1>20
    <3>. QED
      BY <3>1, <3>2
  <2>2. ASSUME NEW x \in S, x # l, h[x].right = None PROVE g[N(x)].right = None
    <3>1. CASE x = r
      BY <2>2, <3>1, <1>20
    <3>2. CASE x # r
      BY <2>2, <3>2, <1>6, <1>20
    <3>. QED
      BY <3>1, <3>2
  <2>. QED
    BY <2>1, <2>2
<1>12. \A x \in S : N(x) \in T
  BY <1>5, <1>20
\* The items of n.
<1>13. /\ \A i \in 1 .. p : Child(g, n, i) = N(Child(h, n, i))
       /\ \A i \in p .. m - 1 : Child(g, n, i) = N(Child(h, n, i + 1))
  <2>1. ASSUME NEW i \in 1 .. p PROVE Child(g, n, i) = N(Child(h, n, i))
    <3>1. CASE i = p
      BY <3>1
    <3>2. CASE i # p
      <4>1. i \in 1 .. p - 1 /\ i \in 1 .. m /\ i # p + 1
        BY <3>2, <1>4
      <4>2. Child(h, n, i) # l /\ Child(h, n, i) # r
        BY <3>2, <4>1, <1>2, <1>4
      <4>. QED
        BY <4>1, <4>2 DEF Child
    <3>. QED
      BY <3>1, <3>2
  <2>2. ASSUME NEW i \in p .. m - 1 PROVE Child(g, n, i) = N(Child(h, n, i + 1))
    <3>1. CASE i = p
      BY <3>1
    <3>2. CASE i # p
      <4>1. i \in p + 1 .. m - 1 /\ i + 1 \in 1 .. m /\ i + 1 # p + 1 /\ i + 1 # p
        BY <3>2, <1>4
      <4>2. Child(h, n, i + 1) # l /\ Child(h, n, i + 1) # r
        BY <4>1, <1>2, <1>4
      <4>. QED
        BY <4>1, <4>2 DEF Child
    <3>. QED
      BY <3>1, <3>2
  <2>. QED
    BY <2>1, <2>2
<1>14. \A x \in P : /\ Len(Items(h, x)) \in Nat /\ Len(Items(h, x)) >= 1
                    /\ 1 \in 1 .. Len(Items(h, x)) /\ Len(Items(h, x)) \in 1 .. Len(Items(h, x))
                    /\ \A i \in 2 .. Len(Items(h, x)) : i \in 1 .. Len(Items(h, x))
                                                        /\ i - 1 \in 1 .. Len(Items(h, x))
  <2>1. \A x \in P : Len(Items(h, x)) \in Nat /\ Len(Items(h, x)) >= 1
    BY LevelChildren
  <2>. QED
    BY <2>1
<1>15. \A x \in P \ {n} : \A i \in 1 .. Len(Items(h, x)) :
         /\ Child(h, x, i) # l /\ Child(h, x, i) # r
         /\ Child(g, x, i) = Child(h, x, i) /\ Child(g, x, i) = N(Child(h, x, i))
  <2>. SUFFICES ASSUME NEW x \in P \ {n}, NEW i \in 1 .. Len(Items(h, x))
                PROVE  /\ Child(h, x, i) # l /\ Child(h, x, i) # r
                       /\ Child(g, x, i) = Child(h, x, i)
    OBVIOUS
  <2>1. Child(h, x, i) # l /\ Child(h, x, i) # r
    BY <1>4, LevelParents
  <2>. QED
    BY <2>1 DEF Child
<1>16. \A x \in S \ {l, r} : MaxKey(g, x) = MaxKey(h, x)
  BY <1>20 DEF MaxKey, Items
<1>17. ASSUME NEW x \in P, NEW i \in 1 .. Len(Items(g, x))
       PROVE  Child(g, x, i) \in T /\ Items(g, x)[i].key = MaxKey(g, Child(g, x, i))
  <2>1. CASE x # n
    <3>1. i \in 1 .. Len(Items(h, x)) /\ Items(g, x)[i] = Items(h, x)[i]
      BY <2>1
    <3>2. Child(g, x, i) = Child(h, x, i) /\ Child(h, x, i) \in S \ {l, r}
      BY <3>1, <2>1, <1>2, <1>15
    <3>. QED
      BY <3>1, <3>2, <1>2, <1>16, <1>20
  <2>2. CASE x = n /\ i = p
    BY <2>2, <1>20
  <2>3. CASE x = n /\ i # p
    <3>0. i \in 1 .. m - 1 /\ (i < p \/ i > p)
      BY <2>3, <1>4
    <3>1. PICK j \in 1 .. m : Items(g, n)[i] = Items(h, n)[j] /\ j # p /\ j # p + 1
      <4>1. CASE i < p
        <5>0. i \in Nat /\ i >= 1 /\ i < p /\ p \in Nat /\ m \in Nat /\ p <= m
          BY <4>1, <3>0, <1>4
        <5>1. i \in 1 .. p - 1 /\ i \in 1 .. m /\ i # p + 1 /\ i # p
          <6>. HIDE DEF m
          <6>. QED
            BY <5>0
        <5>2. Items(g, n)[i] = Items(h, n)[i]
          BY <5>1
        <5>. QED
          BY <5>1, <5>2
      <4>2. CASE i > p
        <5>1. i \in p + 1 .. m - 1 /\ i + 1 \in 1 .. m /\ i + 1 # p /\ i + 1 # p + 1
          BY <4>2, <3>0, <1>4
        <5>. QED
          BY <5>1
      <4>. QED
        BY <4>1, <4>2, <3>0
    <3>2. Child(g, n, i) = Child(h, n, j) /\ Child(h, n, j) \in S \ {l, r}
      BY <3>1, <1>2, <1>4 DEF Child
    <3>. QED
      BY SMTT(20), <3>1, <3>2, <2>3, <1>2, <1>16, <1>20
  <2>. QED
    BY <2>1, <2>2, <2>3
<1>18. \A x \in P : Items(g, x) # <<>>
  <2>1. \A x \in P : Items(h, x) # <<>>
    BY LevelChildren
  <2>2. Items(g, n) # <<>>
    <3>. SUFFICES ASSUME Items(g, n) = <<>> PROVE FALSE
      OBVIOUS
    <3>1. Len(Items(g, n)) = 0 /\ Len(Items(g, n)) = m - 1
      OBVIOUS
    <3>. HIDE DEF m
    <3>2. m - 1 >= p /\ p >= 1 /\ m \in Nat /\ p \in Nat
      BY <1>4
    <3>. QED
      BY <3>1, <3>2
  <2>. QED
    BY <2>1, <2>2
<1>. HIDE DEF N
<1>19. ASSUME NEW x \in P, NEW i \in 2 .. Len(Items(g, x))
       PROVE  Adjacent(g, Child(g, x, i - 1), Child(g, x, i))
  <2>1. CASE x # n
    <3>1. i \in 2 .. Len(Items(h, x)) /\ i \in 1 .. Len(Items(h, x)) /\ i - 1 \in 1 .. Len(Items(h, x))
      BY <2>1, <1>14
    <3>2. /\ Child(g, x, i - 1) = N(Child(h, x, i - 1)) /\ Child(h, x, i - 1) # l
          /\ Child(g, x, i) = N(Child(h, x, i))
      BY <3>1, <2>1, <1>15
    <3>. QED
      BY <3>1, <3>2, <1>2, <1>3, <1>10
  <2>2. CASE x = n
    <3>0. i \in 2 .. m - 1
      BY <2>2
    <3>5. i \in Nat /\ i >= 2 /\ i <= m - 1 /\ m \in Nat /\ p \in Nat /\ p >= 1 /\ p + 1 <= m
      BY <3>0, <1>4
    <3>1. CASE i <= p
      <4>1. i \in 2 .. m /\ i \in 1 .. p /\ i - 1 \in 1 .. p /\ i \in 1 .. m /\ i - 1 \in 1 .. m /\ i - 1 # p
        <5>. HIDE DEF m
        <5>. QED
          BY <3>1, <3>5
      <4>2. Child(g, n, i - 1) = N(Child(h, n, i - 1)) /\ Child(g, n, i) = N(Child(h, n, i))
        BY <4>1, <1>13
      <4>3. Child(h, n, i - 1) # l /\ Child(h, n, i - 1) \in S /\ Child(h, n, i) \in S
        BY <4>1, <1>2, <1>4
      <4>4. Adjacent(h, Child(h, n, i - 1), Child(h, n, i))
        BY <4>1, <1>3
      <4>. QED
        BY <4>2, <4>3, <4>4, <2>2, <1>10
    <3>2. CASE i > p
      <4>1. /\ i + 1 \in 2 .. m /\ i \in p .. m - 1 /\ i - 1 \in p .. m - 1
            /\ i \in 1 .. m /\ i + 1 \in 1 .. m /\ (i + 1) - 1 = i /\ (i - 1) + 1 = i /\ i # p
        <5>. HIDE DEF m
        <5>. QED
          BY <3>2, <3>5
      <4>2. Child(g, n, i - 1) = N(Child(h, n, i)) /\ Child(g, n, i) = N(Child(h, n, i + 1))
        <5>1. Child(g, n, i - 1) = N(Child(h, n, (i - 1) + 1))
          BY <4>1, <1>13
        <5>. QED
          BY <5>1, <4>1, <1>13
      <4>3. Child(h, n, i) # l /\ Child(h, n, i) \in S /\ Child(h, n, i + 1) \in S
        BY <4>1, <1>2, <1>4
      <4>4. Adjacent(h, Child(h, n, i), Child(h, n, i + 1))
        <5>1. Adjacent(h, Child(h, n, (i + 1) - 1), Child(h, n, i + 1))
          BY <4>1, <1>3
        <5>. QED
          BY <5>1, <4>1
      <4>. QED
        BY <4>2, <4>3, <4>4, <2>2, <1>10
    <3>. QED
      BY <3>0, <3>1, <3>2, <1>4
  <2>. QED
    BY <2>1, <2>2
\* The first and the last child are what was made of the first and the last.
<1>27. ASSUME NEW x \in P
       PROVE  /\ Child(g, x, 1) = N(Child(h, x, 1)) /\ Child(h, x, 1) # r
              /\ Child(g, x, Len(Items(g, x))) = N(Child(h, x, Len(Items(h, x))))
              /\ Child(h, x, Len(Items(h, x))) # l
  <2>1. CASE x # n
    BY <2>1, <1>14, <1>15
  <2>2. CASE x = n
    <3>1. /\ 1 \in 1 .. p /\ 1 \in 1 .. m /\ 1 # p + 1 /\ m - 1 \in p .. m - 1 /\ (m - 1) + 1 = m
          /\ m \in 1 .. m /\ m # p
      BY <1>4
    <3>2. Child(g, n, m - 1) = N(Child(h, n, (m - 1) + 1))
      BY <3>1, <1>13
    <3>. QED
      BY <3>1, <3>2, <2>2, <1>2, <1>4, <1>13
  <2>. QED
    BY <2>1, <2>2
<1>21. ASSUME NEW x \in P
       PROVE  /\ h[x].left = None => g[Child(g, x, 1)].left = None
              /\ h[x].right = None => g[Child(g, x, Len(Items(g, x)))].right = None
              /\ h[x].right # None =>
                   Adjacent(g, Child(g, x, Len(Items(g, x))), Child(g, h[x].right, 1))
  <2>1. /\ h[x].left = None => h[Child(h, x, 1)].left = None
        /\ h[x].right = None => h[Child(h, x, Len(Items(h, x)))].right = None
        /\ h[x].right # None =>
             /\ h[x].right \in P
             /\ Adjacent(h, Child(h, x, Len(Items(h, x))), Child(h, h[x].right, 1))
    BY LevelCousins
  <2>2. Child(h, x, 1) \in S /\ Child(h, x, Len(Items(h, x))) \in S
    BY <1>2, <1>14
  <2>3. h[x].right # None => /\ Child(h, h[x].right, 1) \in S
                             /\ Child(g, h[x].right, 1) = N(Child(h, h[x].right, 1))
    BY <2>1, <1>2, <1>14, <1>27
  <2>4. h[x].left = None => g[Child(g, x, 1)].left = None
    BY <2>1, <2>2, <1>11, <1>27
  <2>5. h[x].right = None => g[Child(g, x, Len(Items(g, x)))].right = None
    BY <2>1, <2>2, <1>11, <1>27
  <2>6. ASSUME h[x].right # None
        PROVE  Adjacent(g, Child(g, x, Len(Items(g, x))), Child(g, h[x].right, 1))
    <3>. DEFINE a == Child(h, x, Len(Items(h, x)))
                b == Child(h, h[x].right, 1)
    <3>1. a \in S /\ b \in S /\ a # l /\ Adjacent(h, a, b)
      BY <2>1, <2>2, <2>3, <2>6, <1>27
    <3>2. Child(g, x, Len(Items(g, x))) = N(a) /\ Child(g, h[x].right, 1) = N(b)
      BY <2>3, <2>6, <1>27
    <3>. HIDE DEF a, b
    <3>3. Adjacent(g, N(a), N(b))
      BY <3>1, <1>10
    <3>. QED
      BY <3>2, <3>3
  <2>. QED
    BY <2>4, <2>5, <2>6
<1>22. ASSUME NEW x \in P, NEW i \in 1 .. Len(Items(g, x))
       PROVE  \E j \in 1 .. Len(Items(h, x)) : Child(g, x, i) = Child(h, x, j)
  <2>1. CASE x # n
    BY <2>1, <1>15
  <2>2. CASE x = n /\ i = p
    <3>1. c = l \/ c = r
      BY <1>20
    <3>. QED
      BY <3>1, <2>2, <1>4
  <2>3. CASE x = n /\ i # p
    <3>0. i \in 1 .. m - 1 /\ (i < p \/ i > p)
      BY <2>3, <1>4
    <3>1. CASE i < p
      <4>1. i \in 1 .. p - 1 /\ i \in 1 .. m
        BY <3>1, <3>0, <1>4
      <4>. QED
        BY <4>1, <2>3 DEF Child
    <3>2. CASE i > p
      <4>1. i \in p + 1 .. m - 1 /\ i + 1 \in 1 .. m
        BY <3>2, <3>0, <1>4
      <4>. QED
        BY <4>1, <2>3 DEF Child
    <3>. QED
      BY <3>0, <3>1, <3>2
  <2>. QED
    BY <2>1, <2>2, <2>3
<1>23. \A x, y \in P : \A i \in 1 .. Len(Items(g, x)), j \in 1 .. Len(Items(g, y)) :
         Child(g, x, i) = Child(g, y, j) => x = y
  <2>. SUFFICES ASSUME NEW x \in P, NEW y \in P, NEW i \in 1 .. Len(Items(g, x)),
                       NEW j \in 1 .. Len(Items(g, y)), Child(g, x, i) = Child(g, y, j)
                PROVE  x = y
    OBVIOUS
  <2>1. PICK a \in 1 .. Len(Items(h, x)) : Child(g, x, i) = Child(h, x, a)
    BY <1>22
  <2>2. PICK b \in 1 .. Len(Items(h, y)) : Child(g, y, j) = Child(h, y, b)
    BY <1>22
  <2>3. Child(h, x, a) = Child(h, y, b)
    BY <2>1, <2>2
  <2>. QED
    BY <2>3, LevelParents
<1>24. P \subseteq DOMAIN g /\ P \cap T = {}
  <2>1. \A x \in T : x \in S
    <3>1. c \in S
      BY <1>5, <1>20
    <3>. QED
      BY <3>1, <1>20
  <2>. QED
    BY <2>1, <1>1
<1>25. \A x \in P : /\ g[x].left = h[x].left /\ g[x].right = h[x].right /\ g[x].leaf = h[x].leaf
                    /\ Items(g, x) # <<>>
  BY <1>18
<1>28. Parented(g, P, T)
  <2>. SUFFICES ASSUME NEW y \in T
                PROVE  \E x \in P : \E i \in 1 .. Len(Items(g, x)) : Child(g, x, i) = y
    BY DEF Parented
  <2>1. CASE y = c
    <3>1. p \in 1 .. m - 1
      BY <1>4
    <3>. QED
      BY <3>1, <2>1
  <2>2. CASE y \in S \ {l, r}
    <3>0. Parented(h, P, S)
      BY DEF Levels
    <3>1. PICK x \in P : \E i \in 1 .. Len(Items(h, x)) : Child(h, x, i) = y
      BY <3>0, <2>2 DEF Parented
    <3>2. PICK i \in 1 .. Len(Items(h, x)) : Child(h, x, i) = y
      BY <3>1
    <3>3. CASE x # n
      BY <3>2, <3>3, <1>15
    <3>4. CASE x = n /\ i <= p
      <4>1. i \in 1 .. p /\ i \in 1 .. m - 1
        BY <3>4, <3>2, <1>4
      <4>2. Child(g, n, i) = y
        <5>1. Child(g, n, i) = N(Child(h, n, i)) /\ Child(h, n, i) = y
          BY <4>1, <3>2, <3>4, <1>13
        <5>2. N(y) = y
          BY <2>2 DEF N
        <5>. QED
          BY <5>1, <5>2
      <4>. QED
        BY <4>1, <4>2
    <3>5. CASE x = n /\ i > p
      <4>1. i - 1 \in p .. m - 1 /\ i - 1 \in 1 .. m - 1 /\ (i - 1) + 1 = i
        BY <3>5, <3>2, <1>4
      <4>2. Child(g, n, i - 1) = y
        <5>1. Child(g, n, i - 1) = N(Child(h, n, (i - 1) + 1))
          BY <4>1, <1>13
        <5>2. Child(h, n, (i - 1) + 1) = y
          BY <4>1, <3>2, <3>5
        <5>3. N(y) = y
          BY <2>2 DEF N
        <5>. QED
          BY <5>1, <5>2, <5>3
      <4>. QED
        BY <4>1, <4>2
    <3>. QED
      BY <3>3, <3>4, <3>5, <1>4
  <2>. QED
    BY <2>1, <2>2, <1>20
<1>26. Levels(g, P, T, D)
  BY <1>8, <1>9, <1>17, <1>19, <1>21, <1>23, <1>24, <1>25, <1>28, LevelsKept
<1>. QED
  BY <1>8, <1>26

-----------------------------------------------------------------------------
(* What the code's steps write. *)

\* Node c has other items.
WithItems(h, c, w) == [h EXCEPT ![c].items = w]
\* Node c has another left neighbour.
WithLeft(h, c, l) == [h EXCEPT ![c].left = l]
\* Node c has another right neighbour.
WithRight(h, c, r) == [h EXCEPT ![c].right = r]
\* Item i has another key.
WithKey(w, i, k) == [w EXCEPT ![i].key = k]
\* Item i of node n has another key.
WithNodeKey(h, n, i, k) == WithItems(h, n, WithKey(Items(h, n), i, k))

\* The items of one node are replaced.
LEMMA ItemsWritten ==
  ASSUME NEW E, NEW h \in Seq(BTreeNode(E)), NEW c \in DOMAIN h, NEW w \in Seq(Entry(E)),
         NEW g, g = WithItems(h, c, w)
  PROVE  /\ g \in Seq(BTreeNode(E)) /\ Len(g) = Len(h) /\ DOMAIN g = DOMAIN h
         /\ Items(g, c) = w
         /\ g[c].left = h[c].left /\ g[c].right = h[c].right /\ g[c].leaf = h[c].leaf
         /\ \A x \in DOMAIN h : x # c => g[x] = h[x]
<1>1. h[c] \in BTreeNode(E)
  BY HeapNode
<1>. DEFINE v == [h[c] EXCEPT !.items = w]
<1>2. v \in BTreeNode(E)
  BY <1>1 DEF BTreeNode
<1>3. /\ v.items = w /\ v.left = h[c].left /\ v.right = h[c].right /\ v.leaf = h[c].leaf
  BY <1>1 DEF BTreeNode
<1>4. g = [h EXCEPT ![c] = v]
  BY DEF WithItems
<1>. HIDE DEF v
<1>5. /\ g \in Seq(BTreeNode(E)) /\ Len(g) = Len(h) /\ DOMAIN g = DOMAIN h
      /\ g[c] = v /\ \A x \in DOMAIN h : x # c => g[x] = h[x]
  BY <1>2, <1>4
<1>. QED
  BY <1>3, <1>5 DEF Items

\* The links of one node are replaced.
LEMMA LinksWritten ==
  ASSUME NEW E, NEW h \in Seq(BTreeNode(E)), NEW c \in DOMAIN h, NEW l \in Nat, NEW r \in Nat,
         NEW g, \/ g = WithLeft(h, c, l) /\ r = h[c].right
                \/ g = WithRight(h, c, r) /\ l = h[c].left
  PROVE  /\ g \in Seq(BTreeNode(E)) /\ Len(g) = Len(h) /\ DOMAIN g = DOMAIN h
         /\ g[c].left = l /\ g[c].right = r
         /\ Items(g, c) = Items(h, c) /\ g[c].leaf = h[c].leaf
         /\ \A x \in DOMAIN h : x # c => g[x] = h[x]
<1>1. h[c] \in BTreeNode(E)
  BY HeapNode
<1>. DEFINE v == [h[c] EXCEPT !.left = l, !.right = r]
<1>2. v \in BTreeNode(E)
  BY <1>1 DEF BTreeNode
<1>3. /\ v.items = h[c].items /\ v.left = l /\ v.right = r /\ v.leaf = h[c].leaf
  BY <1>1 DEF BTreeNode
<1>4. g = [h EXCEPT ![c] = v]
  <2>1. [h[c] EXCEPT !.left = l] = v \/ r # h[c].right
    BY <1>1 DEF BTreeNode
  <2>2. [h[c] EXCEPT !.right = r] = v \/ l # h[c].left
    BY <1>1 DEF BTreeNode
  <2>. HIDE DEF v
  <2>. QED
    BY <2>1, <2>2 DEF WithLeft, WithRight
<1>. HIDE DEF v
<1>5. /\ g \in Seq(BTreeNode(E)) /\ Len(g) = Len(h) /\ DOMAIN g = DOMAIN h
      /\ g[c] = v /\ \A x \in DOMAIN h : x # c => g[x] = h[x]
  BY <1>2, <1>4
<1>. QED
  BY <1>3, <1>5 DEF Items

\* The key of one item is replaced.
LEMMA KeyWritten ==
  ASSUME NEW E, NEW w \in Seq(Entry(E)), NEW i \in 1 .. Len(w), NEW k \in Nat,
         NEW v, v = WithKey(w, i, k)
  PROVE  /\ v \in Seq(Entry(E)) /\ Len(v) = Len(w)
         /\ v[i].key = k /\ v[i].data = w[i].data
         /\ \A j \in 1 .. Len(w) : v[j].data = w[j].data /\ (j # i => v[j] = w[j])
<1>1. w[i] \in Entry(E)
  OBVIOUS
<1>. DEFINE e == [w[i] EXCEPT !.key = k]
<1>2. e \in Entry(E) /\ e.key = k /\ e.data = w[i].data
  BY <1>1 DEF Entry
<1>3. v = [w EXCEPT ![i] = e]
  BY DEF WithKey
<1>. HIDE DEF e
<1>4. /\ v \in Seq(Entry(E)) /\ Len(v) = Len(w) /\ v[i] = e
      /\ \A j \in 1 .. Len(w) : j # i => v[j] = w[j]
  BY <1>2, <1>3
<1>. QED
  BY <1>2, <1>4

\* Heaps h and g differ in one key at most, which is k in g.
DifferInKey(h, g, n, i, k) ==
  /\ Len(g) = Len(h) /\ DOMAIN g = DOMAIN h
  /\ g[n].left = h[n].left /\ g[n].right = h[n].right /\ g[n].leaf = h[n].leaf
  /\ \A x \in DOMAIN h : x # n => g[x] = h[x]
  /\ Len(Items(g, n)) = Len(Items(h, n))
  /\ Items(g, n)[i].key = k
  /\ \A j \in 1 .. Len(Items(h, n)) :
       Child(g, n, j) = Child(h, n, j) /\ (j # i => Items(g, n)[j] = Items(h, n)[j])

\* A key in the items of a node is replaced.
LEMMA NodeKeyWritten ==
  ASSUME NEW E, NEW h \in Seq(BTreeNode(E)), NEW n \in DOMAIN h,
         NEW i \in 1 .. Len(Items(h, n)), NEW k \in Nat,
         NEW g, g = WithNodeKey(h, n, i, k)
  PROVE  g \in Seq(BTreeNode(E)) /\ DifferInKey(h, g, n, i, k)
<1>. DEFINE w == Items(h, n)
            v == WithKey(w, i, k)
<1>1. w \in Seq(Entry(E))
  BY HeapNode
<1>2. g = WithItems(h, n, v)
  BY DEF WithNodeKey
<1>5. v = WithKey(w, i, k) /\ i \in 1 .. Len(w)
  OBVIOUS
<1>. HIDE DEF v, w
<1>3. /\ v \in Seq(Entry(E)) /\ Len(v) = Len(w) /\ v[i].key = k
      /\ \A j \in 1 .. Len(w) : v[j].data = w[j].data /\ (j # i => v[j] = w[j])
  BY <1>1, <1>5, KeyWritten
<1>6. v \in Seq(Entry(E))
  BY <1>3
<1>4. /\ g \in Seq(BTreeNode(E)) /\ Len(g) = Len(h) /\ DOMAIN g = DOMAIN h
      /\ Items(g, n) = v
      /\ g[n].left = h[n].left /\ g[n].right = h[n].right /\ g[n].leaf = h[n].leaf
      /\ \A x \in DOMAIN h : x # n => g[x] = h[x]
  BY <1>2, <1>6, ItemsWritten
<1>. QED
  BY <1>3, <1>4 DEF w, Child, DifferInKey

-----------------------------------------------------------------------------
\* The search for a key descends into the one child of a node that can hold it.
THEOREM SearchDescendsRight ==
  ASSUME NEW E, NEW h \in Seq(BTreeNode(E)), NEW P, NEW S, NEW D, Levels(h, P, S, D), NEW n \in P,
         NEW i \in 1 .. Len(Items(h, n)), NEW e \in ToSet(Items(h, Child(h, n, i)))
  PROVE  LowerBound(Items(h, n), e.key) = i
<1>. DEFINE w == Items(h, n)
            y == Child(h, n, i)
            F == Head(Items(h, y)).key
            L == Last(Items(h, y)).key
            k == e.key
            b == LowerBound(w, k)
            K(j) == w[j].key
<1>1. /\ w \in Seq(Entry(E)) /\ Len(w) \in Nat /\ InOrder(w) /\ y \in S
      /\ \A j \in 1 .. Len(w) : K(j) \in Nat
      /\ K(i) = L
      /\ i \in 2 .. Len(w) => K(i - 1) < F
  BY LevelChildren DEF MaxKey, Items
<1>2. Row(h, S, D)
  BY DEF Levels
<1>3. /\ Items(h, y) \in Seq(Entry(E)) /\ Items(h, y) # <<>> /\ InOrder(Items(h, y))
  <2>1. KeysInOrder(h, y)
    BY <1>1, <1>2 DEF Row, RowNode
  <2>2. InOrder(Items(h, y))
    BY <2>1 DEF KeysInOrder
  <2>. HIDE DEF y
  <2>. QED
    BY <2>2, <1>1, <1>2, RowEnds
<1>4. k \in Nat /\ F \in Nat /\ L \in Nat /\ F <= k /\ k <= L
  <2>1. PICK j \in 1 .. Len(Items(h, y)) : e = Items(h, y)[j]
    BY <1>3 DEF ToSet
  <2>. QED
    BY <2>1, <1>3, OrderedEnds
<1>5. /\ b \in 1 .. Len(w) + 1
      /\ \A j \in 1 .. Len(w) : j < b <=> K(j) < k
  <2>. HIDE DEF w, y, F, L, k
  <2>. QED
    BY <1>1, <1>4, LowerBoundProperties
<1>. HIDE DEF w, y, F, L, k, b, K
<1>6. i \in 1 .. Len(w)
  BY DEF w
<1>7. ~(i < b)
  BY <1>1, <1>4, <1>5, <1>6
<1>8. i = 1 \/ (i - 1 \in 1 .. Len(w) /\ i - 1 < b)
  BY <1>1, <1>4, <1>5, <1>6
<1>9. b = i
  BY <1>1, <1>5, <1>6, <1>7, <1>8
<1>. QED
  BY <1>9 DEF b, w, k

-----------------------------------------------------------------------------
(* Splitting. *)

\* No node has become a leaf or ceased to be one, and node n has the neighbours it had.
KindsSame(h, g, n) ==
  /\ \A x \in DOMAIN h : g[x].leaf = h[x].leaf
  /\ g[n].left = h[n].left /\ g[n].right = h[n].right

\* A sequence cut in two.
LEMMA TwoParts ==
  ASSUME NEW S, NEW w \in Seq(S), NEW m \in 0 .. Len(w)
  PROVE  /\ SubSeq(w, 1, m) \in Seq(S) /\ Len(SubSeq(w, 1, m)) = m
         /\ SubSeq(w, m + 1, Len(w)) \in Seq(S) /\ Len(SubSeq(w, m + 1, Len(w))) = Len(w) - m
         /\ SubSeq(w, 1, m) \o SubSeq(w, m + 1, Len(w)) = w
<1>. DEFINE n == Len(w) - m
            a == SubSeq(w, 1, m)
            b == SubSeq(w, m + 1, Len(w))
            u == a \o b
<1>1. m \in Nat /\ n \in Nat /\ Len(w) = m + n /\ Len(w) \in Nat
  OBVIOUS
<1>2. a \in Seq(S) /\ Len(a) = m /\ \A j \in 1 .. m : a[j] = w[j]
  BY PartProperties
<1>3. b \in Seq(S) /\ Len(b) = n /\ \A j \in 1 .. n : b[j] = w[(m + 1) + j - 1]
  BY PartProperties
<1>. HIDE DEF a, b, n
<1>4. a \in Seq(S) /\ b \in Seq(S) /\ Len(a) = m /\ Len(b) = n
  BY <1>2, <1>3
<1>5. /\ u \in Seq(S) /\ Len(u) = m + n
      /\ \A j \in 1 .. m : u[j] = a[j]
      /\ \A j \in 1 .. n : u[m + j] = b[j]
  <2>1. a \in Seq(S) /\ b \in Seq(S)
    BY <1>4
  <2>2. /\ u \in Seq(S) /\ Len(u) = Len(a) + Len(b)
        /\ \A j \in 1 .. Len(a) : u[j] = a[j]
        /\ \A j \in 1 .. Len(b) : u[Len(a) + j] = b[j]
    BY <2>1
  <2>. HIDE DEF u
  <2>. QED
    BY <2>2, <1>4
<1>. HIDE DEF u
<1>6. ASSUME NEW j \in 1 .. Len(w) PROVE u[j] = w[j]
  <2>1. CASE j <= m
    BY <2>1, <1>1, <1>2, <1>5
  <2>2. CASE j > m
    <3>1. j - m \in 1 .. n /\ m + (j - m) = j /\ (m + 1) + (j - m) - 1 = j
      BY <2>2, <1>1
    <3>2. u[m + (j - m)] = b[j - m] /\ b[j - m] = w[(m + 1) + (j - m) - 1]
      BY <3>1, <1>3, <1>5
    <3>. QED
      BY <3>1, <3>2
  <2>. QED
    BY <2>1, <2>2, <1>1
<1>7. u = w
  BY <1>1, <1>5, <1>6
<1>. QED
  BY <1>1, <1>2, <1>3, <1>7 DEF u, a, b, n

\* A node with one item more than it may have.
TooFull(h, c) == Size(h, c) = MaxLoad + 1

\* Node c of heap h has passed its upper items on to a new node s, between it and its right
\* neighbour r.
Halved(h, g, c, r, s) ==
  /\ Items(g, c) \o Items(g, s) = Items(h, c)
  /\ Len(Items(g, c)) = MinLoad /\ Len(Items(g, s)) = MinLoad + 1
  /\ g[c].left = h[c].left /\ g[c].right = s /\ g[s].left = c /\ g[s].right = r
  /\ g[c].leaf = h[c].leaf /\ g[s].leaf = h[c].leaf
  /\ \A x \in DOMAIN h : x # c =>
       /\ Items(g, x) = Items(h, x) /\ g[x].leaf = h[x].leaf /\ g[x].right = h[x].right
       /\ g[x].left = (IF x = r THEN s ELSE h[x].left)
       /\ x # r => g[x] = h[x]

\* makeSibling halves a node.
LEMMA SiblingMade ==
  ASSUME NEW E, NEW h \in Seq(BTreeNode(E)), NEW c \in DOMAIN h, TooFull(h, c),
         NEW r, r = h[c].right, r = None \/ (r \in DOMAIN h /\ r # c),
         NEW s, s = Len(h) + 1, NEW g, g = makeSibling(h, c)
  PROVE  g \in Seq(BTreeNode(E)) /\ Len(g) = s /\ Halved(h, g, c, r, s)
<1>. DEFINE w == Items(h, c)
            m == MinLoad
            a == SubSeq(w, 1, m)
            b == SubSeq(w, m + 1, Len(w))
            v == [h[c] EXCEPT !.items = b, !.left = c, !.off = NULL_OFFSET]
            h1 == WithItems(h, c, a)
            h2 == WithRight(h1, c, s)
            h3 == Append(h2, v)
<1>1. /\ w \in Seq(Entry(E)) /\ h[c] \in BTreeNode(E) /\ c \in Nat /\ r \in Nat
      /\ h[c].left \in Nat
  BY HeapNode
<1>2. m \in Nat /\ MaxLoad = m + m /\ m >= 2 /\ Len(w) = m + m + 1 /\ s \in Nat /\ Len(h) \in Nat
  BY LoadAssumption DEF MinLoad, Size, Items, TooFull
<1>3. a \in Seq(Entry(E)) /\ Len(a) = m /\ b \in Seq(Entry(E)) /\ Len(b) = m + 1 /\ a \o b = w
  <2>. HIDE DEF w, m
  <2>1. m \in 0 .. Len(w) /\ Len(w) - m = m + 1
    BY <1>2
  <2>. QED
    BY <1>1, <2>1, TwoParts
<1>4. /\ v \in BTreeNode(E) /\ v.items = b /\ v.left = c /\ v.right = r /\ v.leaf = h[c].leaf
  <2>. HIDE DEF a, b, w, m, h1, h2, h3
  <2>1. v.items = b /\ v.left = c /\ v.right = h[c].right /\ v.leaf = h[c].leaf
    BY <1>1 DEF BTreeNode
  <2>2. b \in Seq(Entry(E)) /\ c \in Nat /\ NULL_OFFSET \in Int
    BY <1>1, <1>3 DEF NULL_OFFSET
  <2>3. v \in BTreeNode(E)
    BY <2>2, <1>1 DEF BTreeNode
  <2>. QED
    BY <2>1, <2>3
<1>5. g = IF r = None THEN h3 ELSE WithLeft(h3, r, s)
  <2>1. h2 = [h EXCEPT ![c].items = SubSeq(@, 1, m), ![c].right = s]
    BY <1>1 DEF WithItems, WithRight, Items
  <2>2. v = [h[c] EXCEPT !.items = SubSeq(@, m + 1, Len(@)), !.left = c, !.off = NULL_OFFSET]
    BY <1>1 DEF Items
  <2>. HIDE DEF h2, v
  <2>. QED
    BY <2>1, <2>2 DEF makeSibling, MinLoad, WithLeft
<1>. HIDE DEF a, b, v, w, m
<1>6. /\ h1 \in Seq(BTreeNode(E)) /\ Len(h1) = Len(h) /\ DOMAIN h1 = DOMAIN h
      /\ Items(h1, c) = a
      /\ h1[c].left = h[c].left /\ h1[c].right = h[c].right /\ h1[c].leaf = h[c].leaf
      /\ \A x \in DOMAIN h : x # c => h1[x] = h[x]
  BY <1>3, ItemsWritten
<1>. HIDE DEF h1
<1>7. /\ h2 \in Seq(BTreeNode(E)) /\ Len(h2) = Len(h) /\ DOMAIN h2 = DOMAIN h
      /\ h2[c].left = h[c].left /\ h2[c].right = s
      /\ Items(h2, c) = a /\ h2[c].leaf = h[c].leaf
      /\ \A x \in DOMAIN h : x # c => h2[x] = h[x]
  <2>1. h1 \in Seq(BTreeNode(E)) /\ c \in DOMAIN h1 /\ h[c].left = h1[c].left /\ h[c].left \in Nat
    BY <1>1, <1>6
  <2>2. /\ h2 \in Seq(BTreeNode(E)) /\ Len(h2) = Len(h1) /\ DOMAIN h2 = DOMAIN h1
        /\ h2[c].left = h[c].left /\ h2[c].right = s
        /\ Items(h2, c) = Items(h1, c) /\ h2[c].leaf = h1[c].leaf
        /\ \A x \in DOMAIN h1 : x # c => h2[x] = h1[x]
    BY <2>1, <1>2, LinksWritten
  <2>. QED
    BY <2>2, <1>6
<1>. HIDE DEF h2
<1>8. /\ h3 \in Seq(BTreeNode(E)) /\ Len(h3) = s /\ h3[s] = v /\ s \notin DOMAIN h
      /\ DOMAIN h \subseteq DOMAIN h3
      /\ \A x \in DOMAIN h : h3[x] = h2[x]
  <2>1. h2 \in Seq(BTreeNode(E)) /\ Len(h2) = Len(h) /\ v \in BTreeNode(E)
    BY <1>4, <1>7
  <2>2. /\ h3 \in Seq(BTreeNode(E)) /\ Len(h3) = Len(h2) + 1 /\ h3[Len(h2) + 1] = v
        /\ \A x \in 1 .. Len(h2) : h3[x] = h2[x]
    BY <2>1
  <2>3. DOMAIN h = 1 .. Len(h) /\ DOMAIN h3 = 1 .. Len(h3)
    BY <2>2
  <2>. HIDE DEF h3
  <2>. QED
    BY <2>1, <2>2, <2>3, <1>2
<1>. HIDE DEF h3
<1>9. /\ Items(h3, c) = a /\ Items(h3, s) = b
      /\ h3[c].left = h[c].left /\ h3[c].right = s /\ h3[s].left = c /\ h3[s].right = r
      /\ h3[c].leaf = h[c].leaf /\ h3[s].leaf = h[c].leaf /\ c # s
      /\ \A x \in DOMAIN h : x # c => h3[x] = h[x]
  BY <1>4, <1>7, <1>8 DEF Items
<1>10. CASE r = None
  <2>1. \A x \in DOMAIN h : x # None
    BY HeapNode
  <2>. QED
    BY <1>3, <1>5, <1>8, <1>9, <1>10, <2>1 DEF m, w, Items, Halved
<1>11. CASE r # None
  <2>0. r \in DOMAIN h /\ r # c /\ r # s /\ r \in DOMAIN h3 /\ h3[r] = h[r] /\ h[r].right \in Nat
        /\ h3[r].right = h[r].right
    BY <1>8, <1>9, <1>11, HeapNode
  <2>1. g = WithLeft(h3, r, s)
    BY <1>5, <1>11
  <2>2. /\ g \in Seq(BTreeNode(E)) /\ Len(g) = Len(h3) /\ DOMAIN g = DOMAIN h3
        /\ g[r].left = s /\ g[r].right = h[r].right
        /\ Items(g, r) = Items(h3, r) /\ g[r].leaf = h3[r].leaf
        /\ \A x \in DOMAIN h3 : x # r => g[x] = h3[x]
    <3>1. h3 \in Seq(BTreeNode(E)) /\ s \in Nat
      BY <1>2, <1>8
    <3>. QED
      BY <3>1, <2>0, <2>1, LinksWritten
  <2>3. g[c] = h3[c] /\ g[s] = h3[s]
    BY <2>0, <2>2, <1>8
  <2>4. \A x \in DOMAIN h : x # c /\ x # r => g[x] = h[x]
    BY <2>2, <1>8, <1>9
  <2>5. Items(g, c) = a /\ Items(g, s) = b
    BY <2>3, <1>9 DEF Items
  <2>6. Items(g, r) = Items(h, r) /\ g[r].leaf = h[r].leaf
    BY <2>0, <2>2 DEF Items
  <2>7. /\ g[c].left = h[c].left /\ g[c].right = s /\ g[s].left = c /\ g[s].right = r
        /\ g[c].leaf = h[c].leaf /\ g[s].leaf = h[c].leaf
    BY <2>3, <1>9
  <2>8. \A x \in DOMAIN h : x # c =>
              /\ Items(g, x) = Items(h, x) /\ g[x].leaf = h[x].leaf /\ g[x].right = h[x].right
              /\ g[x].left = (IF x = r THEN s ELSE h[x].left)
              /\ x # r => g[x] = h[x]
    BY <2>2, <2>4, <2>6 DEF Items
  <2>. QED
    BY <2>2, <2>5, <2>7, <2>8, <1>3, <1>8 DEF m, w, Halved
<1>. QED
  BY <1>10, <1>11

\* Items of which the one at i has another key, and a further one after it.
WithItemAfter(w, i, k, e) == InsertAt(WithKey(w, i, k), i + 1, e)

\* That u is so made of w.
HasItemAfter(u, w, i, k, e) ==
  /\ Len(u) = Len(w) + 1
  /\ \A j \in 1 .. i - 1 : u[j] = w[j]
  /\ u[i].key = k /\ u[i].data = w[i].data /\ u[i + 1] = e
  /\ \A j \in i + 1 .. Len(w) : u[j + 1] = w[j]

\* A key in a sequence of items is replaced and an item put in after it.
LEMMA ItemAfter ==
  ASSUME NEW E, NEW w \in Seq(Entry(E)), NEW i \in 1 .. Len(w), NEW k \in Nat, NEW e \in Entry(E),
         NEW u, u = WithItemAfter(w, i, k, e)
  PROVE  u \in Seq(Entry(E)) /\ HasItemAfter(u, w, i, k, e)
<1>. DEFINE v == WithKey(w, i, k)
            p == i + 1
<1>1. /\ v \in Seq(Entry(E)) /\ Len(v) = Len(w) /\ v[i].key = k /\ v[i].data = w[i].data
      /\ \A j \in 1 .. Len(w) : j # i => v[j] = w[j]
  BY KeyWritten
<1>. HIDE DEF v
<1>2. p - 1 = i /\ i \in 1 .. i
  OBVIOUS
<1>6. p \in 1 .. Len(v) + 1
  BY <1>1
<1>7. u = InsertAt(v, p, e)
  BY DEF v, WithItemAfter
<1>8. v \in Seq(Entry(E))
  BY <1>1
<1>. HIDE DEF p
<1>3. /\ u \in Seq(Entry(E)) /\ Len(u) = Len(v) + 1
      /\ \A j \in 1 .. p - 1 : u[j] = v[j]
      /\ u[p] = e
      /\ \A j \in p .. Len(v) : u[j + 1] = v[j]
  BY <1>6, <1>7, <1>8, InsertAtProperties
<1>4. \A j \in 1 .. i - 1 : j \in 1 .. i /\ j \in 1 .. Len(w) /\ j # i
  OBVIOUS
<1>5. \A j \in i + 1 .. Len(w) : j \in 1 .. Len(w) /\ j # i
  OBVIOUS
<1>. QED
  BY <1>1, <1>2, <1>3, <1>4, <1>5 DEF p, HasItemAfter

\* The name a new node gets.
NextName(h) == Len(h) + 1
\* A set of nodes and that new one.
WithNext(h, S) == S \cup {NextName(h)}

\* Both rows are right and child i of node n has one item more than it may have.
FullAt(h, P, S, D, n, i) ==
  /\ Levels(h, P, S, D) /\ n \in P /\ i \in 1 .. Len(Items(h, n))
  /\ TooFull(h, Child(h, n, i))

\* SplitChild, of a child with one item more than it may have: both rows stay right and hold
\* what they held, the two halves have as many items as they should, and nothing else is
\* written but node n's items and the link of the next node to the new one.
THEOREM SplitsAChild ==
  ASSUME NEW E, NEW h \in Seq(BTreeNode(E)), NEW P, NEW S, NEW D, NEW n, NEW i,
         FullAt(h, P, S, D, n, i), NextName(h) \in E
  PROVE  LET c == Child(h, n, i)
             s == NextName(h)
             T == WithNext(h, S)
             g == SplitChild(h, n, i)
         IN /\ g \in Seq(BTreeNode(E)) /\ DOMAIN g = WithNext(h, DOMAIN h) /\ s \notin DOMAIN h
            /\ Levels(g, P, T, D) /\ Held(g, T) = Held(h, S)
            /\ Size(g, c) = MinLoad /\ Size(g, s) = MinLoad + 1
            /\ Size(g, n) = Size(h, n) + 1
            /\ \A x \in S : x # c => Items(g, x) = Items(h, x)
            /\ KindsSame(h, g, n) /\ g[s].leaf = h[c].leaf /\ MaxKey(g, n) = MaxKey(h, n)
            /\ \A x \in DOMAIN h : x \notin S \cup {n} => g[x] = h[x]
<1>. Levels(h, P, S, D) /\ n \in P /\ i \in 1 .. Len(Items(h, n)) /\ TooFull(h, Child(h, n, i))
  BY DEF FullAt
<1>. DEFINE c == Child(h, n, i)
            s == NextName(h)
            g == SplitChild(h, n, i)
            r == h[c].right
            h1 == makeSibling(h, c)
            w == Items(h, n)
            m == Len(w)
            kc == MaxKey(h1, c)
            ks == MaxKey(h1, s)
            e == Item(ks, s)
            u == WithItemAfter(w, i, kc, e)
<1>0. /\ c = Child(h, n, i) /\ s = Len(h) + 1 /\ g = SplitChild(h, n, i)
      /\ s \in E /\ TooFull(h, c)
  BY DEF NextName
<1>. HIDE DEF c, s, g
<1>1. /\ Row(h, P, S) /\ Row(h, S, D) /\ P \subseteq DOMAIN h /\ P \cap S = {}
      /\ S \subseteq DOMAIN h /\ D \subseteq DOMAIN h /\ S \cap D = {} /\ P \cap D = {}
  BY DEF Levels, Row
<1>2. c \in S /\ n \in DOMAIN h /\ c # n /\ w \in Seq(Entry(E)) /\ m \in Nat /\ i \in 1 .. m
  BY <1>0, <1>1, LevelChildren
<1>3. /\ r = None \/ (r \in S /\ r # c)
      /\ \A x \in S : h[x].left = c <=> x = r /\ r # None
  <2>1. /\ None \notin S
        /\ \A x \in S :
              /\ h[x].left # None => h[x].left \in S /\ h[h[x].left].right = x
              /\ h[x].right # None => h[x].right \in S /\ h[h[x].right].left = x
    BY <1>1, RowLinks
  <2>2. r # None => r \in S /\ Adjacent(h, c, r)
    BY <2>1, <1>2 DEF Adjacent
  <2>3. r # None => r # c
    BY <2>2, <1>1, <1>2, NoCycle
  <2>. QED
    BY <2>1, <2>2, <2>3, <1>2
<1>4. /\ h1 \in Seq(BTreeNode(E)) /\ Len(h1) = s
      /\ Items(h1, c) \o Items(h1, s) = Items(h, c)
      /\ Len(Items(h1, c)) = MinLoad /\ Len(Items(h1, s)) = MinLoad + 1
      /\ h1[c].left = h[c].left /\ h1[c].right = s /\ h1[s].left = c /\ h1[s].right = r
      /\ h1[c].leaf = h[c].leaf /\ h1[s].leaf = h[c].leaf
      /\ \A x \in DOMAIN h : x # c =>
           /\ Items(h1, x) = Items(h, x) /\ h1[x].leaf = h[x].leaf /\ h1[x].right = h[x].right
           /\ h1[x].left = (IF x = r THEN s ELSE h[x].left)
           /\ x # r => h1[x] = h[x]
  <2>1. c \in DOMAIN h /\ (r = None \/ (r \in DOMAIN h /\ r # c))
    BY <1>1, <1>2, <1>3
  <2>2. r = h[c].right /\ h1 = makeSibling(h, c)
    OBVIOUS
  <2>. HIDE DEF r, h1, w, m, kc, ks, e, u
  <2>3. h1 \in Seq(BTreeNode(E)) /\ Len(h1) = s /\ Halved(h, h1, c, r, s)
    BY <2>1, <2>2, <1>0, SiblingMade
  <2>. QED
    BY <2>3 DEF Halved
<1>. HIDE DEF r, h1
<1>5. /\ MinLoad \in Nat /\ MinLoad >= 2 /\ s \in Nat /\ s \notin DOMAIN h
      /\ DOMAIN h \subseteq DOMAIN h1 /\ s \in DOMAIN h1
  <2>1. MinLoad \in Nat /\ MinLoad >= 2
    BY LoadAssumption DEF MinLoad
  <2>2. h1 \in Seq(BTreeNode(E)) /\ Len(h1) = Len(h) + 1
    BY <1>0, <1>4
  <2>. QED
    BY <2>1, <2>2, <1>0
<1>6. kc \in Nat /\ ks \in Nat /\ Items(h1, c) # <<>> /\ Items(h1, s) # <<>>
  <2>0. h1 \in Seq(BTreeNode(E)) /\ c \in DOMAIN h1 /\ s \in DOMAIN h1
    BY <1>1, <1>2, <1>4, <1>5
  <2>. DEFINE a == Items(h1, c)
              b == Items(h1, s)
  <2>1. a \in Seq(Entry(E)) /\ b \in Seq(Entry(E))
    BY <2>0, HeapNode
  <2>2. Len(a) = MinLoad /\ Len(b) = MinLoad + 1
    BY <1>4
  <2>3. kc = Last(a).key /\ ks = Last(b).key
    BY DEF MaxKey, Items
  <2>. HIDE DEF a, b, kc, ks
  <2>4. a # <<>> /\ b # <<>>
    BY <2>2, <1>5
  <2>5. Last(a) \in Entry(E) /\ Last(b) \in Entry(E)
    BY <2>1, <2>4, Ends
  <2>. QED
    BY <2>3, <2>4, <2>5 DEF Entry, a, b
<1>7. g = WithItems(h1, n, u)
  <2>1. g = [h1 EXCEPT ![n].items = InsertAt([@ EXCEPT ![i].key = kc], i + 1, Item(MaxKey(h1, Len(h1)), Len(h1)))]
    BY <1>0 DEF SplitChild, Child, h1
  <2>2. h1[n].items = w
    BY <1>2, <1>4 DEF Items
  <2>. HIDE DEF w, kc
  <2>. QED
    BY <2>1, <2>2, <1>4 DEF WithItems, WithKey, WithItemAfter
<1>9. e \in Entry(E) /\ e.key = ks /\ e.data = s
  BY <1>0, <1>5, <1>6 DEF Item, Entry
<1>. HIDE DEF w, e, kc, ks
<1>10. /\ u \in Seq(Entry(E)) /\ Len(u) = m + 1
       /\ \A j \in 1 .. i - 1 : u[j] = w[j]
       /\ u[i].key = kc /\ u[i].data = w[i].data /\ u[i + 1] = e
       /\ \A j \in i + 1 .. m : u[j + 1] = w[j]
  <2>1. u = WithItemAfter(w, i, kc, e) /\ i \in 1 .. Len(w)
    BY <1>2 DEF u
  <2>2. w \in Seq(Entry(E)) /\ kc \in Nat /\ e \in Entry(E)
    BY <1>2, <1>6, <1>9
  <2>. HIDE DEF u, m
  <2>3. u \in Seq(Entry(E)) /\ HasItemAfter(u, w, i, kc, e)
    BY <2>1, <2>2, ItemAfter
  <2>. QED
    BY <2>3 DEF m, HasItemAfter
<1>. HIDE DEF u
<1>11. /\ g \in Seq(BTreeNode(E)) /\ Len(g) = s /\ DOMAIN g = DOMAIN h1
       /\ Items(g, n) = u
       /\ g[n].left = h1[n].left /\ g[n].right = h1[n].right /\ g[n].leaf = h1[n].leaf
       /\ \A x \in DOMAIN h1 : x # n => g[x] = h1[x]
  <2>1. h1 \in Seq(BTreeNode(E)) /\ n \in DOMAIN h1 /\ u \in Seq(Entry(E))
    BY <1>2, <1>4, <1>5, <1>10
  <2>. QED
    <3>1. /\ g \in Seq(BTreeNode(E)) /\ Len(g) = Len(h1) /\ DOMAIN g = DOMAIN h1
          /\ Items(g, n) = u
          /\ g[n].left = h1[n].left /\ g[n].right = h1[n].right /\ g[n].leaf = h1[n].leaf
          /\ \A x \in DOMAIN h1 : x # n => g[x] = h1[x]
      BY <2>1, <1>7, ItemsWritten
    <3>. QED
      BY <3>1, <1>4
<1>12. \A x \in DOMAIN h \cup {s} : x # n => g[x] = h1[x] /\ Items(g, x) = Items(h1, x)
  BY <1>5, <1>11 DEF Items
<1>13. g[c] = h1[c] /\ g[s] = h1[s] /\ Items(g, c) = Items(h1, c) /\ Items(g, s) = Items(h1, s)
       /\ s # n /\ s # c
  BY <1>1, <1>2, <1>5, <1>12
<1>14. MaxKey(g, c) = kc /\ MaxKey(g, s) = ks
  BY <1>13 DEF MaxKey, kc, ks
\* The links of the upper row are not touched, nor are its other nodes.
<1>15. \A x \in P : x # c /\ x # r
  BY <1>1, <1>2, <1>3, HeapNode
<1>16. \A x \in P : /\ h[x].left = g[x].left /\ h[x].right = g[x].right /\ h[x].leaf = g[x].leaf
                    /\ x # n => Items(g, x) = Items(h, x)
  <2>1. \A x \in P : h1[x] = h[x] /\ x \in DOMAIN h /\ x \in DOMAIN h1
    BY <1>1, <1>4, <1>5, <1>15
  <2>. QED
    BY <2>1, <1>11 DEF Items
<1>17. \A x \in S \ {c} : /\ Items(g, x) = Items(h, x) /\ g[x].leaf = h[x].leaf
                          /\ g[x].right = h[x].right
                          /\ g[x].left = (IF h[x].left = c THEN s ELSE h[x].left)
  <2>. SUFFICES ASSUME NEW x \in S, x # c
                PROVE  /\ Items(g, x) = Items(h, x) /\ g[x].leaf = h[x].leaf
                       /\ g[x].right = h[x].right
                       /\ g[x].left = (IF h[x].left = c THEN s ELSE h[x].left)
    OBVIOUS
  <2>1. x \in DOMAIN h /\ x # n /\ x # None
    BY <1>1, HeapNode
  <2>2. g[x] = h1[x] /\ Items(g, x) = Items(h1, x)
    BY <2>1, <1>12
  <2>. QED
    BY <2>1, <2>2, <1>3, <1>4
<1>18. \A x \in DOMAIN h : x \notin S \cup {n} => g[x] = h[x]
  <2>1. \A x \in DOMAIN h : x \notin S \cup {n} => x # c /\ x # r
    BY <1>2, <1>3, HeapNode
  <2>. QED
    BY <2>1, <1>4, <1>12
<1>19. /\ Items(g, c) # <<>> /\ Items(g, s) # <<>>
       /\ Items(g, c) \o Items(g, s) = Items(h, c)
       /\ g[c].left = h[c].left /\ g[c].right = s /\ g[s].left = c /\ g[s].right = h[c].right
       /\ g[c].leaf = h[c].leaf /\ g[s].leaf = h[c].leaf
  BY <1>4, <1>6, <1>13 DEF r
<1>20. /\ Len(Items(g, n)) = Len(Items(h, n)) + 1
       /\ \A j \in 1 .. i - 1 : Items(g, n)[j] = Items(h, n)[j]
       /\ \A j \in i + 1 .. Len(Items(h, n)) : Items(g, n)[j + 1] = Items(h, n)[j]
  BY <1>10, <1>11 DEF w
<1>21. /\ Child(g, n, i) = c /\ Items(g, n)[i].key = MaxKey(g, c)
       /\ Child(g, n, i + 1) = s /\ Items(g, n)[i + 1].key = MaxKey(g, s)
  BY <1>0, <1>9, <1>10, <1>11, <1>14 DEF w, Child
<1>22. \A d \in D : g[d] = h[d]
  BY <1>1, <1>2, <1>18
<1>23. DOMAIN h \subseteq DOMAIN g /\ s \in DOMAIN g
  BY <1>5, <1>11
<1>24. Levels(g, P, S \cup {s}, D) /\ Held(g, S \cup {s}) = Held(h, S)
  <2>1. Splits(h, g, P, S, D, n, i, c, s)
    BY <1>16, <1>17, <1>19, <1>20, <1>21, <1>22 DEF Splits
  <2>2. g \in Seq(BTreeNode(E)) /\ s \notin DOMAIN h
    BY <1>5, <1>11
  <2>3. c = Child(h, n, i)
    BY <1>0
  <2>. QED
    BY <2>1, <2>2, <2>3, <1>23, SplitKeepsLevels
<1>25. Size(g, c) = MinLoad /\ Size(g, s) = MinLoad + 1 /\ Size(g, n) = Size(h, n) + 1
  BY <1>4, <1>13, <1>20 DEF Size, Items
<1>26. KindsSame(h, g, n)
  <2>1. \A x \in DOMAIN h : h1[x].leaf = h[x].leaf
    BY <1>4
  <2>2. h1[n] = h[n]
    <3>1. n # r
      BY <1>1, <1>2, <1>3, HeapNode
    <3>. QED
      BY <3>1, <1>2, <1>4
  <2>3. ASSUME NEW x \in DOMAIN h PROVE g[x].leaf = h1[x].leaf
    <3>1. x \in DOMAIN h1
      BY <1>5
    <3>2. CASE x = n
      BY <3>2, <1>11
    <3>3. CASE x # n
      BY <3>1, <3>3, <1>11
    <3>. QED
      BY <3>2, <3>3
  <2>4. g[n].left = h[n].left /\ g[n].right = h[n].right
    BY <2>2, <1>11
  <2>. QED
    BY <2>1, <2>3, <2>4 DEF KindsSame
<1>27. MaxKey(g, n) = MaxKey(h, n)
  <2>1. w # <<>> /\ Last(w) = w[m] /\ u # <<>> /\ Last(u) = u[m + 1]
    <3>1. w # <<>> /\ u # <<>> /\ u \in Seq(Entry(E)) /\ Len(u) = m + 1 /\ w \in Seq(Entry(E))
      <4>1. m = Len(w)
        OBVIOUS
      <4>2. m >= 1 /\ m + 1 # 0
        BY <1>2
      <4>. HIDE DEF m
      <4>. QED
        BY <4>1, <4>2, <1>2, <1>10
    <3>. QED
      BY <3>1, Ends
  <2>2. CASE i < m
    <3>1. m \in i + 1 .. m
      BY <2>2, <1>2
    <3>2. u[m + 1] = w[m]
      BY <3>1, <1>10
    <3>. QED
      BY <2>1, <3>2, <1>11 DEF MaxKey, Items, w
  <2>3. CASE i = m
    <3>1. w[m].key = MaxKey(h, c)
      BY <2>3, <1>0, <1>2, LevelChildren DEF w
    <3>2. ks = MaxKey(h, c)
      <4>. DEFINE a == Items(h1, c)
                  b == Items(h1, s)
      <4>1. a \in Seq(Entry(E)) /\ b \in Seq(Entry(E)) /\ a # <<>> /\ b # <<>>
        BY <1>1, <1>2, <1>4, <1>5, <1>6, HeapNode
      <4>2. Last(a \o b) = Last(b)
        <5>. HIDE DEF a, b
        <5>. QED
          BY <4>1, JoinedEnds
      <4>. QED
        BY <4>2, <1>4 DEF ks, MaxKey, Items
    <3>. QED
      BY <3>1, <3>2, <2>1, <2>3, <1>9, <1>10, <1>11 DEF MaxKey, Items, w
  <2>. QED
    BY <2>2, <2>3, <1>2
<1>28. DOMAIN g = DOMAIN h \cup {s} /\ s \notin DOMAIN h
  <2>1. Len(g) = Len(h) + 1 /\ g \in Seq(BTreeNode(E))
    BY <1>0, <1>11
  <2>. QED
    BY <1>0, <2>1
<1>. QED
  BY <1>11, <1>17, <1>18, <1>19, <1>24, <1>25, <1>26, <1>27, <1>28 DEF c, s, g, WithNext

-----------------------------------------------------------------------------
(* Removing: a child has lost an item and its key in node n may be too high.  StaleAt says  *)
(* that all would be right with the child's new key, and that the keys node n has now are   *)
(* in order all the same.                                                                   *)
Corrected(h, n, i) == WithNodeKey(h, n, i, MaxKey(h, Child(h, n, i)))

\* Only the key of item i of node n is wrong, if anything is.
StaleAt(h, P, S, D, n, i) ==
  /\ n \in P /\ n \in DOMAIN h /\ i \in 1 .. Len(Items(h, n)) /\ KeysInOrder(h, n)
  /\ Child(h, n, i) \in DOMAIN h /\ Items(h, Child(h, n, i)) # <<>>
  /\ Levels(Corrected(h, n, i), P, S, D)

\* The key of a node that has items.
LEMMA MaxKeyIsNat ==
  ASSUME NEW E, NEW h \in Seq(BTreeNode(E)), NEW c \in DOMAIN h, Items(h, c) # <<>>
  PROVE  MaxKey(h, c) \in Nat
<1>. DEFINE w == Items(h, c)
<1>1. w \in Seq(Entry(E)) /\ w # <<>> /\ MaxKey(h, c) = Last(w).key
  BY HeapNode DEF MaxKey, Items
<1>. HIDE DEF w
<1>2. Last(w) \in Entry(E)
  BY <1>1, Ends
<1>. QED
  BY <1>1, <1>2 DEF Entry

\* What StaleAt says of the heap as it is.
LEMMA StaleFacts ==
  ASSUME NEW E, NEW h \in Seq(BTreeNode(E)), NEW P, NEW S, NEW D, NEW n, NEW i,
         StaleAt(h, P, S, D, n, i)
  PROVE  /\ Levels(Corrected(h, n, i), P, S, D)
         /\ Corrected(h, n, i) \in Seq(BTreeNode(E))
         /\ DifferInKey(h, Corrected(h, n, i), n, i, MaxKey(h, Child(h, n, i)))
<1>. DEFINE c == Child(h, n, i)
            k == MaxKey(h, c)
            f == Corrected(h, n, i)
<1>1. n \in DOMAIN h /\ i \in 1 .. Len(Items(h, n)) /\ c \in DOMAIN h /\ Items(h, c) # <<>>
  BY DEF StaleAt
<1>2. k \in Nat
  BY <1>1, MaxKeyIsNat
<1>3. f = WithNodeKey(h, n, i, k)
  BY DEF Corrected
<1>. HIDE DEF c, k, f
<1>4. f \in Seq(BTreeNode(E)) /\ DifferInKey(h, f, n, i, k)
  BY <1>1, <1>2, <1>3, NodeKeyWritten
<1>5. Levels(f, P, S, D)
  BY DEF StaleAt, f
<1>. QED
  BY <1>4, <1>5 DEF c, k, f

\* The children of that node, and which of two of its items the keys say is the first.
LEMMA StaleChildren ==
  ASSUME NEW E, NEW h \in Seq(BTreeNode(E)), NEW P, NEW S, NEW D, NEW n, NEW i,
         StaleAt(h, P, S, D, n, i)
  PROVE  /\ P \subseteq DOMAIN h /\ S \subseteq DOMAIN h /\ D \subseteq DOMAIN h /\ n \in P
         /\ P \cap S = {} /\ S \cap D = {} /\ P \cap D = {}
         /\ \A x \in DOMAIN h : x # n => Corrected(h, n, i)[x] = h[x]
         /\ Items(h, n) \in Seq(Entry(E)) /\ i \in 1 .. Len(Items(h, n))
         /\ \A j \in 1 .. Len(Items(h, n)) :
              /\ Child(h, n, j) \in S /\ Child(Corrected(h, n, i), n, j) = Child(h, n, j)
              /\ Items(h, Child(h, n, j)) # <<>>
              /\ Items(h, Child(h, n, j)) \in Seq(Entry(E))
              /\ Items(h, n)[i].key <= Items(h, n)[j].key <=> i <= j
              /\ \A q \in 1 .. Len(Items(h, n)) : j # q => Child(h, n, j) # Child(h, n, q)
         /\ \A j \in 2 .. Len(Items(h, n)) : Adjacent(h, Child(h, n, j - 1), Child(h, n, j))
<1>. DEFINE f == Corrected(h, n, i)
            w == Items(h, n)
            c == Child(h, n, i)
<1>1. /\ Levels(f, P, S, D) /\ f \in Seq(BTreeNode(E)) /\ DifferInKey(h, f, n, i, MaxKey(h, c))
  BY StaleFacts
<1>2. n \in P /\ n \in DOMAIN h /\ i \in 1 .. Len(w) /\ InOrder(w)
  BY DEF StaleAt, KeysInOrder
<1>3. w \in Seq(Entry(E))
  BY <1>2, HeapNode
<1>. HIDE DEF f, w
<1>4. /\ DOMAIN f = DOMAIN h /\ \A x \in DOMAIN h : x # n => f[x] = h[x]
      /\ Len(Items(f, n)) = Len(w)
      /\ \A j \in 1 .. Len(w) : Child(f, n, j) = Child(h, n, j)
  BY <1>1 DEF DifferInKey, w
<1>5. /\ P \subseteq DOMAIN h /\ S \subseteq DOMAIN h /\ D \subseteq DOMAIN h
      /\ P \cap S = {} /\ S \cap D = {} /\ P \cap D = {} /\ Row(f, S, D)
  BY <1>1, <1>4 DEF Levels, Row
<1>6. /\ \A j \in 1 .. Len(Items(f, n)) :
           /\ Child(f, n, j) \in S
           /\ \A q \in 1 .. Len(Items(f, n)) : j # q => Child(f, n, j) # Child(f, n, q)
      /\ \A j \in 2 .. Len(Items(f, n)) : Adjacent(f, Child(f, n, j - 1), Child(f, n, j))
  BY <1>1, <1>2, LevelChildren
<1>7. \A y \in S : f[y] = h[y] /\ Items(h, y) # <<>> /\ Items(h, y) \in Seq(Entry(E))
  <2>1. \A y \in S : Items(f, y) # <<>> /\ Items(f, y) \in Seq(Entry(E))
    BY <1>1, <1>5, RowEnds
  <2>2. \A y \in S : f[y] = h[y]
    BY <1>2, <1>4, <1>5
  <2>. QED
    BY <2>1, <2>2 DEF Items
<1>8. \A j \in 1 .. Len(w) : /\ Child(h, n, j) \in S
                              /\ \A q \in 1 .. Len(w) : j # q => Child(h, n, j) # Child(h, n, q)
  BY <1>4, <1>6
<1>9. \A j \in 2 .. Len(w) : Adjacent(h, Child(h, n, j - 1), Child(h, n, j))
  <2>. SUFFICES ASSUME NEW j \in 2 .. Len(w)
                PROVE  Adjacent(h, Child(h, n, j - 1), Child(h, n, j))
    OBVIOUS
  <2>1. j \in 1 .. Len(w) /\ j - 1 \in 1 .. Len(w)
    BY <1>3
  <2>2. Adjacent(f, Child(h, n, j - 1), Child(h, n, j))
    BY <2>1, <1>4, <1>6
  <2>. QED
    BY <2>1, <2>2, <1>7, <1>8 DEF Adjacent
<1>10. \A j \in 1 .. Len(w) : w[i].key <= w[j].key <=> i <= j
  <2>. SUFFICES ASSUME NEW j \in 1 .. Len(w) PROVE w[i].key <= w[j].key <=> i <= j
    OBVIOUS
  <2>. DEFINE a == w[i].key
              b == w[j].key
  <2>1. a \in Nat /\ b \in Nat
    <3>1. w[i] \in Entry(E) /\ w[j] \in Entry(E)
      BY <1>2, <1>3
    <3>. QED
      BY <3>1 DEF Entry
  <2>2. (i < j => a < b) /\ (j < i => b < a) /\ (i = j => a = b)
    BY <1>2 DEF InOrder
  <2>3. i \in Nat /\ j \in Nat
    BY <1>2, <1>3
  <2>. HIDE DEF a, b
  <2>4. a <= b <=> i <= j
    BY <2>1, <2>2, <2>3
  <2>. QED
    BY <2>4 DEF a, b
<1>11. \A j \in 1 .. Len(w) : Items(h, Child(h, n, j)) # <<>> /\ Items(h, Child(h, n, j)) \in Seq(Entry(E))
  BY <1>7, <1>8
<1>. QED
  BY <1>2, <1>3, <1>4, <1>5, <1>8, <1>9, <1>10, <1>11 DEF f, w

\* The children i and j of node n have other items, and n their keys.
Moved(h, n, i, j, u, v) ==
  LET h1 == WithItems(WithItems(h, Child(h, n, i), u), Child(h, n, j), v)
  IN WithNodeKey(WithNodeKey(h1, n, i, MaxKey(h1, Child(h, n, i))), n, j, MaxKey(h1, Child(h, n, j)))

\* The items u and v are those of the children i and j of node n, who stand side by side.
Shared(h, n, i, j, u, v) ==
  LET ours == Items(h, Child(h, n, i))
      theirs == Items(h, Child(h, n, j))
  IN u # <<>> /\ v # <<>> /\ (\/ j = i + 1 /\ u \o v = ours \o theirs
                              \/ i = j + 1 /\ v \o u = theirs \o ours)

\* What is left as it is where one row and node n above it are written.
OutsideSame(h, g, S, n) ==
  /\ Len(g) = Len(h) /\ DOMAIN g = DOMAIN h /\ KindsSame(h, g, n)
  /\ \A x \in DOMAIN h : x \notin S \cup {n} => g[x] = h[x]

\* Two children of a node have items u and v; the other nodes of their row have what they had.
HoldTheirs(h, g, S, c, b, u, v) ==
  /\ Items(g, c) = u /\ Items(g, b) = v
  /\ \A x \in S : x # c /\ x # b => Items(g, x) = Items(h, x)

\* What a heap is in which items have moved between two children and both keys were set.
LEMMA MovedWrites ==
  ASSUME NEW E, NEW h \in Seq(BTreeNode(E)), NEW P, NEW S, NEW D, NEW n, NEW i,
         StaleAt(h, P, S, D, n, i), NEW j \in 1 .. Len(Items(h, n)), i # j,
         NEW u \in Seq(Entry(E)), NEW v \in Seq(Entry(E)), u # <<>>, v # <<>>,
         NEW g, g = Moved(h, n, i, j, u, v)
  PROVE  /\ g \in Seq(BTreeNode(E)) /\ OutsideSame(h, g, S, n)
         /\ HoldTheirs(h, g, S, Child(h, n, i), Child(h, n, j), u, v)
         /\ Len(Items(g, n)) = Len(Items(h, n))
         /\ \A x \in DOMAIN h : /\ g[x].left = h[x].left /\ g[x].right = h[x].right
                                /\ g[x].leaf = h[x].leaf
         /\ \A q \in 1 .. Len(Items(h, n)) :
              /\ Child(g, n, q) = Child(h, n, q)
              /\ q # i /\ q # j => Items(g, n)[q] = Items(h, n)[q]
         /\ Items(g, n)[i].key = MaxKey(g, Child(h, n, i))
         /\ Items(g, n)[j].key = MaxKey(g, Child(h, n, j))
<1>. DEFINE c == Child(h, n, i)
            b == Child(h, n, j)
            h0 == WithItems(h, c, u)
            h1 == WithItems(h0, b, v)
            kc == MaxKey(h1, c)
            kb == MaxKey(h1, b)
            h2 == WithNodeKey(h1, n, i, kc)
            w == Items(h, n)
<1>1. /\ S \subseteq DOMAIN h /\ n \in DOMAIN h /\ n \notin S
      /\ c \in S /\ b \in S /\ c # b /\ w \in Seq(Entry(E)) /\ i \in 1 .. Len(w) /\ j \in 1 .. Len(w)
  BY StaleChildren
<1>2. g = WithNodeKey(h2, n, j, kb)
  BY DEF Moved
<1>. HIDE DEF c, b, w, kc, kb
<1>3. /\ h0 \in Seq(BTreeNode(E)) /\ Len(h0) = Len(h) /\ DOMAIN h0 = DOMAIN h
      /\ Items(h0, c) = u
      /\ h0[c].left = h[c].left /\ h0[c].right = h[c].right /\ h0[c].leaf = h[c].leaf
      /\ \A x \in DOMAIN h : x # c => h0[x] = h[x]
  <2>1. c \in DOMAIN h
    BY <1>1
  <2>2. h0 = WithItems(h, c, u)
    OBVIOUS
  <2>. HIDE DEF h0, h1, h2
  <2>. QED
    BY <2>1, <2>2, ItemsWritten
<1>4. h1 = WithItems(h0, b, v) /\ h2 = WithNodeKey(h1, n, i, kc)
  OBVIOUS
<1>. HIDE DEF h0, h1, h2
<1>5. /\ h1 \in Seq(BTreeNode(E)) /\ Len(h1) = Len(h0) /\ DOMAIN h1 = DOMAIN h0
      /\ Items(h1, b) = v
      /\ h1[b].left = h0[b].left /\ h1[b].right = h0[b].right /\ h1[b].leaf = h0[b].leaf
      /\ \A x \in DOMAIN h0 : x # b => h1[x] = h0[x]
  <2>1. b \in DOMAIN h0 /\ h0 \in Seq(BTreeNode(E))
    BY <1>1, <1>3
  <2>. QED
    BY <2>1, <1>4, ItemsWritten
<1>6. /\ DOMAIN h1 = DOMAIN h /\ Len(h1) = Len(h) /\ Items(h1, c) = u /\ Items(h1, b) = v
      /\ \A x \in DOMAIN h : x # c /\ x # b => h1[x] = h[x]
      /\ \A x \in DOMAIN h : /\ h1[x].left = h[x].left /\ h1[x].right = h[x].right
                             /\ h1[x].leaf = h[x].leaf
  BY <1>1, <1>3, <1>5 DEF Items
<1>7. n \in DOMAIN h1 /\ h1[n] = h[n] /\ Items(h1, n) = w
  BY <1>1, <1>6 DEF Items, w
<1>8. kc \in Nat /\ kb \in Nat
  <2>1. h1 \in Seq(BTreeNode(E)) /\ c \in DOMAIN h1 /\ b \in DOMAIN h1
    BY <1>1, <1>5, <1>6
  <2>2. Items(h1, c) # <<>> /\ Items(h1, b) # <<>>
    BY <1>6
  <2>. QED
    BY <2>1, <2>2, MaxKeyIsNat DEF kc, kb
<1>9. h2 \in Seq(BTreeNode(E)) /\ DifferInKey(h1, h2, n, i, kc)
  <2>1. h1 \in Seq(BTreeNode(E)) /\ i \in 1 .. Len(Items(h1, n))
    BY <1>1, <1>5, <1>7
  <2>. QED
    BY <2>1, <1>4, <1>7, <1>8, NodeKeyWritten
<1>10. /\ DOMAIN h2 = DOMAIN h1 /\ Len(h2) = Len(h1)
       /\ h2[n].left = h1[n].left /\ h2[n].right = h1[n].right /\ h2[n].leaf = h1[n].leaf
       /\ \A x \in DOMAIN h1 : x # n => h2[x] = h1[x]
       /\ Len(Items(h2, n)) = Len(w)
       /\ Items(h2, n)[i].key = kc
       /\ \A q \in 1 .. Len(w) :
            Child(h2, n, q) = Child(h1, n, q) /\ (q # i => Items(h2, n)[q] = w[q])
  BY <1>7, <1>9 DEF DifferInKey
<1>11. g \in Seq(BTreeNode(E)) /\ DifferInKey(h2, g, n, j, kb)
  <2>1. h2 \in Seq(BTreeNode(E)) /\ j \in 1 .. Len(Items(h2, n)) /\ n \in DOMAIN h2
    BY <1>1, <1>7, <1>9, <1>10
  <2>. QED
    BY <2>1, <1>2, <1>8, NodeKeyWritten
<1>12. /\ DOMAIN g = DOMAIN h2 /\ Len(g) = Len(h2)
       /\ g[n].left = h2[n].left /\ g[n].right = h2[n].right /\ g[n].leaf = h2[n].leaf
       /\ \A x \in DOMAIN h2 : x # n => g[x] = h2[x]
       /\ Len(Items(g, n)) = Len(w)
       /\ Items(g, n)[j].key = kb
       /\ \A q \in 1 .. Len(w) :
            Child(g, n, q) = Child(h2, n, q) /\ (q # j => Items(g, n)[q] = Items(h2, n)[q])
  BY <1>10, <1>11 DEF DifferInKey
<1>13. \A x \in DOMAIN h : x # n => g[x] = h1[x] /\ Items(g, x) = Items(h1, x)
  BY <1>6, <1>10, <1>12 DEF Items
<1>14. /\ DOMAIN g = DOMAIN h /\ Len(g) = Len(h)
       /\ \A x \in DOMAIN h : x \notin S \cup {n} => g[x] = h[x]
  BY <1>1, <1>6, <1>10, <1>12, <1>13
<1>15. HoldTheirs(h, g, S, c, b, u, v)
  BY <1>1, <1>6, <1>13 DEF HoldTheirs, Items
<1>16. \A x \in DOMAIN h : /\ g[x].left = h[x].left /\ g[x].right = h[x].right
                           /\ g[x].leaf = h[x].leaf
  <2>. SUFFICES ASSUME NEW x \in DOMAIN h
                PROVE  g[x].left = h[x].left /\ g[x].right = h[x].right /\ g[x].leaf = h[x].leaf
    OBVIOUS
  <2>1. CASE x = n
    BY <2>1, <1>7, <1>10, <1>12
  <2>2. CASE x # n
    BY <2>2, <1>6, <1>13
  <2>. QED
    BY <2>1, <2>2
<1>17. \A q \in 1 .. Len(w) : /\ Child(g, n, q) = Child(h, n, q)
                              /\ q # i /\ q # j => Items(g, n)[q] = w[q]
  BY <1>7, <1>10, <1>12 DEF Child, w
<1>18. MaxKey(g, c) = kc /\ MaxKey(g, b) = kb
  BY <1>1, <1>13 DEF MaxKey, kc, kb
<1>19. Items(g, n)[i].key = kc /\ Items(g, n)[j].key = kb
  BY <1>1, <1>10, <1>12
<1>20. OutsideSame(h, g, S, n)
  <2>1. n \in DOMAIN h
    BY <1>1
  <2>2. KindsSame(h, g, n)
    BY <2>1, <1>16 DEF KindsSame
  <2>. QED
    BY <2>2, <1>14 DEF OutsideSame
<1>. QED
  BY <1>11, <1>12, <1>15, <1>16, <1>17, <1>18, <1>19, <1>20 DEF c, b, w

\* What one level and the nodes above and below it keep when their items are moved so.
LEMMA MovedKeepsLevels ==
  ASSUME NEW E, NEW h \in Seq(BTreeNode(E)), NEW P, NEW S, NEW D, NEW n, NEW i,
         StaleAt(h, P, S, D, n, i), NEW j \in 1 .. Len(Items(h, n)),
         NEW u \in Seq(Entry(E)), NEW v \in Seq(Entry(E)), Shared(h, n, i, j, u, v),
         NEW g, g = Moved(h, n, i, j, u, v)
  PROVE  /\ g \in Seq(BTreeNode(E)) /\ OutsideSame(h, g, S, n)
         /\ HoldTheirs(h, g, S, Child(h, n, i), Child(h, n, j), u, v)
         /\ Len(Items(g, n)) = Len(Items(h, n))
         /\ Levels(g, P, S, D) /\ Held(g, S) = Held(h, S)
<1>. DEFINE c == Child(h, n, i)
            b == Child(h, n, j)
            f == Corrected(h, n, i)
            w == Items(h, n)
<1>1. /\ P \subseteq DOMAIN h /\ S \subseteq DOMAIN h /\ D \subseteq DOMAIN h /\ n \in P
      /\ P \cap S = {} /\ S \cap D = {} /\ P \cap D = {}
      /\ c \in S /\ b \in S /\ w \in Seq(Entry(E)) /\ i \in 1 .. Len(w) /\ j \in 1 .. Len(w)
  BY StaleChildren
<1>2. /\ Levels(f, P, S, D) /\ f \in Seq(BTreeNode(E)) /\ DifferInKey(h, f, n, i, MaxKey(h, c))
  BY StaleFacts
<1>3. i # j /\ u # <<>> /\ v # <<>>
  BY <1>1 DEF Shared
<1>4. /\ g \in Seq(BTreeNode(E)) /\ OutsideSame(h, g, S, n)
      /\ HoldTheirs(h, g, S, c, b, u, v)
      /\ Len(Items(g, n)) = Len(w)
      /\ \A x \in DOMAIN h : /\ g[x].left = h[x].left /\ g[x].right = h[x].right
                             /\ g[x].leaf = h[x].leaf
      /\ \A q \in 1 .. Len(w) : /\ Child(g, n, q) = Child(h, n, q)
                                /\ q # i /\ q # j => Items(g, n)[q] = w[q]
      /\ Items(g, n)[i].key = MaxKey(g, c)
      /\ Items(g, n)[j].key = MaxKey(g, b)
  BY SMTT(20), <1>3, MovedWrites
<1>5. /\ DOMAIN f = DOMAIN h
      /\ f[n].left = h[n].left /\ f[n].right = h[n].right /\ f[n].leaf = h[n].leaf
      /\ \A x \in DOMAIN h : x # n => f[x] = h[x]
      /\ Len(Items(f, n)) = Len(w)
      /\ \A q \in 1 .. Len(w) : Child(f, n, q) = Child(h, n, q) /\ (q # i => Items(f, n)[q] = w[q])
  BY <1>2 DEF DifferInKey
<1>6. /\ DOMAIN g = DOMAIN h /\ \A x \in DOMAIN h : x \notin S \cup {n} => g[x] = h[x]
      /\ Items(g, c) = u /\ Items(g, b) = v
      /\ \A x \in S : x # c /\ x # b => Items(g, x) = Items(h, x)
  BY <1>4 DEF OutsideSame, HoldTheirs
<1>. HIDE DEF f, w, c, b
<1>7. \A x \in S \cup P : f[x].left = g[x].left /\ f[x].right = g[x].right /\ f[x].leaf = g[x].leaf
  <2>. SUFFICES ASSUME NEW x \in S \cup P
                PROVE  f[x].left = g[x].left /\ f[x].right = g[x].right /\ f[x].leaf = g[x].leaf
    OBVIOUS
  <2>1. x \in DOMAIN h
    BY <1>1
  <2>2. CASE x = n
    BY <2>1, <2>2, <1>4, <1>5
  <2>3. CASE x # n
    BY <2>1, <2>3, <1>4, <1>5
  <2>. QED
    BY <2>2, <2>3
<1>8. \A x \in S : f[x] = h[x] /\ Items(f, x) = Items(h, x)
  BY <1>1, <1>5 DEF Items
<1>9. /\ \A x \in S : x # c /\ x # b => Items(g, x) = Items(f, x)
      /\ \A x \in P \ {n} : Items(g, x) = Items(f, x)
      /\ \A d \in D : g[d] = f[d]
  BY <1>1, <1>5, <1>6, <1>8 DEF Items
<1>10. \A q \in 1 .. Len(w) : /\ Child(g, n, q) = Child(f, n, q)
                              /\ q # i /\ q # j => Items(g, n)[q] = Items(f, n)[q]
  BY <1>4, <1>5
<1>11. Child(g, n, i) = c /\ Child(g, n, j) = b /\ Child(f, n, i) = c /\ Child(f, n, j) = b
  BY <1>1, <1>4, <1>5 DEF c, b
<1>12. Held(f, S) = Held(h, S)
  BY <1>8 DEF Held
<1>13. Levels(g, P, S, D) /\ Held(g, S) = Held(f, S)
  <2>1. CASE j = i + 1 /\ u \o v = Items(h, c) \o Items(h, b)
    <3>1. Items(g, c) \o Items(g, b) = Items(f, c) \o Items(f, b)
      BY <2>1, <1>1, <1>6, <1>8
    <3>3. i \in 1 .. Len(Items(f, n)) - 1
      BY <2>1, <1>1, <1>5
    <3>4. c = Child(f, n, i) /\ b = Child(f, n, i + 1)
      BY <2>1, <1>11
    <3>5. DOMAIN f \subseteq DOMAIN g /\ n \in P
      BY <1>1, <1>5, <1>6
    <3>2. Shifts(f, g, P, S, D, n, i, c, b)
      <4>1. /\ \A q \in 1 .. Len(w) : q \notin {i, i + 1} => Items(g, n)[q] = Items(f, n)[q]
            /\ \A q \in {i, i + 1} : Items(g, n)[q].key = MaxKey(g, Child(g, n, q))
        BY <2>1, <1>4, <1>10, <1>11
      <4>2. Items(g, c) # <<>> /\ Items(g, b) # <<>>
        BY <1>3, <1>6
      <4>3. Len(Items(g, n)) = Len(Items(f, n)) /\ Len(Items(f, n)) = Len(w)
        BY <1>4, <1>5
      <4>. QED
        BY <3>1, <3>3, <3>4, <3>5, <4>1, <4>2, <4>3, <1>7, <1>9, <1>10 DEF Shifts
    <3>6. g \in Seq(BTreeNode(E)) /\ f \in Seq(BTreeNode(E)) /\ Levels(f, P, S, D)
      BY <1>2, <1>4
    <3>. QED
      BY <3>2, <3>6, ShiftKeepsLevels
  <2>2. CASE i = j + 1 /\ v \o u = Items(h, b) \o Items(h, c)
    <3>1. Items(g, b) \o Items(g, c) = Items(f, b) \o Items(f, c)
      BY <2>2, <1>1, <1>6, <1>8
    <3>3. j \in 1 .. Len(Items(f, n)) - 1
      BY <2>2, <1>1, <1>5
    <3>4. b = Child(f, n, j) /\ c = Child(f, n, j + 1)
      BY <2>2, <1>11
    <3>5. DOMAIN f \subseteq DOMAIN g /\ n \in P
      BY <1>1, <1>5, <1>6
    <3>2. Shifts(f, g, P, S, D, n, j, b, c)
      <4>1. /\ \A q \in 1 .. Len(w) : q \notin {j, j + 1} => Items(g, n)[q] = Items(f, n)[q]
            /\ \A q \in {j, j + 1} : Items(g, n)[q].key = MaxKey(g, Child(g, n, q))
        BY <2>2, <1>4, <1>10, <1>11
      <4>2. Items(g, c) # <<>> /\ Items(g, b) # <<>>
        BY <1>3, <1>6
      <4>3. Len(Items(g, n)) = Len(Items(f, n)) /\ Len(Items(f, n)) = Len(w)
        BY <1>4, <1>5
      <4>. QED
        BY <3>1, <3>3, <3>4, <3>5, <4>1, <4>2, <4>3, <1>7, <1>9, <1>10 DEF Shifts
    <3>6. g \in Seq(BTreeNode(E)) /\ f \in Seq(BTreeNode(E)) /\ Levels(f, P, S, D)
      BY <1>2, <1>4
    <3>. QED
      BY <3>2, <3>6, ShiftKeepsLevels
  <2>. QED
    BY <2>1, <2>2 DEF Shared, c, b
<1>. QED
  BY <1>4, <1>12, <1>13 DEF c, b, w

\* The first item of one sequence goes to the end of another.
LEMMA HeadMoved ==
  ASSUME NEW S, NEW a \in Seq(S), NEW b \in Seq(S), b # <<>>
  PROVE  /\ Append(a, Head(b)) \in Seq(S) /\ Tail(b) \in Seq(S)
         /\ Len(Append(a, Head(b))) = Len(a) + 1 /\ Len(Tail(b)) = Len(b) - 1
         /\ Append(a, Head(b)) \o Tail(b) = a \o b
<1>. DEFINE u == Append(a, Head(b))
            v == Tail(b)
            m == Len(a)
            n == Len(b)
            x == u \o v
            y == a \o b
<1>1. m \in Nat /\ n \in Nat /\ n >= 1 /\ Head(b) = b[1] /\ Head(b) \in S
  BY Ends
<1>2. u \in Seq(S) /\ Len(u) = m + 1 /\ u[m + 1] = b[1] /\ \A j \in 1 .. m : u[j] = a[j]
  BY <1>1
<1>3. v \in Seq(S) /\ Len(v) = n - 1 /\ \A j \in 1 .. n - 1 : v[j] = b[j + 1]
  BY <1>1
<1>. HIDE DEF u, v
<1>4. /\ x \in Seq(S) /\ Len(x) = Len(u) + Len(v)
      /\ \A j \in 1 .. Len(u) : x[j] = u[j]
      /\ \A j \in 1 .. Len(v) : x[Len(u) + j] = v[j]
  <2>1. u \in Seq(S) /\ v \in Seq(S)
    BY <1>2, <1>3
  <2>. HIDE DEF m, n, y
  <2>. QED
    BY <2>1
<1>5. /\ y \in Seq(S) /\ Len(y) = Len(a) + Len(b)
      /\ \A j \in 1 .. Len(a) : y[j] = a[j]
      /\ \A j \in 1 .. Len(b) : y[Len(a) + j] = b[j]
  OBVIOUS
<1>. HIDE DEF x, y
<1>6. Len(x) = m + n /\ Len(y) = m + n /\ x \in Seq(S) /\ y \in Seq(S)
  <2>1. Len(x) = (m + 1) + (n - 1)
    BY <1>2, <1>3, <1>4
  <2>. HIDE DEF m, n
  <2>. QED
    BY <2>1, <1>1, <1>4, <1>5 DEF m, n
<1>7. ASSUME NEW j \in 1 .. m + n PROVE x[j] = y[j]
  <2>. HIDE DEF m, n
  <2>1. CASE j <= m
    <3>1. j \in 1 .. m /\ j \in 1 .. m + 1
      BY <2>1, <1>1
    <3>. QED
      BY <3>1, <1>2, <1>4, <1>5 DEF m
  <2>2. CASE j = m + 1
    <3>1. j \in 1 .. m + 1 /\ 1 \in 1 .. n
      BY <2>2, <1>1
    <3>2. x[j] = b[1]
      BY <2>2, <3>1, <1>2, <1>4
    <3>3. y[m + 1] = b[1]
      BY <3>1, <1>5 DEF m, n
    <3>. QED
      BY <2>2, <3>2, <3>3
  <2>3. CASE j > m + 1
    <3>. DEFINE q == j - m - 1
    <3>1. q \in 1 .. n - 1 /\ (m + 1) + q = j /\ q + 1 \in 1 .. n /\ m + (q + 1) = j
      BY <2>3, <1>1
    <3>. HIDE DEF q
    <3>2. x[(m + 1) + q] = v[q] /\ v[q] = b[q + 1]
      BY <3>1, <1>2, <1>3, <1>4
    <3>3. y[m + (q + 1)] = b[q + 1]
      BY <3>1, <1>5 DEF m, n
    <3>. QED
      BY <3>1, <3>2, <3>3
  <2>. QED
    BY <2>1, <2>2, <2>3, <1>1
<1>8. x = y
  BY <1>6, <1>7
<1>. QED
  BY <1>2, <1>3, <1>8 DEF u, v, x, y

\* The last item of one sequence goes to the front of another.
LEMMA LastMoved ==
  ASSUME NEW S, NEW a \in Seq(S), NEW b \in Seq(S), b # <<>>
  PROVE  /\ <<Last(b)>> \o a \in Seq(S) /\ Front(b) \in Seq(S)
         /\ Len(<<Last(b)>> \o a) = Len(a) + 1 /\ Len(Front(b)) = Len(b) - 1
         /\ Front(b) \o (<<Last(b)>> \o a) = b \o a
<1>. DEFINE n == Len(b)
            m == Len(a)
            o == <<Last(b)>>
            u == o \o a
            v == Front(b)
            x == v \o u
            y == b \o a
<1>1. m \in Nat /\ n \in Nat /\ n >= 1 /\ Last(b) = b[n] /\ Last(b) \in S
  BY Ends
<1>2. o \in Seq(S) /\ Len(o) = 1 /\ o[1] = b[n]
  BY <1>1
<1>. HIDE DEF o
<1>3. /\ u \in Seq(S) /\ Len(u) = Len(o) + Len(a)
      /\ \A j \in 1 .. Len(o) : u[j] = o[j]
      /\ \A j \in 1 .. Len(a) : u[Len(o) + j] = a[j]
  <2>1. o \in Seq(S)
    BY <1>2
  <2>. HIDE DEF m, n, v, x, y
  <2>. QED
    BY <2>1
<1>. HIDE DEF u
<1>4. u \in Seq(S) /\ Len(u) = 1 + m /\ u[1] = b[n] /\ \A j \in 1 .. m : u[1 + j] = a[j]
  BY <1>2, <1>3
<1>5. v \in Seq(S) /\ Len(v) = n - 1 /\ \A j \in 1 .. n - 1 : v[j] = b[j]
  <2>. DEFINE t == n - 1
  <2>1. t \in 0 .. Len(b) /\ t \in 1 - 1 .. Len(b) /\ 1 \in 1 .. Len(b) + 1 /\ t - 1 + 1 = t
    BY <1>1
  <2>2. v = SubSeq(b, 1, t)
    BY DEF Front
  <2>. HIDE DEF t, v, n
  <2>3. /\ v \in Seq(S) /\ Len(v) = t - 1 + 1
        /\ \A j \in 1 .. t - 1 + 1 : v[j] = b[1 + j - 1]
    BY <2>1, <2>2, PartProperties
  <2>4. \A j \in 1 .. t : 1 + j - 1 = j
    BY <2>1
  <2>. QED
    BY <2>1, <2>3, <2>4 DEF t
<1>. HIDE DEF v
<1>6. /\ x \in Seq(S) /\ Len(x) = Len(v) + Len(u)
      /\ \A j \in 1 .. Len(v) : x[j] = v[j]
      /\ \A j \in 1 .. Len(u) : x[Len(v) + j] = u[j]
  <2>1. u \in Seq(S) /\ v \in Seq(S)
    BY <1>4, <1>5
  <2>. HIDE DEF m, n, y
  <2>. QED
    BY <2>1
<1>7. /\ y \in Seq(S) /\ Len(y) = Len(b) + Len(a)
      /\ \A j \in 1 .. Len(b) : y[j] = b[j]
      /\ \A j \in 1 .. Len(a) : y[Len(b) + j] = a[j]
  OBVIOUS
<1>. HIDE DEF x, y
<1>8. Len(x) = n + m /\ Len(y) = n + m /\ x \in Seq(S) /\ y \in Seq(S)
  <2>1. Len(x) = (n - 1) + (1 + m)
    BY <1>4, <1>5, <1>6
  <2>. HIDE DEF m, n
  <2>. QED
    BY <2>1, <1>1, <1>6, <1>7 DEF m, n
<1>9. ASSUME NEW j \in 1 .. n + m PROVE x[j] = y[j]
  <2>. HIDE DEF m, n
  <2>1. CASE j < n
    <3>1. j \in 1 .. n - 1 /\ j \in 1 .. n
      BY <2>1, <1>1
    <3>. QED
      BY <3>1, <1>5, <1>6, <1>7 DEF n
  <2>2. CASE j = n
    <3>1. 1 \in 1 .. 1 + m /\ (n - 1) + 1 = n /\ n \in 1 .. n
      BY <1>1
    <3>2. x[(n - 1) + 1] = u[1]
      BY <3>1, <1>4, <1>5, <1>6
    <3>3. y[n] = b[n]
      BY <3>1, <1>7 DEF n
    <3>. QED
      BY <2>2, <3>1, <3>2, <3>3, <1>4
  <2>3. CASE j > n
    <3>. DEFINE q == j - n
    <3>1. q \in 1 .. m /\ n + q = j /\ 1 + q \in 1 .. 1 + m /\ (n - 1) + (1 + q) = j
      BY <2>3, <1>1
    <3>. HIDE DEF q
    <3>2. x[(n - 1) + (1 + q)] = u[1 + q] /\ u[1 + q] = a[q]
      BY <3>1, <1>4, <1>5, <1>6
    <3>3. y[n + q] = a[q]
      BY <3>1, <1>7 DEF m, n
    <3>. QED
      BY <3>1, <3>2, <3>3
  <2>. QED
    BY <2>1, <2>2, <2>3, <1>1
<1>10. x = y
  BY <1>8, <1>9
<1>. QED
  BY <1>4, <1>5, <1>10 DEF u, v, x, y, o

\* Two keys of a node are replaced at once, and that is one after the other.
TwoKeys(h, n, i, k, j, q) == [h EXCEPT ![n].items[i].key = k, ![n].items[j].key = q]

\* It is one write after the other.
LEMMA TwoKeysWritten ==
  ASSUME NEW E, NEW h \in Seq(BTreeNode(E)), NEW n \in DOMAIN h, NEW i, NEW j, NEW k, NEW q
  PROVE  TwoKeys(h, n, i, k, j, q) = WithNodeKey(WithNodeKey(h, n, i, k), n, j, q)
<1>. DEFINE w == Items(h, n)
            w1 == WithKey(w, i, k)
            h1 == WithItems(h, n, w1)
<1>1. h[n] \in BTreeNode(E)
  BY HeapNode
<1>2. Items(h1, n) = w1
  BY <1>1 DEF WithItems, Items, BTreeNode
<1>3. WithNodeKey(WithNodeKey(h, n, i, k), n, j, q) = WithItems(h1, n, WithKey(w1, j, q))
  BY <1>2 DEF WithNodeKey
<1>4. [h EXCEPT ![n].items[i].key = k, ![n].items[j].key = q]
        = [[h EXCEPT ![n].items = w1] EXCEPT ![n].items = WithKey(w1, j, q)]
  BY <1>1 DEF WithKey, Items, BTreeNode
<1>. QED
  BY <1>3, <1>4 DEF WithItems, TwoKeys

\* Borrow of two neighbouring children, told by their keys which of them is the first.
LEMMA BorrowMoves ==
  ASSUME NEW E, NEW h \in Seq(BTreeNode(E)), NEW P, NEW S, NEW D, NEW n, NEW i,
         StaleAt(h, P, S, D, n, i), NEW j \in 1 .. Len(Items(h, n)), j = i + 1 \/ i = j + 1,
         Size(h, Child(h, n, j)) >= 2
  PROVE  \E u, v \in Seq(Entry(E)) :
           /\ Shared(h, n, i, j, u, v)
           /\ Len(u) = Size(h, Child(h, n, i)) + 1 /\ Len(v) = Size(h, Child(h, n, j)) - 1
           /\ Borrow(h, n, i, j, Child(h, n, i), Child(h, n, j)) = Moved(h, n, i, j, u, v)
<1>. DEFINE c == Child(h, n, i)
            b == Child(h, n, j)
            a == Items(h, c)
            t == Items(h, b)
            H(u, v) == WithItems(WithItems(h, c, u), b, v)
            ok(u, v) == /\ Shared(h, n, i, j, u, v)
                        /\ Len(u) = Size(h, c) + 1 /\ Len(v) = Size(h, b) - 1
                        /\ Borrow(h, n, i, j, c, b) = Moved(h, n, i, j, u, v)
<1>1. /\ S \subseteq DOMAIN h /\ n \in DOMAIN h /\ n \notin S
      /\ c \in S /\ b \in S /\ c # b /\ i \in 1 .. Len(Items(h, n))
      /\ a # <<>> /\ a \in Seq(Entry(E)) /\ t # <<>> /\ t \in Seq(Entry(E))
      /\ Items(h, n)[i].key <= Items(h, n)[j].key <=> i <= j
      /\ Items(h, n) \in Seq(Entry(E))
  BY StaleChildren
<1>. HIDE DEF c, b, a, t, ok
<1>2. i \in Nat /\ j \in Nat /\ Len(a) = Size(h, c) /\ Len(t) = Size(h, b)
      /\ Size(h, c) \in Nat /\ Size(h, b) \in Nat /\ Size(h, b) >= 2
  BY <1>1 DEF Size, Items, a, b, c, t
<1>3. ASSUME NEW u \in Seq(Entry(E)), NEW v \in Seq(Entry(E)),
             Borrow(h, n, i, j, c, b) =
               TwoKeys(H(u, v), n, i, MaxKey(H(u, v), c), j, MaxKey(H(u, v), b))
      PROVE  Borrow(h, n, i, j, c, b) = Moved(h, n, i, j, u, v)
  <2>. DEFINE h0 == WithItems(h, c, u)
              h1 == H(u, v)
  <2>1. h0 \in Seq(BTreeNode(E)) /\ DOMAIN h0 = DOMAIN h
    <3>1. c \in DOMAIN h
      BY <1>1
    <3>. QED
      BY <3>1, ItemsWritten
  <2>. HIDE DEF h0
  <2>2. h1 = WithItems(h0, b, v)
    BY DEF h0
  <2>. HIDE DEF H, h1
  <2>3. h1 \in Seq(BTreeNode(E)) /\ DOMAIN h1 = DOMAIN h0
    <3>1. b \in DOMAIN h0
      BY <1>1, <2>1
    <3>. QED
      BY <3>1, <2>1, <2>2, ItemsWritten
  <2>4. n \in DOMAIN h1
    BY <1>1, <2>1, <2>3
  <2>. DEFINE kc == MaxKey(h1, c)
              kb == MaxKey(h1, b)
  <2>. HIDE DEF kc, kb
  <2>5. TwoKeys(h1, n, i, kc, j, kb) = WithNodeKey(WithNodeKey(h1, n, i, kc), n, j, kb)
    BY <2>3, <2>4, TwoKeysWritten
  <2>6. Moved(h, n, i, j, u, v) = WithNodeKey(WithNodeKey(h1, n, i, kc), n, j, kb)
    BY <2>2 DEF Moved, c, b, h0, kc, kb
  <2>. QED
    BY <1>3, <2>5, <2>6 DEF h1, kc, kb
<1>4. CASE j = i + 1
  <2>. DEFINE u == Append(a, Head(t))
              v == Tail(t)
  <2>1. /\ u \in Seq(Entry(E)) /\ v \in Seq(Entry(E)) /\ Len(u) = Len(a) + 1 /\ Len(v) = Len(t) - 1
        /\ u \o v = a \o t
    BY <1>1, HeadMoved
  <2>2. u # <<>> /\ v # <<>>
    <3>1. Len(u) > 0 /\ Len(v) > 0
      BY <1>2, <2>1
    <3>. HIDE DEF u, v
    <3>. QED
      BY <3>1
  <2>3. Borrow(h, n, i, j, c, b) =
               TwoKeys(H(u, v), n, i, MaxKey(H(u, v), c), j, MaxKey(H(u, v), b))
    <3>1. Items(h, n)[i].key <= Items(h, n)[j].key
      BY <1>1, <1>2, <1>4
    <3>2. [h EXCEPT ![c].items = Append(Items(h, c), Head(Items(h, b))), ![b].items = Tail(Items(h, b))]
            = H(u, v)
      BY DEF WithItems, a, t
    <3>. HIDE DEF H
    <3>. QED
      BY Zenon, <3>1, <3>2 DEF Borrow, TwoKeys
  <2>4. Shared(h, n, i, j, u, v)
    BY <2>1, <2>2, <1>4 DEF Shared, a, t, c, b
  <2>. HIDE DEF u, v, H
  <2>5. ok(u, v)
    BY <2>1, <2>3, <2>4, <1>2, <1>3 DEF ok
  <2>. QED
    BY <2>1, <2>5 DEF ok, c, b
<1>5. CASE i = j + 1
  <2>. DEFINE u == <<Last(t)>> \o a
              v == Front(t)
  <2>1. /\ u \in Seq(Entry(E)) /\ v \in Seq(Entry(E)) /\ Len(u) = Len(a) + 1 /\ Len(v) = Len(t) - 1
        /\ v \o u = t \o a
    BY <1>1, LastMoved
  <2>2. u # <<>> /\ v # <<>>
    <3>1. Len(u) > 0 /\ Len(v) > 0
      <4>. HIDE DEF u, v
      <4>. QED
        BY <1>2, <2>1
    <3>. HIDE DEF u, v
    <3>. QED
      BY <3>1
  <2>3. Borrow(h, n, i, j, c, b) =
               TwoKeys(H(u, v), n, i, MaxKey(H(u, v), c), j, MaxKey(H(u, v), b))
    <3>1. ~(Items(h, n)[i].key <= Items(h, n)[j].key)
      BY <1>1, <1>2, <1>5
    <3>2. [h EXCEPT ![c].items = <<Last(Items(h, b))>> \o Items(h, c), ![b].items = Front(Items(h, b))]
            = H(u, v)
      BY DEF WithItems, a, t
    <3>. HIDE DEF H
    <3>. QED
      BY Zenon, <3>1, <3>2 DEF Borrow, TwoKeys
  <2>4. Shared(h, n, i, j, u, v)
    BY <2>1, <2>2, <1>5 DEF Shared, a, t, c, b
  <2>. HIDE DEF u, v, H
  <2>5. ok(u, v)
    BY <2>1, <2>3, <2>4, <1>2, <1>3 DEF ok
  <2>. QED
    BY <2>1, <2>5 DEF ok, c, b
<1>. QED
  BY <1>4, <1>5

\* Borrowing repairs the level: after a child has lost an item, one item of its rich neighbour
\* makes it whole again, the keys of both are right in node n, all levels stay linked and in
\* order, no record is lost or doubled and no other node is written (borrowFromRightSibling,
\* borrowFromLeftSibling and the two setKey of takeFromSibling).
THEOREM BorrowRepairs ==
  ASSUME NEW E, NEW h \in Seq(BTreeNode(E)), NEW P, NEW S, NEW D, NEW n, NEW i,
         StaleAt(h, P, S, D, n, i), NEW j \in 1 .. Len(Items(h, n)), j = i + 1 \/ i = j + 1,
         Size(h, Child(h, n, j)) > MinLoad
  PROVE  LET c == Child(h, n, i)
             b == Child(h, n, j)
             g == Borrow(h, n, i, j, c, b)
         IN /\ g \in Seq(BTreeNode(E)) /\ Levels(g, P, S, D) /\ Held(g, S) = Held(h, S)
            /\ Size(g, c) = Size(h, c) + 1 /\ Size(g, b) = Size(h, b) - 1
            /\ \A x \in S : x # c /\ x # b => Items(g, x) = Items(h, x)
            /\ Len(Items(g, n)) = Len(Items(h, n)) /\ OutsideSame(h, g, S, n)
<1>. DEFINE c == Child(h, n, i)
            b == Child(h, n, j)
            g == Borrow(h, n, i, j, c, b)
<1>1. Size(h, b) >= 2
  <2>1. Items(h, b) \in Seq(Entry(E))
    BY StaleChildren
  <2>2. Size(h, b) \in Nat
    BY <2>1 DEF Size, Items
  <2>3. Size(h, b) > MinLoad
    OBVIOUS
  <2>. HIDE DEF b
  <2>. QED
    BY <2>2, <2>3, LoadAssumption DEF MinLoad
<1>2. PICK u \in Seq(Entry(E)), v \in Seq(Entry(E)) :
        /\ Shared(h, n, i, j, u, v)
        /\ Len(u) = Size(h, c) + 1 /\ Len(v) = Size(h, b) - 1
        /\ g = Moved(h, n, i, j, u, v)
  BY <1>1, BorrowMoves
<1>3. g = Moved(h, n, i, j, u, v) /\ Shared(h, n, i, j, u, v)
  BY <1>2
<1>. HIDE DEF g
<1>4. /\ g \in Seq(BTreeNode(E)) /\ OutsideSame(h, g, S, n)
      /\ HoldTheirs(h, g, S, c, b, u, v)
      /\ Len(Items(g, n)) = Len(Items(h, n))
      /\ Levels(g, P, S, D) /\ Held(g, S) = Held(h, S)
  BY <1>3, MovedKeepsLevels
<1>. HIDE DEF c, b
<1>5. Size(g, c) = Size(h, c) + 1 /\ Size(g, b) = Size(h, b) - 1
  BY <1>2, <1>4 DEF HoldTheirs, Size, Items
<1>. QED
  BY <1>4, <1>5 DEF HoldTheirs, c, b, g

\* Nodes l and r of list S are neighbours in it, and it does not come back to them.
NeighboursIn(h, S, l, r) ==
  /\ S \subseteq DOMAIN h /\ None \notin S /\ l \in S /\ r \in S /\ Adjacent(h, l, r)
  /\ l # r /\ h[l].left # r /\ h[r].right # l /\ h[l].left # l /\ h[r].right # r
  /\ \A x \in S : /\ h[x].left # None => h[x].left \in S /\ h[h[x].left].right = x
                  /\ h[x].right # None => h[x].right \in S /\ h[h[x].right].left = x

\* Of the neighbours l and r only c is left in list S, with items w; no node outside S is written.
Unlinked(h, g, S, l, r, c, w) ==
  /\ DOMAIN g = DOMAIN h
  /\ Items(g, c) = w /\ g[c].left = h[l].left /\ g[c].right = h[r].right
  /\ \A x \in S : g[x].leaf = h[x].leaf
  /\ \A x \in S \ {l, r} : /\ Items(g, x) = Items(h, x)
                           /\ g[x].left = (IF h[x].left = r THEN c ELSE h[x].left)
                           /\ g[x].right = (IF h[x].right = l THEN c ELSE h[x].right)
  /\ \A x \in DOMAIN h : x \notin S => g[x] = h[x]

\* Node c gets another neighbour, who gets c.
RelinkedRight(h, c, r) ==
  IF r = None THEN WithRight(h, c, r) ELSE WithLeft(WithRight(h, c, r), r, c)
\* The same on the other side.
RelinkedLeft(h, c, l) ==
  IF l = None THEN WithLeft(h, c, l) ELSE WithRight(WithLeft(h, c, l), l, c)

\* A node of a list gets another neighbour on the right.
RightTaken(h, g, c, d) ==
  /\ DOMAIN g = DOMAIN h
  /\ g[c].right = d /\ g[c].left = h[c].left
  /\ d # None => g[d].left = c /\ g[d].right = h[d].right
  /\ \A x \in DOMAIN h : /\ Items(g, x) = Items(h, x) /\ g[x].leaf = h[x].leaf
                         /\ x # c /\ x # d => g[x] = h[x]

\* RelinkedRight does that.
LEMMA RelinkRight ==
  ASSUME NEW E, NEW h \in Seq(BTreeNode(E)), NEW c \in DOMAIN h, NEW d \in DOMAIN h \cup {None},
         d # c, NEW g, g = RelinkedRight(h, c, d)
  PROVE  g \in Seq(BTreeNode(E)) /\ RightTaken(h, g, c, d)
<1>1. /\ c \in Nat /\ c # None /\ h[c].left \in Nat /\ h[c].right \in Nat
      /\ d \in Nat
      /\ d # None => d \in DOMAIN h /\ h[d].left \in Nat /\ h[d].right \in Nat
  BY HeapNode DEF None
<1>. DEFINE h1 == WithRight(h, c, d)
<1>2. h1 = WithRight(h, c, d)
  OBVIOUS
<1>. HIDE DEF h1
<1>3. /\ h1 \in Seq(BTreeNode(E)) /\ DOMAIN h1 = DOMAIN h
      /\ h1[c].left = h[c].left /\ h1[c].right = d
      /\ Items(h1, c) = Items(h, c) /\ h1[c].leaf = h[c].leaf
      /\ \A x \in DOMAIN h : x # c => h1[x] = h[x]
  BY <1>2, <1>1, LinksWritten
<1>4. CASE d = None
  BY <1>3, <1>4 DEF RelinkedRight, h1, Items, RightTaken
<1>5. CASE d # None
  <2>1. g = WithLeft(h1, d, c)
    BY <1>5 DEF RelinkedRight, h1
  <2>2. d \in DOMAIN h1 /\ h1[d] = h[d]
    BY <1>3, <1>5, <1>1
  <2>3. /\ g \in Seq(BTreeNode(E)) /\ DOMAIN g = DOMAIN h1
        /\ g[d].left = c /\ g[d].right = h1[d].right
        /\ Items(g, d) = Items(h1, d) /\ g[d].leaf = h1[d].leaf
        /\ \A x \in DOMAIN h1 : x # d => g[x] = h1[x]
    BY <1>3, <1>5, <2>1, <2>2, <1>1, LinksWritten
  <2>. QED
    BY <1>3, <2>2, <2>3, <1>5 DEF Items, RightTaken
<1>. QED
  BY <1>4, <1>5

\* A node of a list gets another neighbour on the left.
LeftTaken(h, g, c, d) ==
  /\ DOMAIN g = DOMAIN h
  /\ g[c].left = d /\ g[c].right = h[c].right
  /\ d # None => g[d].right = c /\ g[d].left = h[d].left
  /\ \A x \in DOMAIN h : /\ Items(g, x) = Items(h, x) /\ g[x].leaf = h[x].leaf
                         /\ x # c /\ x # d => g[x] = h[x]

\* RelinkedLeft does that.
LEMMA RelinkLeft ==
  ASSUME NEW E, NEW h \in Seq(BTreeNode(E)), NEW c \in DOMAIN h, NEW d \in DOMAIN h \cup {None},
         d # c, NEW g, g = RelinkedLeft(h, c, d)
  PROVE  g \in Seq(BTreeNode(E)) /\ LeftTaken(h, g, c, d)
<1>1. /\ c \in Nat /\ c # None /\ h[c].left \in Nat /\ h[c].right \in Nat
      /\ d \in Nat
      /\ d # None => d \in DOMAIN h /\ h[d].left \in Nat /\ h[d].right \in Nat
  BY HeapNode DEF None
<1>. DEFINE h1 == WithLeft(h, c, d)
<1>2. h1 = WithLeft(h, c, d)
  OBVIOUS
<1>. HIDE DEF h1
<1>3. /\ h1 \in Seq(BTreeNode(E)) /\ DOMAIN h1 = DOMAIN h
      /\ h1[c].left = d /\ h1[c].right = h[c].right
      /\ Items(h1, c) = Items(h, c) /\ h1[c].leaf = h[c].leaf
      /\ \A x \in DOMAIN h : x # c => h1[x] = h[x]
  BY <1>2, <1>1, LinksWritten
<1>4. CASE d = None
  BY <1>3, <1>4 DEF RelinkedLeft, h1, Items, LeftTaken
<1>5. CASE d # None
  <2>1. g = WithRight(h1, d, c)
    BY <1>5 DEF RelinkedLeft, h1
  <2>2. d \in DOMAIN h1 /\ h1[d] = h[d]
    BY <1>3, <1>5, <1>1
  <2>3. /\ g \in Seq(BTreeNode(E)) /\ DOMAIN g = DOMAIN h1
        /\ g[d].right = c /\ g[d].left = h1[d].left
        /\ Items(g, d) = Items(h1, d) /\ g[d].leaf = h1[d].leaf
        /\ \A x \in DOMAIN h1 : x # d => g[x] = h1[x]
    BY <1>3, <1>5, <2>1, <2>2, <1>1, LinksWritten
  <2>. QED
    BY <1>3, <2>2, <2>3, <1>5 DEF Items, LeftTaken
<1>. QED
  BY <1>4, <1>5

\* The second of two neighbours leaves the list, the first gets other items.
LEMMA RightUnlinked ==
  ASSUME NEW E, NEW h \in Seq(BTreeNode(E)), NEW S, NEW c, NEW b, NeighboursIn(h, S, c, b),
         NEW w \in Seq(Entry(E)), NEW h1, h1 = WithItems(h, c, w),
         NEW g, g = RelinkedRight(h1, c, h1[b].right)
  PROVE  g \in Seq(BTreeNode(E)) /\ Unlinked(h, g, S, c, b, c, w)
<1>1. /\ S \subseteq DOMAIN h /\ None \notin S /\ c \in S /\ b \in S
      /\ h[c].right = b /\ h[b].left = c
      /\ c # b /\ h[b].right # c /\ h[b].right # b
      /\ \A x \in S : /\ h[x].left # None => h[x].left \in S /\ h[h[x].left].right = x
                      /\ h[x].right # None => h[x].right \in S /\ h[h[x].right].left = x
  BY DEF NeighboursIn, Adjacent
<1>2. /\ h1 \in Seq(BTreeNode(E)) /\ DOMAIN h1 = DOMAIN h
      /\ Items(h1, c) = w
      /\ h1[c].left = h[c].left /\ h1[c].right = h[c].right /\ h1[c].leaf = h[c].leaf
      /\ \A x \in DOMAIN h : x # c => h1[x] = h[x]
  <2>1. c \in DOMAIN h
    BY <1>1
  <2>. QED
    BY <2>1, ItemsWritten
<1>. DEFINE d == h1[b].right
<1>3. d = h[b].right /\ d \in DOMAIN h1 \cup {None} /\ d # c /\ c \in DOMAIN h1
  BY <1>1, <1>2
<1>4. g = RelinkedRight(h1, c, d)
  OBVIOUS
<1>. HIDE DEF d
<1>5. /\ g \in Seq(BTreeNode(E)) /\ DOMAIN g = DOMAIN h1
      /\ g[c].right = d /\ g[c].left = h1[c].left
      /\ d # None => g[d].left = c /\ g[d].right = h1[d].right
      /\ \A x \in DOMAIN h1 : /\ Items(g, x) = Items(h1, x) /\ g[x].leaf = h1[x].leaf
                              /\ x # c /\ x # d => g[x] = h1[x]
  <2>1. h1 \in Seq(BTreeNode(E)) /\ c \in DOMAIN h1 /\ d \in DOMAIN h1 \cup {None} /\ d # c
    BY <1>2, <1>3
  <2>2. g \in Seq(BTreeNode(E)) /\ RightTaken(h1, g, c, d)
    BY <2>1, <1>4, RelinkRight
  <2>. QED
    BY <2>2 DEF RightTaken
<1>6. \A x \in S \ {c, b} : x = d <=> h[x].left = b
  <2>1. ASSUME NEW x \in S, x = d PROVE h[x].left = b
    BY <2>1, <1>1, <1>3
  <2>2. ASSUME NEW x \in S, h[x].left = b PROVE x = d
    BY <2>2, <1>1, <1>3
  <2>. QED
    BY <2>1, <2>2
<1>7. \A x \in S \ {c, b} : /\ Items(g, x) = Items(h, x)
                            /\ g[x].left = (IF h[x].left = b THEN c ELSE h[x].left)
                            /\ g[x].right = (IF h[x].right = c THEN c ELSE h[x].right)
  <2>. SUFFICES ASSUME NEW x \in S, x # c, x # b
                PROVE  /\ Items(g, x) = Items(h, x)
                       /\ g[x].left = (IF h[x].left = b THEN c ELSE h[x].left)
                       /\ g[x].right = h[x].right
    OBVIOUS
  <2>1. x \in DOMAIN h /\ h1[x] = h[x] /\ Items(h1, x) = Items(h, x) /\ (x = d <=> h[x].left = b)
    BY <1>1, <1>2, <1>6 DEF Items
  <2>2. CASE x = d
    BY <2>1, <2>2, <1>1, <1>2, <1>5
  <2>3. CASE x # d
    BY <2>1, <2>3, <1>2, <1>5
  <2>. QED
    BY <2>2, <2>3
<1>8. \A x \in DOMAIN h : x \notin S => g[x] = h[x]
  <2>1. d = None \/ d \in S
    BY <1>1, <1>3
  <2>2. None \notin DOMAIN h
    BY HeapNode
  <2>. QED
    BY <2>1, <2>2, <1>1, <1>2, <1>5
<1>9. \A x \in S : g[x].leaf = h[x].leaf
  BY <1>1, <1>2, <1>5
<1>10. Items(g, c) = w /\ g[c].left = h[c].left /\ g[c].right = h[b].right /\ DOMAIN g = DOMAIN h
  BY <1>1, <1>2, <1>3, <1>5
<1>. QED
  BY <1>5, <1>7, <1>8, <1>9, <1>10 DEF Unlinked

\* The first of two neighbours leaves the list, both with other items.
LEMMA LeftUnlinked ==
  ASSUME NEW E, NEW h \in Seq(BTreeNode(E)), NEW S, NEW c, NEW b, NeighboursIn(h, S, b, c),
         NEW w \in Seq(Entry(E)), NEW v \in Seq(Entry(E)),
         NEW h0, h0 = WithItems(h, c, w), NEW h1, h1 = WithItems(h0, b, v),
         NEW g, g = RelinkedLeft(h1, c, h1[b].left)
  PROVE  g \in Seq(BTreeNode(E)) /\ Unlinked(h, g, S, b, c, c, w)
<1>1. /\ S \subseteq DOMAIN h /\ None \notin S /\ c \in S /\ b \in S
      /\ h[c].left = b /\ h[b].right = c
      /\ c # b /\ h[b].left # c /\ h[b].left # b
      /\ \A x \in S : /\ h[x].left # None => h[x].left \in S /\ h[h[x].left].right = x
                      /\ h[x].right # None => h[x].right \in S /\ h[h[x].right].left = x
  BY DEF NeighboursIn, Adjacent
<1>2. /\ h0 \in Seq(BTreeNode(E)) /\ DOMAIN h0 = DOMAIN h
      /\ Items(h0, c) = w
      /\ h0[c].left = h[c].left /\ h0[c].right = h[c].right /\ h0[c].leaf = h[c].leaf
      /\ \A x \in DOMAIN h : x # c => h0[x] = h[x]
  <2>1. c \in DOMAIN h
    BY <1>1
  <2>. QED
    BY <2>1, ItemsWritten
<1>3. /\ h1 \in Seq(BTreeNode(E)) /\ DOMAIN h1 = DOMAIN h0
      /\ h1[b].left = h0[b].left /\ h1[b].right = h0[b].right /\ h1[b].leaf = h0[b].leaf
      /\ \A x \in DOMAIN h0 : x # b => h1[x] = h0[x]
  <2>1. b \in DOMAIN h0
    BY <1>1, <1>2
  <2>2. h0 \in Seq(BTreeNode(E))
    BY <1>2
  <2>. QED
    BY <2>1, <2>2, ItemsWritten
<1>4. /\ DOMAIN h1 = DOMAIN h /\ Items(h1, c) = w
      /\ h1[b].left = h[b].left /\ h1[b].leaf = h[b].leaf
      /\ h1[c].left = h[c].left /\ h1[c].right = h[c].right /\ h1[c].leaf = h[c].leaf
      /\ \A x \in DOMAIN h : x # c /\ x # b => h1[x] = h[x]
  BY <1>1, <1>2, <1>3 DEF Items
<1>. DEFINE d == h1[b].left
<1>5. d = h[b].left /\ d \in DOMAIN h1 \cup {None} /\ d # c /\ c \in DOMAIN h1
  BY <1>1, <1>4
<1>6. g = RelinkedLeft(h1, c, d)
  OBVIOUS
<1>. HIDE DEF d
<1>7. /\ g \in Seq(BTreeNode(E)) /\ DOMAIN g = DOMAIN h1
      /\ g[c].left = d /\ g[c].right = h1[c].right
      /\ d # None => g[d].right = c /\ g[d].left = h1[d].left
      /\ \A x \in DOMAIN h1 : /\ Items(g, x) = Items(h1, x) /\ g[x].leaf = h1[x].leaf
                              /\ x # c /\ x # d => g[x] = h1[x]
  <2>1. h1 \in Seq(BTreeNode(E)) /\ c \in DOMAIN h1 /\ d \in DOMAIN h1 \cup {None} /\ d # c
    BY <1>3, <1>5
  <2>2. g \in Seq(BTreeNode(E)) /\ LeftTaken(h1, g, c, d)
    BY <2>1, <1>6, RelinkLeft
  <2>. QED
    BY <2>2 DEF LeftTaken
<1>8. \A x \in S \ {b, c} : x = d <=> h[x].right = b
  <2>1. ASSUME NEW x \in S, x = d PROVE h[x].right = b
    BY <2>1, <1>1, <1>5
  <2>2. ASSUME NEW x \in S, h[x].right = b PROVE x = d
    BY <2>2, <1>1, <1>5
  <2>. QED
    BY <2>1, <2>2
<1>9. \A x \in S \ {b, c} : /\ Items(g, x) = Items(h, x)
                            /\ g[x].left = (IF h[x].left = c THEN c ELSE h[x].left)
                            /\ g[x].right = (IF h[x].right = b THEN c ELSE h[x].right)
  <2>. SUFFICES ASSUME NEW x \in S, x # c, x # b
                PROVE  /\ Items(g, x) = Items(h, x)
                       /\ g[x].left = h[x].left
                       /\ g[x].right = (IF h[x].right = b THEN c ELSE h[x].right)
    OBVIOUS
  <2>1. x \in DOMAIN h /\ h1[x] = h[x] /\ Items(h1, x) = Items(h, x) /\ (x = d <=> h[x].right = b)
    BY <1>1, <1>4, <1>8 DEF Items
  <2>2. CASE x = d
    BY <2>1, <2>2, <1>1, <1>4, <1>7
  <2>3. CASE x # d
    BY <2>1, <2>3, <1>4, <1>7
  <2>. QED
    BY <2>2, <2>3
<1>10. \A x \in DOMAIN h : x \notin S => g[x] = h[x]
  <2>1. d = None \/ d \in S
    BY <1>1, <1>5
  <2>2. None \notin DOMAIN h
    BY HeapNode
  <2>. QED
    BY <2>1, <2>2, <1>1, <1>4, <1>7
<1>11. \A x \in S : g[x].leaf = h[x].leaf
  <2>1. \A x \in DOMAIN h : h1[x].leaf = h[x].leaf
    BY <1>4
  <2>. QED
    BY <2>1, <1>1, <1>4, <1>7
<1>12. Items(g, c) = w /\ g[c].right = h[c].right /\ g[c].left = h[b].left /\ DOMAIN g = DOMAIN h
  BY <1>1, <1>4, <1>5, <1>7
<1>. QED
  BY <1>7, <1>9, <1>10, <1>11, <1>12 DEF Unlinked

\* Of two items that stand side by side one is left, with another key.
OneLeft(w, v, p, d, k) ==
  /\ Len(v) = Len(w) - 1 /\ v[p].data = d /\ v[p].key = k
  /\ \A q \in 1 .. p - 1 : v[q] = w[q]
  /\ \A q \in p + 1 .. Len(w) - 1 : v[q] = w[q + 1]

\* Places p and p + 1 are i and j, one way or the other.
SideBySide(i, j, p) == (p = i /\ j = i + 1) \/ (p = j /\ i = j + 1)

\* The items of a node when one of two children side by side has lost its name.
LEMMA ItemsMerged ==
  ASSUME NEW E, NEW w \in Seq(Entry(E)), NEW i \in 1 .. Len(w), NEW j \in 1 .. Len(w), NEW p,
         SideBySide(i, j, p), NEW k \in Nat, NEW v, v = RemoveAt(WithKey(w, i, k), j)
  PROVE  v \in Seq(Entry(E)) /\ OneLeft(w, v, p, w[i].data, k)
<1>. DEFINE u == WithKey(w, i, k)
<1>1. /\ u \in Seq(Entry(E)) /\ Len(u) = Len(w)
      /\ u[i].key = k /\ u[i].data = w[i].data
      /\ \A q \in 1 .. Len(w) : u[q].data = w[q].data /\ (q # i => u[q] = w[q])
  BY KeyWritten
<1>2. v = RemoveAt(u, j)
  OBVIOUS
<1>. HIDE DEF u
<1>3. /\ v \in Seq(Entry(E)) /\ Len(v) = Len(u) - 1
      /\ \A q \in 1 .. j - 1 : v[q] = u[q]
      /\ \A q \in j .. Len(u) - 1 : v[q] = u[q + 1]
  <2>1. u \in Seq(Entry(E)) /\ j \in 1 .. Len(u)
    BY <1>1
  <2>. QED
    BY <2>1, <1>2, RemoveAtProperties
<1>4. Len(w) \in Nat /\ i \in Nat /\ j \in Nat
  OBVIOUS
<1>. DEFINE n == Len(w)
<1>5. /\ Len(v) = n - 1 /\ n \in Nat /\ i \in 1 .. n /\ j \in 1 .. n
      /\ \A q \in 1 .. n : q # i => u[q] = w[q]
      /\ \A q \in 1 .. j - 1 : v[q] = u[q]
      /\ \A q \in j .. n - 1 : v[q] = u[q + 1]
  BY <1>1, <1>3
<1>. HIDE DEF n
<1>6. v[p] = u[i]
  <2>1. CASE p = i /\ j = i + 1
    <3>1. i \in 1 .. j - 1
      BY <2>1, <1>5
    <3>. QED
      BY <2>1, <3>1, <1>5
  <2>2. CASE p = j /\ i = j + 1
    <3>1. j \in j .. n - 1
      BY <2>2, <1>5
    <3>. QED
      BY <2>2, <3>1, <1>5
  <2>. QED
    BY <2>1, <2>2 DEF SideBySide
<1>7. ASSUME NEW q \in 1 .. p - 1 PROVE v[q] = w[q]
  <2>1. q \in 1 .. j - 1 /\ q \in 1 .. n /\ q # i
    BY <1>5 DEF SideBySide
  <2>. QED
    BY <2>1, <1>5
<1>8. ASSUME NEW q \in p + 1 .. n - 1 PROVE v[q] = w[q + 1]
  <2>1. q \in j .. n - 1 /\ q + 1 \in 1 .. n /\ q + 1 # i
    BY <1>5 DEF SideBySide
  <2>. QED
    BY <2>1, <1>5
<1>. QED
  BY <1>1, <1>3, <1>5, <1>6, <1>7, <1>8 DEF OneLeft, n

\* Neighbouring children of such a node are neighbours in their list.
LEMMA StaleNeighbours ==
  ASSUME NEW E, NEW h \in Seq(BTreeNode(E)), NEW P, NEW S, NEW D, NEW n, NEW i,
         StaleAt(h, P, S, D, n, i), NEW p \in 1 .. Len(Items(h, n)) - 1
  PROVE  NeighboursIn(h, S, Child(h, n, p), Child(h, n, p + 1))
<1>. DEFINE f == Corrected(h, n, i)
            w == Items(h, n)
            l == Child(h, n, p)
            r == Child(h, n, p + 1)
<1>1. /\ S \subseteq DOMAIN h /\ n \in P /\ P \cap S = {} /\ w \in Seq(Entry(E))
      /\ \A x \in DOMAIN h : x # n => f[x] = h[x]
      /\ \A j \in 1 .. Len(w) : Child(h, n, j) \in S
      /\ \A j \in 2 .. Len(w) : Adjacent(h, Child(h, n, j - 1), Child(h, n, j))
  BY StaleChildren
<1>2. f \in Seq(BTreeNode(E)) /\ Levels(f, P, S, D)
  BY StaleFacts
<1>. HIDE DEF f
<1>3. p \in 1 .. Len(w) /\ p + 1 \in 1 .. Len(w) /\ p + 1 \in 2 .. Len(w) /\ (p + 1) - 1 = p
  BY <1>1
<1>4. l \in S /\ r \in S /\ Adjacent(h, l, r)
  BY <1>1, <1>3
<1>. HIDE DEF w, l, r
<1>5. Row(f, S, D)
  BY <1>2 DEF Levels
<1>6. \A x \in S : f[x] = h[x]
  BY <1>1
<1>7. Adjacent(f, l, r)
  BY <1>4, <1>6 DEF Adjacent
<1>8. /\ l # r /\ f[l].left # r /\ f[r].right # l /\ f[l].left # l /\ f[r].right # r
  BY <1>2, <1>4, <1>5, <1>7, NoCycle
<1>9. /\ None \notin S
      /\ \A x \in S : /\ f[x].left # None => f[x].left \in S /\ f[f[x].left].right = x
                      /\ f[x].right # None => f[x].right \in S /\ f[f[x].right].left = x
  BY <1>2, <1>5, RowLinks
<1>10. \A x \in S : /\ h[x].left # None => h[x].left \in S /\ h[h[x].left].right = x
                    /\ h[x].right # None => h[x].right \in S /\ h[h[x].right].left = x
  BY <1>6, <1>9
<1>. QED
  BY <1>1, <1>4, <1>6, <1>8, <1>9, <1>10 DEF NeighboursIn, l, r

\* The items of two nodes, one after the other.
BothItems(h, l, r) == Items(h, l) \o Items(h, r)

\* Node n of heap h names only child i of the children i and j, with its key in h.
NameDropped(h, n, i, j, c) ==
  WithItems(h, n, RemoveAt(WithKey(Items(h, n), i, MaxKey(h, c)), j))

\* What is left as it is where children i and j of node n become one.
MergeKeeps(h, g, S, n, c, b) ==
  /\ DOMAIN g = DOMAIN h /\ KindsSame(h, g, n)
  /\ Size(g, c) = Size(h, c) + Size(h, b) /\ Size(g, n) = Size(h, n) - 1
  /\ \A x \in S : x # c /\ x # b => Items(g, x) = Items(h, x)
  /\ \A x \in DOMAIN h : x \notin S \cup {n} => g[x] = h[x]

\* When child j has left the list and node n its name, both levels are right again.
LEMMA JoinedByMerge ==
  ASSUME NEW E, NEW h \in Seq(BTreeNode(E)), NEW P, NEW S, NEW D, NEW n, NEW i,
         StaleAt(h, P, S, D, n, i), NEW j \in 1 .. Len(Items(h, n)),
         NEW p \in 1 .. Len(Items(h, n)) - 1, SideBySide(i, j, p),
         NEW h2 \in Seq(BTreeNode(E)),
         NEW w, w = BothItems(h, Child(h, n, p), Child(h, n, p + 1)),
         Unlinked(h, h2, S, Child(h, n, p), Child(h, n, p + 1), Child(h, n, i), w),
         NEW g, g = NameDropped(h2, n, i, j, Child(h, n, i)),
         NEW T, T = S \ {Child(h, n, j)}
  PROVE  /\ g \in Seq(BTreeNode(E)) /\ MergeKeeps(h, g, S, n, Child(h, n, i), Child(h, n, j))
         /\ Levels(g, P, T, D) /\ Held(g, T) = Held(h, S)
<1>. DEFINE c == Child(h, n, i)
            b == Child(h, n, j)
            l == Child(h, n, p)
            r == Child(h, n, p + 1)
            f == Corrected(h, n, i)
            z == Items(h, n)
            k == MaxKey(h2, c)
            v == RemoveAt(WithKey(z, i, k), j)
<1>1. /\ P \subseteq DOMAIN h /\ S \subseteq DOMAIN h /\ D \subseteq DOMAIN h /\ n \in P
      /\ P \cap S = {} /\ S \cap D = {} /\ P \cap D = {}
      /\ \A x \in DOMAIN h : x # n => f[x] = h[x]
      /\ z \in Seq(Entry(E)) /\ i \in 1 .. Len(z)
      /\ \A q \in 1 .. Len(z) :
              /\ Child(h, n, q) \in S /\ Child(f, n, q) = Child(h, n, q)
              /\ Items(h, Child(h, n, q)) # <<>>
              /\ Items(h, Child(h, n, q)) \in Seq(Entry(E))
              /\ \A q2 \in 1 .. Len(z) : q # q2 => Child(h, n, q) # Child(h, n, q2)
  <2>. HIDE DEF k, v, c, b, l, r
  <2>1. /\ P \subseteq DOMAIN h /\ S \subseteq DOMAIN h /\ D \subseteq DOMAIN h /\ n \in P
        /\ P \cap S = {} /\ S \cap D = {} /\ P \cap D = {}
    BY StaleChildren
  <2>2. \A x \in DOMAIN h : x # n => f[x] = h[x]
    BY StaleChildren
  <2>3. z \in Seq(Entry(E)) /\ i \in 1 .. Len(z)
    BY StaleChildren
  <2>4. \A q \in 1 .. Len(z) :
              /\ Child(h, n, q) \in S /\ Child(f, n, q) = Child(h, n, q)
              /\ Items(h, Child(h, n, q)) # <<>>
    BY StaleChildren
  <2>5. \A q \in 1 .. Len(z) :
              Items(h, Child(h, n, q)) \in Seq(Entry(E))
    BY StaleChildren
  <2>6. \A q \in 1 .. Len(z) :
              \A q2 \in 1 .. Len(z) : q # q2 => Child(h, n, q) # Child(h, n, q2)
    BY StaleChildren
  <2>. QED
    BY <2>1, <2>2, <2>3, <2>4, <2>5, <2>6
<1>2. /\ Levels(f, P, S, D) /\ f \in Seq(BTreeNode(E)) /\ DifferInKey(h, f, n, i, MaxKey(h, c))
  BY StaleFacts
<1>3. c = z[i].data
  BY DEF Child
<1>4. /\ l \in {b, c} /\ r \in {b, c} /\ l # r /\ {l, r} = {b, c} /\ c # b
      /\ l \in S /\ r \in S /\ n # l /\ n # r /\ n \notin S
      /\ Items(h, l) # <<>> /\ Items(h, r) # <<>>
      /\ Items(h, l) \in Seq(Entry(E)) /\ Items(h, r) \in Seq(Entry(E))
  <2>1. p \in 1 .. Len(z) /\ p + 1 \in 1 .. Len(z) /\ i # j
    BY <1>1 DEF SideBySide
  <2>. QED
    BY <2>1, <1>1 DEF SideBySide
<1>. HIDE DEF f, c, b, l, r, z, k, v
<1>5. /\ DOMAIN h2 = DOMAIN h
      /\ Items(h2, c) = w /\ h2[c].left = h[l].left /\ h2[c].right = h[r].right
      /\ \A x \in S : h2[x].leaf = h[x].leaf
      /\ \A x \in S \ {l, r} : /\ Items(h2, x) = Items(h, x)
                               /\ h2[x].left = (IF h[x].left = r THEN c ELSE h[x].left)
                               /\ h2[x].right = (IF h[x].right = l THEN c ELSE h[x].right)
      /\ \A x \in DOMAIN h : x \notin S => h2[x] = h[x]
  BY DEF Unlinked, c, l, r
<1>6. k \in Nat
  <2>1. c \in DOMAIN h2
    BY <1>1, <1>4, <1>5
  <2>2. w # <<>>
    <3>1. Items(h, l) \o Items(h, r) # <<>>
      BY <1>4, JoinedEnds
    <3>. QED
      BY <3>1 DEF l, r, BothItems
  <2>3. Items(h2, c) # <<>>
    BY <2>2, <1>5
  <2>. QED
    BY <2>1, <2>3, MaxKeyIsNat DEF k
<1>7. v \in Seq(Entry(E)) /\ OneLeft(z, v, p, c, k)
  <2>1. i \in 1 .. Len(z) /\ j \in 1 .. Len(z) /\ z \in Seq(Entry(E))
    BY <1>1 DEF z
  <2>. QED
    BY <2>1, <1>3, <1>6, ItemsMerged DEF v
<1>8. h2[n] = h[n] /\ Items(h2, n) = z /\ n \in DOMAIN h2 /\ n \in DOMAIN h
  BY <1>1, <1>4, <1>5 DEF Items, z
<1>9. g = WithItems(h2, n, v)
  BY <1>8 DEF NameDropped, v, k, c
<1>10. /\ g \in Seq(BTreeNode(E)) /\ DOMAIN g = DOMAIN h2
       /\ Items(g, n) = v
       /\ g[n].left = h2[n].left /\ g[n].right = h2[n].right /\ g[n].leaf = h2[n].leaf
       /\ \A x \in DOMAIN h2 : x # n => g[x] = h2[x]
  <2>1. n \in DOMAIN h2 /\ v \in Seq(Entry(E))
    BY <1>7, <1>8
  <2>. QED
    BY <2>1, <1>9, ItemsWritten
<1>11. /\ DOMAIN f = DOMAIN h
       /\ f[n].left = h[n].left /\ f[n].right = h[n].right /\ f[n].leaf = h[n].leaf
       /\ \A x \in DOMAIN h : x # n => f[x] = h[x]
       /\ Len(Items(f, n)) = Len(z)
       /\ \A q \in 1 .. Len(z) : Child(f, n, q) = Child(h, n, q) /\ (q # i => Items(f, n)[q] = z[q])
  BY <1>2 DEF DifferInKey, z
<1>12. /\ DOMAIN g = DOMAIN h
       /\ \A x \in DOMAIN h : x # n => g[x] = h2[x] /\ Items(g, x) = Items(h2, x)
       /\ \A x \in DOMAIN h : x # n => f[x] = h[x] /\ Items(f, x) = Items(h, x)
  BY <1>5, <1>10, <1>11 DEF Items
<1>13. \A x : x \in T <=> x \in S \ {l, r} \/ x = c
  BY <1>4 DEF b
<1>14. Joined(f, g, S, T, D, l, r, c)
  <2>1. Items(g, c) = Items(f, l) \o Items(f, r)
    <3>1. Items(g, c) = Items(h2, c) /\ Items(f, l) = Items(h, l) /\ Items(f, r) = Items(h, r)
      BY <1>1, <1>4, <1>12
    <3>. QED
      BY <3>1, <1>5 DEF l, r, BothItems
  <2>2. g[c].left = f[l].left /\ g[c].right = f[r].right
    BY <1>1, <1>4, <1>5, <1>12
  <2>3. \A x \in S : f[x] = h[x] /\ Items(f, x) = Items(h, x) /\ g[x] = h2[x] /\ Items(g, x) = Items(h2, x)
    BY <1>1, <1>4, <1>12
  <2>4. \A x \in T : g[x].leaf = f[x].leaf
    BY <2>3, <1>5
  <2>5. \A x \in S \ {l, r} : /\ Items(g, x) = Items(f, x)
                              /\ g[x].left = (IF f[x].left = r THEN c ELSE f[x].left)
                              /\ g[x].right = (IF f[x].right = l THEN c ELSE f[x].right)
    BY <2>3, <1>5
  <2>6. \A d \in D : g[d] = f[d]
    <3>1. \A d \in D : d \in DOMAIN h /\ d # n /\ d \notin S
      BY <1>1
    <3>. QED
      BY <3>1, <1>5, <1>12
  <2>7. c \in {l, r}
    BY <1>4
  <2>. QED
    BY <2>1, <2>2, <2>4, <2>5, <2>6, <2>7, <1>13 DEF Joined
<1>15. /\ Len(v) = Len(z) - 1 /\ v[p].data = c /\ v[p].key = k
       /\ \A q \in 1 .. p - 1 : v[q] = z[q]
       /\ \A q \in p + 1 .. Len(z) - 1 : v[q] = z[q + 1]
  BY <1>7 DEF OneLeft
<1>16. k = MaxKey(g, c)
  BY <1>1, <1>4, <1>12 DEF k, MaxKey
<1>17. NamesJoined(f, g, P, n, p, l, r, c)
  <2>0. i \in 1 .. Len(z) /\ j \in 1 .. Len(z) /\ Len(z) \in Nat /\ p \in 1 .. Len(z) - 1
    BY <1>1 DEF z
  <2>1. l = Child(f, n, p) /\ r = Child(f, n, p + 1)
    <3>1. p \in 1 .. Len(z) /\ p + 1 \in 1 .. Len(z)
      BY <2>0
    <3>. QED
      BY <3>1, <1>11 DEF l, r
  <2>2. \A x \in P : f[x].left = g[x].left /\ f[x].right = g[x].right /\ f[x].leaf = g[x].leaf
    <3>. SUFFICES ASSUME NEW x \in P
                  PROVE  f[x].left = g[x].left /\ f[x].right = g[x].right /\ f[x].leaf = g[x].leaf
      OBVIOUS
    <3>1. x \in DOMAIN h /\ x \notin S
      BY <1>1
    <3>2. CASE x = n
      BY <3>2, <1>8, <1>10, <1>11
    <3>3. CASE x # n
      BY <3>1, <3>3, <1>5, <1>12
    <3>. QED
      BY <3>2, <3>3
  <2>3. \A x \in P \ {n} : Items(g, x) = Items(f, x)
    <3>1. \A x \in P \ {n} : x \in DOMAIN h /\ x \notin S /\ x # n
      BY <1>1
    <3>. QED
      BY <3>1, <1>5, <1>12 DEF Items
  <2>4. Len(Items(g, n)) = Len(Items(f, n)) - 1
    BY <1>10, <1>11, <1>15
  <2>5. \A q \in 1 .. p - 1 : Items(g, n)[q] = Items(f, n)[q]
    <3>1. \A q \in 1 .. p - 1 : q \in 1 .. Len(z) /\ q # i
      BY <2>0 DEF SideBySide
    <3>. QED
      BY <3>1, <1>10, <1>11, <1>15
  <2>6. \A q \in p + 1 .. Len(Items(f, n)) - 1 : Items(g, n)[q] = Items(f, n)[q + 1]
    <3>1. \A q \in p + 1 .. Len(z) - 1 : q + 1 \in 1 .. Len(z) /\ q + 1 # i
      BY <2>0 DEF SideBySide
    <3>. QED
      BY <3>1, <1>10, <1>11, <1>15
  <2>7. Child(g, n, p) = c /\ Items(g, n)[p].key = MaxKey(g, c)
    BY <1>10, <1>15, <1>16 DEF Child
  <2>8. DOMAIN f \subseteq DOMAIN g /\ n \in P /\ p \in 1 .. Len(Items(f, n)) - 1
    BY <2>0, <1>1, <1>11, <1>12
  <2>. QED
    BY <2>1, <2>2, <2>3, <2>4, <2>5, <2>6, <2>7, <2>8 DEF NamesJoined
<1>18. Levels(g, P, T, D) /\ Held(g, T) = Held(f, S)
  <2>1. f \in Seq(BTreeNode(E)) /\ g \in Seq(BTreeNode(E)) /\ Levels(f, P, S, D)
    BY <1>2, <1>10
  <2>. QED
    BY <2>1, <1>14, <1>17, MergeKeepsLevels
<1>19. Held(f, S) = Held(h, S)
  <2>1. \A x \in S : Items(f, x) = Items(h, x)
    BY <1>1, <1>4, <1>12
  <2>. QED
    BY <2>1 DEF Held
<1>20. MergeKeeps(h, g, S, n, c, b)
  <2>1. Size(g, c) = Size(h, c) + Size(h, b)
    <3>1. Len(Items(h, l) \o Items(h, r)) = Len(Items(h, l)) + Len(Items(h, r))
      BY <1>4
    <3>2. Items(g, c) = Items(h, l) \o Items(h, r)
      BY <1>1, <1>4, <1>5, <1>12 DEF l, r, BothItems
    <3>3. Len(Items(h, l)) \in Nat /\ Len(Items(h, r)) \in Nat
      BY <1>4
    <3>4. (l = c /\ r = b) \/ (l = b /\ r = c)
      BY <1>4
    <3>5. Len(Items(g, c)) = Len(Items(h, l)) + Len(Items(h, r))
      BY <3>1, <3>2
    <3>. DEFINE N(y) == Size(h, y)
    <3>7. Size(g, c) = N(l) + N(r) /\ N(l) \in Nat /\ N(r) \in Nat
      BY <3>3, <3>5 DEF Size, Items
    <3>. HIDE DEF N
    <3>8. N(l) + N(r) = N(c) + N(b)
      BY <3>4, <3>7
    <3>. QED
      BY <3>7, <3>8 DEF N
  <2>2. Size(g, n) = Size(h, n) - 1
    BY <1>10, <1>15 DEF Size, Items, z
  <2>3. \A x \in S : x # c /\ x # b => Items(g, x) = Items(h, x)
    BY <1>1, <1>4, <1>5, <1>12
  <2>4. \A x \in DOMAIN h : x \notin S \cup {n} => g[x] = h[x]
    BY <1>5, <1>12
  <2>5. KindsSame(h, g, n)
    <3>1. g[n].left = h[n].left /\ g[n].right = h[n].right /\ g[n].leaf = h[n].leaf
      BY <1>8, <1>10
    <3>2. ASSUME NEW x \in DOMAIN h, x # n PROVE g[x].leaf = h[x].leaf
      BY <3>2, <1>5, <1>12
    <3>. QED
      BY <3>1, <3>2 DEF KindsSame
  <2>. QED
    BY <2>1, <2>2, <2>3, <2>4, <2>5, <1>12 DEF MergeKeeps
<1>. QED
  BY <1>10, <1>18, <1>19, <1>20 DEF c, b

\* What Merge does with the heap h1 in which the items have been moved.
MergeOf(h1, n, i, j, child, sibling) ==
  LET l == h1[sibling].left
      r == h1[sibling].right
      h2 == IF sibling = h1[child].left
            THEN IF l = None THEN [h1 EXCEPT ![child].left = l]
                 ELSE [h1 EXCEPT ![child].left = l, ![l].right = child]
            ELSE IF r = None THEN [h1 EXCEPT ![child].right = r]
                 ELSE [h1 EXCEPT ![child].right = r, ![r].left = child]
  IN [h2 EXCEPT ![n].items = RemoveAt([@ EXCEPT ![i].key = MaxKey(h2, child)], j)]

\* Merging repairs the level too: when the neighbour of a child that has lost an item has none
\* to spare, the child takes all of the neighbour's items and its place in the list, node n
\* keeps one name for both with the right key, all levels stay linked and in order, no record
\* is lost or doubled and no other node is written but the next one in the list
\* (mergeWithSibling).
THEOREM MergeRepairs ==
  ASSUME NEW E, NEW h \in Seq(BTreeNode(E)), NEW P, NEW S, NEW D, NEW n, NEW i,
         StaleAt(h, P, S, D, n, i), NEW j \in 1 .. Len(Items(h, n)), j = i + 1 \/ i = j + 1
  PROVE  LET c == Child(h, n, i)
             b == Child(h, n, j)
             g == Merge(h, n, i, j, c, b)
         IN /\ g \in Seq(BTreeNode(E)) /\ MergeKeeps(h, g, S, n, c, b)
            /\ Levels(g, P, S \ {b}, D) /\ Held(g, S \ {b}) = Held(h, S)
<1>. DEFINE c == Child(h, n, i)
            b == Child(h, n, j)
            a == Items(h, c)
            t == Items(h, b)
            g == Merge(h, n, i, j, c, b)
            T == S \ {b}
<1>1. /\ S \subseteq DOMAIN h /\ n \in DOMAIN h /\ c \in S /\ b \in S
      /\ i \in 1 .. Len(Items(h, n)) /\ i \in Nat /\ j \in Nat
      /\ a \in Seq(Entry(E)) /\ t \in Seq(Entry(E))
      /\ Items(h, n)[i].key <= Items(h, n)[j].key <=> i <= j
  <2>1. /\ S \subseteq DOMAIN h /\ n \in DOMAIN h /\ c \in S /\ b \in S
        /\ i \in 1 .. Len(Items(h, n))
        /\ a \in Seq(Entry(E)) /\ t \in Seq(Entry(E))
        /\ Items(h, n)[i].key <= Items(h, n)[j].key <=> i <= j
    BY StaleChildren
  <2>. QED
    BY <2>1
<1>2. g = Merge(h, n, i, j, c, b) /\ T = S \ {b}
  OBVIOUS
<1>. HIDE DEF c, b, a, t, g, T
<1>3. ASSUME NEW h2 \in Seq(BTreeNode(E)), NEW p \in 1 .. Len(Items(h, n)) - 1, SideBySide(i, j, p),
             Unlinked(h, h2, S, Child(h, n, p), Child(h, n, p + 1), c,
                      BothItems(h, Child(h, n, p), Child(h, n, p + 1))),
             g = NameDropped(h2, n, i, j, c)
      PROVE  /\ g \in Seq(BTreeNode(E)) /\ MergeKeeps(h, g, S, n, c, b)
             /\ Levels(g, P, T, D) /\ Held(g, T) = Held(h, S)
  <2>1. g = NameDropped(h2, n, i, j, Child(h, n, i)) /\ T = S \ {Child(h, n, j)}
    BY <1>2, <1>3 DEF c, b
  <2>2. Unlinked(h, h2, S, Child(h, n, p), Child(h, n, p + 1), Child(h, n, i),
                 BothItems(h, Child(h, n, p), Child(h, n, p + 1)))
    BY <1>3 DEF c
  <2>3. /\ g \in Seq(BTreeNode(E)) /\ MergeKeeps(h, g, S, n, Child(h, n, i), Child(h, n, j))
        /\ Levels(g, P, T, D) /\ Held(g, T) = Held(h, S)
    BY <1>3, <2>1, <2>2, JoinedByMerge
  <2>. QED
    BY <2>3 DEF c, b
<1>4. CASE j = i + 1
  <2>. DEFINE w == a \o t
              h1 == WithItems(h, c, w)
              h2 == RelinkedRight(h1, c, h1[b].right)
  <2>1. i \in 1 .. Len(Items(h, n)) - 1 /\ SideBySide(i, j, i) /\ j = i + 1
    BY <1>1, <1>4 DEF SideBySide
  <2>2. NeighboursIn(h, S, c, b)
    BY <2>1, <1>4, StaleNeighbours DEF c, b
  <2>3. w \in Seq(Entry(E)) /\ w = BothItems(h, c, b)
    BY <1>1 DEF BothItems, a, t
  <2>4. h1 = WithItems(h, c, w) /\ h2 = RelinkedRight(h1, c, h1[b].right)
    OBVIOUS
  <2>5. g = NameDropped(h2, n, i, j, c)
    <3>1. Items(h, n)[i].key <= Items(h, n)[j].key
      BY <1>1, <2>1
    <3>2. h1 = [h EXCEPT ![c].items = Items(h, c) \o Items(h, b)]
      BY DEF WithItems, a, t
    <3>. HIDE DEF h1, w
    <3>3. b # h1[c].left
      <4>1. c # b /\ h[c].left # b /\ c \in DOMAIN h
        BY <2>2 DEF NeighboursIn
      <4>2. h1[c].left = h[c].left
        BY <2>3, <2>4, <4>1, ItemsWritten
      <4>. QED
        BY <4>1, <4>2
    <3>. DEFINE q == h1[b].right
    <3>4. h2 = IF q = None THEN [h1 EXCEPT ![c].right = q]
               ELSE [h1 EXCEPT ![c].right = q, ![q].left = c]
      BY SMTT(20) DEF RelinkedRight, WithRight, WithLeft
    <3>5. g = [h2 EXCEPT ![n].items = RemoveAt([@ EXCEPT ![i].key = MaxKey(h2, c)], j)]
      BY Zenon, <1>2, <3>1, <3>2, <3>3, <3>4 DEF Merge
    <3>. HIDE DEF h2
    <3>. QED
      BY <3>5 DEF NameDropped, WithItems, WithKey, Items
  <2>. HIDE DEF w, h1, h2
  <2>6. h2 \in Seq(BTreeNode(E)) /\ Unlinked(h, h2, S, c, b, c, w)
    BY <2>2, <2>3, <2>4, RightUnlinked
  <2>7. Unlinked(h, h2, S, Child(h, n, i), Child(h, n, i + 1), c,
                 BothItems(h, Child(h, n, i), Child(h, n, i + 1)))
    BY <2>1, <2>3, <2>6 DEF c, b
  <2>8. /\ g \in Seq(BTreeNode(E)) /\ MergeKeeps(h, g, S, n, c, b)
        /\ Levels(g, P, T, D) /\ Held(g, T) = Held(h, S)
    BY <2>1, <2>5, <2>6, <2>7, <1>3
  <2>. QED
    BY <2>8 DEF c, b, g, T
<1>5. CASE i = j + 1
  <2>. DEFINE w == t \o a
              h0 == WithItems(h, c, w)
              h1 == WithItems(h0, b, a)
              h2 == RelinkedLeft(h1, c, h1[b].left)
  <2>1. j \in 1 .. Len(Items(h, n)) - 1 /\ SideBySide(i, j, j) /\ i = j + 1
    BY <1>1, <1>5 DEF SideBySide
  <2>2. NeighboursIn(h, S, b, c)
    BY <2>1, <1>5, StaleNeighbours DEF c, b
  <2>3. w \in Seq(Entry(E)) /\ w = BothItems(h, b, c) /\ a \in Seq(Entry(E))
    BY <1>1 DEF BothItems, a, t
  <2>4. h0 = WithItems(h, c, w) /\ h1 = WithItems(h0, b, a) /\ h2 = RelinkedLeft(h1, c, h1[b].left)
    OBVIOUS
  <2>5. g = NameDropped(h2, n, i, j, c)
    <3>1. ~(Items(h, n)[i].key <= Items(h, n)[j].key)
      BY <1>1, <2>1
    <3>2. h1 = [h EXCEPT ![c].items = Items(h, b) \o Items(h, c), ![b].items = Items(h, c)]
      BY DEF WithItems, a, t
    <3>. HIDE DEF h0, h1, w
    <3>3. b = h1[c].left
      <4>1. c # b /\ h[c].left = b /\ c \in DOMAIN h /\ b \in DOMAIN h
        BY <2>2 DEF NeighboursIn, Adjacent
      <4>2. h0[c].left = h[c].left /\ h0 \in Seq(BTreeNode(E)) /\ DOMAIN h0 = DOMAIN h
        <5>1. w \in Seq(Entry(E)) /\ h0 = WithItems(h, c, w) /\ c \in DOMAIN h
          BY <2>3, <2>4, <4>1
        <5>. HIDE DEF h2
        <5>. QED
          BY <5>1, ItemsWritten
      <4>3. \A x \in DOMAIN h0 : x # b => h1[x] = h0[x]
        <5>1. b \in DOMAIN h0 /\ a \in Seq(Entry(E))
          BY <4>1, <4>2, <2>3
        <5>. QED
          BY <5>1, <4>2, <2>4, ItemsWritten
      <4>. QED
        BY <4>1, <4>2, <4>3
    <3>. DEFINE q == h1[b].left
    <3>4. h2 = IF q = None THEN [h1 EXCEPT ![c].left = q]
               ELSE [h1 EXCEPT ![c].left = q, ![q].right = c]
      BY DEF RelinkedLeft, WithRight, WithLeft
    <3>. DEFINE moved == IF Items(h, n)[i].key <= Items(h, n)[j].key
                         THEN [h EXCEPT ![c].items = Items(h, c) \o Items(h, b)]
                         ELSE [h EXCEPT ![c].items = Items(h, b) \o Items(h, c),
                                        ![b].items = Items(h, c)]
    <3>6. Merge(h, n, i, j, c, b) = MergeOf(moved, n, i, j, c, b)
      BY Zenon DEF Merge, MergeOf
    <3>8. moved = h1
      BY <3>1, <3>2
    <3>. HIDE DEF moved
    <3>7. g = MergeOf(h1, n, i, j, c, b)
      BY <1>2, <3>8, <3>6
    <3>5. g = [h2 EXCEPT ![n].items = RemoveAt([@ EXCEPT ![i].key = MaxKey(h2, c)], j)]
      BY Zenon, <3>3, <3>4, <3>7 DEF MergeOf
    <3>. HIDE DEF h2
    <3>. QED
      BY <3>5 DEF NameDropped, WithItems, WithKey, Items
  <2>. HIDE DEF w, h0, h1, h2
  <2>6. h2 \in Seq(BTreeNode(E)) /\ Unlinked(h, h2, S, b, c, c, w)
    BY <2>2, <2>3, <2>4, LeftUnlinked
  <2>7. Unlinked(h, h2, S, Child(h, n, j), Child(h, n, j + 1), c,
                 BothItems(h, Child(h, n, j), Child(h, n, j + 1)))
    BY <2>1, <2>3, <2>6 DEF c, b
  <2>8. /\ g \in Seq(BTreeNode(E)) /\ MergeKeeps(h, g, S, n, c, b)
        /\ Levels(g, P, T, D) /\ Held(g, T) = Held(h, S)
    BY <2>1, <2>5, <2>6, <2>7, <1>3
  <2>. QED
    BY <2>8 DEF c, b, g, T
<1>. QED
  BY <1>4, <1>5

\* The loads of the children of node n after its child c has lost an item: c may have one too few.
LoadsAfterLoss(h, S, c) ==
  /\ \A x \in S : Size(h, x) <= MaxLoad /\ (x # c => Size(h, x) >= MinLoad)
  /\ Size(h, c) >= MinLoad - 1

\* No node of S is too full or too empty.
LoadsRight(h, S) == \A x \in S : Size(h, x) <= MaxLoad /\ Size(h, x) >= MinLoad

\* The neighbour that is chosen.
LEMMA SiblingIsNeighbour ==
  ASSUME NEW E, NEW h, NEW n, Items(h, n) \in Seq(Entry(E)), NEW i \in 1 .. Len(Items(h, n)),
         Len(Items(h, n)) >= 2
  PROVE  /\ SiblingIndex(h, n, i) \in 1 .. Len(Items(h, n))
         /\ SiblingIndex(h, n, i) = i + 1 \/ i = SiblingIndex(h, n, i) + 1
         /\ SiblingIndex(h, n, i) # i
<1>. DEFINE m == Len(Items(h, n))
            rich(j) == Size(h, Items(h, n)[j].data) > MinLoad
            s == SiblingIndex(h, n, i)
<1>1. m \in Nat /\ i \in 1 .. m /\ m >= 2
  OBVIOUS
<1>2. s = IF i > 1 /\ rich(i - 1) THEN i - 1
          ELSE IF i < m /\ rich(i + 1) THEN i + 1
          ELSE IF i > 1 THEN i - 1
          ELSE IF i < m THEN i + 1
          ELSE i
  BY DEF SiblingIndex
<1>. HIDE DEF m, rich, s
<1>3. s \in 1 .. m /\ (s = i + 1 \/ i = s + 1) /\ s # i
  BY <1>1, <1>2
<1>. QED
  BY <1>3 DEF m, s

\* The key of node n's item i alone is replaced, by the last key of node c.
Keyed(h, n, i, c) == [h EXCEPT ![n].items[i].key = MaxKey(h, c)]

\* It is a node whose key was set.
LEMMA OneKeyWritten ==
  ASSUME NEW E, NEW h \in Seq(BTreeNode(E)), NEW n \in DOMAIN h, NEW i, NEW c
  PROVE  Keyed(h, n, i, c) = WithNodeKey(h, n, i, MaxKey(h, c))
<1>1. h[n] \in BTreeNode(E)
  BY HeapNode
<1>. QED
  BY <1>1 DEF Keyed, WithNodeKey, WithItems, WithKey, Items, BTreeNode

\* What Rebalance does with a child it has a neighbour for, case by case.
LEMMA RebalanceCases ==
  ASSUME NEW h, NEW n, NEW i, NEW gone, NEW j, j = SiblingIndex(h, n, i), i # j,
         Child(h, n, i) # Child(h, n, j)
  PROVE  LET c == Child(h, n, i)
             b == Child(h, n, j)
             r == Rebalance(h, n, i, c, gone)
         IN /\ Size(h, c) >= MinLoad =>
                 r = Result(Keyed(h, n, i, c), "REMOVED", gone)
            /\ ~(Size(h, c) >= MinLoad) /\ Size(h, b) > MinLoad =>
                 r = Result(Borrow(h, n, i, j, c, b), "OK", gone)
            /\ ~(Size(h, c) >= MinLoad) /\ ~(Size(h, b) > MinLoad) =>
                 r = Result(Merge(h, n, i, j, c, b), "REMOVED", gone)
BY DEF Rebalance, Child, Keyed

\* Rebalance repairs what the removal of an item left: whatever the neighbours' loads, it ends
\* without an exception and without a null pointer used, the children of node n have loads in
\* bounds again, all levels stay linked and in order with the right keys, no record is lost or
\* doubled, node n loses one name at most and none when "OK" is returned, after which only keys
\* are written further up, and no node of another level but n is written (rebalance).
THEOREM RebalanceRepairs ==
  ASSUME NEW E, NEW h \in Seq(BTreeNode(E)), NEW P, NEW S, NEW D, NEW n, NEW i,
         StaleAt(h, P, S, D, n, i), Size(h, n) >= 2, LoadsAfterLoss(h, S, Child(h, n, i)), NEW gone
  PROVE  LET r == Rebalance(h, n, i, Child(h, n, i), gone)
             g == r.heap
         IN /\ r.status \in {"OK", "REMOVED"} /\ r.gone = gone
            /\ g \in Seq(BTreeNode(E)) /\ DOMAIN g = DOMAIN h /\ KindsSame(h, g, n)
            /\ \E T \in SUBSET S :
                 Levels(g, P, T, D) /\ Held(g, T) = Held(h, S) /\ LoadsRight(g, T)
            /\ Size(g, n) = Size(h, n) \/ (Size(g, n) = Size(h, n) - 1 /\ r.status = "REMOVED")
            /\ \A x \in DOMAIN h : x \notin S \cup {n} => g[x] = h[x]
<1>. DEFINE c == Child(h, n, i)
            j == SiblingIndex(h, n, i)
            b == Child(h, n, j)
            r == Rebalance(h, n, i, c, gone)
            Repaired(g, T) == /\ g \in Seq(BTreeNode(E)) /\ DOMAIN g = DOMAIN h
                              /\ KindsSame(h, g, n)
                              /\ T \in SUBSET S /\ Levels(g, P, T, D) /\ Held(g, T) = Held(h, S)
                              /\ LoadsRight(g, T)
                              /\ \A x \in DOMAIN h : x \notin S \cup {n} => g[x] = h[x]
            Done(g, T, s, d) == /\ r = Result(g, s, gone) /\ s \in {"OK", "REMOVED"}
                                /\ Repaired(g, T) /\ Size(g, n) = Size(h, n) - d
                                /\ d = 0 \/ (d = 1 /\ s = "REMOVED")
<1>1. /\ S \subseteq DOMAIN h /\ n \in DOMAIN h /\ n \notin S
      /\ c \in S /\ i \in 1 .. Len(Items(h, n)) /\ Items(h, n) \in Seq(Entry(E))
      /\ \A x \in DOMAIN h : x # n => Corrected(h, n, i)[x] = h[x]
  <2>. HIDE DEF Done, Repaired, r, j, b
  <2>. QED
    BY StaleChildren
<1>2. Len(Items(h, n)) >= 2 /\ Size(h, n) \in Nat
  BY <1>1 DEF Size, Items
<1>3. j \in 1 .. Len(Items(h, n)) /\ (j = i + 1 \/ i = j + 1) /\ j # i
  BY <1>1, <1>2, SiblingIsNeighbour
<1>. HIDE DEF j
<1>4. b \in S /\ c # b
  <2>1. \A q \in 1 .. Len(Items(h, n)) :
          /\ Child(h, n, q) \in S
          /\ \A q2 \in 1 .. Len(Items(h, n)) : q # q2 => Child(h, n, q) # Child(h, n, q2)
    BY StaleChildren
  <2>. QED
    BY <2>1, <1>1, <1>3
<1>5. /\ Size(h, c) >= MinLoad =>
           r = Result(Keyed(h, n, i, c), "REMOVED", gone)
      /\ ~(Size(h, c) >= MinLoad) /\ Size(h, b) > MinLoad =>
           r = Result(Borrow(h, n, i, j, c, b), "OK", gone)
      /\ ~(Size(h, c) >= MinLoad) /\ ~(Size(h, b) > MinLoad) =>
           r = Result(Merge(h, n, i, j, c, b), "REMOVED", gone)
  <2>1. j = SiblingIndex(h, n, i)
    BY DEF j
  <2>. HIDE DEF Done, Repaired
  <2>. QED
    BY <1>3, <1>4, <2>1, RebalanceCases
<1>6. /\ \A x \in S : Size(h, x) \in Nat
      /\ MinLoad \in Nat /\ MinLoad >= 2 /\ MaxLoad \in Nat /\ MinLoad + MinLoad = MaxLoad
      /\ \A x \in S : Size(h, x) <= MaxLoad /\ (x # c => Size(h, x) >= MinLoad)
      /\ Size(h, c) >= MinLoad - 1
  <2>1. \A x \in S : Size(h, x) \in Nat
    BY <1>1, HeapNode
  <2>2. MinLoad \in Nat /\ MinLoad >= 2 /\ MaxLoad \in Nat /\ MinLoad + MinLoad = MaxLoad
    BY LoadAssumption DEF MinLoad
  <2>. QED
    BY <2>1, <2>2 DEF LoadsAfterLoss
<1>7. \E g, T, s, d : Done(g, T, s, d)
  <2>1. CASE Size(h, c) >= MinLoad
    <3>. DEFINE f == Corrected(h, n, i)
    <3>1. Keyed(h, n, i, c) = f
      BY <1>1, OneKeyWritten DEF Corrected
    <3>2. /\ Levels(f, P, S, D) /\ f \in Seq(BTreeNode(E)) /\ DifferInKey(h, f, n, i, MaxKey(h, c))
      BY StaleFacts
    <3>3. r = Result(f, "REMOVED", gone)
      BY <1>5, <2>1, <3>1
    <3>. HIDE DEF f, r, c, b
    <3>4. /\ DOMAIN f = DOMAIN h /\ Size(f, n) = Size(h, n)
          /\ \A x \in DOMAIN h : x # n => f[x] = h[x]
      BY <3>2 DEF DifferInKey, Size, Items
    <3>5. Held(f, S) = Held(h, S) /\ LoadsRight(f, S)
      <4>1. \A x \in S : Items(f, x) = Items(h, x) /\ Size(f, x) = Size(h, x)
        BY <1>1, <3>4 DEF Items, Size
      <4>2. LoadsRight(f, S)
        BY <4>1, <1>6, <2>1 DEF LoadsRight
      <4>. QED
        BY <4>1, <4>2 DEF Held
    <3>8. KindsSame(h, f, n)
      BY <3>2, <3>4, <1>1 DEF DifferInKey, KindsSame
    <3>6. Repaired(f, S)
      BY <3>2, <3>4, <3>5, <3>8
    <3>. HIDE DEF Repaired
    <3>7. Done(f, S, "REMOVED", 0)
      BY <1>2, <3>3, <3>4, <3>6
    <3>. QED
      BY <3>7
  <2>2. CASE ~(Size(h, c) >= MinLoad) /\ Size(h, b) > MinLoad
    <3>. DEFINE g == Borrow(h, n, i, j, c, b)
    <3>1. /\ g \in Seq(BTreeNode(E)) /\ Levels(g, P, S, D) /\ Held(g, S) = Held(h, S)
          /\ Size(g, c) = Size(h, c) + 1 /\ Size(g, b) = Size(h, b) - 1
          /\ \A x \in S : x # c /\ x # b => Items(g, x) = Items(h, x)
          /\ Len(Items(g, n)) = Len(Items(h, n)) /\ OutsideSame(h, g, S, n)
      BY <1>3, <2>2, BorrowRepairs
    <3>2. r = Result(g, "OK", gone)
      BY <1>5, <2>2
    <3>. HIDE DEF g, r, c, b
    <3>3. LoadsRight(g, S)
      <4>1. \A x \in S : x # c /\ x # b => Size(g, x) = Size(h, x)
        BY <3>1 DEF Items, Size
      <4>2. /\ Size(h, c) \in Nat /\ Size(h, b) \in Nat
            /\ Size(h, c) >= MinLoad - 1 /\ Size(h, b) <= MaxLoad
        BY <1>4, <1>1, <1>6
      <4>3. /\ Size(g, c) >= MinLoad /\ Size(g, c) <= MaxLoad
            /\ Size(g, b) >= MinLoad /\ Size(g, b) <= MaxLoad
        BY <4>2, <1>6, <2>2, <3>1
      <4>4. \A x \in S : x # c /\ x # b => Size(g, x) <= MaxLoad /\ Size(g, x) >= MinLoad
        BY <4>1, <1>6
      <4>. QED
        BY <4>3, <4>4 DEF LoadsRight
    <3>4. Size(g, n) = Size(h, n)
      BY <3>1 DEF Items, Size
    <3>5. /\ DOMAIN g = DOMAIN h /\ KindsSame(h, g, n)
          /\ \A x \in DOMAIN h : x \notin S \cup {n} => g[x] = h[x]
      BY <3>1 DEF OutsideSame
    <3>6. Repaired(g, S)
      BY <3>1, <3>3, <3>5
    <3>. HIDE DEF Repaired
    <3>7. Done(g, S, "OK", 0)
      BY <1>2, <3>2, <3>4, <3>6
    <3>. QED
      BY <3>7
  <2>3. CASE ~(Size(h, c) >= MinLoad) /\ ~(Size(h, b) > MinLoad)
    <3>. DEFINE g == Merge(h, n, i, j, c, b)
                T == S \ {b}
    <3>1. /\ g \in Seq(BTreeNode(E)) /\ MergeKeeps(h, g, S, n, c, b)
          /\ Levels(g, P, T, D) /\ Held(g, T) = Held(h, S)
      BY <1>3, MergeRepairs
    <3>2. r = Result(g, "REMOVED", gone)
      BY <1>5, <2>3
    <3>. HIDE DEF g, r, c, b
    <3>3. /\ DOMAIN g = DOMAIN h /\ KindsSame(h, g, n)
          /\ Size(g, c) = Size(h, c) + Size(h, b) /\ Size(g, n) = Size(h, n) - 1
          /\ \A x \in S : x # c /\ x # b => Size(g, x) = Size(h, x)
          /\ \A x \in DOMAIN h : x \notin S \cup {n} => g[x] = h[x]
      BY <3>1 DEF MergeKeeps, Items, Size
    <3>4. LoadsRight(g, T)
      BY <1>1, <1>4, <1>6, <2>3, <3>3 DEF LoadsRight
    <3>5. Repaired(g, T)
      BY <3>1, <3>3, <3>4
    <3>. HIDE DEF Repaired
    <3>6. Done(g, T, "REMOVED", 1)
      BY <3>2, <3>3, <3>5
    <3>. QED
      BY <3>6
  <2>. QED
    BY <2>1, <2>2, <2>3
<1>8. PICK g, T, s, d : Done(g, T, s, d)
  BY <1>7
<1>. HIDE DEF r, c, b
<1>9. r.heap = g /\ r.status = s /\ r.gone = gone
  BY <1>8 DEF Result
<1>10. /\ r.status \in {"OK", "REMOVED"} /\ r.gone = gone
       /\ r.heap \in Seq(BTreeNode(E)) /\ DOMAIN r.heap = DOMAIN h /\ KindsSame(h, r.heap, n)
       /\ Levels(r.heap, P, T, D) /\ Held(r.heap, T) = Held(h, S) /\ LoadsRight(r.heap, T)
       /\ T \in SUBSET S
       /\ Size(r.heap, n) = Size(h, n) \/ (Size(r.heap, n) = Size(h, n) - 1 /\ r.status = "REMOVED")
       /\ \A x \in DOMAIN h : x \notin S \cup {n} => r.heap[x] = h[x]
  BY <1>2, <1>8, <1>9
<1>. QED
  BY <1>10 DEF r, c

\* The nodes of P name the children they named; node n has the key of its child i right, and no
\* other child has other items than it had.
SameNames(h, g, P, S, n, i) ==
  /\ n \in P /\ i \in 1 .. Len(Items(h, n))
  /\ \A x \in P \cup S :
       g[x].left = h[x].left /\ g[x].right = h[x].right /\ g[x].leaf = h[x].leaf
  /\ \A x \in P \ {n} : Items(g, x) = Items(h, x)
  /\ Len(Items(g, n)) = Len(Items(h, n))
  /\ \A q \in 1 .. Len(Items(h, n)) :
       Child(g, n, q) = Child(h, n, q) /\ (q # i => Items(g, n)[q] = Items(h, n)[q])
  /\ Items(g, n)[i].key = MaxKey(g, Child(h, n, i))
  /\ \A y \in S : y # Child(h, n, i) => Items(g, y) = Items(h, y)

\* Then the two rows are right, if the lower one is.
LEMMA NamesKept ==
  ASSUME NEW E, NEW h \in Seq(BTreeNode(E)), NEW P, NEW S, NEW D, Levels(h, P, S, D),
         NEW g \in Seq(BTreeNode(E)), DOMAIN h \subseteq DOMAIN g, NEW n, NEW i,
         SameNames(h, g, P, S, n, i), NEW F, F \subseteq D, Row(g, S, F), Distinct(g, S)
  PROVE  Levels(g, P, S, F)
<1>. DEFINE c == Child(h, n, i)
<1>0. /\ n \in P /\ i \in 1 .. Len(Items(h, n))
      /\ \A x \in P \cup S :
           g[x].left = h[x].left /\ g[x].right = h[x].right /\ g[x].leaf = h[x].leaf
      /\ \A x \in P \ {n} : Items(g, x) = Items(h, x)
      /\ Len(Items(g, n)) = Len(Items(h, n))
      /\ \A q \in 1 .. Len(Items(h, n)) :
           Child(g, n, q) = Child(h, n, q) /\ (q # i => Items(g, n)[q] = Items(h, n)[q])
      /\ Items(g, n)[i].key = MaxKey(g, c)
      /\ \A y \in S : y # c => Items(g, y) = Items(h, y)
  BY DEF SameNames
<1>1. Row(h, P, S) /\ P \subseteq DOMAIN h /\ P \cap S = {} /\ P \subseteq DOMAIN g
  BY DEF Levels, Row
<1>2. \A x \in P : \A q \in 1 .. Len(Items(h, x)) :
        /\ Child(h, x, q) \in S /\ Items(h, x)[q].key = MaxKey(h, Child(h, x, q))
        /\ \A j \in 1 .. Len(Items(h, x)) : q # j => Child(h, x, q) # Child(h, x, j)
  BY LevelChildren
<1>3. \A x \in P : \A q \in 2 .. Len(Items(h, x)) : Adjacent(h, Child(h, x, q - 1), Child(h, x, q))
  BY LevelChildren
<1>4. \A x \in P : /\ Len(Items(h, x)) \in Nat /\ Len(Items(h, x)) >= 1
                   /\ 1 \in 1 .. Len(Items(h, x)) /\ Len(Items(h, x)) \in 1 .. Len(Items(h, x))
                   /\ \A q \in 2 .. Len(Items(h, x)) : q \in 1 .. Len(Items(h, x))
                                                       /\ q - 1 \in 1 .. Len(Items(h, x))
  <2>1. \A x \in P : Len(Items(h, x)) \in Nat /\ Len(Items(h, x)) >= 1
    BY LevelChildren
  <2>. QED
    BY <2>1
<1>. HIDE DEF c
<1>9. \A x \in P : Len(Items(g, x)) = Len(Items(h, x)) /\ Items(g, x) # <<>>
  <2>1. \A x \in P : Len(Items(g, x)) = Len(Items(h, x))
    BY <1>0
  <2>2. ASSUME NEW x \in P, Items(g, x) = <<>> PROVE FALSE
    <3>1. Len(Items(g, x)) = 0
      BY <2>2
    <3>. QED
      BY <3>1, <2>1, <1>4
  <2>. QED
    BY <2>1, <2>2
<1>10. \A x \in P : \A q \in 1 .. Len(Items(h, x)) : Child(g, x, q) = Child(h, x, q)
  BY <1>0 DEF Child
<1>11. ASSUME NEW x \in P, NEW q \in 1 .. Len(Items(h, x))
       PROVE  Items(g, x)[q].key = MaxKey(g, Child(h, x, q))
  <2>1. CASE x = n /\ q = i
    BY <2>1, <1>0 DEF c
  <2>2. CASE ~(x = n /\ q = i)
    <3>1. Items(g, x)[q] = Items(h, x)[q]
      BY <2>2, <1>0
    <3>2. Child(h, x, q) # c
      <4>1. CASE x = n
        BY <4>1, <2>2, <1>0, <1>2 DEF c
      <4>2. CASE x # n
        BY <4>2, <1>0, LevelParents DEF c
      <4>. QED
        BY <4>1, <4>2
    <3>3. MaxKey(g, Child(h, x, q)) = MaxKey(h, Child(h, x, q))
      BY <3>2, <1>0, <1>2 DEF MaxKey, Items
    <3>. QED
      BY <3>1, <3>3, <1>2
  <2>. QED
    BY <2>1, <2>2
<1>12. \A a, b \in S : Adjacent(h, a, b) => Adjacent(g, a, b)
  BY <1>0 DEF Adjacent
<1>14. \A x \in P : \A q \in 2 .. Len(Items(g, x)) : Adjacent(g, Child(g, x, q - 1), Child(g, x, q))
  <2>. SUFFICES ASSUME NEW x \in P, NEW q \in 2 .. Len(Items(h, x))
                PROVE  Adjacent(g, Child(g, x, q - 1), Child(g, x, q))
    BY <1>9
  <2>. QED
    BY <1>2, <1>3, <1>4, <1>10, <1>12
<1>15. ASSUME NEW x \in P
       PROVE  /\ h[x].left = None => g[Child(g, x, 1)].left = None
              /\ h[x].right = None => g[Child(g, x, Len(Items(g, x)))].right = None
              /\ h[x].right # None =>
                   Adjacent(g, Child(g, x, Len(Items(g, x))), Child(g, h[x].right, 1))
  <2>1. /\ h[x].left = None => h[Child(h, x, 1)].left = None
        /\ h[x].right = None => h[Child(h, x, Len(Items(h, x)))].right = None
        /\ h[x].right # None =>
             /\ h[x].right \in P
             /\ Adjacent(h, Child(h, x, Len(Items(h, x))), Child(h, h[x].right, 1))
    BY LevelCousins
  <2>2. /\ Child(h, x, 1) \in S /\ Child(g, x, 1) = Child(h, x, 1)
        /\ Child(h, x, Len(Items(h, x))) \in S
        /\ Child(g, x, Len(Items(g, x))) = Child(h, x, Len(Items(h, x)))
    BY <1>2, <1>4, <1>9, <1>10
  <2>3. h[x].right # None => /\ Child(h, h[x].right, 1) \in S
                             /\ Child(g, h[x].right, 1) = Child(h, h[x].right, 1)
    BY <2>1, <1>2, <1>4, <1>10
  <2>. QED
    BY <2>1, <2>2, <2>3, <1>0, <1>12
<1>16. \A x, y \in P : \A q \in 1 .. Len(Items(g, x)), j \in 1 .. Len(Items(g, y)) :
         Child(g, x, q) = Child(g, y, j) => x = y
  BY <1>9, <1>10, LevelParents
<1>17. \A x \in P : \A q \in 1 .. Len(Items(g, x)) :
         Child(g, x, q) \in S /\ Items(g, x)[q].key = MaxKey(g, Child(g, x, q))
  BY <1>2, <1>9, <1>10, <1>11
<1>18. \A x \in P : /\ g[x].left = h[x].left /\ g[x].right = h[x].right /\ g[x].leaf = h[x].leaf
                    /\ Items(g, x) # <<>>
  BY <1>0, <1>9
<1>19. Parented(g, P, S)
  <2>1. Parented(h, P, S)
    BY DEF Levels
  <2>. QED
    BY <2>1, <1>0 DEF Parented, Child
<1>. QED
  BY <1>1, <1>14, <1>15, <1>16, <1>17, <1>18, <1>19, LevelsKept

\* Items w are in order and stand between the neighbours of node c of row S, with keys of their own.
FitsIn(h, S, c, w) ==
  /\ w # <<>> /\ InOrder(w)
  /\ h[c].left # None => MaxKey(h, h[c].left) < Head(w).key
  /\ h[c].right # None => Last(w).key < Head(Items(h, h[c].right)).key
  /\ \A y \in S \ {c} : \A e \in ToSet(w), f \in ToSet(Items(h, y)) : e.key # f.key

\* A row of leaves stays one if a leaf gets such items.
LEMMA LeafRowKept ==
  ASSUME NEW E, NEW h \in Seq(BTreeNode(E)), NEW S, NEW D, Row(h, S, D), Distinct(h, S), NEW c \in S,
         h[c].leaf, NEW w \in Seq(Entry(E)), FitsIn(h, S, c, w),
         NEW f \in Seq(BTreeNode(E)), DOMAIN h \subseteq DOMAIN f, Items(f, c) = w,
         \A y \in S : f[y].left = h[y].left /\ f[y].right = h[y].right /\ f[y].leaf = h[y].leaf,
         \A y \in S : y # c => Items(f, y) = Items(h, y)
  PROVE  Row(f, S, D) /\ Distinct(f, S)
<1>1. /\ S \subseteq DOMAIN h /\ D \subseteq DOMAIN h /\ S \cap D = {}
      /\ \A x, y \in S : h[x].leaf = h[y].leaf
      /\ \A x \in S : RowNode(h, S, D, x)
  BY DEF Row
<1>2. /\ w # <<>> /\ InOrder(w)
      /\ h[c].left # None => Last(Items(h, h[c].left)).key < Head(w).key
      /\ h[c].right # None => Last(w).key < Head(Items(h, h[c].right)).key
      /\ \A y \in S \ {c} : \A e \in ToSet(w), d \in ToSet(Items(h, y)) : e.key # d.key
  BY DEF FitsIn, MaxKey, Items
<1>3. /\ None \notin S
      /\ \A x \in S :
              /\ h[x].left # None => h[x].left \in S /\ h[h[x].left].right = x
              /\ h[x].right # None =>
                   /\ h[x].right \in S /\ h[h[x].right].left = x
                   /\ Last(Items(h, x)).key < Head(Items(h, h[x].right)).key
  BY RowLinks
<1>4. \A x \in S : f[x].leaf
  BY <1>1
<1>5. ASSUME NEW x \in S
      PROVE  /\ Items(f, x) # <<>> /\ InOrder(Items(f, x))
             /\ f[x].left # None => f[x].left \in S /\ f[f[x].left].right = x
             /\ f[x].right # None => /\ f[x].right \in S /\ f[f[x].right].left = x
                                     /\ Last(Items(f, x)).key < Head(Items(f, f[x].right)).key
  <2>1. Items(f, x) # <<>> /\ InOrder(Items(f, x))
    <3>1. CASE x = c
      BY <3>1, <1>2
    <3>2. CASE x # c
      BY <3>2, <1>1 DEF RowNode, KeysInOrder
    <3>. QED
      BY <3>1, <3>2
  <2>2. f[x].left # None => f[x].left \in S /\ f[f[x].left].right = x
    BY <1>3
  <2>3. f[x].right # None => f[x].right \in S /\ f[f[x].right].left = x
    BY <1>3
  <2>4. ASSUME f[x].right # None PROVE Last(Items(f, x)).key < Head(Items(f, f[x].right)).key
    <3>. DEFINE y == h[x].right
    <3>1. y \in S /\ y # x /\ f[x].right = y /\ h[y].left = x /\ y # None /\ x # None
          /\ Last(Items(h, x)).key < Head(Items(h, y)).key
      <4>1. y \in S /\ f[x].right = y /\ h[y].left = x /\ x # None /\ h[x].right = y /\ y # None
            /\ Last(Items(h, x)).key < Head(Items(h, y)).key
        BY <2>4, <1>3
      <4>2. Adjacent(h, x, y)
        BY <4>1 DEF Adjacent
      <4>. HIDE DEF y
      <4>3. x # y
        BY <4>1, <4>2, NoCycle
      <4>. QED
        BY <4>1, <4>3
    <3>2. CASE x = c
      <4>1. Items(f, x) = w /\ Items(f, y) = Items(h, y)
        BY <3>1, <3>2
      <4>. QED
        BY <4>1, <3>1, <3>2, <1>2
    <3>3. CASE y = c
      <4>1. Items(f, y) = w /\ Items(f, x) = Items(h, x)
        BY <3>1, <3>3
      <4>. QED
        BY <4>1, <3>1, <3>3, <1>2
    <3>4. CASE x # c /\ y # c
      <4>1. Items(f, y) = Items(h, y) /\ Items(f, x) = Items(h, x)
        BY <3>1, <3>4
      <4>. QED
        BY <4>1, <3>1
    <3>. QED
      BY <3>2, <3>3, <3>4
  <2>. QED
    BY <2>1, <2>2, <2>3, <2>4
<1>6. ASSUME NEW x \in S PROVE RowNode(f, S, D, x)
  <2>1. NeighboursInOrder(f, x)
    BY <1>5 DEF NeighboursInOrder, Adjacent, MaxKey, Items
  <2>. QED
    BY <2>1, <1>4, <1>5 DEF RowNode, KeysInOrder
<1>7. Row(f, S, D)
  BY <1>1, <1>6 DEF Row
<1>8. Distinct(f, S)
  <2>. SUFFICES ASSUME NEW x \in S, NEW y \in S, NEW e \in ToSet(Items(f, x)),
                       NEW d \in ToSet(Items(f, y)), e.key = d.key
                PROVE  x = y
    BY DEF Distinct
  <2>1. CASE x # c /\ y # c
    BY <2>1 DEF Distinct
  <2>2. CASE x = c /\ y # c
    BY <2>2, <1>2
  <2>3. CASE y = c /\ x # c
    BY <2>3, <1>2
  <2>. QED
    BY <2>1, <2>2, <2>3
<1>. QED
  BY <1>7, <1>8

\* When a leaf gets such items, all is right but its key in its parent.
LEMMA LeafChanged ==
  ASSUME NEW E, NEW h \in Seq(BTreeNode(E)), NEW P, NEW S, NEW D, Levels(h, P, S, D), NEW n \in P,
         NEW i \in 1 .. Len(Items(h, n)), h[Child(h, n, i)].leaf,
         NEW w \in Seq(Entry(E)), FitsIn(h, S, Child(h, n, i), w),
         NEW g, g = WithItems(h, Child(h, n, i), w)
  PROVE  g \in Seq(BTreeNode(E)) /\ StaleAt(g, P, S, D, n, i)
<1>. DEFINE c == Child(h, n, i)
            f == Corrected(g, n, i)
            k == MaxKey(g, c)
<1>1. /\ n \in DOMAIN h /\ n \notin S /\ c \in S /\ Items(h, n) \in Seq(Entry(E))
      /\ InOrder(Items(h, n))
  BY LevelChildren
<1>2. /\ Row(h, P, S) /\ Row(h, S, D) /\ P \cap S = {} /\ P \subseteq DOMAIN h
      /\ S \subseteq DOMAIN h /\ Distinct(h, S)
  BY DEF Levels, Row
<1>3. /\ g \in Seq(BTreeNode(E)) /\ DOMAIN g = DOMAIN h
      /\ Items(g, c) = w
      /\ g[c].left = h[c].left /\ g[c].right = h[c].right /\ g[c].leaf = h[c].leaf
      /\ \A x \in DOMAIN h : x # c => g[x] = h[x]
  <2>1. c \in DOMAIN h
    BY <1>1, <1>2
  <2>. HIDE DEF c, f, k
  <2>2. g = WithItems(h, c, w)
    BY DEF c
  <2>. QED
    BY <2>1, <2>2, ItemsWritten
<1>4. /\ Items(g, n) = Items(h, n) /\ Child(g, n, i) = c /\ w # <<>> /\ n \in DOMAIN g
  BY <1>1, <1>3 DEF Items, Child, FitsIn
<1>5. k \in Nat /\ f = WithNodeKey(g, n, i, k)
  <2>1. k \in Nat
    <3>1. c \in DOMAIN g /\ Items(g, c) # <<>>
      BY <1>1, <1>2, <1>3, <1>4
    <3>. HIDE DEF c, f
    <3>. QED
      BY <3>1, <1>3, MaxKeyIsNat
  <2>. QED
    BY <2>1, <1>4 DEF Corrected
<1>. HIDE DEF k, f, c
<1>6. f \in Seq(BTreeNode(E)) /\ DifferInKey(g, f, n, i, k)
  <2>1. i \in 1 .. Len(Items(g, n))
    BY <1>4
  <2>. QED
    BY <2>1, <1>3, <1>4, <1>5, NodeKeyWritten
<1>7. /\ DOMAIN f = DOMAIN g
      /\ f[n].left = g[n].left /\ f[n].right = g[n].right /\ f[n].leaf = g[n].leaf
      /\ \A x \in DOMAIN g : x # n => f[x] = g[x]
      /\ Len(Items(f, n)) = Len(Items(g, n)) /\ Items(f, n)[i].key = k
      /\ \A q \in 1 .. Len(Items(g, n)) :
           Child(f, n, q) = Child(g, n, q) /\ (q # i => Items(f, n)[q] = Items(g, n)[q])
  BY <1>6 DEF DifferInKey
<1>8. /\ \A y \in S : f[y].left = h[y].left /\ f[y].right = h[y].right /\ f[y].leaf = h[y].leaf
      /\ \A y \in S : y # c => Items(f, y) = Items(h, y)
      /\ Items(f, c) = w
  <2>1. \A y \in S : y \in DOMAIN h /\ f[y] = g[y]
    BY <1>1, <1>2, <1>3, <1>7
  <2>2. \A y \in S : g[y].left = h[y].left /\ g[y].right = h[y].right /\ g[y].leaf = h[y].leaf
    BY <2>1, <1>3
  <2>. QED
    BY <2>1, <2>2, <1>1, <1>3 DEF Items
<1>9. Row(f, S, D) /\ Distinct(f, S)
  <2>1. h[c].leaf /\ FitsIn(h, S, c, w) /\ DOMAIN h \subseteq DOMAIN f
    BY <1>3, <1>7 DEF c
  <2>. QED
    BY <2>1, <1>1, <1>2, <1>6, <1>8, LeafRowKept
<1>10. SameNames(h, f, P, S, n, i)
  <2>1. \A x \in P : x \in DOMAIN h /\ x # c
    BY <1>1, <1>2
  <2>2. \A x \in P \ {n} : f[x] = h[x]
    BY <2>1, <1>3, <1>7
  <2>3. f[n].left = h[n].left /\ f[n].right = h[n].right /\ f[n].leaf = h[n].leaf
    BY <2>1, <1>3, <1>7
  <2>4. \A x \in P \cup S :
          f[x].left = h[x].left /\ f[x].right = h[x].right /\ f[x].leaf = h[x].leaf
    BY <2>2, <2>3, <1>8
  <2>5. \A q \in 1 .. Len(Items(h, n)) : Child(g, n, q) = Child(h, n, q)
    BY <1>4 DEF Child
  <2>6. k = MaxKey(f, c)
    <3>1. c \in DOMAIN g /\ c # n
      BY <1>1, <1>2, <1>3
    <3>. QED
      BY <3>1, <1>7 DEF k, MaxKey
  <2>. QED
    BY <2>2, <2>4, <2>5, <2>6, <1>4, <1>7, <1>8 DEF SameNames, Items, c
<1>11. Levels(f, P, S, D)
  <2>1. DOMAIN h \subseteq DOMAIN f /\ D \subseteq D
    BY <1>3, <1>7
  <2>. QED
    BY <2>1, <1>6, <1>9, <1>10, NamesKept
<1>12. KeysInOrder(g, n) /\ i \in 1 .. Len(Items(g, n)) /\ c \in DOMAIN g /\ Items(g, c) # <<>>
  BY <1>1, <1>2, <1>3, <1>4 DEF KeysInOrder
<1>. QED
  BY <1>3, <1>4, <1>11, <1>12 DEF StaleAt, f

\* What is left of items in order when one is taken out.
LEMMA RemovedItems ==
  ASSUME NEW E, NEW v \in Seq(Entry(E)), InOrder(v), NEW q \in 1 .. Len(v), Len(v) >= 2,
         NEW w, w = RemoveAt(v, q)
  PROVE  /\ w \in Seq(Entry(E)) /\ Len(w) = Len(v) - 1 /\ w # <<>> /\ InOrder(w)
         /\ Head(v).key <= Head(w).key /\ Last(w).key <= Last(v).key
         /\ Head(w).key \in Nat /\ Last(w).key \in Nat
         /\ \A e : e \in ToSet(w) <=> e \in ToSet(v) /\ e # v[q]
<1>. DEFINE m == Len(v)
            K(j) == v[j].key
            F(j) == IF j < q THEN j ELSE j + 1
<1>1. /\ w \in Seq(Entry(E)) /\ Len(w) = m - 1
      /\ \A j \in 1 .. q - 1 : w[j] = v[j]
      /\ \A j \in q .. m - 1 : w[j] = v[j + 1]
  BY RemoveAtProperties
<1>2. /\ m \in Nat /\ m >= 2 /\ q \in 1 .. m
      /\ \A j \in 1 .. m : K(j) \in Nat /\ v[j] \in Entry(E)
      /\ \A a, b \in 1 .. m : a < b => K(a) < K(b)
  <2>1. \A j \in 1 .. m : v[j] \in Entry(E)
    OBVIOUS
  <2>. QED
    BY <2>1 DEF Entry, InOrder
<1>. HIDE DEF m
<1>3. \A j \in 1 .. m - 1 : F(j) \in 1 .. m /\ F(j) # q /\ w[j] = v[F(j)]
  BY <1>1, <1>2
<1>4. \A a, b \in 1 .. m - 1 : a < b => F(a) < F(b)
  BY <1>2
<1>5. \A a \in 1 .. m : a # q => \E j \in 1 .. m - 1 : F(j) = a
  <2>. SUFFICES ASSUME NEW a \in 1 .. m, a # q PROVE \E j \in 1 .. m - 1 : F(j) = a
    OBVIOUS
  <2>1. CASE a < q
    <3>1. a \in 1 .. m - 1 /\ F(a) = a
      BY <2>1, <1>2
    <3>. QED
      BY <3>1
  <2>2. CASE a > q
    <3>1. a - 1 \in 1 .. m - 1 /\ ~(a - 1 < q) /\ (a - 1) + 1 = a
      BY <2>2, <1>2
    <3>. QED
      BY <3>1
  <2>. QED
    BY <2>1, <2>2
<1>. HIDE DEF F
<1>6. InOrder(w)
  <2>. SUFFICES ASSUME NEW a \in 1 .. m - 1, NEW b \in 1 .. m - 1, a < b PROVE w[a].key < w[b].key
    BY <1>1 DEF InOrder
  <2>. QED
    BY <1>2, <1>3, <1>4
<1>7. w # <<>>
  <2>. SUFFICES ASSUME w = <<>> PROVE FALSE
    OBVIOUS
  <2>1. Len(w) = 0
    OBVIOUS
  <2>. QED
    BY <2>1, <1>1, <1>2
<1>8. Head(w) = w[1] /\ Last(w) = w[m - 1] /\ Head(v) = v[1] /\ Last(v) = v[m]
  <2>1. v # <<>>
    <3>. SUFFICES ASSUME v = <<>> PROVE FALSE
      OBVIOUS
    <3>1. Len(v) = 0
      OBVIOUS
    <3>. QED
      BY <3>1, <1>2 DEF m
  <2>2. Head(w) = w[1] /\ Last(w) = w[Len(w)]
    BY <1>1, <1>7, Ends
  <2>3. Head(v) = v[1] /\ Last(v) = v[Len(v)]
    BY <2>1, Ends
  <2>. QED
    BY <2>2, <2>3, <1>1 DEF m
<1>9. \A a \in 1 .. m : K(1) <= K(a) /\ K(a) <= K(m)
  <2>. SUFFICES ASSUME NEW a \in 1 .. m PROVE K(1) <= K(a) /\ K(a) <= K(m)
    OBVIOUS
  <2>1. 1 \in 1 .. m /\ m \in 1 .. m /\ (a = 1 \/ 1 < a) /\ (a = m \/ a < m)
    BY <1>2
  <2>2. K(1) \in Nat /\ K(a) \in Nat /\ K(m) \in Nat /\ (1 < a => K(1) < K(a)) /\ (a < m => K(a) < K(m))
    BY <2>1, <1>2
  <2>. HIDE DEF K
  <2>. QED
    BY <2>1, <2>2
<1>10. /\ K(1) <= Head(w).key /\ Last(w).key <= K(m)
       /\ Head(w).key \in Nat /\ Last(w).key \in Nat
  <2>1. 1 \in 1 .. m - 1 /\ m - 1 \in 1 .. m - 1
    BY <1>2
  <2>2. /\ F(1) \in 1 .. m /\ F(m - 1) \in 1 .. m
        /\ Head(w).key = K(F(1)) /\ Last(w).key = K(F(m - 1))
    BY <2>1, <1>3, <1>8
  <2>. HIDE DEF K
  <2>. QED
    BY <2>2, <1>2, <1>9
<1>11. ASSUME NEW e PROVE e \in ToSet(w) <=> e \in ToSet(v) /\ e # v[q]
  <2>0. /\ e \in ToSet(w) <=> \E j \in 1 .. m - 1 : w[j] = e
        /\ e \in ToSet(v) <=> \E j \in 1 .. m : v[j] = e
    BY <1>1 DEF ToSet, m
  <2>1. ASSUME NEW j \in 1 .. m - 1, w[j] = e PROVE e \in ToSet(v) /\ e # v[q]
    <3>1. F(j) \in 1 .. m /\ F(j) # q /\ e = v[F(j)]
      BY <2>1, <1>3
    <3>2. K(F(j)) # K(q)
      BY <3>1, <1>2
    <3>. QED
      BY <3>1, <3>2, <2>0
  <2>2. ASSUME NEW j \in 1 .. m, v[j] = e, e # v[q] PROVE e \in ToSet(w)
    <3>1. PICK a \in 1 .. m - 1 : F(a) = j
      BY <2>2, <1>5
    <3>. QED
      BY <3>1, <2>0, <2>2, <1>3
  <2>. QED
    BY <2>0, <2>1, <2>2
<1>. QED
  BY <1>1, <1>6, <1>7, <1>8, <1>10, <1>11 DEF m

\* The heap when item q is erased from node n.
Erased(h, n, q) == [h EXCEPT ![n].items = RemoveAt(@, q)]

\* A leaf that gives a record up gives up one of its items.
LEMMA RemovesOne ==
  ASSUME NEW E, NEW h \in Seq(BTreeNode(E)), NEW n \in DOMAIN h, KeysInOrder(h, n),
         NEW k \in Nat, NEW p, RemoveFromLeaf(h, n, k, p).status = "REMOVED"
  PROVE  \E q \in 1 .. Len(Items(h, n)) :
            /\ Items(h, n)[q].key = k /\ Items(h, n)[q].data.path = p
            /\ RemoveFromLeaf(h, n, k, p) = Result(Erased(h, n, q), "REMOVED", <<Items(h, n)[q].data>>)
<1>. DEFINE r == RemoveFromLeaf(h, n, k, p)
            items == Items(h, n)
<1>1. \/ \E i \in 1 .. Len(items) :
           /\ items[i].key = k /\ items[i].data.path = p
           /\ r = Result([h EXCEPT ![n].items = RemoveAt(@, i)], "REMOVED", <<items[i].data>>)
      \/ /\ \A i \in 1 .. Len(items) : ~(items[i].key = k /\ items[i].data.path = p)
         /\ r.heap = h /\ r.gone = Nothing
         /\ \/ r.status = "NoSuchPath"
            \/ r.status = "NOT_FOUND" /\ items # <<>> /\ Last(items).key = k
  BY RemovesWhatItHolds
<1>2. r.status = "REMOVED"
  OBVIOUS
<1>. HIDE DEF r, items
<1>3. \E i \in 1 .. Len(items) :
           /\ items[i].key = k /\ items[i].data.path = p
           /\ r = Result([h EXCEPT ![n].items = RemoveAt(@, i)], "REMOVED", <<items[i].data>>)
  BY <1>1, <1>2
<1>. QED
  BY <1>3 DEF Erased, r, items

\* Row S without item e of node c, w what is left of it.
Loses(h, S, c, w, e) ==
  /\ FitsIn(h, S, c, w) /\ Len(w) = Size(h, c) - 1 /\ e \in ToSet(Items(h, c))
  /\ \A d : d \in ToSet(w) <=> d \in ToSet(Items(h, c)) /\ d # e

\* A leaf that gives a record up keeps its place among the others.
LEMMA LossFits ==
  ASSUME NEW E, NEW h \in Seq(BTreeNode(E)), NEW S, NEW D, Row(h, S, D), Distinct(h, S),
         NEW c \in S, Size(h, c) >= 2,
         NEW k \in Nat, NEW p, RemoveFromLeaf(h, c, k, p).status = "REMOVED"
  PROVE  \E w \in Seq(Entry(E)) : \E e :
           /\ Loses(h, S, c, w, e) /\ e.key = k /\ e.data.path = p
           /\ RemoveFromLeaf(h, c, k, p).heap = WithItems(h, c, w)
           /\ RemoveFromLeaf(h, c, k, p).gone = <<e.data>>
<1>. DEFINE v == Items(h, c)
            r == RemoveFromLeaf(h, c, k, p)
<1>1. Row(h, S, D) /\ Distinct(h, S) /\ S \subseteq DOMAIN h /\ c \in S
  BY DEF Row
<1>2. v \in Seq(Entry(E)) /\ InOrder(v) /\ Len(v) >= 2 /\ Len(v) \in Nat
  <2>1. v \in Seq(Entry(E)) /\ InOrder(v)
    BY <1>1, HeapNode DEF Row, RowNode, KeysInOrder
  <2>. QED
    BY <2>1 DEF Size, Items
<1>3. PICK q \in 1 .. Len(v) :
        /\ v[q].key = k /\ v[q].data.path = p
        /\ r = Result(Erased(h, c, q), "REMOVED", <<v[q].data>>)
  <2>1. c \in DOMAIN h /\ KeysInOrder(h, c)
    BY <1>1, <1>2 DEF KeysInOrder
  <2>. QED
    BY <2>1, RemovesOne
<1>. DEFINE w == RemoveAt(v, q)
            g == WithItems(h, c, w)
            e == v[q]
<1>4. r.heap = g /\ r.gone = <<e.data>>
  BY <1>3 DEF Result, Erased, WithItems, Items
<1>. HIDE DEF r
<1>5. /\ w \in Seq(Entry(E)) /\ Len(w) = Len(v) - 1 /\ w # <<>> /\ InOrder(w)
      /\ Head(v).key <= Head(w).key /\ Last(w).key <= Last(v).key
      /\ Head(w).key \in Nat /\ Last(w).key \in Nat
      /\ \A d : d \in ToSet(w) <=> d \in ToSet(v) /\ d # v[q]
  <2>1. v \in Seq(Entry(E)) /\ InOrder(v) /\ Len(v) >= 2
    BY <1>2
  <2>. HIDE DEF v, g
  <2>. QED
    BY <2>1, RemovedItems
<1>6. e \in ToSet(v) /\ e.key = k /\ e.data.path = p
  <2>1. q \in DOMAIN v
    BY <1>2
  <2>. QED
    BY <2>1, <1>3 DEF ToSet
<1>. HIDE DEF v, w, e
<1>7. FitsIn(h, S, c, w)
  <2>1. /\ None \notin S
        /\ \A x \in S :
              /\ h[x].left # None => h[x].left \in S /\ h[h[x].left].right = x
              /\ h[x].right # None =>
                   /\ h[x].right \in S /\ h[h[x].right].left = x
                   /\ Last(Items(h, x)).key < Head(Items(h, h[x].right)).key
    BY <1>1, RowLinks
  <2>2. /\ Head(v).key \in Nat /\ Last(v).key \in Nat
        /\ \A x \in S : Head(Items(h, x)).key \in Nat /\ Last(Items(h, x)).key \in Nat
    BY <1>1, RowEnds DEF v
  <2>3. h[c].left # None => MaxKey(h, h[c].left) < Head(w).key
    <3>. SUFFICES ASSUME h[c].left # None PROVE MaxKey(h, h[c].left) < Head(w).key
      OBVIOUS
    <3>. DEFINE y == h[c].left
    <3>1. y \in S /\ h[y].right = c /\ c # None
      BY <1>1, <2>1
    <3>2. Last(Items(h, y)).key < Head(v).key
      BY <2>1, <3>1 DEF v
    <3>3. MaxKey(h, y) = Last(Items(h, y)).key
      BY DEF MaxKey, Items
    <3>. QED
      BY <2>2, <3>1, <3>2, <3>3, <1>5
  <2>4. h[c].right # None => Last(w).key < Head(Items(h, h[c].right)).key
    <3>. SUFFICES ASSUME h[c].right # None PROVE Last(w).key < Head(Items(h, h[c].right)).key
      OBVIOUS
    <3>1. h[c].right \in S /\ Last(v).key < Head(Items(h, h[c].right)).key
      BY <2>1, <1>1 DEF v
    <3>. QED
      BY <2>2, <3>1, <1>5
  <2>5. \A y \in S \ {c} : \A d \in ToSet(w), f \in ToSet(Items(h, y)) : d.key # f.key
    BY <1>1, <1>5 DEF Distinct, v
  <2>. QED
    BY <2>3, <2>4, <2>5, <1>5 DEF FitsIn
<1>8. Loses(h, S, c, w, e)
  BY <1>5, <1>6, <1>7 DEF Loses, v, e, Size, Items
<1>. QED
  BY <1>4, <1>5, <1>6, <1>8 DEF r, g, e

=============================================================================
