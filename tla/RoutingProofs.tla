--------------------------- MODULE RoutingProofs ----------------------------
(***************************************************************************)
(* Proofs about MountTree, for every set of names, mount points and paths: *)
(* the nodes form a tree in which no node outlives its storages, a walk    *)
(* misses no storage, writes go to a storage that reads look at, and the   *)
(* tree implements the table.  And about Routing, for any number of        *)
(* clients and storages too: its types, that all the tree promises holds   *)
(* while calls are under way, and that a value set is read back.           *)
(***************************************************************************)
EXTENDS
  Routing, TLAPS, SequenceTheorems, WellFoundedInduction, NaturalsInduction, FiniteSetTheorems

-----------------------------------------------------------------------------
(* Numbers, instead of induction. *)

\* A non-empty set of naturals has a least element.
LEMMA HasLeast ==
  ASSUME NEW S \in SUBSET Nat, S # {}
  PROVE  \E m \in S : \A n \in S : m <= n
<1>. DEFINE R == {p \in Nat \X Nat : p[1] < p[2]}
<1>1. IsWellFoundedOn(R, Nat)
  <2>1. R = OpToRel(<, Nat)
    BY Zenon DEF OpToRel
  <2>. QED
    BY <2>1, NatLessThanWellFounded
<1>2. PICK m \in S : \A n \in S : <<n, m>> \notin R
  BY <1>1, WFMin, Zenon
<1>3. \A n \in S : m <= n
  <2>. SUFFICES ASSUME NEW n \in S PROVE m <= n
    OBVIOUS
  <2>1. <<n, m>> \in Nat \X Nat /\ ~(<<n, m>>[1] < <<n, m>>[2])
    BY <1>2
  <2>. QED
    BY <2>1
<1>. QED
  BY <1>3

\* A finite non-empty set of naturals has a greatest element: otherwise a smallest such
\* set without one would still lack one when an element is taken away.
LEMMA HasGreatest ==
  ASSUME NEW S \in SUBSET Nat, S # {}, IsFiniteSet(S)
  PROVE  \E m \in S : \A n \in S : n <= m
<1>. DEFINE Open == {T \in FiniteSubsetsOf(S) : T # {} /\ ~ \E m \in T : \A n \in T : n <= m}
<1>. SUFFICES ASSUME Open # {} PROVE FALSE
  BY DEF FiniteSubsetsOf
<1>1. PICK T \in Open : \A U \in Open : <<U, T>> \notin StrictSubsetOrdering(S)
  <2>1. Open \subseteq FiniteSubsetsOf(S)
    OBVIOUS
  <2>. QED
    BY <2>1, FS_StrictSubsetOrderingWellFounded, WFMin, Zenon
<1>2. PICK x \in T : TRUE
  OBVIOUS
<1>3. T \subseteq Nat /\ T \in SUBSET S /\ IsFiniteSet(T)
  BY DEF FiniteSubsetsOf
<1>4. T \ {x} \notin Open
  <2>1. <<T \ {x}, T>> \in StrictSubsetOrdering(S)
    BY <1>2, <1>3 DEF StrictSubsetOrdering
  <2>. QED
    BY <1>1, <2>1
<1>5. CASE T \ {x} = {}
  BY <1>2, <1>3, <1>5
<1>6. CASE T \ {x} # {}
  <2>1. T \ {x} \in FiniteSubsetsOf(S)
    BY <1>3, FS_RemoveElement DEF FiniteSubsetsOf
  <2>2. PICK m \in T \ {x} : \A n \in T \ {x} : n <= m
    BY <1>4, <1>6, <2>1
  <2>3. x \in Nat /\ m \in Nat
    BY <1>2, <1>3
  <2>4. CASE x <= m
    BY <2>2, <2>4
  <2>5. CASE m < x
    <3>1. \A n \in T : n <= x
      BY <1>3, <2>2, <2>3, <2>5
    <3>. QED
      BY <1>2, <3>1
  <2>. QED
    BY <2>3, <2>4, <2>5
<1>. QED
  BY <1>5, <1>6

-----------------------------------------------------------------------------
(* The tree of mount points. *)

Alphabet == Names \cup {Slash}
Place == Seq(Alphabet)

\* All that happens to a tree.
TreeNext == \E m \in Mountable : addMountPoint(m) \/ removeMountPoint(m.mount)
TreeSpec == TreeInit /\ [][TreeNext]_nodes

TreeShape == DOMAIN nodes \subseteq Place /\ nodes \in [DOMAIN nodes -> Seq(Mountable)]

TreeInv == TreeShape /\ TreeTypeOK /\ NoDeadNodes

-----------------------------------------------------------------------------
(***************************************************************************)
(* Prefixes.                                                               *)
(***************************************************************************)
\* A prefix is compared name by name.
LEMMA PrefixByNames ==
  ASSUME NEW y \in Place, NEW x \in Place
  PROVE  IsPrefix(y, x) <=> Len(y) <= Len(x) /\ \A i \in 1 .. Len(y) : y[i] = x[i]
<1>1. Len(y) \in Nat /\ Len(x) \in Nat
  BY LenProperties DEF Place
<1>2. SubSeq(y, 1, Len(y)) = y
  BY SubSeqFull DEF Place
<1>3. ASSUME Len(y) <= Len(x)
      PROVE  SubSeq(x, 1, Len(y)) \in Place /\ Len(SubSeq(x, 1, Len(y))) = Len(y)
             /\ \A i \in 1 .. Len(y) : SubSeq(x, 1, Len(y))[i] = x[i]
  <2>1. \A i \in 1 .. Len(y) : x[i] \in Alphabet
    BY <1>1, <1>3, ElementOfSeq DEF Place
  <2>2. /\ SubSeq(x, 1, Len(y)) \in Seq(Alphabet)
        /\ Len(SubSeq(x, 1, Len(y))) = IF 1 <= Len(y) THEN Len(y) - 1 + 1 ELSE 0
        /\ \A i \in 1 .. Len(y) - 1 + 1 : SubSeq(x, 1, Len(y))[i] = x[1 + i - 1]
    BY <1>1, <2>1, SubSeqProperties
  <2>. QED
    BY <1>1, <2>2 DEF Place
<1>4. ASSUME Len(y) <= Len(x)
      PROVE  y = SubSeq(x, 1, Len(y)) <=> \A i \in 1 .. Len(y) : y[i] = x[i]
  BY <1>3, <1>4, SeqEqual DEF Place
<1>. QED
  BY <1>2, <1>4 DEF IsPrefix

LEMMA PrefixesArePrefixes ==
  ASSUME NEW x \in Place
  PROVE  /\ Prefixes(x) \subseteq Place
         /\ \A y \in Place : y \in Prefixes(x) <=> IsPrefix(y, x)
<1>1. Len(x) \in Nat
  BY LenProperties DEF Place
<1>2. \A l \in 0 .. Len(x) : SubSeq(x, 1, l) \in Place /\ Len(SubSeq(x, 1, l)) = l
  <2>. SUFFICES ASSUME NEW l \in 0 .. Len(x)
                PROVE  SubSeq(x, 1, l) \in Place /\ Len(SubSeq(x, 1, l)) = l
    OBVIOUS
  <2>1. \A i \in 1 .. l : x[i] \in Alphabet
    BY <1>1, ElementOfSeq DEF Place
  <2>2. /\ SubSeq(x, 1, l) \in Seq(Alphabet)
        /\ Len(SubSeq(x, 1, l)) = IF 1 <= l THEN l - 1 + 1 ELSE 0
    BY <1>1, <2>1, SubSeqProperties
  <2>. QED
    BY <1>1, <2>2 DEF Place
<1>3. ASSUME NEW y \in Place PROVE y \in Prefixes(x) <=> IsPrefix(y, x)
  <2>1. Len(y) \in Nat /\ SubSeq(y, 1, Len(y)) = y
    BY LenProperties, SubSeqFull DEF Place
  <2>2. ASSUME y \in Prefixes(x) PROVE IsPrefix(y, x)
    <3>1. PICK l \in 0 .. Len(x) : y = SubSeq(x, 1, l)
      BY <2>2 DEF Prefixes
    <3>2. Len(y) = l
      BY <1>2, <3>1
    <3>. QED
      BY <1>1, <2>1, <3>1, <3>2 DEF IsPrefix
  <2>3. ASSUME IsPrefix(y, x) PROVE y \in Prefixes(x)
    <3>1. Len(y) \in 0 .. Len(x) /\ y = SubSeq(x, 1, Len(y))
      BY <1>1, <2>1, <2>3 DEF IsPrefix
    <3>. QED
      BY <3>1 DEF Prefixes
  <2>. QED
    BY <2>2, <2>3
<1>. QED
  BY <1>2, <1>3 DEF Prefixes

\* Being a prefix is an order with the root below everything.
LEMMA PrefixOrder ==
  /\ <<>> \in Place
  /\ \A x \in Place : IsPrefix(x, x) /\ IsPrefix(<<>>, x)
  /\ \A x \in Place : IsPrefix(x, <<>>) => x = <<>>
  /\ \A x, y, z \in Place : IsPrefix(x, y) /\ IsPrefix(y, z) => IsPrefix(x, z)
<1>1. <<>> \in Place /\ Len(<<>>) = 0
  BY EmptySeq DEF Place
<1>2. \A x \in Place : Len(x) \in Nat
  BY LenProperties DEF Place
<1>3. \A x \in Place : IsPrefix(x, x) /\ IsPrefix(<<>>, x)
  BY <1>1, <1>2, PrefixByNames
<1>4. \A x \in Place : IsPrefix(x, <<>>) => x = <<>>
  <2>. SUFFICES ASSUME NEW x \in Place, IsPrefix(x, <<>>) PROVE x = <<>>
    OBVIOUS
  <2>1. Len(x) = 0
    BY <1>1, <1>2, PrefixByNames
  <2>. QED
    BY <2>1, EmptySeq DEF Place
<1>5. ASSUME NEW x \in Place, NEW y \in Place, NEW z \in Place, IsPrefix(x, y), IsPrefix(y, z)
      PROVE  IsPrefix(x, z)
  BY <1>2, <1>5, PrefixByNames
<1>. QED
  BY <1>1, <1>3, <1>4, <1>5

\* PathView splits a path into a place of the tree.
LEMMA PartsArePlace ==
  ASSUME NEW path \in Strings
  PROVE  Parts(path) \in Place
<1>. DEFINE good == IF Malformed(path) THEN Min(DoubleSlashes(path)) - 1 ELSE Len(path)
<1>1. path \in Seq(Alphabet) /\ Len(path) \in Nat
  BY LenProperties DEF Strings, Alphabet
<1>2. good \in 0 .. Len(path)
  <2>1. CASE Malformed(path)
    <3>1. DoubleSlashes(path) \in SUBSET Nat /\ DoubleSlashes(path) # {}
      BY <1>1, <2>1 DEF DoubleSlashes, Malformed
    <3>2. \E m \in DoubleSlashes(path) : \A n \in DoubleSlashes(path) : m <= n
      BY <3>1, HasLeast
    <3>3. Min(DoubleSlashes(path)) \in DoubleSlashes(path)
      BY <3>2 DEF Min
    <3>4. Min(DoubleSlashes(path)) \in 2 .. Len(path)
      BY <3>3 DEF DoubleSlashes
    <3>. QED
      BY <1>1, <2>1, <3>4
  <2>2. CASE ~Malformed(path)
    BY <1>1, <2>2
  <2>. QED
    BY <2>1, <2>2
<1>. HIDE DEF good
<1>3. good \div 2 \in Nat /\ 2 * (good \div 2) <= good
  BY <1>1, <1>2
<1>4. \A k \in 1 .. good \div 2 : path[2 * k] \in Alphabet
  BY <1>1, <1>2, <1>3, ElementOfSeq
<1>5. [k \in 1 .. good \div 2 |-> path[2 * k]] \in Seq(Alphabet)
  BY <1>3, <1>4
<1>. QED
  BY <1>5 DEF Parts, good, Place

-----------------------------------------------------------------------------
(***************************************************************************)
(* The invariant.                                                          *)
(***************************************************************************)
\* Every mount point is made at a place.
LEMMA MountPlace ==
  ASSUME NEW m \in Mountable
  PROVE  m.mount \in Strings /\ Parts(m.mount) \in Place /\ m.priority \in Nat
  BY MountAssumption, PartsArePlace

LEMMA TreeInitial == TreeInit => TreeInv
<1>. SUFFICES ASSUME TreeInit PROVE TreeInv
  OBVIOUS
<1>1. DOMAIN nodes = {<<>>} /\ nodes[<<>>] = <<>>
  BY DEF TreeInit
<1>2. <<>> \in Place /\ <<>> \in Seq(Mountable)
  BY EmptySeq DEF Place
<1>3. nodes \in [DOMAIN nodes -> Seq(Mountable)]
  BY <1>1, <1>2 DEF TreeInit
<1>4. Prefixes(<<>>) \subseteq {<<>>}
  BY <1>2, PrefixesArePrefixes, PrefixOrder
<1>. QED
  BY <1>1, <1>2, <1>3, <1>4 DEF TreeInv, TreeShape, TreeTypeOK, NoDeadNodes

\* The nodes on the way to a mount point join the tree without storages.
LEMMA AddStep ==
  ASSUME TreeInv, NEW m \in Mountable, addMountPoint(m)
  PROVE  TreeInv'
<1>. DEFINE x == Parts(m.mount)
            grown == [y \in DOMAIN nodes \cup Prefixes(x) |->
                        IF y \in DOMAIN nodes THEN nodes[y] ELSE <<>>]
<1>. USE DEF TreeInv
<1>1. x \in Place /\ Prefixes(x) \subseteq Place /\ x \in Prefixes(x)
  BY MountPlace, PrefixesArePrefixes, PrefixOrder
<1>2. nodes' = IF Malformed(m.mount) THEN grown ELSE [grown EXCEPT ![x] = Append(@, m)]
  BY DEF addMountPoint
<1>3. grown \in [DOMAIN nodes \cup Prefixes(x) -> Seq(Mountable)]
  BY EmptySeq DEF TreeShape
<1>4. DOMAIN nodes' = DOMAIN nodes \cup Prefixes(x)
  BY <1>2
<1>5. grown[x] \in Seq(Mountable) /\ Append(grown[x], m) \in Seq(Mountable)
      /\ Append(grown[x], m) # <<>>
  <2>1. grown[x] \in Seq(Mountable)
    BY <1>1, <1>3
  <2>. HIDE DEF grown
  <2>. QED
    BY <2>1, AppendProperties
<1>6. TreeShape'
  BY <1>1, <1>2, <1>3, <1>4, <1>5 DEF TreeShape
<1>7. \A y \in DOMAIN nodes' : y # x => nodes'[y] = IF y \in DOMAIN nodes THEN nodes[y] ELSE <<>>
  BY <1>2, <1>4
<1>8. nodes'[x] = IF Malformed(m.mount) THEN grown[x] ELSE Append(grown[x], m)
  BY <1>1, <1>2
<1>. HIDE DEF grown, x
<1>9. TreeTypeOK'
  <2>1. <<>> \in DOMAIN nodes'
    BY <1>4 DEF TreeTypeOK
  <2>2. ASSUME NEW y \in DOMAIN nodes' PROVE Prefixes(y) \subseteq DOMAIN nodes'
    <3>1. CASE y \in DOMAIN nodes
      BY <1>4, <3>1 DEF TreeTypeOK
    <3>2. CASE y \in Prefixes(x)
      BY <1>1, <1>4, <3>2, PrefixesArePrefixes, PrefixOrder
    <3>. QED
      BY <1>4, <3>1, <3>2
  <2>3. ASSUME NEW y \in DOMAIN nodes', NEW i \in DOMAIN nodes'[y]
        PROVE  nodes'[y][i] \in Mountable /\ Parts(nodes'[y][i].mount) = y
    <3>1. nodes'[y] \in Seq(Mountable)
      BY <1>6 DEF TreeShape
    <3>2. ASSUME nodes'[y] = IF y \in DOMAIN nodes THEN nodes[y] ELSE <<>>
          PROVE  nodes'[y][i] \in Mountable /\ Parts(nodes'[y][i].mount) = y
      BY <3>2 DEF TreeTypeOK
    <3>3. CASE y # x
      BY <1>7, <3>1, <3>2, <3>3
    <3>4. CASE y = x
      <4>1. grown[x] = IF x \in DOMAIN nodes THEN nodes[x] ELSE <<>>
        BY <1>1 DEF grown
      <4>2. CASE Malformed(m.mount)
        BY <1>8, <3>2, <3>4, <4>1, <4>2
      <4>3. CASE ~Malformed(m.mount)
        <5>. DEFINE n == Len(grown[x])
        <5>1. nodes'[x] = Append(grown[x], m) /\ n \in Nat /\ DOMAIN grown[x] = 1 .. n
          BY <1>5, <1>8, <4>3, LenProperties
        <5>2. /\ DOMAIN Append(grown[x], m) = 1 .. n + 1
              /\ Append(grown[x], m)[n + 1] = m
              /\ \A j \in 1 .. n : Append(grown[x], m)[j] = grown[x][j]
          BY <1>5, AppendProperties, LenProperties
        <5>3. CASE i = n + 1
          BY <3>4, <5>1, <5>2, <5>3 DEF x
        <5>4. CASE i \in 1 .. n
          BY <3>4, <4>1, <5>1, <5>2, <5>4 DEF TreeTypeOK
        <5>. QED
          BY <3>4, <5>1, <5>2, <5>3, <5>4
      <4>. QED
        BY <4>2, <4>3
    <3>. QED
      BY <3>3, <3>4, <3>1
  <2>. QED
    BY <2>1, <2>2, <2>3 DEF TreeTypeOK
<1>10. NoDeadNodes'
  <2>. SUFFICES ASSUME NEW w \in DOMAIN nodes' \ {<<>>}
                PROVE  \/ \E y \in DOMAIN nodes' : IsPrefix(w, y) /\ nodes'[y] # <<>>
                       \/ \E o \in Mountable : Malformed(o.mount) /\ IsPrefix(w, Parts(o.mount))
    BY DEF NoDeadNodes
  <2>1. CASE w \in Prefixes(x)
    <3>1. IsPrefix(w, x)
      BY <1>1, <2>1, PrefixesArePrefixes
    <3>2. CASE Malformed(m.mount)
      BY <3>1, <3>2 DEF x
    <3>3. CASE ~Malformed(m.mount)
      BY <1>1, <1>4, <1>5, <1>8, <3>1, <3>3
    <3>. QED
      BY <3>2, <3>3
  <2>2. CASE w \notin Prefixes(x)
    <3>1. w \in DOMAIN nodes \ {<<>>}
      BY <1>4, <2>2
    <3>2. ASSUME NEW y \in DOMAIN nodes, IsPrefix(w, y), nodes[y] # <<>>
          PROVE  \E z \in DOMAIN nodes' : IsPrefix(w, z) /\ nodes'[z] # <<>>
      <4>1. CASE y # x
        BY <1>4, <1>7, <3>2, <4>1
      <4>2. CASE y = x
        BY <1>1, <2>2, <3>1, <3>2, <4>2, PrefixesArePrefixes DEF TreeShape
      <4>. QED
        BY <4>1, <4>2
    <3>. QED
      BY <3>1, <3>2 DEF NoDeadNodes
  <2>. QED
    BY <2>1, <2>2
<1>. QED
  BY <1>6, <1>9, <1>10

\* A node that stays has a descendant that stays and has a storage.
LEMMA RemoveStep ==
  ASSUME TreeInv, NEW path, removeMountPoint(path)
  PROVE  TreeInv'
<1>. DEFINE x == Parts(path)
            cleared == [nodes EXCEPT ![x] = <<>>]
            gone == Pruned(cleared, x)
<1>. USE DEF TreeInv
<1>1. x \in DOMAIN nodes /\ x \in Place
  BY DEF removeMountPoint, TreeShape
<1>2. nodes' = [y \in DOMAIN nodes \ gone |-> cleared[y]] /\ DOMAIN nodes' = DOMAIN nodes \ gone
  BY DEF removeMountPoint
<1>3. /\ \A y \in DOMAIN nodes : cleared[y] = IF y = x THEN <<>> ELSE nodes[y]
      /\ DOMAIN cleared = DOMAIN nodes
  OBVIOUS
<1>4. \A y \in DOMAIN nodes : cleared[y] \in Seq(Mountable)
  BY <1>3, EmptySeq DEF TreeShape
<1>5. \A y \in DOMAIN nodes' : nodes'[y] = cleared[y]
  BY <1>2
<1>. HIDE DEF cleared, x
<1>6. \A y \in Place : y \in gone <=>
        /\ y # <<>> /\ IsPrefix(y, x)
        /\ \A z \in DOMAIN nodes : IsPrefix(y, z) => IsPrefix(z, x) /\ cleared[z] = <<>>
  BY <1>1, <1>3, PrefixesArePrefixes DEF Pruned, TreeShape
<1>. HIDE DEF gone
<1>7. TreeShape'
  BY <1>2, <1>4 DEF TreeShape
<1>8. TreeTypeOK'
  <2>1. <<>> \in DOMAIN nodes'
    BY <1>2, <1>6, PrefixOrder DEF TreeTypeOK
  <2>2. ASSUME NEW y \in DOMAIN nodes', NEW p \in Prefixes(y) PROVE p \in DOMAIN nodes'
    <3>1. y \in Place /\ p \in Place /\ IsPrefix(p, y) /\ p \in DOMAIN nodes
      BY <1>2, <2>2, PrefixesArePrefixes DEF TreeShape, TreeTypeOK
    <3>2. ASSUME p \in gone PROVE y \in gone
      <4>1. y # <<>>
        BY <1>6, <3>1, <3>2, PrefixOrder
      <4>2. IsPrefix(y, x)
        BY <1>2, <1>6, <3>1, <3>2
      <4>3. ASSUME NEW z \in DOMAIN nodes, IsPrefix(y, z) PROVE IsPrefix(p, z)
        BY <3>1, <4>3, PrefixOrder DEF TreeShape
      <4>. QED
        BY <1>6, <3>1, <3>2, <4>1, <4>2, <4>3
    <3>. QED
      BY <1>2, <2>2, <3>1, <3>2
  <2>3. ASSUME NEW y \in DOMAIN nodes', NEW i \in DOMAIN nodes'[y]
        PROVE  nodes'[y][i] \in Mountable /\ Parts(nodes'[y][i].mount) = y
    <3>1. nodes'[y] = IF y = x THEN <<>> ELSE nodes[y]
      BY <1>2, <1>3, <1>5
    <3>. QED
      BY <1>2, <3>1 DEF TreeTypeOK
  <2>. QED
    BY <2>1, <2>2, <2>3 DEF TreeTypeOK
<1>9. NoDeadNodes'
  <2>. DEFINE Alive(w) == \E y \in DOMAIN nodes' : IsPrefix(w, y) /\ nodes'[y] # <<>>
              HalfBuilt(w) == \E o \in Mountable : Malformed(o.mount) /\ IsPrefix(w, Parts(o.mount))
  <2>1. ASSUME NEW w \in Place, NEW y \in DOMAIN nodes, y # x, IsPrefix(w, y), nodes[y] # <<>>
        PROVE  Alive(w)
    <3>1. cleared[y] # <<>> /\ y \in Place
      BY <1>3, <2>1 DEF TreeShape
    <3>2. y \notin gone
      BY <1>6, <3>1, PrefixOrder
    <3>. QED
      BY <1>2, <1>5, <2>1, <3>1, <3>2
  <2>2. ASSUME NEW w \in DOMAIN nodes', w # <<>> PROVE Alive(w) \/ HalfBuilt(w)
    <3>1. w \in Place /\ w \in DOMAIN nodes /\ w \notin gone
      BY <1>2, <2>2 DEF TreeShape
    <3>2. \/ HalfBuilt(w)
          \/ \E y \in DOMAIN nodes : IsPrefix(w, y) /\ nodes[y] # <<>>
      BY <2>2, <3>1 DEF NoDeadNodes
    <3>3. ASSUME IsPrefix(w, x) PROVE Alive(w) \/ HalfBuilt(w)
      <4>1. PICK z \in DOMAIN nodes : IsPrefix(w, z) /\ ~(IsPrefix(z, x) /\ cleared[z] = <<>>)
        BY <1>6, <2>2, <3>1, <3>3
      <4>2. z \in Place
        BY DEF TreeShape
      <4>3. CASE cleared[z] # <<>>
        BY <1>3, <2>1, <3>1, <4>1, <4>3
      <4>4. CASE ~IsPrefix(z, x)
        <5>1. z # <<>>
          BY <1>1, <4>4, PrefixOrder
        <5>2. \/ HalfBuilt(z)
              \/ \E y \in DOMAIN nodes : IsPrefix(z, y) /\ nodes[y] # <<>>
          BY <5>1 DEF NoDeadNodes
        <5>3. ASSUME NEW y \in Place, IsPrefix(z, y) PROVE IsPrefix(w, y)
          BY <3>1, <4>1, <4>2, <5>3, PrefixOrder
        <5>4. HalfBuilt(z) => HalfBuilt(w)
          BY <5>3, MountPlace
        <5>5. ASSUME NEW y \in DOMAIN nodes, IsPrefix(z, y), nodes[y] # <<>> PROVE Alive(w)
          <6>1. y # x /\ y \in Place
            BY <4>4, <5>5 DEF TreeShape
          <6>. QED
            BY <2>1, <3>1, <5>3, <5>5, <6>1
        <5>. QED
          BY <5>2, <5>4, <5>5
      <4>. QED
        BY <4>1, <4>3, <4>4
    <3>. QED
      BY <2>1, <3>1, <3>2, <3>3
  <2>. QED
    BY <2>2 DEF NoDeadNodes
<1>. QED
  BY <1>7, <1>8, <1>9

LEMMA TreeStep == TreeInv /\ [TreeNext]_nodes => TreeInv'
<1>1. ASSUME TreeInv, UNCHANGED nodes PROVE TreeInv'
  BY <1>1 DEF TreeInv, TreeShape, TreeTypeOK, NoDeadNodes
<1>. QED
  BY <1>1, AddStep, RemoveStep DEF TreeNext

\* The nodes are a tree, every mount point is where its path names, and no node stays
\* behind: whatever is mounted and unmounted, and in whatever order.
THEOREM TreeCorrect == TreeSpec => []TreeInv
<1>. QED
  BY TreeInitial, TreeStep, PTL DEF TreeSpec

-----------------------------------------------------------------------------
(***************************************************************************)
(* What the choice of storages sees.                                       *)
(***************************************************************************)
\* The walk ends at the first missing node, and misses none that is there.
LEMMA WalkIsTheWay ==
  ASSUME TreeInv, NEW path \in Strings
  PROVE  Walk(nodes, path) =
           UNION {{x} \X DOMAIN nodes[x] : x \in Prefixes(Parts(path)) \cap DOMAIN nodes}
<1>1. Prefixes(Parts(path)) \subseteq Place
  BY PartsArePlace, PrefixesArePrefixes
<1>2. ASSUME NEW x \in Prefixes(Parts(path))
      PROVE  Prefixes(x) \subseteq DOMAIN nodes <=> x \in DOMAIN nodes
  BY <1>1, PrefixesArePrefixes, PrefixOrder DEF TreeInv, TreeTypeOK
<1>3. {x \in Prefixes(Parts(path)) : Prefixes(x) \subseteq DOMAIN nodes} =
        Prefixes(Parts(path)) \cap DOMAIN nodes
  BY <1>2
<1>. QED
  BY <1>3 DEF Walk

\* What a walk meets.
LEMMA WalkMeets ==
  ASSUME TreeInv, NEW path \in Strings, NEW at \in Walk(nodes, path)
  PROVE  /\ at = <<at[1], at[2]>>
         /\ Len(at[1]) \in Nat /\ at[2] \in Nat
         /\ PointAt(nodes, at) \in Mountable /\ PointAt(nodes, at).priority \in Nat
<1>1. PICK x \in Prefixes(Parts(path)) \cap DOMAIN nodes : at \in {x} \X DOMAIN nodes[x]
  BY WalkIsTheWay
<1>2. at = <<x, at[2]>> /\ at[1] = x /\ at[2] \in DOMAIN nodes[x]
  BY <1>1
<1>3. x \in Place /\ nodes[x] \in Seq(Mountable)
  BY DEF TreeInv, TreeShape
<1>4. Len(x) \in Nat /\ at[2] \in Nat
  BY <1>2, <1>3, LenProperties DEF Place
<1>5. nodes[x][at[2]] \in Mountable
  BY <1>2 DEF TreeInv, TreeTypeOK
<1>. QED
  BY <1>2, <1>4, <1>5, MountPlace DEF PointAt

\* Of the mount points met, one is the best: the smallest number, and the first that has it.
LEMMA BestExists ==
  ASSUME TreeInv, NEW path \in Strings, Walk(nodes, path) # {}
  PROVE  \E at \in Walk(nodes, path) : \A o \in Walk(nodes, path) :
           /\ PointAt(nodes, at).priority <= PointAt(nodes, o).priority
           /\ Before(o, at) => PointAt(nodes, at).priority < PointAt(nodes, o).priority
<1>. DEFINE w == Walk(nodes, path)
            P(at) == PointAt(nodes, at).priority
<1>1. \A at \in w : Len(at[1]) \in Nat /\ at[2] \in Nat /\ P(at) \in Nat
  BY WalkMeets
<1>. HIDE DEF w, P
<1>2. PICK a \in w : \A o \in w : P(a) <= P(o)
  <2>. DEFINE S == {P(at) : at \in w}
  <2>1. S \in SUBSET Nat /\ S # {}
    BY <1>1 DEF w
  <2>2. \E m \in S : \A n \in S : m <= n
    BY <2>1, HasLeast
  <2>. QED
    BY <2>2
<1>. DEFINE small == {at \in w : P(at) = P(a)}
<1>3. PICK b \in small : \A o \in small : Len(b[1]) <= Len(o[1])
  <2>. DEFINE S == {Len(at[1]) : at \in small}
  <2>1. S \in SUBSET Nat /\ S # {}
    BY <1>1, <1>2
  <2>2. \E m \in S : \A n \in S : m <= n
    BY <2>1, HasLeast
  <2>. QED
    BY <2>2
<1>. DEFINE near == {at \in small : at[1] = b[1]}
<1>4. PICK c \in near : \A o \in near : c[2] <= o[2]
  <2>. DEFINE S == {at[2] : at \in near}
  <2>1. S \in SUBSET Nat /\ S # {}
    BY <1>1, <1>3
  <2>2. \E m \in S : \A n \in S : m <= n
    BY <2>1, HasLeast
  <2>. QED
    BY <2>2
<1>5. c \in w /\ P(c) = P(a) /\ c[1] = b[1]
  OBVIOUS
<1>6. ASSUME NEW o \in w, Before(o, c) PROVE P(c) < P(o)
  <2>1. P(c) \in Nat /\ P(o) \in Nat /\ P(c) <= P(o)
    BY <1>1, <1>2, <1>5
  <2>2. P(o) # P(c)
    <3>. SUFFICES ASSUME P(o) = P(c) PROVE FALSE
      OBVIOUS
    <3>1. o \in small
      BY <1>5
    <3>2. CASE Len(o[1]) < Len(c[1])
      BY <1>1, <1>3, <1>5, <3>1, <3>2
    <3>3. CASE o[1] = c[1] /\ o[2] < c[2]
      BY <1>1, <1>4, <1>5, <3>1, <3>3
    <3>. QED
      BY <1>6, <3>2, <3>3 DEF Before
  <2>. QED
    BY <2>1, <2>2
<1>7. \A o \in w : P(c) <= P(o) /\ (Before(o, c) => P(c) < P(o))
  BY <1>2, <1>5, <1>6
<1>. QED
  BY <1>5, <1>7 DEF w, P

\* Two points met at the same depth are at the same node.
LEMMA SameDepth ==
  ASSUME TreeInv, NEW path \in Strings,
         NEW at \in Walk(nodes, path), NEW o \in Walk(nodes, path), Len(at[1]) = Len(o[1])
  PROVE  at[1] = o[1]
<1>1. at[1] \in Prefixes(Parts(path)) /\ o[1] \in Prefixes(Parts(path))
  BY WalkIsTheWay
<1>2. Parts(path) \in Place /\ Prefixes(Parts(path)) \subseteq Place
  BY PartsArePlace, PrefixesArePrefixes
<1>3. /\ IsPrefix(at[1], Parts(path)) /\ IsPrefix(o[1], Parts(path))
      /\ at[1] \in Seq(Alphabet) /\ o[1] \in Seq(Alphabet)
  BY <1>1, <1>2, PrefixesArePrefixes DEF Place
<1>4. \A i \in 1 .. Len(at[1]) : at[1][i] = o[1][i]
  BY <1>2, <1>3, PrefixByNames DEF Place
<1>. QED
  BY <1>3, <1>4, SeqEqual

\* The list of storages is a finite set, and no two of them have the same number.
LEMMA ListIsRanked ==
  ASSUME TreeInv, NEW path \in Strings
  PROVE  LET list == getSuitableStorageList(nodes, path)
         IN /\ list \subseteq Mountable /\ IsFiniteSet(list)
            /\ \A m, o \in list : m.priority = o.priority => m = o
<1>. DEFINE w == Walk(nodes, path)
            kept == {at \in w : \A o \in w :
                       Before(o, at) => PointAt(nodes, o).priority # PointAt(nodes, at).priority}
            list == getSuitableStorageList(nodes, path)
<1>1. list = {} \/ list = {PointAt(nodes, at) : at \in kept}
  BY DEF getSuitableStorageList
<1>2. list \subseteq Mountable
  <2>1. \A at \in w : PointAt(nodes, at) \in Mountable
    BY WalkMeets
  <2>. QED
    BY <1>1, <2>1
<1>3. ASSUME NEW at \in kept, NEW o \in kept,
             PointAt(nodes, o).priority = PointAt(nodes, at).priority
      PROVE  at = o
  <2>1. ~Before(at, o) /\ ~Before(o, at)
    BY <1>3
  <2>2. /\ at = <<at[1], at[2]>> /\ Len(at[1]) \in Nat /\ at[2] \in Nat
        /\ o = <<o[1], o[2]>> /\ Len(o[1]) \in Nat /\ o[2] \in Nat
    BY WalkMeets
  <2>3. Len(at[1]) = Len(o[1])
    BY <2>1, <2>2 DEF Before
  <2>4. at[1] = o[1]
    BY <2>3, SameDepth
  <2>5. at[2] = o[2]
    BY <2>1, <2>2, <2>4 DEF Before
  <2>. QED
    BY <2>2, <2>4, <2>5
<1>4. \A m, o \in list : m.priority = o.priority => m = o
  BY <1>1, <1>3
<1>5. IsFiniteSet(w)
  <2>. DEFINE P == Parts(path)
              way == Prefixes(P) \cap DOMAIN nodes
              parts == {{x} \X DOMAIN nodes[x] : x \in way}
  <2>1. P \in Place /\ Len(P) \in Nat
    BY PartsArePlace, LenProperties DEF Place
  <2>2. IsFiniteSet(way)
    <3>. DEFINE f == [l \in 0 .. Len(P) |-> SubSeq(P, 1, l)]
    <3>1. IsFiniteSet(0 .. Len(P))
      BY <2>1, FS_Interval
    <3>2. f \in Surjection(0 .. Len(P), Prefixes(P))
      BY DEF Surjection, Prefixes
    <3>3. IsFiniteSet(Prefixes(P))
      BY <3>1, <3>2, FS_Surjection
    <3>. QED
      BY <3>3, FS_Intersection
  <2>3. ASSUME NEW x \in way PROVE IsFiniteSet({x} \X DOMAIN nodes[x])
    <3>1. nodes[x] \in Seq(Mountable)
      BY DEF TreeInv, TreeShape
    <3>2. Len(nodes[x]) \in Nat /\ DOMAIN nodes[x] = 1 .. Len(nodes[x])
      BY <3>1, LenProperties
    <3>3. IsFiniteSet(1 .. Len(nodes[x]))
      BY <3>2, FS_Interval
    <3>4. IsFiniteSet({x})
      BY FS_Singleton
    <3>. QED
      BY <3>2, <3>3, <3>4, FS_Product
  <2>4. IsFiniteSet(parts) /\ \A T \in parts : IsFiniteSet(T)
    <3>. DEFINE f == [x \in way |-> {x} \X DOMAIN nodes[x]]
    <3>1. f \in Surjection(way, parts)
      BY DEF Surjection
    <3>2. IsFiniteSet(parts)
      BY <2>2, <3>1, FS_Surjection
    <3>. QED
      BY <2>3, <3>2
  <2>5. w = UNION parts
    BY WalkIsTheWay
  <2>. HIDE DEF w, parts
  <2>. QED
    BY <2>4, <2>5, FS_UNION
<1>6. IsFiniteSet(list)
  <2>1. IsFiniteSet(kept)
    BY <1>5, FS_Subset
  <2>. DEFINE seen == {PointAt(nodes, at) : at \in kept}
              f == [at \in kept |-> PointAt(nodes, at)]
  <2>2. f \in Surjection(kept, seen)
    BY DEF Surjection
  <2>3. IsFiniteSet(seen)
    BY <2>1, <2>2, FS_Surjection
  <2>. QED
    BY <1>1, <2>3, FS_EmptySet
<1>. QED
  BY <1>2, <1>4, <1>6

\* The storage written to is in the list, and has its smallest number.
LEMMA ChoiceIsLeast ==
  ASSUME TreeInv, NEW path \in Strings, Mounted(nodes, path)
  PROVE  LET list == getSuitableStorageList(nodes, path)
             m == getPriorityStorage(nodes, path)
         IN m \in list /\ \A o \in list : m.priority <= o.priority
<1>. DEFINE w == Walk(nodes, path)
            Best(at) == \A o \in w :
               /\ PointAt(nodes, at).priority <= PointAt(nodes, o).priority
               /\ Before(o, at) => PointAt(nodes, at).priority < PointAt(nodes, o).priority
            at == CHOOSE a \in w : Best(a)
<1>1. w # {} /\ ~Throws(nodes, path)
  BY DEF Mounted
<1>2. \E a \in w : Best(a)
  BY <1>1, BestExists
<1>3. at \in w /\ Best(at)
  BY <1>2
<1>4. \A o \in w : PointAt(nodes, o).priority \in Nat
  BY WalkMeets
<1>5. \A o \in w : Before(o, at) => PointAt(nodes, o).priority # PointAt(nodes, at).priority
  BY <1>3, <1>4
<1>6. getPriorityStorage(nodes, path) = PointAt(nodes, at)
  BY DEF getPriorityStorage
<1>. HIDE DEF at, w
<1>7. PointAt(nodes, at) \in getSuitableStorageList(nodes, path)
  BY <1>1, <1>3, <1>5 DEF getSuitableStorageList, w
<1>8. \A o \in getSuitableStorageList(nodes, path) : PointAt(nodes, at).priority <= o.priority
  BY <1>1, <1>3 DEF getSuitableStorageList, w
<1>. QED
  BY <1>6, <1>7, <1>8

\* A path that is read from somewhere can be written.
LEMMA ListedIsMounted ==
  ASSUME NEW path, getSuitableStorageList(nodes, path) # {}
  PROVE  Mounted(nodes, path)
  BY DEF getSuitableStorageList, Mounted

\* For every tree and path: the walk sees exactly what is mounted on the way.
THEOREM TreeSeesAll == TreeSpec => []WalkSeesAll
<1>1. TreeInv => WalkSeesAll
  <2>. SUFFICES ASSUME TreeInv, NEW p \in Requests
                PROVE  Walk(nodes, p) = Table!Seen(Parts(p))
    BY DEF WalkSeesAll
  <2>. DEFINE table == [x \in {y \in DOMAIN nodes : nodes[y] # <<>>} |-> nodes[x]]
              way == Prefixes(Parts(p))
  <2>1. Table!Seen(Parts(p)) = UNION {{x} \X DOMAIN table[x] : x \in way \cap DOMAIN table}
    BY DEF Table!Seen, Table!Prefixes, Prefixes
  <2>2. Walk(nodes, p) = UNION {{x} \X DOMAIN nodes[x] : x \in way \cap DOMAIN nodes}
    BY WalkIsTheWay, MountAssumption
  <2>3. \A x \in DOMAIN nodes \ DOMAIN table : {x} \X DOMAIN nodes[x] = {}
    <3>1. DOMAIN <<>> = {}
      OBVIOUS
    <3>. QED
      BY <3>1
  <2>4. \A x \in DOMAIN table : x \in DOMAIN nodes /\ table[x] = nodes[x]
    OBVIOUS
  <2>. HIDE DEF table, way
  <2>5. UNION {{x} \X DOMAIN table[x] : x \in way \cap DOMAIN table} =
          UNION {{x} \X DOMAIN nodes[x] : x \in way \cap DOMAIN nodes}
    BY <2>3, <2>4
  <2>. QED
    BY <2>1, <2>2, <2>5
<1>. QED
  BY <1>1, TreeCorrect, PTL

\* For every tree and path: the storage written to is among those that are read.
THEOREM TreeWritesAreRead == TreeSpec => []WrittenIsRead
<1>1. TreeInv => WrittenIsRead
  <2>. SUFFICES ASSUME TreeInv, NEW p \in Requests, Mounted(nodes, p)
                PROVE  getPriorityStorage(nodes, p) \in getSuitableStorageList(nodes, p)
    BY DEF WrittenIsRead
  <2>. QED
    BY ChoiceIsLeast, MountAssumption
<1>. QED
  BY <1>1, TreeCorrect, PTL

\* The erased nodes and the half built paths show nothing: mounting and unmounting are
\* the table's, for every set of mount points.
THEOREM TreeIsTable == TreeSpec => ImplementsTable
<1>. DEFINE table == [x \in {y \in DOMAIN nodes : nodes[y] # <<>>} |-> nodes[x]]
<1>1. TreeInit => Table!Init
  <2>. SUFFICES ASSUME TreeInit PROVE table = <<>>
    BY DEF Table!Init
  <2>1. DOMAIN table = {}
    BY DEF TreeInit
  <2>. QED
    BY <2>1
<1>2. ASSUME TreeInv, NEW m \in Mountable, addMountPoint(m)
      PROVE  Table!Next \/ table' = table
  <2>. DEFINE x == Parts(m.mount)
              grown == [y \in DOMAIN nodes \cup Prefixes(x) |->
                          IF y \in DOMAIN nodes THEN nodes[y] ELSE <<>>]
  <2>1. nodes' = IF Malformed(m.mount) THEN grown ELSE [grown EXCEPT ![x] = Append(@, m)]
    BY <1>2 DEF addMountPoint
  <2>2. x \in Prefixes(x)
    BY MountPlace, PrefixesArePrefixes, PrefixOrder
  <2>3. CASE Malformed(m.mount)
    <3>1. nodes' = grown
      BY <2>1, <2>3
    <3>2. {y \in DOMAIN grown : grown[y] # <<>>} = {y \in DOMAIN nodes : nodes[y] # <<>>}
      OBVIOUS
    <3>3. table' = table
      BY <3>1, <3>2
    <3>. QED
      BY <3>3
  <2>4. CASE ~Malformed(m.mount)
    <3>. DEFINE old == IF x \in DOMAIN table THEN table[x] ELSE <<>>
    <3>1. m \in Good
      BY <2>4 DEF Good
    <3>2. grown[x] = old /\ grown[x] \in Seq(Mountable)
      BY <1>2, <2>2, EmptySeq DEF TreeInv, TreeShape
    <3>3. Append(grown[x], m) # <<>>
      <4>1. \A s \in Seq(Mountable) : Append(s, m) # <<>>
        BY AppendProperties
      <4>. QED
        BY <3>2, <4>1
    <3>4. nodes' = [grown EXCEPT ![x] = Append(old, m)]
      BY <2>1, <2>4, <3>2
    <3>5. {y \in DOMAIN nodes' : nodes'[y] # <<>>} = DOMAIN table \cup {x}
      BY <2>2, <3>2, <3>3, <3>4
    <3>6. table' = [y \in DOMAIN table \cup {x} |-> IF y = x THEN Append(old, m) ELSE table[y]]
      BY <2>2, <3>4, <3>5
    <3>7. Table!Mount(m)
      <4>. DEFINE place == [o \in Good |-> Parts(o.mount)]
      <4>1. place[m] = x
        BY <3>1
      <4>2. \A y : y = x => Table!At(y) = old
        BY DEF Table!At
      <4>3. table' = [y \in DOMAIN table \cup {place[m]} |->
                       IF y = place[m] THEN Append(Table!At(y), m) ELSE table[y]]
        <5>. HIDE DEF table, place, old, x
        <5>. QED
          BY <3>6, <4>1, <4>2
      <4>. QED
        BY <4>3 DEF Table!Mount
    <3>. QED
      BY <3>1, <3>7 DEF Table!Next
  <2>. QED
    BY <2>3, <2>4
<1>3. ASSUME TreeInv, NEW m \in Mountable, removeMountPoint(m.mount)
      PROVE  Table!Next
  <2>. DEFINE x == Parts(m.mount)
              cleared == [nodes EXCEPT ![x] = <<>>]
              gone == Pruned(cleared, x)
  <2>1. /\ m \in Good /\ x \in DOMAIN nodes
        /\ nodes' = [y \in DOMAIN nodes \ gone |-> cleared[y]]
    BY <1>3 DEF removeMountPoint, Good
  <2>2. \A y \in gone \cap DOMAIN nodes : cleared[y] = <<>>
    BY <1>3, PrefixOrder DEF Pruned, TreeInv, TreeShape
  <2>. HIDE DEF gone
  <2>3. {y \in DOMAIN nodes' : nodes'[y] # <<>>} = DOMAIN table \ {x}
    BY <2>1, <2>2
  <2>4. table' = [y \in DOMAIN table \ {x} |-> table[y]]
    BY <2>1, <2>3
  <2>. QED
    BY <2>1, <2>4 DEF Table!Next, Table!Umount
<1>4. TreeInv /\ [TreeNext]_nodes => [Table!Next]_table
  BY <1>2, <1>3 DEF TreeNext
<1>. QED
  BY <1>1, <1>4, TreeCorrect, PTL DEF TreeSpec, ImplementsTable, Table!Spec

-----------------------------------------------------------------------------
(* The calls. *)

List(p) == getSuitableStorageList(nodes, p)
Has(m, p) == fullPath(m, p) \in DOMAIN held[m.storage]
Val(m, p) == held[m.storage][fullPath(m, p)]

SetCall == [kind : {"set"}, path : Requests, set : 1 .. sets, at : Mountable]
RemoveCall ==
  [kind : {"remove"}, path : Requests, clean : BOOLEAN, left : (SUBSET Mountable) \ {{}}]

Shape ==
  /\ call \in [Clients -> {Idle} \cup SetCall \cup RemoveCall]
  /\ held = [s \in Storages |-> held[s]]
  /\ \A s \in Storages : \A k \in DOMAIN held[s] : held[s][k] \in 1 .. sets
  /\ sets \in 0 .. MaxSets
  /\ expected \in [Requests -> {None, Unknown} \cup 1 .. sets]

\* A path that has to read as missing has no value anywhere.  One that has to read as a
\* value has it in the storage of the smallest number, and in no other place.
Settled ==
  \A p \in Requests :
    /\ expected[p] = None => \A m \in List(p) : ~Has(m, p)
    /\ expected[p] \notin {None, Unknown} => \E m \in List(p) :
         /\ \A o \in List(p) : m.priority <= o.priority
         /\ Has(m, p) /\ Val(m, p) = expected[p]
         /\ \A o \in List(p) : Has(o, p) => Spot(o, p) = Spot(m, p)

\* A removal that nothing interfered with has left no value where it was.
Swept ==
  \A c \in Clients, p \in Requests :
    call[c].kind = "remove" /\ call[c].clean /\ call[c].path = p =>
      \A m \in List(p) \ call[c].left : ~Has(m, p)

Inv == TreeInv /\ Shape /\ Settled /\ Swept

-----------------------------------------------------------------------------
(***************************************************************************)
(* The tree under the calls.                                               *)
(***************************************************************************)
LEMMA SpecHasTree == Spec => TreeSpec
<1>1. Init => TreeInit
  BY DEF Init
<1>2. [Next]_vars => [TreeNext]_nodes
  BY DEF Next, vars, Mount, Umount, SetRoute, SetStore, RemoveRoute, RemoveNext, TreeNext
<1>. QED
  BY <1>1, <1>2, PTL DEF Spec, TreeSpec

\* No node of the tree outlives its storages, whatever is mounted and unmounted.
THEOREM NodesAreAlive == Spec => []NoDeadNodes
<1>1. TreeInv => NoDeadNodes
  BY DEF TreeInv
<1>. QED
  BY <1>1, SpecHasTree, TreeCorrect, PTL

\* The walk from the root misses no storage on the way of a path.
THEOREM SeesAll == Spec => []WalkSeesAll
  BY SpecHasTree, TreeSeesAll, PTL

\* The storage a value goes to is one of those its path is read from.
THEOREM WritesAreRead == Spec => []WrittenIsRead
  BY SpecHasTree, TreeWritesAreRead, PTL

\* Mounting and unmounting between the calls of any clients is that of a table.
THEOREM MountsAreTable == Spec => ImplementsTable
  BY SpecHasTree, TreeIsTable, PTL

-----------------------------------------------------------------------------
(***************************************************************************)
(* Calls and storages.                                                     *)
(***************************************************************************)
LEMMA CallKinds ==
  ASSUME Shape, NEW c \in Clients
  PROVE  /\ Idle.kind = "idle"
         /\ call[c].kind = "set" => call[c] \in SetCall
         /\ call[c].kind = "remove" => call[c] \in RemoveCall
<1>1. call[c] \in {Idle} \cup SetCall \cup RemoveCall
  BY DEF Shape
<1>. QED
  BY <1>1 DEF Idle, SetCall, RemoveCall

\* What a path is read from: mount points of storages there are, of different numbers.
LEMMA Listed ==
  ASSUME TreeInv, NEW p \in Requests
  PROVE  /\ List(p) \subseteq Mountable /\ IsFiniteSet(List(p))
         /\ \A m, o \in List(p) : m.priority = o.priority => m = o
         /\ \A m \in List(p) : m.priority \in Nat
<1>1. p \in Strings
  BY MountAssumption
<1>2. /\ List(p) \subseteq Mountable /\ IsFiniteSet(List(p))
      /\ \A m, o \in List(p) : m.priority = o.priority => m = o
  BY <1>1, ListIsRanked DEF List
<1>. QED
  BY <1>2, MountPlace

\* More sets make no call ill shaped.
LEMMA MoreSets ==
  ASSUME Shape, sets' \in Nat, sets <= sets'
  PROVE  /\ {Idle} \cup SetCall \cup RemoveCall \subseteq ({Idle} \cup SetCall \cup RemoveCall)'
         /\ 1 .. sets \subseteq 1 .. sets'
<1>1. 1 .. sets \subseteq 1 .. sets'
  BY DEF Shape
<1>2. SetCall \subseteq SetCall'
  BY <1>1 DEF SetCall
<1>3. RemoveCall' = RemoveCall
  BY DEF RemoveCall
<1>. QED
  BY <1>1, <1>2, <1>3 DEF Idle

\* A removal that is spoilt is still a removal.
LEMMA SpoiltShape ==
  ASSUME Shape, NEW D,
         NEW spoilt, spoilt = [d \in Clients |-> IF call[d].kind = "remove" /\ d \in D
                                 THEN [call[d] EXCEPT !.clean = FALSE] ELSE call[d]]
  PROVE  /\ spoilt \in [Clients -> {Idle} \cup SetCall \cup RemoveCall]
         /\ \A d \in Clients :
              /\ spoilt[d].kind = call[d].kind
              /\ spoilt[d].kind = "remove" =>
                   spoilt[d].path = call[d].path /\ spoilt[d].left = call[d].left
              /\ spoilt[d].kind = "remove" /\ spoilt[d].clean => call[d].clean /\ d \notin D
<1>1. ASSUME NEW d \in Clients
      PROVE  /\ spoilt[d] \in {Idle} \cup SetCall \cup RemoveCall
             /\ spoilt[d].kind = call[d].kind
             /\ spoilt[d].kind = "remove" =>
                  spoilt[d].path = call[d].path /\ spoilt[d].left = call[d].left
             /\ spoilt[d].kind = "remove" /\ spoilt[d].clean => call[d].clean /\ d \notin D
  <2>1. CASE call[d].kind = "remove" /\ d \in D
    <3>1. call[d] \in RemoveCall
      BY <2>1, CallKinds
    <3>2. spoilt[d] = [call[d] EXCEPT !.clean = FALSE]
      BY <2>1
    <3>3. spoilt[d] \in RemoveCall
      BY <3>1, <3>2 DEF RemoveCall
    <3>4. /\ spoilt[d].kind = call[d].kind /\ spoilt[d].path = call[d].path
          /\ spoilt[d].left = call[d].left /\ spoilt[d].clean = FALSE
      BY <3>1, <3>2 DEF RemoveCall
    <3>. QED
      BY <3>3, <3>4
  <2>2. CASE ~(call[d].kind = "remove" /\ d \in D)
    <3>1. spoilt[d] = call[d] /\ call[d] \in {Idle} \cup SetCall \cup RemoveCall
      BY <2>2 DEF Shape
    <3>. QED
      BY <2>2, <3>1
  <2>. QED
    BY <2>1, <2>2
<1>2. spoilt \in [Clients -> {Idle} \cup SetCall \cup RemoveCall]
  <2>. HIDE DEF SetCall, RemoveCall
  <2>. QED
    BY <1>1
<1>. QED
  BY <1>1, <1>2

LEMMA InvInit == Init => Inv
<1>. SUFFICES ASSUME Init PROVE Inv
  OBVIOUS
<1>1. TreeInv
  BY TreeInitial DEF Init
<1>2. held = [s \in Storages |-> <<>>] /\ \A s \in Storages : held[s] = <<>> /\ DOMAIN held[s] = {}
  BY DEF Init
<1>3. Shape
  BY <1>2, RoutingAssumption DEF Init, Shape, None
<1>4. \A p \in Requests : \A m \in List(p) : ~Has(m, p)
  BY <1>1, <1>2, Listed, RoutingAssumption DEF Has
<1>5. Settled
  BY <1>4 DEF Settled, Init
<1>6. Swept
  BY DEF Swept, Init, Idle
<1>. QED
  BY <1>1, <1>3, <1>5, <1>6 DEF Inv

-----------------------------------------------------------------------------
(***************************************************************************)
(* The calls.                                                              *)
(***************************************************************************)
LEMMA SetRouteStep ==
  ASSUME Inv, NEW c \in Clients, NEW p \in Requests, SetRoute(c, p)
  PROVE  Shape' /\ Settled' /\ Swept'
<1>. USE DEF Inv
<1>. DEFINE new == [kind |-> "set", path |-> p, set |-> sets', at |-> getPriorityStorage(nodes, p)]
<1>1. /\ sets < MaxSets /\ sets' = sets + 1 /\ call' = [call EXCEPT ![c] = new]
      /\ nodes' = nodes /\ held' = held /\ expected' = expected /\ Mounted(nodes, p)
  BY DEF SetRoute
<1>2. sets' \in 0 .. MaxSets /\ sets' \in 1 .. sets' /\ sets <= sets' /\ sets' \in Nat
  BY <1>1, RoutingAssumption DEF Shape
<1>3. getPriorityStorage(nodes, p) \in Mountable
  <2>1. p \in Strings
    BY MountAssumption
  <2>2. getPriorityStorage(nodes, p) \in List(p)
    BY <1>1, <2>1, ChoiceIsLeast DEF List
  <2>. QED
    BY <2>2, Listed
<1>4. new \in SetCall'
  BY <1>2, <1>3 DEF SetCall
<1>. HIDE DEF new
<1>5. call' \in [Clients -> ({Idle} \cup SetCall \cup RemoveCall)']
  BY <1>1, <1>2, <1>4, MoreSets DEF Shape
<1>6. Shape'
  <2>1. 1 .. sets \subseteq 1 .. sets'
    BY <1>2, MoreSets
  <2>. QED
    BY <1>1, <1>2, <1>5, <2>1 DEF Shape
<1>7. Settled'
  BY <1>1 DEF Settled, List, Has, Val
<1>8. Swept'
  <2>1. new.kind = "set"
    BY DEF new
  <2>2. \A d \in Clients : call'[d] = IF d = c THEN new ELSE call[d]
    BY <1>1 DEF Shape
  <2>. QED
    BY <1>1, <2>1, <2>2 DEF Swept, List, Has
<1>. QED
  BY <1>6, <1>7, <1>8

LEMMA RemoveRouteStep ==
  ASSUME Inv, NEW c \in Clients, NEW p \in Requests, RemoveRoute(c, p)
  PROVE  Shape' /\ Settled' /\ Swept'
<1>. USE DEF Inv
<1>. DEFINE new == [kind |-> "remove", path |-> p, clean |-> TRUE, left |-> List(p)]
<1>1. /\ sets' = sets /\ call' = [call EXCEPT ![c] = new]
      /\ nodes' = nodes /\ held' = held /\ expected' = expected /\ List(p) # {}
  BY DEF RemoveRoute, List
<1>2. new \in RemoveCall
  <2>1. List(p) \in (SUBSET Mountable) \ {{}}
    BY <1>1, Listed
  <2>. QED
    BY <2>1 DEF RemoveCall
<1>3. new.path = p /\ new.left = List(p)
  OBVIOUS
<1>. HIDE DEF new
<1>4. call' \in [Clients -> {Idle} \cup SetCall \cup RemoveCall]
  BY <1>1, <1>2 DEF Shape
<1>5. SetCall' = SetCall /\ RemoveCall' = RemoveCall
  BY <1>1 DEF SetCall, RemoveCall
<1>6. Shape'
  BY <1>1, <1>4, <1>5 DEF Shape
<1>7. Settled'
  BY <1>1 DEF Settled, List, Has, Val
<1>8. Swept'
  <2>1. \A d \in Clients : call'[d] = IF d = c THEN new ELSE call[d]
    BY <1>1 DEF Shape
  <2>. QED
    BY <1>1, <1>3, <2>1 DEF Swept, List, Has
<1>. QED
  BY <1>6, <1>7, <1>8

\* What a call does to one storage, as any path sees it: the value of the spot s is
\* stored there, every other spot is as before.
LEMMA SetStoreSpots ==
  ASSUME Inv, NEW c \in Clients, SetStore(c)
  PROVE  LET s == Spot(call[c].at, call[c].path)
         IN \A p \in Requests : \A m \in Mountable :
              /\ Has(m, p)' <=> Has(m, p) \/ Spot(m, p) = s
              /\ Spot(m, p) = s => Val(m, p)' = call[c].set
              /\ Has(m, p) /\ Spot(m, p) # s => Val(m, p)' = Val(m, p)
<1>. DEFINE s == Spot(call[c].at, call[c].path)
            stored == [k \in DOMAIN held[s.storage] \cup {s.key} |->
                         IF k = s.key THEN call[c].set ELSE held[s.storage][k]]
<1>1. held' = [held EXCEPT ![s.storage] = stored] /\ call[c].kind = "set"
  BY DEF SetStore
<1>2. s.storage \in Storages
  BY <1>1, CallKinds, RoutingAssumption DEF Inv, SetCall, Spot
<1>3. \A t \in Storages : held'[t] = IF t = s.storage THEN stored ELSE held[t]
  BY <1>1, <1>2 DEF Inv, Shape
<1>. HIDE DEF s
<1>4. ASSUME NEW p \in Requests, NEW m \in Mountable
      PROVE  /\ Has(m, p)' <=> Has(m, p) \/ Spot(m, p) = s
             /\ Spot(m, p) = s => Val(m, p)' = call[c].set
             /\ Has(m, p) /\ Spot(m, p) # s => Val(m, p)' = Val(m, p)
  <2>. DEFINE t == m.storage
              k == fullPath(m, p)
  <2>1. t \in Storages
    BY RoutingAssumption
  <2>2. Spot(m, p) = s <=> t = s.storage /\ k = s.key
    BY DEF Spot, s
  <2>3. /\ Has(m, p) <=> k \in DOMAIN held[t]
        /\ Has(m, p)' <=> k \in DOMAIN held'[t]
        /\ Val(m, p) = held[t][k] /\ Val(m, p)' = held'[t][k]
    BY DEF Has, Val
  <2>. HIDE DEF t, k
  <2>4. /\ k \in DOMAIN held'[t] <=> k \in DOMAIN held[t] \/ Spot(m, p) = s
        /\ Spot(m, p) = s => held'[t][k] = call[c].set
        /\ k \in DOMAIN held[t] /\ Spot(m, p) # s => held'[t][k] = held[t][k]
    <3>1. CASE t = s.storage
      <4>1. held'[t] = stored
        BY <1>3, <2>1, <3>1
      <4>2. /\ DOMAIN stored = DOMAIN held[t] \cup {s.key} /\ stored[s.key] = call[c].set
            /\ \A j \in DOMAIN held[t] : j # s.key => stored[j] = held[t][j]
        BY <3>1
      <4>. HIDE DEF stored
      <4>. QED
        BY <2>2, <2>3, <3>1, <4>1, <4>2
    <3>2. CASE t # s.storage
      <4>1. held'[t] = held[t]
        BY <1>3, <2>1, <3>2
      <4>. QED
        BY <2>2, <2>3, <3>2, <4>1
    <3>. QED
      BY <3>1, <3>2
  <2>. QED
    BY <2>3, <2>4
<1>. QED
  BY <1>4 DEF s

\* A removal takes the value of one spot away and leaves every other spot alone.
LEMMA RemoveNextSpots ==
  ASSUME Inv, NEW c \in Clients, RemoveNext(c)
  PROVE  LET s == Spot(First(call[c].left), call[c].path)
         IN \A p \in Requests : \A m \in Mountable :
              /\ Has(m, p)' <=> Has(m, p) /\ Spot(m, p) # s
              /\ Has(m, p)' => Val(m, p)' = Val(m, p)
<1>. DEFINE s == Spot(First(call[c].left), call[c].path)
            rest == [k \in DOMAIN held[s.storage] \ {s.key} |-> held[s.storage][k]]
<1>1. held' = [held EXCEPT ![s.storage] = rest]
  BY DEF RemoveNext
<1>2. \A t \in Storages : held'[t] = IF t = s.storage THEN rest ELSE held[t]
  BY <1>1 DEF Inv, Shape
<1>3. s = [storage |-> s.storage, key |-> s.key]
  BY DEF Spot
<1>. HIDE DEF s
<1>4. ASSUME NEW p \in Requests, NEW m \in Mountable
      PROVE  /\ Has(m, p)' <=> Has(m, p) /\ Spot(m, p) # s
             /\ Has(m, p)' => Val(m, p)' = Val(m, p)
  <2>. DEFINE t == m.storage
              k == fullPath(m, p)
  <2>1. t \in Storages
    BY RoutingAssumption
  <2>2. Spot(m, p) = s <=> t = s.storage /\ k = s.key
    BY <1>3 DEF Spot
  <2>3. /\ Has(m, p) <=> k \in DOMAIN held[t]
        /\ Has(m, p)' <=> k \in DOMAIN held'[t]
        /\ Val(m, p) = held[t][k] /\ Val(m, p)' = held'[t][k]
    BY DEF Has, Val
  <2>. HIDE DEF t, k
  <2>4. /\ k \in DOMAIN held'[t] <=> k \in DOMAIN held[t] /\ Spot(m, p) # s
        /\ k \in DOMAIN held'[t] => held'[t][k] = held[t][k]
    <3>1. CASE t = s.storage
      <4>1. held'[t] = rest
        BY <1>2, <2>1, <3>1
      <4>2. DOMAIN rest = DOMAIN held[t] \ {s.key} /\ \A j \in DOMAIN rest : rest[j] = held[t][j]
        BY <3>1
      <4>. HIDE DEF rest
      <4>. QED
        BY <2>2, <2>3, <3>1, <4>1, <4>2
    <3>2. CASE t # s.storage
      <4>1. held'[t] = held[t]
        BY <1>2, <2>1, <3>2
      <4>. QED
        BY <2>2, <2>3, <3>2, <4>1
    <3>. QED
      BY <3>1, <3>2
  <2>. QED
    BY <2>3, <2>4
<1>. QED
  BY <1>4 DEF s

LEMMA SetStoreStep ==
  ASSUME Inv, NEW c \in Clients, SetStore(c)
  PROVE  Shape' /\ Settled' /\ Swept'
<1>. USE DEF Inv
<1>. DEFINE q == call[c].path
            s == Spot(call[c].at, q)
            stored == [k \in DOMAIN held[s.storage] \cup {s.key} |->
                         IF k = s.key THEN call[c].set ELSE held[s.storage][k]]
            D == {d \in Clients : s \in Spots(nodes, call[d].path)}
            spoilt == [d \in Clients |-> IF call[d].kind = "remove" /\ d \in D
                         THEN [call[d] EXCEPT !.clean = FALSE] ELSE call[d]]
            Owner(p) == p = q /\ expected[p] # Unknown /\ s = Spot(getPriorityStorage(nodes, p), p)
            next == [p \in Requests |->
                       IF s \notin Spots(nodes, p) THEN expected[p]
                       ELSE IF Owner(p) THEN call[c].set ELSE Unknown]
<1>1. /\ call[c].kind = "set" /\ nodes' = nodes /\ sets' = sets
      /\ held' = [held EXCEPT ![s.storage] = stored]
  BY DEF SetStore
<1>2. expected' = next
  BY DEF SetStore
<1>3. call' = [spoilt EXCEPT ![c] = Idle]
  BY DEF SetStore, Spoilt
<1>4. /\ call[c].set \in 1 .. sets /\ call[c].at \in Mountable /\ q \in Requests
      /\ s.storage \in Storages
  BY <1>1, CallKinds, RoutingAssumption DEF SetCall, Spot
<1>5. /\ spoilt \in [Clients -> {Idle} \cup SetCall \cup RemoveCall]
      /\ \A d \in Clients :
           /\ spoilt[d].kind = call[d].kind
           /\ spoilt[d].kind = "remove" =>
                spoilt[d].path = call[d].path /\ spoilt[d].left = call[d].left
           /\ spoilt[d].kind = "remove" /\ spoilt[d].clean => call[d].clean /\ d \notin D
  BY SpoiltShape
<1>6. \A p \in Requests : \A m \in Mountable :
        /\ Has(m, p)' <=> Has(m, p) \/ Spot(m, p) = s
        /\ Spot(m, p) = s => Val(m, p)' = call[c].set
        /\ Has(m, p) /\ Spot(m, p) # s => Val(m, p)' = Val(m, p)
  BY SetStoreSpots
<1>7. \A p : List(p)' = List(p)
  BY <1>1 DEF List
<1>8. \A p : s \in Spots(nodes, p) <=> \E m \in List(p) : Spot(m, p) = s
  BY DEF Spots, List
<1>9. SetCall' = SetCall /\ RemoveCall' = RemoveCall
  BY <1>1 DEF SetCall, RemoveCall
<1>10. Shape'
  <2>1. call' \in [Clients -> {Idle} \cup SetCall \cup RemoveCall]
    <3>. HIDE DEF spoilt
    <3>. QED
      BY <1>3, <1>5
  <2>2. held' = [t \in Storages |-> held'[t]]
    <3>. HIDE DEF stored, s
    <3>. QED
      BY <1>1 DEF Shape
  <2>3. \A t \in Storages : \A k \in DOMAIN held'[t] : held'[t][k] \in 1 .. sets
    <3>1. \A t \in Storages : held'[t] = IF t = s.storage THEN stored ELSE held[t]
      <4>. HIDE DEF stored, s
      <4>. QED
        BY <1>1 DEF Shape
    <3>2. \A k \in DOMAIN stored : stored[k] \in 1 .. sets
      <4>. HIDE DEF s
      <4>. QED
        BY <1>4 DEF Shape
    <3>. HIDE DEF stored, s
    <3>. QED
      BY <3>1, <3>2 DEF Shape
  <2>4. next \in [Requests -> {None, Unknown} \cup 1 .. sets]
    <3>1. \A p \in Requests : expected[p] \in {None, Unknown} \cup 1 .. sets
      BY DEF Shape
    <3>. HIDE DEF s, Owner
    <3>. QED
      BY <1>4, <3>1
  <2>. HIDE DEF next, spoilt, stored
  <2>. QED
    BY <1>1, <1>2, <1>9, <2>1, <2>2, <2>3, <2>4 DEF Shape
<1>. HIDE DEF s, spoilt, stored, D
<1>11. Settled'
  <2>. SUFFICES ASSUME NEW p \in Requests
       PROVE /\ expected'[p] = None => \A m \in List(p) : ~Has(m, p)'
             /\ expected'[p] \notin {None, Unknown} => \E m \in List(p) :
                  /\ \A o \in List(p) : m.priority <= o.priority
                  /\ Has(m, p)' /\ Val(m, p)' = expected'[p]
                  /\ \A o \in List(p) : Has(o, p)' => Spot(o, p) = Spot(m, p)
    BY <1>7 DEF Settled
  <2>1. List(p) \subseteq Mountable /\ \A m, o \in List(p) : m.priority = o.priority => m = o
    BY Listed
  <2>2. CASE s \notin Spots(nodes, p)
    <3>1. expected'[p] = expected[p]
      BY <1>2, <2>2
    <3>2. \A m \in List(p) : Spot(m, p) # s
      BY <1>8, <2>2
    <3>3. \A m \in List(p) :
            (Has(m, p)' <=> Has(m, p)) /\ (Has(m, p) => Val(m, p)' = Val(m, p))
      BY <1>6, <2>1, <3>2
    <3>. QED
      BY <3>1, <3>3 DEF Settled
  <2>3. CASE s \in Spots(nodes, p) /\ ~Owner(p)
    <3>1. expected'[p] = Unknown
      BY <1>2, <2>3
    <3>. QED
      BY <3>1 DEF None, Unknown
  <2>4. CASE s \in Spots(nodes, p) /\ Owner(p)
    <3>1. PICK m \in List(p) :
            m = getPriorityStorage(nodes, p) /\ \A o \in List(p) : m.priority <= o.priority
      <4>1. p \in Strings /\ Mounted(nodes, p)
        BY <1>8, <2>4, MountAssumption, ListedIsMounted DEF List
      <4>. QED
        BY <4>1, ChoiceIsLeast DEF List
    <3>2. expected'[p] = call[c].set /\ expected[p] # Unknown /\ s = Spot(m, p)
      BY <1>2, <2>4, <3>1
    <3>. HIDE DEF Owner
    <3>3. \A o \in List(p) : Has(o, p) => Spot(o, p) = s
      <4>1. CASE expected[p] = None
        BY <4>1 DEF Settled
      <4>2. CASE expected[p] # None
        <5>1. PICK n \in List(p) :
                /\ \A o \in List(p) : n.priority <= o.priority
                /\ \A o \in List(p) : Has(o, p) => Spot(o, p) = Spot(n, p)
          BY <3>2, <4>2 DEF Settled
        <5>2. n.priority = m.priority
          <6>1. n.priority \in Nat /\ m.priority \in Nat
            BY Listed
          <6>. QED
            BY <3>1, <5>1, <6>1
        <5>. QED
          BY <2>1, <3>2, <5>1, <5>2
      <4>. QED
        BY <4>1, <4>2
    <3>4. call[c].set # None /\ call[c].set # Unknown
      BY <1>4 DEF Shape, None, Unknown
    <3>5. Has(m, p)' /\ Val(m, p)' = call[c].set
      BY <1>6, <2>1, <3>2
    <3>6. \A o \in List(p) : Has(o, p)' => Spot(o, p) = Spot(m, p)
      BY <1>6, <2>1, <3>2, <3>3
    <3>. QED
      BY <3>1, <3>2, <3>4, <3>5, <3>6
  <2>. QED
    BY <2>2, <2>3, <2>4
<1>12. Swept'
  <2>1. ASSUME NEW d \in Clients, NEW p \in Requests,
               call'[d].kind = "remove", call'[d].clean, call'[d].path = p,
               NEW m \in List(p) \ call'[d].left
        PROVE  ~Has(m, p)'
    <3>1. d # c /\ call'[d] = spoilt[d]
      BY <1>3, <1>5, <2>1 DEF Idle
    <3>2. /\ call[d].kind = "remove" /\ call[d].path = p /\ call'[d].left = call[d].left
          /\ call[d].clean /\ d \notin D
      BY <1>5, <2>1, <3>1
    <3>3. ~Has(m, p)
      BY <2>1, <3>2 DEF Swept
    <3>4. Spot(m, p) # s
      BY <1>8, <2>1, <3>2 DEF D
    <3>5. m \in Mountable
      BY Listed
    <3>. QED
      BY <1>6, <3>3, <3>4, <3>5
  <2>. QED
    BY <1>7, <2>1 DEF Swept
<1>. QED
  BY <1>10, <1>11, <1>12

LEMMA RemoveNextStep ==
  ASSUME Inv, NEW c \in Clients, RemoveNext(c)
  PROVE  Shape' /\ Settled' /\ Swept'
<1>. USE DEF Inv
<1>. DEFINE q == call[c].path
            f == First(call[c].left)
            s == Spot(f, q)
            rest == [k \in DOMAIN held[s.storage] \ {s.key} |-> held[s.storage][k]]
            last == call[c].left = {f}
            shorter == [call[c] EXCEPT !.left = @ \ {f}]
            Swept0(p) == p = q /\ last /\ call[c].clean
            next == [p \in Requests |->
                       IF Swept0(p) THEN None
                       ELSE IF s \in Spots(nodes, p) /\ Holds(s) THEN Unknown ELSE expected[p]]
<1>1. /\ call[c].kind = "remove" /\ nodes' = nodes /\ sets' = sets
      /\ held' = [held EXCEPT ![s.storage] = rest]
  BY DEF RemoveNext
<1>2. expected' = next
  BY DEF RemoveNext
<1>3. call' = IF last THEN [call EXCEPT ![c] = Idle] ELSE [call EXCEPT ![c] = shorter]
  BY DEF RemoveNext, Shape
<1>4. call[c] \in RemoveCall
  BY <1>1, CallKinds
<1>5. \A p \in Requests : \A m \in Mountable :
        /\ Has(m, p)' <=> Has(m, p) /\ Spot(m, p) # s
        /\ Has(m, p)' => Val(m, p)' = Val(m, p)
  BY RemoveNextSpots
<1>6. \A p : List(p)' = List(p)
  BY <1>1 DEF List
<1>7. \A p : s \in Spots(nodes, p) <=> \E m \in List(p) : Spot(m, p) = s
  BY DEF Spots, List
<1>8. \A p, m : Spot(m, p) = s => (Holds(s) <=> Has(m, p))
  <2>. SUFFICES ASSUME NEW p, NEW m, Spot(m, p) = s PROVE Holds(s) <=> Has(m, p)
    OBVIOUS
  <2>1. s.storage = m.storage /\ s.key = fullPath(m, p)
    <3>1. Spot(m, p).storage = m.storage /\ Spot(m, p).key = fullPath(m, p)
      BY DEF Spot
    <3>. QED
      BY <3>1
  <2>. HIDE DEF s
  <2>. QED
    BY <2>1 DEF Holds, Has
<1>9. SetCall' = SetCall /\ RemoveCall' = RemoveCall
  BY <1>1 DEF SetCall, RemoveCall
<1>10. ~last => /\ shorter \in RemoveCall /\ shorter.kind = "remove" /\ shorter.path = q
                /\ shorter.clean = call[c].clean /\ shorter.left = call[c].left \ {f}
  <2>. SUFFICES ASSUME ~last
                PROVE  /\ shorter \in RemoveCall /\ shorter.kind = "remove" /\ shorter.path = q
                       /\ shorter.clean = call[c].clean /\ shorter.left = call[c].left \ {f}
    OBVIOUS
  <2>1. call[c].left \in SUBSET Mountable /\ call[c].left # {}
    BY <1>4 DEF RemoveCall
  <2>2. call[c].left \ {f} \in (SUBSET Mountable) \ {{}}
    BY <2>1
  <2>. HIDE DEF f
  <2>. QED
    BY <1>4, <2>2 DEF RemoveCall
<1>11. Shape'
  <2>1. call' \in [Clients -> {Idle} \cup SetCall \cup RemoveCall]
    <3>. HIDE DEF shorter, last
    <3>. QED
      BY <1>3, <1>10 DEF Shape
  <2>2. held' = [t \in Storages |-> held'[t]]
    <3>. HIDE DEF rest, s
    <3>. QED
      BY <1>1 DEF Shape
  <2>3. \A t \in Storages : \A k \in DOMAIN held'[t] : held'[t][k] \in 1 .. sets
    <3>1. \A t \in Storages : held'[t] = IF t = s.storage THEN rest ELSE held[t]
      <4>. HIDE DEF rest, s
      <4>. QED
        BY <1>1 DEF Shape
    <3>2. s.storage \in Storages => \A k \in DOMAIN rest : rest[k] \in 1 .. sets
      <4>. HIDE DEF s
      <4>. QED
        BY DEF Shape
    <3>. HIDE DEF rest, s
    <3>. QED
      BY <3>1, <3>2 DEF Shape
  <2>4. next \in [Requests -> {None, Unknown} \cup 1 .. sets]
    <3>1. \A p \in Requests : expected[p] \in {None, Unknown} \cup 1 .. sets
      BY DEF Shape
    <3>. HIDE DEF s, Swept0
    <3>. QED
      BY <3>1
  <2>. HIDE DEF next, rest, s
  <2>. QED
    BY <1>1, <1>2, <1>9, <2>1, <2>2, <2>3, <2>4 DEF Shape
<1>. HIDE DEF s, rest, shorter
<1>12. Settled'
  <2>. SUFFICES ASSUME NEW p \in Requests
       PROVE /\ expected'[p] = None => \A m \in List(p) : ~Has(m, p)'
             /\ expected'[p] \notin {None, Unknown} => \E m \in List(p) :
                  /\ \A o \in List(p) : m.priority <= o.priority
                  /\ Has(m, p)' /\ Val(m, p)' = expected'[p]
                  /\ \A o \in List(p) : Has(o, p)' => Spot(o, p) = Spot(m, p)
    BY <1>6 DEF Settled
  <2>1. List(p) \subseteq Mountable
    BY Listed
  <2>2. CASE Swept0(p)
    <3>1. expected'[p] = None
      BY <1>2, <2>2
    <3>2. ASSUME NEW m \in List(p) PROVE ~Has(m, p)'
      <4>1. CASE m = f
        BY <1>5, <2>1, <2>2, <4>1 DEF s
      <4>2. CASE m # f
        <5>1. m \notin call[c].left
          BY <2>2, <4>2
        <5>2. ~Has(m, p)
          BY <1>1, <2>2, <5>1 DEF Swept
        <5>. QED
          BY <1>5, <2>1, <5>2
      <4>. QED
        BY <4>1, <4>2
    <3>. QED
      BY <3>1, <3>2
  <2>3. CASE ~Swept0(p) /\ s \in Spots(nodes, p) /\ Holds(s)
    <3>1. expected'[p] = Unknown
      BY <1>2, <2>3
    <3>. QED
      BY <3>1 DEF None, Unknown
  <2>4. CASE ~Swept0(p) /\ ~(s \in Spots(nodes, p) /\ Holds(s))
    <3>1. expected'[p] = expected[p]
      BY <1>2, <2>4
    <3>2. \A m \in List(p) : Has(m, p) => Spot(m, p) # s
      BY <1>7, <1>8, <2>4
    <3>3. \A m \in List(p) :
            (Has(m, p)' <=> Has(m, p)) /\ (Has(m, p) => Val(m, p)' = Val(m, p))
      BY <1>5, <2>1, <3>2
    <3>. QED
      BY <3>1, <3>3 DEF Settled
  <2>. QED
    BY <2>2, <2>3, <2>4
<1>13. Swept'
  <2>1. ASSUME NEW d \in Clients, NEW p \in Requests,
               call'[d].kind = "remove", call'[d].clean, call'[d].path = p,
               NEW m \in List(p) \ call'[d].left
        PROVE  ~Has(m, p)'
    <3>1. m \in Mountable
      BY Listed
    <3>2. CASE d # c
      <4>1. call'[d] = call[d]
        BY <1>3, <3>2 DEF Shape
      <4>2. ~Has(m, p)
        BY <2>1, <4>1 DEF Swept
      <4>. QED
        BY <1>5, <3>1, <4>2
    <3>3. CASE d = c
      <4>1. call'[c] = IF last THEN Idle ELSE shorter
        BY <1>3 DEF Shape
      <4>2. ~last /\ call'[c] = shorter
        BY <2>1, <3>3, <4>1 DEF Idle
      <4>3. /\ call[c].clean /\ p = q /\ m \notin call[c].left \ {f}
        BY <1>10, <2>1, <3>3, <4>2
      <4>4. CASE m = f
        BY <1>5, <3>1, <4>3, <4>4 DEF s
      <4>5. CASE m # f
        <5>1. ~Has(m, p)
          BY <1>1, <2>1, <4>3, <4>5 DEF Swept
        <5>. QED
          BY <1>5, <3>1, <5>1
      <4>. QED
        BY <4>4, <4>5
    <3>. QED
      BY <3>2, <3>3
  <2>. QED
    BY <1>6, <2>1 DEF Swept
<1>. QED
  BY <1>11, <1>12, <1>13

\* Mounting and unmounting: what a path has to read starts anew when its storages change,
\* and removals of it are spoilt.
LEMMA RemountStep ==
  ASSUME Inv, Remounts
  PROVE  Shape' /\ Settled' /\ Swept'
<1>. USE DEF Inv
<1>. DEFINE changed == {p \in Requests : List(p)' # List(p)}
            D == {d \in Clients : getSuitableStorageList(nodes', call[d].path) #
                                    getSuitableStorageList(nodes, call[d].path)}
            spoilt == [d \in Clients |-> IF call[d].kind = "remove" /\ d \in D
                         THEN [call[d] EXCEPT !.clean = FALSE] ELSE call[d]]
            Holding(p) == \E s \in Spots(nodes', p) : Holds(s)
            next == [p \in Requests |-> IF p \notin changed THEN expected[p]
                                        ELSE IF Holding(p) THEN Unknown ELSE None]
<1>1. held' = held /\ sets' = sets
  BY DEF Remounts
<1>2. expected' = next
  BY DEF Remounts, List
<1>3. call' = spoilt
  BY DEF Remounts, Spoilt
<1>4. /\ spoilt \in [Clients -> {Idle} \cup SetCall \cup RemoveCall]
      /\ \A d \in Clients :
           /\ spoilt[d].kind = call[d].kind
           /\ spoilt[d].kind = "remove" =>
                spoilt[d].path = call[d].path /\ spoilt[d].left = call[d].left
           /\ spoilt[d].kind = "remove" /\ spoilt[d].clean => call[d].clean /\ d \notin D
  BY SpoiltShape
<1>5. \A p, m : Has(m, p)' <=> Has(m, p)
  BY <1>1 DEF Has
<1>6. \A p, m : Val(m, p)' = Val(m, p)
  BY <1>1 DEF Val
<1>7. SetCall' = SetCall /\ RemoveCall' = RemoveCall
  BY <1>1 DEF SetCall, RemoveCall
<1>8. \A p \in Requests : \A m \in List(p)' : Has(m, p) => Holding(p)
  <2>. SUFFICES ASSUME NEW p \in Requests, NEW m \in List(p)', Has(m, p) PROVE Holding(p)
    OBVIOUS
  <2>1. Spot(m, p) \in Spots(nodes', p)
    BY DEF Spots, List
  <2>2. Holds(Spot(m, p))
    BY DEF Holds, Has, Spot
  <2>. QED
    BY <2>1, <2>2
<1>9. Shape'
  <2>1. next \in [Requests -> {None, Unknown} \cup 1 .. sets]
    <3>1. \A p \in Requests : expected[p] \in {None, Unknown} \cup 1 .. sets
      BY DEF Shape
    <3>. HIDE DEF changed, Holding
    <3>. QED
      BY <3>1
  <2>. HIDE DEF next, spoilt
  <2>. QED
    BY <1>1, <1>2, <1>3, <1>4, <1>7, <2>1 DEF Shape
<1>. HIDE DEF spoilt, Holding
<1>10. Settled'
  <2>. SUFFICES ASSUME NEW p \in Requests
       PROVE /\ expected'[p] = None => \A m \in List(p)' : ~Has(m, p)
             /\ expected'[p] \notin {None, Unknown} => \E m \in List(p)' :
                  /\ \A o \in List(p)' : m.priority <= o.priority
                  /\ Has(m, p) /\ Val(m, p) = expected'[p]
                  /\ \A o \in List(p)' : Has(o, p) => Spot(o, p) = Spot(m, p)
    BY <1>5, <1>6 DEF Settled
  <2>1. CASE p \notin changed
    <3>1. expected'[p] = expected[p] /\ List(p)' = List(p)
      BY <1>2, <2>1
    <3>. QED
      BY <3>1 DEF Settled
  <2>2. CASE p \in changed
    <3>1. expected'[p] = IF Holding(p) THEN Unknown ELSE None
      BY <1>2, <2>2
    <3>. QED
      BY <1>8, <3>1 DEF None, Unknown
  <2>. QED
    BY <2>1, <2>2
<1>11. Swept'
  <2>1. ASSUME NEW d \in Clients, NEW p \in Requests,
               call'[d].kind = "remove", call'[d].clean, call'[d].path = p,
               NEW m \in List(p)' \ call'[d].left
        PROVE  ~Has(m, p)
    <3>1. /\ call[d].kind = "remove" /\ call[d].path = p /\ call'[d].left = call[d].left
          /\ call[d].clean /\ d \notin D
      BY <1>3, <1>4, <2>1
    <3>2. List(p)' = List(p)
      BY <3>1 DEF List
    <3>. QED
      BY <2>1, <3>1, <3>2 DEF Swept
  <2>. QED
    BY <1>5, <2>1 DEF Swept
<1>. QED
  BY <1>9, <1>10, <1>11

LEMMA InvStep == Inv /\ [Next]_vars => Inv'
<1>. SUFFICES ASSUME Inv, [Next]_vars PROVE Inv'
  OBVIOUS
<1>1. TreeInv'
  <2>1. [TreeNext]_nodes
    BY DEF Next, vars, Mount, Umount, SetRoute, SetStore, RemoveRoute, RemoveNext, TreeNext
  <2>. QED
    BY <2>1, TreeStep DEF Inv
<1>2. ASSUME UNCHANGED vars PROVE Shape' /\ Settled' /\ Swept'
  <2>1. /\ nodes' = nodes /\ held' = held /\ call' = call /\ sets' = sets
        /\ expected' = expected
    BY <1>2 DEF vars
  <2>2. Shape'
    BY <2>1 DEF Inv, Shape, SetCall, RemoveCall
  <2>3. Settled' /\ Swept'
    BY <2>1 DEF Inv, Settled, Swept, List, Has, Val
  <2>. QED
    BY <2>2, <2>3
<1>3. ASSUME NEW m \in Mountable, Mount(m) \/ Umount(m.mount) PROVE Shape' /\ Settled' /\ Swept'
  BY <1>3, RemountStep DEF Mount, Umount
<1>. QED
  BY <1>1, <1>2, <1>3, SetRouteStep, RemoveRouteStep, SetStoreStep, RemoveNextStep DEF Next, Inv

\* The inductive invariant: where the value of every path may be, while calls and
\* mounts interleave.
THEOREM InvCorrect == Spec => []Inv
<1>. QED
  BY InvInit, InvStep, PTL DEF Spec

-----------------------------------------------------------------------------
\* The types of the tree, the storages and the calls hold in every reachable state.
THEOREM TypeCorrect == Spec => []TypeOK
<1>1. Inv => TypeOK
  <2>. SUFFICES ASSUME Inv PROVE TypeOK
    OBVIOUS
  <2>1. TreeTypeOK
    BY DEF Inv, TreeInv
  <2>2. ASSUME NEW c \in Clients
        PROVE  call[c] = Idle \/
                 /\ call[c].path \in Requests
                 /\ call[c].kind = "set" => call[c].at \in Mountable /\ call[c].set \in 1 .. sets
                 /\ call[c].kind = "remove" => call[c].left \in (SUBSET Mountable) \ {{}}
    <3>1. call[c] \in {Idle} \cup SetCall \cup RemoveCall
      BY DEF Inv, Shape
    <3>2. CASE call[c] \in SetCall
      BY <3>2 DEF SetCall
    <3>3. CASE call[c] \in RemoveCall
      BY <3>3 DEF RemoveCall
    <3>. QED
      BY <3>1, <3>2, <3>3
  <2>. QED
    BY <2>1, <2>2 DEF Inv, Shape, TypeOK
<1>. QED
  BY <1>1, InvCorrect, PTL

\* Of storages of different numbers there is one that is looked at first.
LEMMA FirstIsMember ==
  ASSUME TreeInv, NEW p \in Requests, NEW S \in SUBSET List(p), S # {}
  PROVE  First(S) \in S
<1>. DEFINE P == {m.priority : m \in S}
            f == [m \in S |-> m.priority]
<1>1. IsFiniteSet(S)
  BY Listed, FS_Subset
<1>2. f \in Surjection(S, P)
  BY DEF Surjection
<1>3. IsFiniteSet(P)
  BY <1>1, <1>2, FS_Surjection
<1>4. P \in SUBSET Nat /\ P # {}
  BY Listed
<1>5. \E n \in P : \A o \in P : o <= n
  BY <1>3, <1>4, HasGreatest
<1>6. \E m \in S : \A o \in S : m.priority >= o.priority
  BY <1>4, <1>5
<1>. QED
  BY <1>6 DEF First

\* For any clients, storages and mount points: what was set last is read, and what was
\* removed is gone, while others mount, unmount, set and remove.
THEOREM SetIsRead == Spec => []ReadsBack
<1>1. Inv => ReadsBack
  <2>. SUFFICES ASSUME Inv, NEW p \in Requests, expected[p] # Unknown
                PROVE  getValue(p) = expected[p]
    BY DEF ReadsBack
  <2>. DEFINE holders == {m \in List(p) : Holds(Spot(m, p))}
  <2>1. getValue(p) = IF holders = {} THEN None
                      ELSE held[Spot(First(holders), p).storage][Spot(First(holders), p).key]
    BY DEF getValue, List
  <2>2. \A m : Holds(Spot(m, p)) <=> Has(m, p)
    BY DEF Holds, Has, Spot
  <2>3. \A m : held[Spot(m, p).storage][Spot(m, p).key] = Val(m, p)
    BY DEF Val, Spot
  <2>4. CASE expected[p] = None
    BY <2>1, <2>2, <2>4 DEF Inv, Settled
  <2>5. CASE expected[p] # None
    <3>1. PICK m \in List(p) :
            /\ Has(m, p) /\ Val(m, p) = expected[p]
            /\ \A o \in List(p) : Has(o, p) => Spot(o, p) = Spot(m, p)
      BY <2>5 DEF Inv, Settled
    <3>2. holders # {} /\ holders \in SUBSET List(p)
      BY <2>2, <3>1
    <3>3. First(holders) \in holders
      BY <3>2, FirstIsMember DEF Inv
    <3>4. Spot(First(holders), p) = Spot(m, p)
      BY <2>2, <3>1, <3>3
    <3>. HIDE DEF holders
    <3>. QED
      BY <2>1, <2>3, <3>1, <3>2, <3>4
  <2>. QED
    BY <2>4, <2>5
<1>. QED
  BY <1>1, InvCorrect, PTL

=============================================================================
