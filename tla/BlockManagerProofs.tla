------------------------- MODULE BlockManagerProofs -------------------------
(***************************************************************************)
(* Proofs about BlockManager, for every layout of the file: its types, that*)
(* the block handed out next is free unless the file has been opened again,*)
(* that a tree node is made of free blocks whatever happened before, that  *)
(* every block has one owner, that values of one block read back, and what *)
(* opening the file again can spoil.                                       *)
(***************************************************************************)
EXTENDS BlockManager, TLAPS, WellFoundedInduction, NaturalsInduction, FiniteSetTheorems

\* A non-empty set of naturals has a least element.
LEMMA HasLeast ==
  ASSUME NEW S \in SUBSET Nat, S # {}
  PROVE  \E m \in S : \A n \in S : m <= n
<1>. DEFINE R == {p \in Nat \X Nat : p[1] < p[2]}
<1>1. IsWellFoundedOn(R, Nat)
  <2>1. R = OpToRel(<, Nat)
    BY Zenon DEF OpToRel
  <2>. QED
    BY <2>1, NatLessThanWellFounded
<1>2. PICK m \in S : \A n \in S : <<n, m>> \notin R
  BY <1>1, WFMin, Zenon
<1>3. \A n \in S : m <= n
  <2>. SUFFICES ASSUME NEW n \in S PROVE m <= n
    OBVIOUS
  <2>1. <<n, m>> \in Nat \X Nat /\ ~(<<n, m>>[1] < <<n, m>>[2])
    BY <1>2
  <2>. QED
    BY <2>1
<1>. QED
  BY <1>3

\* Among finite subsets of a set there is one that has no other as a part.
LEMMA HasSmallestSet ==
  ASSUME NEW D, NEW G \in SUBSET FiniteSubsetsOf(D), G # {}
  PROVE  \E L \in G : \A K \in G : K \subseteq L => K = L
<1>1. IsWellFoundedOn(StrictSubsetOrdering(D), FiniteSubsetsOf(D))
  BY FS_StrictSubsetOrderingWellFounded
<1>2. PICK L \in G : \A K \in G : ~ (<<K, L>> \in StrictSubsetOrdering(D))
  BY <1>1, WFMin, Zenon
<1>3. \A K \in G : K \subseteq L => K = L
  BY <1>2 DEF StrictSubsetOrdering, FiniteSubsetsOf
<1>. QED
  BY <1>3

\* Among subsets of a finite set there is one that no other is a superset of.
LEMMA HasLargestSet ==
  ASSUME NEW D, IsFiniteSet(D), NEW F \in SUBSET SUBSET D, F # {}
  PROVE  \E M \in F : \A N \in F : M \subseteq N => N = M
<1>. DEFINE Rest == {R \in FiniteSubsetsOf(D) : D \ R \in F}
<1>1. \A N \in F : D \ N \in Rest
  <2>. SUFFICES ASSUME NEW N \in F PROVE D \ N \in Rest
    OBVIOUS
  <2>1. IsFiniteSet(D \ N) /\ D \ (D \ N) = N
    BY FS_Difference
  <2>. QED
    BY <2>1 DEF FiniteSubsetsOf
<1>2. PICK L \in Rest : \A K \in Rest : K \subseteq L => K = L
  <2>1. Rest \in SUBSET FiniteSubsetsOf(D) /\ Rest # {}
    BY <1>1
  <2>. HIDE DEF Rest
  <2>. QED
    BY <2>1, HasSmallestSet
<1>3. PICK M \in F : M = D \ L
  BY <1>2
<1>4. ASSUME NEW N \in F, M \subseteq N
      PROVE  N = M
  <2>1. D \ N \subseteq L
    BY <1>3, <1>4
  <2>2. D \ N = L
    BY <1>1, <1>2, <2>1
  <2>. QED
    BY <1>3, <2>2
<1>. QED
  BY <1>4

\* A non-empty set of naturals has a least element, so Least is well defined: what
\* findFreeBlockOffset returns is one of the blocks it may return.
LEMMA LeastIsMember ==
  ASSUME NEW S \in SUBSET Nat, S # {}
  PROVE  Least(S) \in S /\ \A n \in S : Least(S) <= n
<1>1. \E m \in S : \A n \in S : m <= n
  BY HasLeast
<1>. QED
  BY <1>1 DEF Least

LEMMA Layout ==
  /\ SectorBlocks \in Nat /\ Stride \in Nat \ {0}
  /\ DataBlock \subseteq Nat
  /\ RootBlocks \subseteq DataBlock /\ HeaderFirstFree \in DataBlock
<1>1. SectorBlocks \in Nat /\ SectorBlocks >= 3
  BY ConstantsAssumption DEF SectorBlocks
<1>2. Stride \in Nat \ {0}
  BY <1>1 DEF Stride
<1>3. DataBlock \subseteq Nat
  <2>. SUFFICES ASSUME NEW s \in 0 .. Sectors - 1, NEW b \in 1 .. SectorBlocks
                PROVE  s * Stride + b \in Nat
    BY DEF DataBlock
  <2>. QED
    BY <1>1, <1>2, ConstantsAssumption
<1>4. \A b \in 1 .. 3 : b \in DataBlock
  <2>. SUFFICES ASSUME NEW b \in 1 .. 3 PROVE b \in DataBlock
    OBVIOUS
  <2>1. 0 \in 0 .. Sectors - 1 /\ b \in 1 .. SectorBlocks /\ b = 0 * Stride + b
    BY <1>1, <1>2, ConstantsAssumption
  <2>. QED
    BY <2>1 DEF DataBlock
<1>. QED
  BY <1>1, <1>2, <1>3, <1>4 DEF RootBlocks, NodePair, Root, NodeBlocks, HeaderFirstFree

\* What findFreeBlockOffset returns is a data block whose bit is clear.
LEMMA FindFreeIsFree ==
  ASSUME NEW u, NEW o, Candidates(u, o) # {}
  PROVE  FindFree(u, o) \in DataBlock /\ FindFree(u, o) \notin u
<1>1. Candidates(u, o) \subseteq DataBlock \ u
  BY DEF Candidates
<1>2. FindFree(u, o) \in Candidates(u, o)
  BY <1>1, Layout, LeastIsMember DEF FindFree
<1>. QED
  BY <1>1, <1>2

\* aquireBlock(b) leaves m_firstFreeBlockOffset at a clear bit if it was at one, or
\* at b itself.
LEMMA AfterAcquireIsFree ==
  ASSUME NEW u, NEW ff \in DataBlock, NEW b, CanAcquire(u, ff, b)
  PROVE  /\ AfterAcquire(u, ff, b) \in DataBlock
         /\ AfterAcquire(u, ff, b) \in u \cup {b} =>
              ff \in u /\ AfterAcquire(u, ff, b) = ff
<1>1. CASE ff = b
  BY <1>1, FindFreeIsFree DEF AfterAcquire, CanAcquire
<1>2. CASE ff # b
  BY <1>2 DEF AfterAcquire
<1>. QED
  BY <1>1, <1>2

LEMMA GrownToType ==
  ASSUME sectors \in Nat, NEW o \in DataBlock
  PROVE  GrownTo(o) \in Nat
<1>1. SectorNumber(o) \in Nat
  BY Layout DEF SectorNumber
<1>. QED
  BY <1>1 DEF GrownTo

-----------------------------------------------------------------------------
\* The call in progress is of the type its kind names.
LEMMA OpTypes ==
  ASSUME TypeOK
  PROVE  /\ op.kind = "store" => op \in StoreOp
         /\ op.kind = "free" => op \in FreeOp
         /\ op.kind = "node" => op \in NodeOp
  BY DEF TypeOK, Idle, StoreOp, FreeOp, NodeOp

LEMMA TypeInit == Init => TypeOK
<1>. SUFFICES ASSUME Init PROVE TypeOK
  OBVIOUS
<1>1. blocks \in [DataBlock -> Block]
  BY Layout DEF Init, Block
<1>2. calls \in 0 .. MaxCalls /\ restarts \in 0 .. MaxRestarts /\ sectors \in Nat
  BY ConstantsAssumption DEF Init
<1>3. used \subseteq DataBlock /\ firstFree \in DataBlock
  BY Layout DEF Init
<1>. QED
  BY <1>1, <1>2, <1>3 DEF Init, TypeOK

\* Every step of the specification keeps the types.
LEMMA TypeStep == TypeOK /\ [Next]_vars => TypeOK'
<1>. SUFFICES ASSUME TypeOK, [Next]_vars PROVE TypeOK'
  OBVIOUS
<1>. USE DEF TypeOK
<1>1. ASSUME NEW v \in Values, StoreNew(v) PROVE TypeOK'
  <2>1. Size[v] \in Nat
    BY ConstantsAssumption
  <2>2. used' \subseteq DataBlock /\ firstFree' \in DataBlock
    BY <1>1, AfterAcquireIsFree DEF StoreNew
  <2>3. sectors' \in Nat
    BY <1>1, <2>2, GrownToType DEF StoreNew
  <2>4. blocks' \in [DataBlock -> Block]
    BY <1>1, <2>1 DEF StoreNew, Block
  <2>5. op' \in StoreOp
    BY <1>1, <2>1 DEF StoreNew, StoreOp
  <2>6. calls' \in 0 .. MaxCalls
    BY <1>1, ConstantsAssumption DEF StoreNew, Call
  <2>. QED
    BY <1>1, <2>2, <2>3, <2>4, <2>5, <2>6 DEF StoreNew, client, history
<1>2. ASSUME StoreLast PROVE TypeOK'
  <2>1. op \in StoreOp
    BY <1>2, OpTypes DEF StoreLast
  <2>2. blocks' \in [DataBlock -> Block]
    BY <1>2, <2>1 DEF StoreLast, Copied, StoreOp, Block
  <2>3. op' \in StoreOp
    BY <1>2, <2>1 DEF StoreLast, StoreOp
  <2>. QED
    BY <1>2, <2>2, <2>3 DEF StoreLast, client, history
<1>3. ASSUME StoreFollow PROVE TypeOK'
  <2>1. op \in StoreOp
    BY <1>3, OpTypes DEF StoreFollow
  <2>2. blocks' \in [DataBlock -> Block]
    BY <1>3, <2>1 DEF StoreFollow, Copied, StoreOp, Block
  <2>3. op' \in StoreOp
    <3>1. op.left \in Nat /\ op.left > 1 /\ blocks[op.at].next \in DataBlock
      BY <1>3, <2>1 DEF StoreFollow, StoreOp, Block
    <3>2. op.left - 1 \in Nat
      BY <3>1
    <3>. QED
      BY <1>3, <2>1, <3>1, <3>2 DEF StoreFollow, StoreOp
  <2>. QED
    BY <1>3, <2>2, <2>3 DEF StoreFollow, client, history
<1>4. ASSUME StoreExtend PROVE TypeOK'
  <2>1. op \in StoreOp
    BY <1>4, OpTypes DEF StoreExtend
  <2>2. used' \subseteq DataBlock /\ firstFree' \in DataBlock
    BY <1>4, AfterAcquireIsFree DEF StoreExtend
  <2>3. sectors' \in Nat
    BY <1>4, <2>2, GrownToType DEF StoreExtend
  <2>4. blocks' \in [DataBlock -> Block] /\ stale' \in BOOLEAN
    <3>1. Copied(op.at) \in [DataBlock -> Block]
      BY <2>1 DEF Copied, StoreOp, Block
    <3>2. [Copied(op.at) EXCEPT ![op.at].next = firstFree] \in [DataBlock -> Block]
      BY <2>1, <3>1 DEF StoreOp, Block
    <3>. QED
      BY <1>4, <3>1, <3>2 DEF StoreExtend
  <2>5. op' \in StoreOp
    <3>1. op.left \in Nat /\ op.left > 1
      BY <1>4, <2>1 DEF StoreExtend, StoreOp
    <3>2. op.left - 1 \in Nat
      BY <3>1
    <3>. QED
      BY <1>4, <2>1, <3>2 DEF StoreExtend, StoreOp
  <2>. QED
    BY <1>4, <2>2, <2>3, <2>4, <2>5 DEF StoreExtend, client
<1>5. ASSUME StoreReturn PROVE TypeOK'
  BY <1>5, OpTypes DEF StoreReturn, StoreOp, file, history
<1>6. ASSUME NEW r \in held, FreeBlock(r) PROVE TypeOK'
  <2>1. op' \in FreeOp
    BY <1>6 DEF FreeBlock, FreeOp
  <2>2. calls' \in 0 .. MaxCalls
    BY <1>6, ConstantsAssumption DEF FreeBlock, Call
  <2>. QED
    BY <1>6, <2>1, <2>2 DEF FreeBlock, file, history
<1>7. ASSUME FreeStep PROVE TypeOK'
  <2>1. op \in FreeOp
    BY <1>7, OpTypes DEF FreeStep
  <2>2. op' \in {Idle} \cup FreeOp
    BY <1>7, <2>1 DEF FreeStep, FreeOp, Block
  <2>3. firstFree' \in DataBlock /\ stale' \in BOOLEAN
    BY <1>7, <2>1 DEF FreeStep, FreeOp
  <2>. QED
    BY <1>7, <2>2, <2>3 DEF FreeStep, client
<1>8. ASSUME NodeNew PROVE TypeOK'
  <2>1. FindFree(used, firstFree) \in DataBlock
    BY <1>8, FindFreeIsFree DEF NodeNew
  <2>2. op' \in NodeOp
    BY <1>8, <2>1 DEF NodeNew, NodeOp
  <2>3. sectors' \in Nat
    BY <1>8, <2>1, GrownToType DEF NodeNew
  <2>4. calls' \in 0 .. MaxCalls
    BY <1>8, ConstantsAssumption DEF NodeNew, Call
  <2>. QED
    BY <1>8, <2>2, <2>3, <2>4 DEF NodeNew, client, history
<1>9. ASSUME NodeScan PROVE TypeOK'
  <2>1. op \in NodeOp
    BY <1>9, OpTypes DEF NodeScan
  <2>2. FindFree(used, op.last + 1) \in DataBlock
    BY <1>9, FindFreeIsFree DEF NodeScan
  <2>3. op' \in NodeOp
    BY <1>9, <2>1, <2>2 DEF NodeScan, NodeOp
  <2>4. sectors' \in Nat
    BY <1>9, <2>2, GrownToType DEF NodeScan
  <2>. QED
    BY <1>9, <2>3, <2>4 DEF NodeScan, client, history
<1>10. ASSUME NodeReturn PROVE TypeOK'
  <2>1. op \in NodeOp
    BY <1>10, OpTypes DEF NodeReturn
  <2>2. used' \subseteq DataBlock /\ nodes' \subseteq DataBlock
    BY <1>10, <2>1 DEF NodeReturn, NodeOp
  <2>3. firstFree' \in DataBlock
    BY <1>10, AfterAcquireIsFree DEF NodeReturn
  <2>4. sectors' \in Nat
    BY <1>10, <2>3, GrownToType DEF NodeReturn
  <2>5. blocks' \in [DataBlock -> Block]
    BY <1>10, <2>1 DEF NodeReturn, NodeOp, Block
  <2>. QED
    BY <1>10, <2>2, <2>3, <2>4, <2>5 DEF NodeReturn, history
<1>11. ASSUME NEW o \in nodes, FreeTreeNode(o) PROVE TypeOK'
  <2>1. NodePair(o) \subseteq Nat
    BY Layout DEF NodePair, NodeBlocks
  <2>2. calls' \in 0 .. MaxCalls
    BY <1>11, ConstantsAssumption DEF FreeTreeNode, Call
  <2>. QED
    BY <1>11, <2>1, <2>2 DEF FreeTreeNode, file
<1>12. ASSUME Restart PROVE TypeOK'
  BY <1>12, Layout, ConstantsAssumption DEF Restart, file, client, history
<1>13. ASSUME UNCHANGED vars PROVE TypeOK'
  BY <1>13 DEF vars, file, client, history
<1>. QED
  BY <1>1, <1>2, <1>3, <1>4, <1>5, <1>6, <1>7, <1>8, <1>9, <1>10, <1>11, <1>12, <1>13
     DEF Next, Step

\* The types hold in every reachable state, for every layout of the file.
THEOREM TypeCorrect == Spec => []TypeOK
<1>. QED
  BY TypeInit, TypeStep, PTL DEF Spec

-----------------------------------------------------------------------------
\* The block getFreeBlock hands out next is free, except the one the header names
\* after the file has been opened again: for every layout and any calls.
THEOREM FirstFreeCorrect == Spec => []FirstFreeIsFree
<1>1. Init => FirstFreeIsFree
  BY DEF Init, FirstFreeIsFree, HeaderFirstFree, RootBlocks, NodePair, Root, NodeBlocks
<1>2. ASSUME TypeOK, FirstFreeIsFree, [Next]_vars PROVE FirstFreeIsFree'
  <2>. USE DEF TypeOK, FirstFreeIsFree
  <2>1. ASSUME NEW v \in Values, StoreNew(v) PROVE FirstFreeIsFree'
    BY <2>1, <1>2, AfterAcquireIsFree DEF StoreNew
  <2>2. ASSUME StoreExtend PROVE FirstFreeIsFree'
    BY <2>2, <1>2, AfterAcquireIsFree DEF StoreExtend
  <2>3. ASSUME FreeStep PROVE FirstFreeIsFree'
    BY <2>3, <1>2 DEF FreeStep
  <2>4. ASSUME NodeReturn PROVE FirstFreeIsFree'
    <3>1. op \in NodeOp
      BY <2>4, <1>2, OpTypes DEF NodeReturn
    <3>. DEFINE u1 == used \cup {op.run}
                f1 == AfterAcquire(used, firstFree, op.run)
    <3>2. f1 \in DataBlock /\ (f1 \in u1 => firstFree \in used /\ f1 = firstFree)
      BY <2>4, <1>2, AfterAcquireIsFree DEF NodeReturn
    <3>3. firstFree' = AfterAcquire(u1, f1, op.last) /\ used' = u1 \cup {op.last}
      BY <2>4 DEF NodeReturn
    <3>4. firstFree' \in used' => f1 \in u1 /\ firstFree' = f1
      <4>1. CanAcquire(u1, f1, op.last)
        BY <2>4 DEF NodeReturn
      <4>. HIDE DEF u1, f1
      <4>. QED
        BY <3>2, <3>3, <4>1, AfterAcquireIsFree
    <3>. QED
      BY <3>2, <3>4, <2>4, <1>2 DEF NodeReturn
  <2>5. ASSUME Restart PROVE FirstFreeIsFree'
    BY <2>5, <1>2 DEF Restart
  <2>6. CASE UNCHANGED <<used, firstFree, restarts>>
    BY <2>6, <1>2
  <2>. QED
    BY <2>1, <2>2, <2>3, <2>4, <2>5, <2>6, <1>2
       DEF Next, Step, vars, file, client, StoreLast, StoreFollow, StoreReturn, FreeBlock,
           NodeNew, NodeScan, FreeTreeNode
<1>. QED
  BY <1>1, <1>2, TypeCorrect, PTL DEF Spec

-----------------------------------------------------------------------------
\* findContiguousFreeBlocks gathers data blocks that are free, for every layout: no
\* step in between takes one of them, and a gap or a bitmap starts the run anew.
THEOREM NodeRunCorrect == Spec => []NodeRunIsFree
<1>1. Init => NodeRunIsFree
  BY DEF Init, NodeRunIsFree, Idle
<1>2. ASSUME TypeOK, NodeRunIsFree, [Next]_vars PROVE NodeRunIsFree'
  <2>. USE DEF TypeOK, NodeRunIsFree
  <2>1. ASSUME NodeNew PROVE NodeRunIsFree'
    <3>1. FindFree(used, firstFree) \in DataBlock \ used
      BY <2>1, FindFreeIsFree DEF NodeNew
    <3>2. used' = used /\ op'.run = op'.last /\ op'.last \in (DataBlock \ used)
      BY <2>1, <3>1 DEF NodeNew
    <3>. QED
      BY <3>2, Layout
  <2>2. ASSUME NodeScan PROVE NodeRunIsFree'
    <3>1. op.run \in Nat /\ op.last \in Nat
      BY <2>2, <1>2, OpTypes, Layout DEF NodeScan, NodeOp
    <3>. DEFINE found == FindFree(used, op.last + 1)
    <3>2. found \in DataBlock \ used /\ found \in Nat
      BY <2>2, FindFreeIsFree, Layout DEF NodeScan
    <3>3. op \in NodeOp
      BY <2>2, <1>2, OpTypes DEF NodeScan
    <3>4. used' = used /\ op'.last = found
                       /\ op'.run = IF found = op.last + 1 THEN op.run ELSE found
      BY <2>2, <3>3 DEF NodeScan, NodeOp
    <3>5. op.run .. op.last \subseteq DataBlock \ used
      BY <2>2, <1>2 DEF NodeScan
    <3>6. op'.run .. op'.last \subseteq (op.run .. op.last) \cup {found}
      <4>. HIDE DEF found
      <4>. QED
        BY <3>1, <3>2, <3>4
    <3>. QED
      BY <3>2, <3>4, <3>5, <3>6
  <2>3. CASE op'.kind # "node"
    BY <2>3
  <2>4. CASE UNCHANGED <<used, op>>
    BY <2>4, <1>2
  <2>5. StoreExtend \/ FreeStep \/ StoreLast \/ StoreFollow => op'.kind # "node"
    <3>1. StoreExtend => op'.kind = "store"
      BY <1>2, OpTypes DEF StoreExtend, StoreOp
    <3>2. StoreLast \/ StoreFollow => op'.kind = "store"
      BY <1>2, OpTypes DEF StoreLast, StoreFollow, StoreOp
    <3>3. FreeStep => op' = Idle \/ op'.kind = "free"
      BY <1>2, OpTypes DEF FreeStep, FreeOp
    <3>. QED
      BY <3>1, <3>2, <3>3 DEF Idle
  <2>. QED
    BY <2>1, <2>2, <2>3, <2>4, <2>5, <1>2
       DEF Next, Step, vars, file, client, StoreNew, StoreReturn, FreeBlock, NodeReturn,
           FreeTreeNode, Restart, Idle
<1>. QED
  BY <1>1, <1>2, TypeCorrect, PTL DEF Spec

-----------------------------------------------------------------------------
(***************************************************************************)
(* Walks along the next fields.                                            *)
(***************************************************************************)
Closed(bs, S) == \A b \in S : bs[b].next \in S \cup {0}

\* The file of the model is finite.
LEMMA FiniteBlocks == IsFiniteSet(DataBlock)
<1>. DEFINE bound == Sectors * Stride + SectorBlocks
<1>0. SectorBlocks \in Nat /\ SectorBlocks >= 3 /\ Stride \in Nat /\ Sectors \in Nat
  BY ConstantsAssumption DEF SectorBlocks, Stride
<1>1. bound \in Nat
  BY <1>0
<1>2. ASSUME NEW s \in 0 .. Sectors - 1, NEW b \in 1 .. SectorBlocks
      PROVE  s * Stride + b \in 0 .. bound
  <2>1. s * Stride \in Nat /\ Sectors * Stride \in Nat /\ s * Stride <= Sectors * Stride
    <3>1. PICK k \in Nat : s + k = Sectors
      <4>1. Sectors - s \in Nat /\ s + (Sectors - s) = Sectors
        BY <1>0
      <4>. QED
        BY <4>1
    <3>2. s \in Nat
      BY <1>0
    <3>3. (s + k) * Stride = s * Stride + k * Stride /\ s * Stride \in Nat /\ k * Stride \in Nat
      BY <1>0, <3>1, <3>2
    <3>. QED
      BY <1>0, <3>1, <3>3
  <2>. QED
    BY <1>0, <2>1
<1>. HIDE DEF bound
<1>3. DataBlock \subseteq 0 .. bound
  BY <1>2 DEF DataBlock
<1>. QED
  <2>1. IsFiniteSet(0 .. bound)
    BY <1>1, FS_Interval
  <2>. QED
    BY <1>3, <2>1, FS_Subset

\* The recursion of Reached is well defined: what it computes is the least set of blocks
\* that has o and is closed under the links.
LEMMA ReachedIsLeast ==
  ASSUME NEW bs \in [DataBlock -> Block], NEW o \in DataBlock
  PROVE  /\ Reached(bs, o) \in SUBSET DataBlock /\ o \in Reached(bs, o)
         /\ Closed(bs, Reached(bs, o))
         /\ \A T \in SUBSET DataBlock :
              o \in T /\ Closed(bs, T) => Reached(bs, o) \subseteq T
<1>. DEFINE D == DataBlock
            Nexts(S) == {bs[b].next : b \in S} \ (S \cup {0})
            Cl(S) == {b \in D : \A T \in SUBSET D : S \subseteq T /\ Closed(bs, T) => b \in T}
            Walks(w) == w = [S \in SUBSET D |-> IF Nexts(S) = {} THEN S ELSE w[S \cup Nexts(S)]]
            walk == CHOOSE w : Walks(w)
<1>1. Reached(bs, o) = walk[{o}]
  BY DEF Reached
<1>2. \A S \in SUBSET D : S \cup Nexts(S) \in SUBSET D /\ S \subseteq Cl(S)
                                /\ Cl(S) \in SUBSET D /\ Closed(bs, Cl(S))
  <2>. SUFFICES ASSUME NEW S \in SUBSET D
                PROVE  S \cup Nexts(S) \in SUBSET D /\ S \subseteq Cl(S)
                       /\ Cl(S) \in SUBSET D /\ Closed(bs, Cl(S))
    OBVIOUS
  <2>1. \A b \in D : bs[b].next \in D \cup {0}
    BY DEF Block
  <2>2. Closed(bs, Cl(S))
    BY <2>1 DEF Closed
  <2>. QED
    BY <2>1, <2>2
<1>3. \A S \in SUBSET D : Nexts(S) = {} => Cl(S) = S
  <2>. SUFFICES ASSUME NEW S \in SUBSET D, Nexts(S) = {} PROVE Cl(S) = S
    OBVIOUS
  <2>1. Closed(bs, S)
    BY DEF Closed
  <2>. QED
    BY <2>1, <1>2
<1>4. \A S \in SUBSET D : Cl(S \cup Nexts(S)) = Cl(S)
  <2>. SUFFICES ASSUME NEW S \in SUBSET D,
                       NEW T \in SUBSET D, S \subseteq T, Closed(bs, T)
                PROVE  S \cup Nexts(S) \subseteq T
    OBVIOUS
  <2>. QED
    BY DEF Closed
<1>. HIDE DEF Cl, Nexts
<1>5. Walks(walk)
  <2>. DEFINE cl == [S \in SUBSET D |-> Cl(S)]
  <2>1. Walks(cl)
    <3>1. \A S \in SUBSET D : Cl(S) = IF Nexts(S) = {} THEN S ELSE cl[S \cup Nexts(S)]
      BY <1>2, <1>3, <1>4
    <3>. QED
      BY <3>1
  <2>. HIDE DEF cl, Walks
  <2>. QED
    BY <2>1
<1>. HIDE DEF walk
<1>6. \A S \in SUBSET D : walk[S] = IF Nexts(S) = {} THEN S ELSE walk[S \cup Nexts(S)]
  BY <1>5
<1>7. \A S \in SUBSET D : walk[S] = Cl(S)
  <2>. DEFINE F == {S \in SUBSET D : walk[S] # Cl(S)}
  <2>. SUFFICES ASSUME F # {} PROVE FALSE
    OBVIOUS
  <2>1. PICK S \in F : \A N \in F : S \subseteq N => N = S
    <3>1. F \in SUBSET SUBSET D
      OBVIOUS
    <3>. HIDE DEF F
    <3>. QED
      BY <3>1, FiniteBlocks, HasLargestSet
  <2>2. Nexts(S) # {}
    BY <1>3, <1>6
  <2>3. S \cup Nexts(S) \in SUBSET D /\ S \cup Nexts(S) # S
    BY <1>2, <2>2 DEF Nexts
  <2>4. S \cup Nexts(S) \notin F
    BY <2>1, <2>3
  <2>5. walk[S \cup Nexts(S)] = Cl(S \cup Nexts(S))
    BY <2>3, <2>4
  <2>. QED
    BY <1>4, <1>6, <2>2, <2>5
<1>8. Reached(bs, o) = Cl({o})
  BY <1>1, <1>7
<1>. QED
  <2>1. {o} \in SUBSET D
    OBVIOUS
  <2>2. \A T \in SUBSET D : {o} \subseteq T /\ Closed(bs, T) => Cl({o}) \subseteq T
    BY DEF Cl
  <2>. QED
    BY <1>2, <1>8, <2>1, <2>2

\* Offset 0 is a bitmap, which is why 0 can mean that there is no next block.
LEMMA ZeroIsNoBlock == 0 \notin DataBlock
<1>. SUFFICES ASSUME NEW s \in 0 .. Sectors - 1, NEW b \in 1 .. SectorBlocks
              PROVE  s * Stride + b # 0
  BY DEF DataBlock
<1>1. s \in Nat /\ b \in Nat \ {0} /\ Stride \in Nat
  BY Layout, ConstantsAssumption
<1>2. s * Stride \in Nat
  BY <1>1
<1>. QED
  BY <1>1, <1>2

\* A walk depends only on the links of the blocks it visits.
LEMMA ReachedFrame ==
  ASSUME NEW bs \in [DataBlock -> Block], NEW cs \in [DataBlock -> Block],
         NEW o \in DataBlock, \A b \in Reached(bs, o) : cs[b].next = bs[b].next
  PROVE  Reached(cs, o) = Reached(bs, o)
<1>1. /\ Reached(bs, o) \in SUBSET DataBlock /\ o \in Reached(bs, o)
      /\ Closed(bs, Reached(bs, o))
  BY ReachedIsLeast
<1>2. Closed(cs, Reached(bs, o))
  BY <1>1 DEF Closed
<1>3. Reached(cs, o) \subseteq Reached(bs, o)
  BY <1>1, <1>2, ReachedIsLeast
<1>4. Closed(cs, Reached(cs, o)) /\ o \in Reached(cs, o) /\ Reached(cs, o) \in SUBSET DataBlock
  BY ReachedIsLeast
<1>5. Closed(bs, Reached(cs, o))
  BY <1>3, <1>4 DEF Closed
<1>. QED
  BY <1>3, <1>4, <1>5, ReachedIsLeast

\* A walk from a block without a next block stays there.
LEMMA ReachedEnd ==
  ASSUME NEW bs \in [DataBlock -> Block], NEW o \in DataBlock, bs[o].next = 0
  PROVE  Reached(bs, o) = {o}
<1>1. {o} \in SUBSET DataBlock /\ Closed(bs, {o})
  BY DEF Closed
<1>. QED
  BY <1>1, ReachedIsLeast

\* Linking a block without a next block to the end of a chain adds just that block.
LEMMA ReachedGrow ==
  ASSUME NEW bs \in [DataBlock -> Block], NEW cs \in [DataBlock -> Block],
         NEW h \in DataBlock, NEW at \in Reached(bs, h), bs[at].next = 0,
         NEW n \in DataBlock, n \notin Reached(bs, h), cs[at].next = n, cs[n].next = 0,
         \A b \in Reached(bs, h) \ {at} : cs[b].next = bs[b].next
  PROVE  Reached(cs, h) = Reached(bs, h) \cup {n}
<1>. DEFINE B == Reached(bs, h)
            C == Reached(cs, h)
<1>1. B \in SUBSET DataBlock /\ h \in B /\ Closed(bs, B)
  BY ReachedIsLeast
<1>2. C \in SUBSET DataBlock /\ h \in C /\ Closed(cs, C)
  BY ReachedIsLeast
<1>3. Closed(cs, B \cup {n})
  BY <1>1 DEF Closed
<1>4. C \subseteq B \cup {n}
  BY <1>1, <1>3, ReachedIsLeast
<1>5. B \subseteq C
  <2>1. \A b \in C \cap B : bs[b].next \in (C \cap B) \cup {0}
    <3>. SUFFICES ASSUME NEW b \in C \cap B PROVE bs[b].next \in (C \cap B) \cup {0}
      OBVIOUS
    <3>1. bs[b].next \in B \cup {0}
      BY <1>1 DEF Closed
    <3>2. CASE b = at
      BY <3>2
    <3>3. CASE b # at
      <4>1. cs[b].next \in C \cup {0} /\ cs[b].next = bs[b].next
        BY <1>2, <3>3 DEF Closed
      <4>. QED
        BY <3>1, <4>1
    <3>. QED
      BY <3>2, <3>3
  <2>2. Closed(bs, C \cap B)
    BY <2>1 DEF Closed
  <2>3. C \cap B \in SUBSET DataBlock /\ h \in C \cap B
    BY <1>1, <1>2
  <2>4. B \subseteq C \cap B
    BY <2>2, <2>3, ReachedIsLeast
  <2>. QED
    BY <2>4
<1>6. n \in C
  <2>1. at \in C /\ n # 0
    BY <1>5, Layout, ZeroIsNoBlock
  <2>. QED
    BY <1>2, <2>1 DEF Closed
<1>. QED
  BY <1>4, <1>5, <1>6

-----------------------------------------------------------------------------
(***************************************************************************)
(* Ownership.  Until the file is opened again or a chain's links go stale, *)
(* the bitmap is exact in the middle of a call too: what is set and nobody *)
(* owns is in the chain the call is building or freeing.  Inductive        *)
(* because a free block then has no next block, so that storeData follows  *)
(* no old link.                                                            *)
(***************************************************************************)
InOp == IF op.kind = "store" THEN Chain(op.head)
        ELSE IF op.kind = "free" THEN Chain(op.at) ELSE {}

HeldBlock(b) == \E r \in held : b \in Chain(r[1])
NodeBlock(b) == \E o \in nodes : b \in NodePair(o)
OtherBlock(b) == b \in RootBlocks \cup retired

Exact ==
  /\ \A b : b \in used <=> HeldBlock(b) \/ NodeBlock(b) \/ OtherBlock(b) \/ b \in InOp
  /\ \A r, q \in held : \A b \in Chain(r[1]) : b \in Chain(q[1]) => r = q
  /\ \A o, p \in nodes : \A b \in NodePair(o) : b \in NodePair(p) => o = p
  /\ \A b : HeldBlock(b) => ~NodeBlock(b)
  /\ \A b : HeldBlock(b) \/ NodeBlock(b) => ~OtherBlock(b)
  /\ \A b \in InOp : ~HeldBlock(b) /\ ~NodeBlock(b) /\ ~OtherBlock(b)

Ends ==
  /\ \A b \in DataBlock \ used : blocks[b].next = 0
  /\ op.kind = "store" => op.at \in InOp /\ blocks[op.at].next = 0

Fits(o, v) ==
  /\ blocks[o].len = Size[v]
  /\ Size[v] = 1 => blocks[o].next = 0 /\ blocks[o].data = v
Contents ==
  /\ \A r \in held : Fits(r[1], r[2])
  /\ op.kind = "store" =>
       /\ blocks[op.head].len = Size[op.val] /\ op.left <= Size[op.val]
       /\ Size[op.val] = 1 =>
            op.at = op.head /\ (op.left = 0 => blocks[op.head].data = op.val)

Inv == TypeOK /\ FirstFreeIsFree /\ NodeRunIsFree /\ (Clean => Exact /\ Ends /\ Contents)

\* What a step does to the walks of the owners: nothing, if it leaves the links of the
\* blocks in use.
LEMMA HeldStays ==
  ASSUME TypeOK, TypeOK', Exact, \A b \in used \ InOp : blocks'[b].next = blocks[b].next
  PROVE  \A r \in held : Reached(blocks', r[1]) = Reached(blocks, r[1])
<1>. SUFFICES ASSUME NEW r \in held
              PROVE  Reached(blocks', r[1]) = Reached(blocks, r[1])
  OBVIOUS
<1>1. r[1] \in DataBlock /\ blocks \in [DataBlock -> Block] /\ blocks' \in [DataBlock -> Block]
  BY DEF TypeOK
<1>2. \A b \in Reached(blocks, r[1]) : b \in used \ InOp
  BY DEF Exact, HeldBlock, Chain
<1>. QED
  BY <1>1, <1>2, ReachedFrame

LEMMA OwnInit == Init => Exact /\ Ends /\ Contents
<1>. SUFFICES ASSUME Init PROVE Exact /\ Ends /\ Contents
  OBVIOUS
<1>1. held = {} /\ nodes = {} /\ op = Idle /\ used = RootBlocks /\ retired = {}
  BY DEF Init
<1>2. Exact
  BY <1>1 DEF Exact, HeldBlock, NodeBlock, OtherBlock, InOp, Idle
<1>3. Ends
  BY <1>1 DEF Init, Ends, Idle
<1>. QED
  BY <1>1, <1>2, <1>3 DEF Contents, Idle

\* Storing a value of a new path or of new data: a free block becomes a chain.
LEMMA OwnStoreNew ==
  ASSUME Inv, TypeOK', Clean, NEW v \in Values, StoreNew(v)
  PROVE  Exact' /\ Ends' /\ Contents'
<1>. USE DEF Inv
<1>. DEFINE h == firstFree
<1>1. /\ h \in DataBlock /\ h \notin used /\ blocks[h].next = 0 /\ Size[v] \in Nat
      /\ blocks \in [DataBlock -> Block] /\ blocks' \in [DataBlock -> Block]
      /\ op = Idle /\ op'.kind = "store" /\ op'.head = h /\ op'.at = h
      /\ op'.left = Size[v] /\ op'.val = v
      /\ used' = used \cup {h} /\ held' = held /\ nodes' = nodes /\ retired' = retired
  BY ConstantsAssumption
     DEF StoreNew, Call, Clean, FirstFreeIsFree, TypeOK, Ends, client, history
<1>2. /\ \A b \in DataBlock : blocks'[b].next = blocks[b].next
      /\ \A b \in DataBlock : blocks'[b].data = blocks[b].data
      /\ \A b \in DataBlock \ {h} : blocks'[b].len = blocks[b].len
      /\ blocks'[h].len = Size[v]
  BY <1>1 DEF StoreNew, Block
<1>3. \A r \in held : Reached(blocks', r[1]) = Reached(blocks, r[1])
  BY <1>1, <1>2, HeldStays DEF TypeOK
<1>4. Reached(blocks', h) = {h}
  BY <1>1, <1>2, ReachedEnd
<1>. HIDE DEF h
<1>5. InOp = {} /\ InOp' = {h}
  BY <1>1, <1>4 DEF InOp, Chain, Idle
<1>6. \A b : /\ HeldBlock(b)' <=> HeldBlock(b)
             /\ NodeBlock(b)' <=> NodeBlock(b)
             /\ OtherBlock(b)' <=> OtherBlock(b)
  BY <1>1, <1>3 DEF HeldBlock, NodeBlock, OtherBlock, Chain
<1>7. Exact'
  BY <1>1, <1>3, <1>5, <1>6 DEF Exact, Chain
<1>8. Ends'
  BY <1>1, <1>2, <1>5 DEF Ends
<1>9. \A r \in held : r[1] \in DataBlock \ {h}
  <2>. SUFFICES ASSUME NEW r \in held PROVE r[1] \in DataBlock \ {h}
    OBVIOUS
  <2>1. r[1] \in DataBlock /\ r[1] \in Chain(r[1])
    BY <1>1, ReachedIsLeast DEF TypeOK, Chain
  <2>2. r[1] \in used
    BY <2>1 DEF Exact, HeldBlock
  <2>. QED
    BY <1>1, <2>1, <2>2
<1>10. Contents'
  BY <1>1, <1>2, <1>9 DEF Contents, Fits
<1>. QED
  BY <1>7, <1>8, <1>10

\* A step that leaves the links, the owners and the bitmap, and moves no chain in or out
\* of the call, leaves the ownership.
LEMMA OwnSame ==
  ASSUME Inv, TypeOK', Clean, used' = used, held' = held, nodes' = nodes,
         retired' = retired, \A b \in DataBlock : blocks'[b].next = blocks[b].next,
         InOp' = InOp, op'.kind = "store" => op.kind = "store" /\ op'.at = op.at
  PROVE  Exact' /\ Ends'
<1>. USE DEF Inv
<1>1. \A r \in held : r[1] \in DataBlock /\ Reached(blocks', r[1]) = Reached(blocks, r[1])
  BY HeldStays DEF TypeOK
<1>2. \A b : /\ HeldBlock(b)' <=> HeldBlock(b)
             /\ NodeBlock(b)' <=> NodeBlock(b)
             /\ OtherBlock(b)' <=> OtherBlock(b)
  BY <1>1 DEF HeldBlock, NodeBlock, OtherBlock, Chain
<1>3. Exact'
  BY <1>1, <1>2 DEF Exact, Chain
<1>4. op.kind = "store" => op.at \in DataBlock
  BY OpTypes DEF StoreOp
<1>5. Ends'
  BY <1>4 DEF Ends
<1>. QED
  BY <1>3, <1>5

\* The blocks of stored values are not the block the call is at.
LEMMA HeldElsewhere ==
  ASSUME TypeOK, Exact, NEW at \in InOp, NEW r \in held
  PROVE  r[1] \in DataBlock /\ r[1] # at
<1>1. r[1] \in DataBlock /\ blocks \in [DataBlock -> Block]
  BY DEF TypeOK
<1>2. r[1] \in Chain(r[1])
  BY <1>1, ReachedIsLeast DEF Chain
<1>. QED
  BY <1>1, <1>2 DEF Exact, HeldBlock

\* The last iteration of storeData.
LEMMA OwnStoreLast ==
  ASSUME Inv, TypeOK', Clean, StoreLast
  PROVE  Exact' /\ Ends' /\ Contents'
<1>. USE DEF Inv
<1>1. /\ op \in StoreOp /\ op.kind = "store" /\ op.left = 1
      /\ op.at \in InOp /\ blocks[op.at].next = 0
      /\ op.at \in DataBlock /\ op.head \in DataBlock
      /\ blocks \in [DataBlock -> Block] /\ blocks' \in [DataBlock -> Block]
  BY OpTypes DEF StoreLast, Clean, Ends, StoreOp, TypeOK
<1>2. /\ op'.kind = "store" /\ op'.head = op.head /\ op'.at = op.at /\ op'.left = 0
      /\ op'.val = op.val
      /\ used' = used /\ held' = held /\ nodes' = nodes /\ retired' = retired
  BY <1>1 DEF StoreLast, StoreOp, client, history
<1>3. /\ \A b \in DataBlock : blocks'[b].next = blocks[b].next
      /\ \A b \in DataBlock : blocks'[b].len = blocks[b].len
      /\ \A b \in DataBlock \ {op.at} : blocks'[b].data = blocks[b].data
      /\ blocks'[op.at].data = op.val
  BY <1>1 DEF StoreLast, Copied, Block
<1>4. InOp' = InOp
  <2>1. PICK h \in DataBlock : h = op.head
    BY <1>1
  <2>2. Reached(blocks', h) = Reached(blocks, h)
    <3>1. Reached(blocks, h) \in SUBSET DataBlock
      BY <1>1, ReachedIsLeast
    <3>. QED
      BY <1>1, <1>3, <3>1, ReachedFrame
  <2>. QED
    BY <1>1, <1>2, <2>1, <2>2 DEF InOp, Chain
<1>5. Exact' /\ Ends'
  BY <1>1, <1>2, <1>3, <1>4, OwnSame
<1>6. \A r \in held : r[1] \in DataBlock /\ r[1] # op.at
  BY <1>1, HeldElsewhere
<1>7. Contents'
  <2>1. op.head \in DataBlock /\ Size[op.val] \in Nat
    BY <1>1, ConstantsAssumption DEF StoreOp
  <2>. QED
    BY <1>1, <1>2, <1>3, <1>6, <2>1 DEF Contents, Fits
<1>. QED
  BY <1>5, <1>7

\* An iteration of storeData that takes another block and links it.
LEMMA OwnStoreExtend ==
  ASSUME Inv, TypeOK', Clean, Clean', StoreExtend
  PROVE  Exact' /\ Ends' /\ Contents'
<1>. USE DEF Inv
<1>1. /\ op \in StoreOp /\ op.kind = "store" /\ op.left > 1
      /\ op.at \in InOp /\ InOp = Reached(blocks, op.head) /\ blocks[op.at].next = 0
      /\ op.at \in DataBlock /\ op.head \in DataBlock /\ op.val \in Values
      /\ blocks \in [DataBlock -> Block] /\ blocks' \in [DataBlock -> Block]
  BY OpTypes DEF StoreExtend, Clean, Ends, StoreOp, TypeOK, InOp, Chain
<1>2. PICK n \in DataBlock : n = firstFree
  BY DEF TypeOK
<1>3. /\ n \notin used /\ blocks[n].next = 0 /\ n # op.at
  BY <1>1, <1>2 DEF Clean, FirstFreeIsFree, Ends, Exact
<1>4. /\ op'.kind = "store" /\ op'.head = op.head /\ op'.at = n /\ op'.left = op.left - 1
      /\ op'.val = op.val
      /\ used' = used \cup {n} /\ held' = held /\ nodes' = nodes /\ retired' = retired
  BY <1>1, <1>2 DEF StoreExtend, StoreOp, client, history
<1>5. blocks' = [Copied(op.at) EXCEPT ![op.at].next = n]
  BY <1>2 DEF StoreExtend, Clean
<1>6. /\ \A b \in DataBlock \ {op.at} : blocks'[b] = blocks[b]
      /\ blocks'[op.at].next = n /\ blocks'[op.at].len = blocks[op.at].len
  BY <1>1, <1>5 DEF Copied, Block
<1>7. PICK h \in DataBlock : h = op.head
  BY <1>1
<1>8. InOp' = InOp \cup {n}
  <2>1. n \notin Reached(blocks, h) /\ Reached(blocks, h) \in SUBSET DataBlock
    BY <1>1, <1>3, <1>7, ReachedIsLeast DEF Exact
  <2>2. Reached(blocks', h) = Reached(blocks, h) \cup {n}
    BY <1>1, <1>3, <1>6, <1>7, <2>1, ReachedGrow
  <2>. QED
    BY <1>1, <1>4, <1>7, <2>2 DEF InOp, Chain
<1>9. \A r \in held : r[1] \in DataBlock /\ r[1] # op.at
                      /\ Reached(blocks', r[1]) = Reached(blocks, r[1])
  <2>1. \A b \in used \ InOp : blocks'[b].next = blocks[b].next
    BY <1>1, <1>6 DEF TypeOK
  <2>. QED
    BY <1>1, <2>1, HeldStays, HeldElsewhere
<1>10. \A b : /\ HeldBlock(b)' <=> HeldBlock(b)
              /\ NodeBlock(b)' <=> NodeBlock(b)
              /\ OtherBlock(b)' <=> OtherBlock(b)
  BY <1>4, <1>9 DEF HeldBlock, NodeBlock, OtherBlock, Chain
<1>11. Exact'
  BY <1>3, <1>4, <1>8, <1>9, <1>10 DEF Exact, Chain
<1>12. Ends'
  <2>1. op.at \in used
    BY <1>1 DEF Exact
  <2>. QED
    BY <1>3, <1>4, <1>6, <1>8, <2>1 DEF Ends
<1>13. Contents'
  <2>1. Size[op.val] \in Nat /\ op.left \in Nat /\ op.left <= Size[op.val]
    BY <1>1, ConstantsAssumption DEF StoreOp, Contents, Clean
  <2>2. Size[op.val] > 1 /\ op.left - 1 <= Size[op.val]
    BY <1>1, <2>1
  <2>3. blocks'[op.head].len = blocks[op.head].len
    BY <1>1, <1>6
  <2>. QED
    BY <1>1, <1>4, <1>6, <1>9, <2>2, <2>3 DEF Contents, Fits
<1>. QED
  BY <1>11, <1>12, <1>13

\* storeData returns: the chain of the call is the client's.
LEMMA OwnStoreReturn ==
  ASSUME Inv, TypeOK', Clean, StoreReturn
  PROVE  Exact' /\ Ends' /\ Contents'
<1>. USE DEF Inv
<1>1. /\ op \in StoreOp /\ op.kind = "store" /\ op.left = 0
      /\ op.at \in InOp /\ InOp = Reached(blocks, op.head) /\ blocks[op.at].next = 0
      /\ op.head \in DataBlock /\ op.val \in Values /\ blocks \in [DataBlock -> Block]
  BY OpTypes DEF StoreReturn, Clean, Ends, StoreOp, TypeOK, InOp, Chain
<1>2. PICK r : r = <<op.head, op.val>>
  OBVIOUS
<1>3. /\ op' = Idle /\ used' = used /\ blocks' = blocks /\ nodes' = nodes
      /\ retired' = retired /\ held' = held \cup {r} /\ r[1] = op.head /\ r[2] = op.val
  BY <1>2 DEF StoreReturn, file, history
<1>4. InOp' = {}
  BY <1>3 DEF InOp, Idle
<1>5. \A b : /\ HeldBlock(b)' <=> HeldBlock(b) \/ b \in InOp
             /\ NodeBlock(b)' <=> NodeBlock(b)
             /\ OtherBlock(b)' <=> OtherBlock(b)
  BY <1>1, <1>3 DEF HeldBlock, NodeBlock, OtherBlock, Chain
<1>6. Exact'
  <2>1. \A b : b \in used' <=> HeldBlock(b)' \/ NodeBlock(b)' \/ OtherBlock(b)' \/ b \in InOp'
    BY <1>3, <1>4, <1>5 DEF Exact
  <2>2. \A q, s \in held' : \A b \in Reached(blocks, q[1]) :
          b \in Reached(blocks, s[1]) => q = s
    BY <1>1, <1>3 DEF Exact, HeldBlock, Chain
  <2>. QED
    BY <1>3, <1>4, <1>5, <2>1, <2>2 DEF Exact, Chain
<1>7. Ends'
  BY <1>3 DEF Ends, Idle
<1>8. Contents'
  <2>1. Size[op.val] = 1 => op.at = op.head
    BY <1>1 DEF Contents, Clean
  <2>2. Fits(r[1], r[2])
    BY <1>1, <1>3, <2>1 DEF Contents, Fits
  <2>. QED
    BY <1>3, <2>2 DEF Contents, Fits, Idle
<1>. QED
  BY <1>6, <1>7, <1>8

\* freeBlock begins: the chain of r is the call's.
LEMMA OwnFreeBlock ==
  ASSUME Inv, TypeOK', Clean, NEW r \in held, FreeBlock(r)
  PROVE  Exact' /\ Ends' /\ Contents'
<1>. USE DEF Inv
<1>1. /\ op = Idle /\ op'.kind = "free" /\ op'.at = r[1] /\ held' = held \ {r}
      /\ used' = used /\ blocks' = blocks /\ nodes' = nodes /\ retired' = retired
  BY DEF FreeBlock, Call, file, history
<1>2. InOp = {} /\ InOp' = Reached(blocks, r[1])
  BY <1>1 DEF InOp, Chain, Idle
<1>3. \A b : /\ HeldBlock(b) <=> HeldBlock(b)' \/ b \in InOp'
             /\ NodeBlock(b)' <=> NodeBlock(b)
             /\ OtherBlock(b)' <=> OtherBlock(b)
  BY <1>1, <1>2 DEF HeldBlock, NodeBlock, OtherBlock, Chain
<1>4. \A b \in InOp' : ~HeldBlock(b)'
  BY <1>1, <1>2 DEF Exact, HeldBlock, Chain
<1>5. Exact'
  BY <1>1, <1>2, <1>3, <1>4 DEF Exact, Chain
<1>6. Ends' /\ Contents'
  BY <1>1 DEF Ends, Contents, Fits
<1>. QED
  BY <1>5, <1>6

\* An iteration of internalFreeBlock, on a block without a next block.
LEMMA OwnFreeStep ==
  ASSUME Inv, TypeOK', Clean, Clean', FreeStep
  PROVE  Exact' /\ Ends' /\ Contents'
<1>. USE DEF Inv
<1>1. /\ op \in FreeOp /\ op.kind = "free" /\ op.at \in DataBlock
      /\ blocks \in [DataBlock -> Block] /\ blocks[op.at].next = 0
  BY OpTypes DEF FreeStep, FreeOp, TypeOK, Clean
<1>2. /\ op' = Idle /\ used' = used \ {op.at} /\ blocks' = blocks /\ held' = held
      /\ nodes' = nodes /\ retired' = retired
  BY <1>1 DEF FreeStep, client
<1>3. InOp = {op.at} /\ InOp' = {}
  BY <1>1, <1>2, ReachedEnd DEF InOp, Chain, Idle
<1>4. \A b : /\ HeldBlock(b)' <=> HeldBlock(b)
             /\ NodeBlock(b)' <=> NodeBlock(b)
             /\ OtherBlock(b)' <=> OtherBlock(b)
  BY <1>2 DEF HeldBlock, NodeBlock, OtherBlock, Chain
<1>5. Exact'
  BY <1>2, <1>3, <1>4 DEF Exact, Chain
<1>6. Ends' /\ Contents'
  BY <1>1, <1>2 DEF Ends, Contents, Fits, Idle
<1>. QED
  BY <1>5, <1>6

\* A step of the search for the blocks of a node, or its beginning, takes no block.
LEMMA OwnSearch ==
  ASSUME Inv, TypeOK', Clean, NodeNew \/ NodeScan
  PROVE  Exact' /\ Ends' /\ Contents'
<1>. USE DEF Inv
<1>1. /\ used' = used /\ blocks' = blocks /\ held' = held /\ nodes' = nodes
      /\ retired' = retired
  BY DEF NodeNew, NodeScan, file, client, history
<1>2. op'.kind = "node" /\ (op = Idle \/ op.kind = "node")
  <2>1. CASE NodeNew
    BY <2>1 DEF NodeNew, Call
  <2>2. CASE NodeScan
    BY <2>2, OpTypes DEF NodeScan, NodeOp
  <2>. QED
    BY <2>1, <2>2
<1>3. InOp = {} /\ InOp' = {}
  BY <1>2 DEF InOp, Idle
<1>4. Exact' /\ Ends'
  BY <1>1, <1>2, <1>3, OwnSame
<1>5. Contents'
  BY <1>1, <1>2 DEF Contents, Fits
<1>. QED
  BY <1>4, <1>5

\* getFreeTreeNodeBlock returns: the run found is a node's.
LEMMA OwnNodeReturn ==
  ASSUME Inv, TypeOK', Clean, NodeReturn
  PROVE  Exact' /\ Ends' /\ Contents'
<1>. USE DEF Inv
<1>1. /\ op \in NodeOp /\ op.kind = "node" /\ op.run \in DataBlock /\ op.last \in DataBlock
      /\ op.run \in Nat /\ op.last \in Nat /\ op.last = op.run + 1
      /\ blocks \in [DataBlock -> Block]
  <2>1. op \in NodeOp /\ op.last - op.run + 1 = 2 /\ op.kind = "node"
    BY OpTypes DEF NodeReturn, NodeBlocks
  <2>2. op.run \in DataBlock /\ op.last \in DataBlock /\ op.run \in Nat /\ op.last \in Nat
    BY <2>1, Layout DEF NodeOp
  <2>. QED
    BY <2>1, <2>2 DEF TypeOK
<1>2. PICK o \in DataBlock : o = op.run
  BY <1>1
<1>3. PICK l \in DataBlock : l = op.last
  BY <1>1
<1>4. o \in Nat /\ l = o + 1 /\ NodePair(o) = {o, l} /\ op.run .. op.last = {o, l}
  BY <1>1, <1>2, <1>3 DEF NodePair, NodeBlocks
<1>5. o \notin used /\ l \notin used
  BY <1>1, <1>4 DEF NodeRunIsFree
<1>6. /\ op' = Idle /\ used' = used \cup {o, l} /\ held' = held /\ nodes' = nodes \cup {o}
      /\ retired' = retired
      /\ \A b \in DataBlock \ {o, l} : blocks'[b] = blocks[b]
  BY <1>1, <1>2, <1>3 DEF NodeReturn, history, TypeOK
<1>7. InOp = {} /\ InOp' = {}
  BY <1>1, <1>6 DEF InOp, Idle
<1>8. \A r \in held : Reached(blocks', r[1]) = Reached(blocks, r[1])
  <2>1. \A b \in used \ InOp : blocks'[b].next = blocks[b].next
    BY <1>5, <1>6 DEF TypeOK
  <2>. QED
    BY <2>1, HeldStays DEF Clean
<1>9. \A b : /\ HeldBlock(b)' <=> HeldBlock(b)
             /\ NodeBlock(b)' <=> NodeBlock(b) \/ b \in {o, l}
             /\ OtherBlock(b)' <=> OtherBlock(b)
  BY <1>4, <1>6, <1>8 DEF HeldBlock, NodeBlock, OtherBlock, Chain
<1>10. \A p \in nodes : NodePair(p) \cap {o, l} = {}
  BY <1>5 DEF Exact, NodeBlock
<1>11. Exact'
  <2>1. \A b : b \in used' <=> HeldBlock(b)' \/ NodeBlock(b)' \/ OtherBlock(b)' \/ b \in InOp'
    BY <1>6, <1>7, <1>9 DEF Exact
  <2>2. \A p, q \in nodes' : \A b \in NodePair(p) : b \in NodePair(q) => p = q
    BY <1>4, <1>6, <1>10 DEF Exact
  <2>3. \A r, q \in held : \A b \in Reached(blocks', r[1]) :
          b \in Reached(blocks', q[1]) => r = q
    BY <1>8 DEF Exact, Chain
  <2>4. \A b : b \in {o, l} => ~HeldBlock(b) /\ ~OtherBlock(b)
    BY <1>5 DEF Exact
  <2>. QED
    BY <1>6, <1>7, <1>9, <2>1, <2>2, <2>3, <2>4 DEF Exact, Chain
<1>12. Ends'
  BY <1>6 DEF Ends, Idle
<1>13. Contents'
  <2>1. \A r \in held : r[1] \in DataBlock \ {o, l}
    <3>. SUFFICES ASSUME NEW r \in held PROVE r[1] \in DataBlock \ {o, l}
      OBVIOUS
    <3>1. r[1] \in DataBlock /\ r[1] \in Chain(r[1])
      BY <1>1, ReachedIsLeast DEF TypeOK, Chain
    <3>2. r[1] \in used
      BY <3>1 DEF Exact, HeldBlock
    <3>. QED
      BY <1>5, <3>1, <3>2
  <2>. QED
    BY <1>6, <2>1 DEF Contents, Fits, Idle
<1>. QED
  BY <1>11, <1>12, <1>13

\* freeTreeNodeBlock: the node's blocks are nobody's, and stay set.
LEMMA OwnFreeTreeNode ==
  ASSUME Inv, TypeOK', Clean, NEW o \in nodes, FreeTreeNode(o)
  PROVE  Exact' /\ Ends' /\ Contents'
<1>. USE DEF Inv
<1>1. /\ op = Idle /\ op' = op /\ used' = used /\ blocks' = blocks /\ held' = held
      /\ nodes' = nodes \ {o} /\ retired' = retired \cup NodePair(o)
  BY DEF FreeTreeNode, Call, file
<1>2. InOp = {} /\ InOp' = {}
  BY <1>1 DEF InOp, Idle
<1>3. \A b : /\ HeldBlock(b)' <=> HeldBlock(b)
             /\ NodeBlock(b) <=> NodeBlock(b)' \/ b \in NodePair(o)
             /\ OtherBlock(b)' <=> OtherBlock(b) \/ b \in NodePair(o)
  BY <1>1 DEF HeldBlock, NodeBlock, OtherBlock, Chain
<1>4. \A b \in NodePair(o) : ~NodeBlock(b)'
  BY <1>1 DEF Exact, NodeBlock
<1>5. Exact'
  BY <1>1, <1>2, <1>3, <1>4 DEF Exact, Chain
<1>6. Ends' /\ Contents'
  BY <1>1, <1>2 DEF Ends, Contents, Fits, Idle
<1>. QED
  BY <1>5, <1>6

\* Every step keeps the ownership, as long as it leaves the file clean.
LEMMA InvStep ==
  ASSUME Inv, TypeOK', FirstFreeIsFree', NodeRunIsFree', [Next]_vars
  PROVE  Inv'
<1>. SUFFICES ASSUME Clean' PROVE Exact' /\ Ends' /\ Contents'
  BY DEF Inv
<1>1. ~Restart
  BY DEF Restart, Clean, Inv, TypeOK
<1>2. Clean
  <2>1. restarts' = restarts
    BY <1>1 DEF Next, Step, vars, StoreNew, FreeBlock, NodeNew, FreeTreeNode, StoreLast,
                StoreFollow, StoreExtend, StoreReturn, FreeStep, NodeScan, NodeReturn
  <2>2. stale => stale'
    BY <1>1, Zenon DEF Next, Step, vars, history, StoreNew, FreeBlock, NodeNew, FreeTreeNode,
                StoreLast, StoreFollow, StoreExtend, StoreReturn, FreeStep, NodeScan,
                NodeReturn
  <2>. QED
    BY <2>1, <2>2 DEF Clean
<1>3. ~StoreFollow
  BY <1>2 DEF StoreFollow, Inv, Ends
<1>4. CASE UNCHANGED vars
  <2>1. /\ used' = used /\ blocks' = blocks /\ held' = held /\ nodes' = nodes
        /\ retired' = retired /\ op' = op
    BY <1>4 DEF vars, file, client, history
  <2>2. InOp' = InOp
    BY <2>1 DEF InOp, Chain
  <2>3. Exact' /\ Ends'
    BY <1>2, <2>1, <2>2, OwnSame
  <2>. QED
    BY <1>2, <2>1, <2>3 DEF Inv, Contents, Fits
<1>. QED
  BY <1>1, <1>2, <1>3, <1>4, OwnStoreNew, OwnStoreLast, OwnStoreExtend, OwnStoreReturn,
     OwnFreeBlock, OwnFreeStep, OwnSearch, OwnNodeReturn, OwnFreeTreeNode
     DEF Next, Step

\* The conjunction of all that is proved here.
LEMMA InvCorrect == Spec => []Inv
<1>1. Init /\ TypeOK /\ FirstFreeIsFree /\ NodeRunIsFree => Inv
  BY OwnInit DEF Inv
<1>2. Inv /\ [Next]_vars /\ TypeOK' /\ FirstFreeIsFree' /\ NodeRunIsFree' => Inv'
  BY InvStep
<1>. QED
  BY <1>1, <1>2, TypeCorrect, FirstFreeCorrect, NodeRunCorrect, PTL DEF Spec

\* Between calls the bitmap is exact, for every layout of the file, any values and any
\* calls: every set bit is the root's, a retired node's or in the chain or pair of exactly
\* one owner.  So getFreeBlock and getFreeTreeNodeBlock hand out nothing twice, and
\* freeBlock leaks nothing.
THEOREM OwnershipCorrect == Spec => []ExactOwnership
<1>1. Inv => ExactOwnership
  <2>. SUFFICES ASSUME Inv, Clean, op = Idle PROVE ExactOwnership
    BY DEF ExactOwnership
  <2>1. Exact /\ InOp = {}
    BY DEF Inv, InOp, Idle
  <2>2. \A b : b \in UNION Owned <=> HeldBlock(b) \/ NodeBlock(b)
    BY DEF Owned, HeldBlock, NodeBlock
  <2>3. used = (UNION Owned) \cup RootBlocks \cup retired
    BY <2>1, <2>2 DEF Exact, OtherBlock
  <2>4. \A r, q \in held : r # q => Chain(r[1]) \cap Chain(q[1]) = {}
    BY <2>1 DEF Exact
  <2>5. \A r \in held, o \in nodes : Chain(r[1]) \cap NodePair(o) = {}
    BY <2>1 DEF Exact, HeldBlock, NodeBlock
  <2>6. \A o, p \in nodes : o # p => NodePair(o) \cap NodePair(p) = {}
    BY <2>1 DEF Exact
  <2>7. (UNION Owned) \cap (RootBlocks \cup retired) = {}
    BY <2>1, <2>2 DEF Exact, OtherBlock
  <2>. QED
    BY <2>3, <2>4, <2>5, <2>6, <2>7 DEF ExactOwnership
<1>. QED
  BY <1>1, InvCorrect, PTL

\* A value of at most one block reads back what was stored, in the middle of other calls
\* too, for every layout of the file.
THEOREM ReadBackCorrect == Spec => []ReadBack
<1>1. Inv => ReadBack
  <2>. SUFFICES ASSUME Inv, Clean, NEW r \in held, Size[r[2]] <= 1
                PROVE  getDataFromBlock(r[1]) = Bytes(r[2])
    BY DEF ReadBack
  <2>1. /\ r[1] \in DataBlock /\ r[2] \in Values /\ blocks \in [DataBlock -> Block]
        /\ Size[r[2]] \in Nat /\ Fits(r[1], r[2])
    BY ConstantsAssumption DEF Inv, TypeOK, Contents
  <2>2. CASE Size[r[2]] = 0
    BY <2>1, <2>2 DEF Fits, getDataFromBlock, Bytes
  <2>3. CASE Size[r[2]] = 1
    <3>1. blocks[r[1]].len = 1 /\ blocks[r[1]].next = 0 /\ blocks[r[1]].data = r[2]
      BY <2>1, <2>3 DEF Fits
    <3>2. Chain(r[1]) = {r[1]}
      BY <2>1, <3>1, ReachedEnd DEF Chain
    <3>. DEFINE last == CHOOSE b \in Chain(r[1]) : blocks[b].next = 0
                len == blocks[r[1]].len
    <3>3. last = r[1]
      BY <3>1, <3>2
    <3>4. getDataFromBlock(r[1]) =
            [len |-> len, lead |-> IF len = 0 THEN NoData ELSE blocks[last].data,
             tail |-> IF len > 1 THEN "zeros" ELSE "none"]
      BY DEF getDataFromBlock
    <3>. HIDE DEF last
    <3>. QED
      BY <2>3, <3>1, <3>3, <3>4 DEF Bytes
  <2>. QED
    BY <2>1, <2>2, <2>3
<1>. QED
  BY <1>1, InvCorrect, PTL

-----------------------------------------------------------------------------
(***************************************************************************)
(* Opening the file again.  While no links have gone stale, whatever calls *)
(* are cut short and however often the file is opened, a block other than  *)
(* the header's that a link, a value or a node refers to stays in use, and *)
(* only one of them refers to it: getFreeBlock and the search for nodes    *)
(* take clear blocks, but for the header's.                                *)
(***************************************************************************)
H == HeaderFirstFree
IsHead(x) ==
  \/ \E r \in held : r[1] = x
  \/ op.kind = "store" /\ op.head = x
  \/ op.kind = "free" /\ op.at = x

FreeHasNoNext == \A b \in DataBlock \ used : blocks[b].next = 0
LinkedOnce ==
  /\ \A b \in DataBlock : blocks[b].next \notin {0, H} =>
       blocks[b].next \in used /\ ~IsHead(blocks[b].next)
  /\ \A b, c \in DataBlock :
       blocks[b].next = blocks[c].next /\ blocks[b].next \notin {0, H} => b = c
HeadsApart ==
  /\ \A r \in held : r[1] = H \/ r[1] \in used
  /\ \A r, q \in held : r[1] = q[1] => r = q \/ r[1] = H
  /\ op.kind = "store" => \A r \in held : r[1] = op.head => r[1] = H
  /\ op.kind = "free" => op.at \in used \cup {H} /\ \A r \in held : r[1] = op.at => r[1] = H
Storing ==
  op.kind = "store" =>
    /\ firstFree \notin used /\ op.head \in used /\ op.at \in used
    /\ op.head # H => blocks[op.at].next = 0
NodesApart ==
  /\ \A o \in nodes : \A x \in NodePair(o) \ {H} :
       /\ x \in used /\ ~IsHead(x)
       /\ \A b \in DataBlock : blocks[b].next = x => b = o /\ b # x
  /\ \A o, p \in nodes : \A x \in NodePair(o) \cap NodePair(p) : o = p \/ x = H
RootApart ==
  \A x \in RootBlocks :
    /\ x \in used /\ ~IsHead(x)
    /\ \A b \in DataBlock : blocks[b].next # x
    /\ \A o \in nodes : x \notin NodePair(o)

Links == FreeHasNoNext /\ LinkedOnce /\ HeadsApart /\ Storing /\ NodesApart /\ RootApart
HarmInv == TypeOK /\ FirstFreeIsFree /\ NodeRunIsFree /\ (~stale => Links)

LEMMA RootIsNotH == H \notin RootBlocks /\ H \in DataBlock
  BY Layout DEF H, HeaderFirstFree, RootBlocks, NodePair, Root, NodeBlocks

LEMMA LinksInit == Init => Links
<1>. SUFFICES ASSUME Init PROVE Links
  OBVIOUS
<1>1. /\ held = {} /\ nodes = {} /\ op = Idle /\ used = RootBlocks
      /\ \A b \in DataBlock : blocks[b].next = 0
  BY DEF Init
<1>2. \A x : ~IsHead(x)
  BY <1>1 DEF IsHead, Idle
<1>3. RootApart
  BY <1>1, <1>2, Layout, ZeroIsNoBlock DEF RootApart
<1>. QED
  BY <1>1, <1>2, <1>3
     DEF Links, FreeHasNoNext, LinkedOnce, HeadsApart, Storing, NodesApart, Idle

\* The block that getFreeBlock takes is clear or the header's, and the next one clear.
LEMMA TakeFirst ==
  ASSUME TypeOK, CanAcquire(used, firstFree, firstFree)
  PROVE  /\ AfterAcquire(used, firstFree, firstFree) \in DataBlock
         /\ AfterAcquire(used, firstFree, firstFree) \notin used \cup {firstFree}
  BY FindFreeIsFree DEF CanAcquire, AfterAcquire, TypeOK

LEMMA LinksStoreNew ==
  ASSUME HarmInv, TypeOK', Links, NEW v \in Values, StoreNew(v)
  PROVE  Links'
<1>. USE DEF HarmInv, Links
<1>1. PICK h \in DataBlock : h = firstFree
  BY DEF TypeOK
<1>2. /\ op = Idle /\ op'.kind = "store" /\ op'.head = h /\ op'.at = h
      /\ used' = used \cup {h} /\ held' = held /\ nodes' = nodes
      /\ firstFree' \notin used'
  BY <1>1, TakeFirst DEF StoreNew, Call, client
<1>3. \A b \in DataBlock : blocks'[b].next = blocks[b].next
  BY DEF StoreNew, TypeOK, Block
<1>4. h \in used => h = H
  BY <1>1 DEF FirstFreeIsFree, H
<1>5. \A x : IsHead(x)' <=> IsHead(x) \/ x = h
  BY <1>2 DEF IsHead, Idle
<1>6. FreeHasNoNext'
  BY <1>2, <1>3 DEF FreeHasNoNext
<1>7. LinkedOnce'
  BY <1>2, <1>3, <1>4, <1>5 DEF LinkedOnce
<1>8. HeadsApart'
  BY <1>2, <1>4 DEF HeadsApart
<1>9. Storing'
  BY <1>2, <1>3, <1>4 DEF Storing, FreeHasNoNext
<1>10. NodesApart'
  BY <1>2, <1>3, <1>4, <1>5 DEF NodesApart
<1>11. RootApart'
  BY <1>2, <1>3, <1>4, <1>5, RootIsNotH DEF RootApart
<1>. QED
  BY <1>6, <1>7, <1>8, <1>9, <1>10, <1>11

LEMMA LinksStoreLast ==
  ASSUME HarmInv, TypeOK', Links, StoreLast
  PROVE  Links'
<1>. USE DEF HarmInv, Links
<1>1. /\ op \in StoreOp /\ op.kind = "store" /\ op.at \in DataBlock
      /\ op'.kind = "store" /\ op'.head = op.head /\ op'.at = op.at
      /\ used' = used /\ held' = held /\ nodes' = nodes /\ firstFree' = firstFree
  BY OpTypes DEF StoreLast, StoreOp, client
<1>2. /\ \A b \in DataBlock \ {op.at} : blocks'[b].next = blocks[b].next
      /\ blocks'[op.at].next = 0
  BY <1>1 DEF StoreLast, Copied, TypeOK, Block
<1>3. \A x : IsHead(x)' <=> IsHead(x)
  BY <1>1 DEF IsHead
<1>4. FreeHasNoNext' /\ HeadsApart' /\ Storing'
  BY <1>1, <1>2 DEF FreeHasNoNext, HeadsApart, Storing
<1>5. LinkedOnce'
  BY <1>1, <1>2, <1>3 DEF LinkedOnce
<1>6. NodesApart'
  <2>1. \A b, x \in DataBlock : blocks'[b].next = x => blocks[b].next = x
    BY <1>2, ZeroIsNoBlock
  <2>2. \A o \in nodes : \A x \in NodePair(o) \ {H} : x \in DataBlock
    BY DEF NodesApart, TypeOK
  <2>. QED
    BY <1>1, <1>3, <2>1, <2>2 DEF NodesApart
<1>7. RootApart'
  BY <1>1, <1>2, <1>3, Layout, ZeroIsNoBlock DEF RootApart
<1>. QED
  BY <1>4, <1>5, <1>6, <1>7

LEMMA LinksStoreFollow ==
  ASSUME HarmInv, TypeOK', Links, StoreFollow
  PROVE  Links'
<1>. USE DEF HarmInv, Links
<1>1. /\ op \in StoreOp /\ op.kind = "store" /\ op.at \in DataBlock /\ blocks[op.at].next # 0
      /\ op'.kind = "store" /\ op'.head = op.head /\ op'.at = blocks[op.at].next
      /\ used' = used /\ held' = held /\ nodes' = nodes /\ firstFree' = firstFree
  BY OpTypes DEF StoreFollow, StoreOp, client
<1>2. \A b \in DataBlock : blocks'[b].next = blocks[b].next
  BY <1>1 DEF StoreFollow, Copied, TypeOK, Block
<1>3. \A x : IsHead(x)' <=> IsHead(x)
  BY <1>1 DEF IsHead
<1>4. FreeHasNoNext' /\ HeadsApart' /\ LinkedOnce'
  BY <1>1, <1>2, <1>3 DEF FreeHasNoNext, HeadsApart, LinkedOnce
<1>5. Storing'
  <2>1. op.head = H /\ H \in used /\ firstFree \notin used
    BY <1>1 DEF Storing
  <2>2. blocks[op.at].next \in used
    BY <1>1, <2>1 DEF LinkedOnce
  <2>. QED
    BY <1>1, <2>1, <2>2 DEF Storing
<1>6. NodesApart' /\ RootApart'
  BY <1>1, <1>2, <1>3 DEF NodesApart, RootApart
<1>. QED
  BY <1>4, <1>5, <1>6

LEMMA LinksStoreExtend ==
  ASSUME HarmInv, TypeOK', Links, ~stale', StoreExtend
  PROVE  Links'
<1>. USE DEF HarmInv, Links
<1>1. PICK n \in DataBlock : n = firstFree
  BY DEF TypeOK
<1>2. /\ op \in StoreOp /\ op.kind = "store" /\ op.at \in DataBlock
      /\ op.at \in used /\ n \notin used /\ op.head \in used
      /\ op'.kind = "store" /\ op'.head = op.head /\ op'.at = n
      /\ used' = used \cup {n} /\ held' = held /\ nodes' = nodes
      /\ firstFree' \notin used'
  BY <1>1, OpTypes, TakeFirst DEF StoreExtend, StoreOp, client, Storing
<1>3. /\ \A b \in DataBlock \ {op.at} : blocks'[b].next = blocks[b].next
      /\ blocks'[op.at].next = n
  <2>1. blocks' = [Copied(op.at) EXCEPT ![op.at].next = n]
    BY <1>1 DEF StoreExtend
  <2>. QED
    BY <1>2, <2>1 DEF Copied, TypeOK, Block
<1>4. \A x : (IsHead(x)' <=> IsHead(x)) /\ (IsHead(x) => x \in used \cup {H})
  BY <1>2 DEF IsHead, HeadsApart
<1>5. blocks'[n].next = 0
  BY <1>2, <1>3 DEF FreeHasNoNext
<1>6. FreeHasNoNext' /\ HeadsApart' /\ Storing'
  BY <1>2, <1>3, <1>5 DEF FreeHasNoNext, HeadsApart, Storing
<1>7. LinkedOnce'
  BY <1>2, <1>3, <1>4 DEF LinkedOnce
<1>8. NodesApart'
  BY <1>2, <1>3, <1>4 DEF NodesApart
<1>9. RootApart'
  BY <1>2, <1>3, <1>4 DEF RootApart
<1>. QED
  BY <1>6, <1>7, <1>8, <1>9

LEMMA LinksStoreReturn ==
  ASSUME HarmInv, TypeOK', Links, StoreReturn
  PROVE  Links'
<1>. USE DEF HarmInv, Links
<1>1. PICK r : r = <<op.head, op.val>>
  OBVIOUS
<1>2. /\ op.kind = "store" /\ op' = Idle /\ held' = held \cup {r} /\ r[1] = op.head
      /\ used' = used /\ blocks' = blocks /\ nodes' = nodes
  BY <1>1 DEF StoreReturn, file
<1>3. \A x : IsHead(x)' <=> IsHead(x)
  BY <1>2 DEF IsHead, Idle
<1>4. HeadsApart' /\ Storing'
  BY <1>2 DEF HeadsApart, Storing, Idle
<1>. QED
  BY <1>2, <1>3, <1>4 DEF FreeHasNoNext, LinkedOnce, NodesApart, RootApart

LEMMA LinksFreeBlock ==
  ASSUME HarmInv, TypeOK', Links, NEW r \in held, FreeBlock(r)
  PROVE  Links'
<1>. USE DEF HarmInv, Links
<1>1. /\ op = Idle /\ op'.kind = "free" /\ op'.at = r[1] /\ held' = held \ {r}
      /\ used' = used /\ blocks' = blocks /\ nodes' = nodes
  BY DEF FreeBlock, Call, file
<1>2. \A x : IsHead(x)' => IsHead(x)
  BY <1>1 DEF IsHead
<1>3. HeadsApart' /\ Storing'
  BY <1>1 DEF HeadsApart, Storing
<1>. QED
  BY <1>1, <1>2, <1>3 DEF FreeHasNoNext, LinkedOnce, NodesApart, RootApart

LEMMA LinksFreeStep ==
  ASSUME HarmInv, TypeOK', Links, ~stale', FreeStep
  PROVE  Links'
<1>. USE DEF HarmInv, Links
<1>1. op \in FreeOp /\ op.kind = "free" /\ op.at \in DataBlock /\ blocks[op.at].next = 0
  BY OpTypes DEF FreeStep, FreeOp
<1>2. /\ op' = Idle /\ used' = used \ {op.at} /\ blocks' = blocks /\ held' = held
      /\ nodes' = nodes
  BY <1>1 DEF FreeStep, client
<1>3. IsHead(op.at) /\ \A x : IsHead(x)' => IsHead(x)
  BY <1>1, <1>2 DEF IsHead, Idle
<1>4. FreeHasNoNext' /\ HeadsApart' /\ Storing'
  BY <1>1, <1>2 DEF FreeHasNoNext, HeadsApart, Storing, Idle
<1>5. LinkedOnce'
  BY <1>2, <1>3 DEF LinkedOnce
<1>6. NodesApart' /\ RootApart'
  BY <1>2, <1>3 DEF NodesApart, RootApart
<1>. QED
  BY <1>4, <1>5, <1>6

LEMMA LinksNodeReturn ==
  ASSUME HarmInv, TypeOK', Links, NodeReturn
  PROVE  Links'
<1>. USE DEF HarmInv, Links
<1>1. /\ op \in NodeOp /\ op.kind = "node" /\ op.run \in DataBlock /\ op.last \in DataBlock
      /\ op.run \in Nat /\ op.last = op.run + 1
  <2>1. op \in NodeOp /\ op.last - op.run + 1 = 2 /\ op.kind = "node"
    BY OpTypes DEF NodeReturn, NodeBlocks
  <2>2. op.run \in DataBlock /\ op.last \in DataBlock /\ op.run \in Nat /\ op.last \in Nat
    BY <2>1, Layout DEF NodeOp
  <2>. QED
    BY <2>1, <2>2
<1>2. PICK o \in DataBlock : o = op.run
  BY <1>1
<1>3. PICK l \in DataBlock : l = op.last
  BY <1>1
<1>4. o \in Nat /\ l = o + 1 /\ l # o /\ NodePair(o) = {o, l} /\ op.run .. op.last = {o, l}
  BY <1>1, <1>2, <1>3 DEF NodePair, NodeBlocks
<1>5. o \notin used /\ l \notin used
  BY <1>1, <1>4 DEF NodeRunIsFree
<1>6. /\ op' = Idle /\ used' = used \cup {o, l} /\ held' = held /\ nodes' = nodes \cup {o}
      /\ \A b \in DataBlock \ {o, l} : blocks'[b] = blocks[b]
      /\ blocks'[o].next = l /\ blocks'[l].next = 0
  BY <1>1, <1>2, <1>3, <1>4 DEF NodeReturn, TypeOK, Block
<1>7. \A x : (IsHead(x)' <=> IsHead(x)) /\ (IsHead(x) => x \in used \cup {H})
  BY <1>1, <1>6 DEF IsHead, HeadsApart, Idle
<1>8. FreeHasNoNext' /\ HeadsApart' /\ Storing'
  BY <1>6 DEF FreeHasNoNext, HeadsApart, Storing, Idle
<1>9. LinkedOnce'
  BY <1>5, <1>6, <1>7 DEF LinkedOnce
<1>10. \A b \in DataBlock : blocks'[b].next \in {o, l} \ {H} => b = o /\ blocks'[b].next = l
  BY <1>4, <1>5, <1>6, ZeroIsNoBlock DEF LinkedOnce
<1>11. NodesApart'
  <2>1. \A p \in nodes' : \A x \in NodePair(p) \ {H} :
          /\ x \in used' /\ ~IsHead(x)'
          /\ \A b \in DataBlock : blocks'[b].next = x => b = p /\ b # x
    <3>. SUFFICES ASSUME NEW p \in nodes', NEW x \in NodePair(p) \ {H}
                  PROVE  /\ x \in used' /\ ~IsHead(x)'
                         /\ \A b \in DataBlock : blocks'[b].next = x => b = p /\ b # x
      OBVIOUS
    <3>1. CASE p = o
      BY <1>4, <1>5, <1>6, <1>7, <1>10, <3>1
    <3>2. CASE p \in nodes
      <4>1. x \in used /\ x \notin {o, l}
        BY <1>5, <3>2 DEF NodesApart
      <4>2. x # 0
        BY <4>1, ZeroIsNoBlock DEF TypeOK
      <4>. QED
        BY <1>6, <1>7, <3>2, <4>1, <4>2 DEF NodesApart
    <3>. QED
      BY <1>6, <3>1, <3>2
  <2>2. \A p, q \in nodes' : \A x \in NodePair(p) \cap NodePair(q) : p = q \/ x = H
    <3>1. \A p \in nodes : \A x \in NodePair(p) : x \in {o, l} => x = H
      BY <1>5 DEF NodesApart
    <3>. QED
      BY <1>4, <1>6, <3>1 DEF NodesApart
  <2>. QED
    BY <2>1, <2>2 DEF NodesApart
<1>12. RootApart'
  <2>. SUFFICES ASSUME NEW x \in RootBlocks
                PROVE  /\ x \in used' /\ ~IsHead(x)'
                       /\ \A b \in DataBlock : blocks'[b].next # x
                       /\ \A p \in nodes' : x \notin NodePair(p)
    BY DEF RootApart
  <2>1. x \in used /\ x \notin {o, l} /\ x # 0
    BY <1>5, Layout, ZeroIsNoBlock DEF RootApart
  <2>. QED
    BY <1>4, <1>6, <1>7, <2>1 DEF RootApart
<1>. QED
  BY <1>8, <1>9, <1>11, <1>12

\* A step that changes neither links nor bitmap, and at most ends the call or lets go of
\* a node.
LEMMA LinksQuiet ==
  ASSUME HarmInv, TypeOK', Links, used' = used, blocks' = blocks, held' = held,
         nodes' \subseteq nodes,
         \/ op'.kind # "store" /\ op'.kind # "free"
         \/ op' = op /\ firstFree' = firstFree
  PROVE  Links'
<1>. USE DEF HarmInv, Links
<1>1. \A x : IsHead(x)' => IsHead(x)
  BY DEF IsHead
<1>2. HeadsApart' /\ Storing'
  BY DEF HeadsApart, Storing
<1>3. FreeHasNoNext' /\ LinkedOnce'
  BY <1>1 DEF FreeHasNoNext, LinkedOnce
<1>4. NodesApart' /\ RootApart'
  BY <1>1 DEF NodesApart, RootApart
<1>. QED
  BY <1>2, <1>3, <1>4

\* Every step keeps the links good, until they go stale.
LEMMA HarmStep ==
  ASSUME HarmInv, TypeOK', FirstFreeIsFree', NodeRunIsFree', [Next]_vars
  PROVE  HarmInv'
<1>. SUFFICES ASSUME ~stale' PROVE Links'
  BY DEF HarmInv
<1>1. stale => stale'
  BY Zenon DEF Next, Step, vars, history, StoreNew, FreeBlock, NodeNew, FreeTreeNode,
               StoreLast, StoreFollow, StoreExtend, StoreReturn, FreeStep, NodeScan,
               NodeReturn, Restart
<1>2. Links
  BY <1>1 DEF HarmInv
<1>3. CASE NodeNew \/ NodeScan
  <2>1. used' = used /\ blocks' = blocks /\ held' = held /\ nodes' = nodes
    BY <1>3 DEF NodeNew, NodeScan, file, client
  <2>2. NodeNew => op'.kind = "node"
    BY DEF NodeNew
  <2>3. NodeScan => op'.kind = "node"
    BY OpTypes DEF NodeScan, NodeOp, HarmInv
  <2>4. op'.kind # "store" /\ op'.kind # "free"
    BY <1>3, <2>2, <2>3
  <2>5. nodes' \subseteq nodes
    BY <2>1
  <2>. QED
    BY Zenon, <1>2, <2>1, <2>4, <2>5, LinksQuiet
<1>4. ASSUME NEW o \in nodes, FreeTreeNode(o)
      PROVE  Links'
  BY <1>2, <1>4, LinksQuiet DEF FreeTreeNode, file
<1>5. CASE Restart
  <2>1. used' = used /\ blocks' = blocks /\ held' = held /\ nodes' = nodes
    BY <1>5 DEF Restart, file, client
  <2>2. op'.kind # "store" /\ op'.kind # "free"
    BY <1>5 DEF Restart, Idle
  <2>3. nodes' \subseteq nodes
    BY <2>1
  <2>. QED
    BY Zenon, <1>2, <2>1, <2>2, <2>3, LinksQuiet
<1>6. CASE UNCHANGED vars
  BY <1>2, <1>6, LinksQuiet DEF vars, file, client
<1>7. ASSUME Step
      PROVE  Links'
  BY <1>2, <1>3, <1>7, LinksStoreLast, LinksStoreFollow, LinksStoreExtend,
     LinksStoreReturn, LinksFreeStep, LinksNodeReturn DEF Step
<1>8. ASSUME NEW v \in Values, StoreNew(v)
      PROVE  Links'
  BY <1>2, <1>8, LinksStoreNew
<1>9. ASSUME NEW r \in held, FreeBlock(r)
      PROVE  Links'
  BY <1>2, <1>9, LinksFreeBlock
<1>. QED
  BY <1>3, <1>4, <1>5, <1>6, <1>7, <1>8, <1>9 DEF Next

\* A block of a chain other than its first is the next block of one of the chain.
LEMMA ReachedBefore ==
  ASSUME NEW bs \in [DataBlock -> Block], NEW o \in DataBlock,
         NEW x \in Reached(bs, o), x # o
  PROVE  \E b \in Reached(bs, o) : bs[b].next = x
<1>. SUFFICES ASSUME \A b \in Reached(bs, o) : bs[b].next # x PROVE FALSE
  OBVIOUS
<1>. DEFINE T == Reached(bs, o) \ {x}
<1>1. T \in SUBSET DataBlock /\ o \in T /\ Closed(bs, T)
  BY ReachedIsLeast DEF Closed
<1>2. Reached(bs, o) \subseteq T
  BY <1>1, ReachedIsLeast
<1>. QED
  BY <1>2

\* The chain of a value without the header's block shares no block with another's.
LEMMA ChainsApart ==
  ASSUME TypeOK, Links, NEW r \in held, NEW q \in held, r # q, H \notin Chain(r[1])
  PROVE  Chain(r[1]) \cap Chain(q[1]) = {}
<1>. USE DEF Links
<1>. DEFINE C == Chain(r[1])
            E == Chain(q[1])
<1>1. r[1] \in DataBlock /\ q[1] \in DataBlock /\ blocks \in [DataBlock -> Block]
  BY DEF TypeOK
<1>2. /\ C \in SUBSET DataBlock /\ r[1] \in C
      /\ E \in SUBSET DataBlock /\ q[1] \in E /\ Closed(blocks, E)
  BY <1>1, ReachedIsLeast DEF Chain
<1>3. \A x \in C : x # r[1] => \E b \in C : blocks[b].next = x
  BY <1>1, ReachedBefore DEF Chain
<1>4. IsHead(r[1]) /\ IsHead(q[1]) /\ 0 \notin C
  BY <1>2, ZeroIsNoBlock DEF IsHead
<1>. HIDE DEF C, E
<1>5. q[1] \notin C
  <2>. SUFFICES ASSUME q[1] \in C PROVE FALSE
    OBVIOUS
  <2>1. q[1] # r[1]
    BY <1>2 DEF HeadsApart, C
  <2>2. PICK b \in C : blocks[b].next = q[1]
    BY <1>3, <2>1
  <2>. QED
    BY <1>2, <1>4, <2>2 DEF LinkedOnce, C
<1>6. ASSUME NEW b \in E \ C, blocks[b].next \in C
      PROVE  FALSE
  <2>1. b \in DataBlock /\ blocks[b].next \notin {0, H}
    BY <1>2, <1>4, <1>6 DEF C
  <2>2. blocks[b].next # r[1]
    BY <1>4, <2>1 DEF LinkedOnce
  <2>3. PICK c \in C : blocks[c].next = blocks[b].next
    BY <1>3, <1>6, <2>2
  <2>. QED
    BY <1>2, <2>1, <2>3 DEF LinkedOnce
<1>7. Closed(blocks, E \ C)
  BY <1>2, <1>6 DEF Closed
<1>8. E \subseteq E \ C
  <2>1. E \ C \in SUBSET DataBlock /\ q[1] \in E \ C
    BY <1>2, <1>5
  <2>. QED
    BY <1>1, <1>7, <2>1, ReachedIsLeast DEF E, Chain
<1>. QED
  BY <1>8 DEF C, E

\* Nor with a tree node.
LEMMA ChainNodeApart ==
  ASSUME TypeOK, Links, NEW r \in held, NEW o \in nodes, H \notin Chain(r[1])
  PROVE  Chain(r[1]) \cap NodePair(o) = {}
<1>. USE DEF Links
<1>. DEFINE C == Chain(r[1])
<1>. SUFFICES ASSUME NEW x \in C, x \in NodePair(o) PROVE FALSE
  OBVIOUS
<1>1. r[1] \in DataBlock /\ blocks \in [DataBlock -> Block] /\ C \in SUBSET DataBlock
  BY ReachedIsLeast DEF TypeOK, Chain
<1>2. \A y \in C : y # r[1] => \E b \in C : blocks[b].next = y
  BY <1>1, ReachedBefore DEF Chain
<1>3. \A y \in NodePair(o) \cap C : y # H /\ ~IsHead(y) /\ y # r[1]
  BY DEF NodesApart, IsHead
<1>4. o \in NodePair(o)
  BY Layout DEF NodePair, NodeBlocks, TypeOK
<1>. HIDE DEF C
<1>5. PICK b \in C : blocks[b].next = x
  BY <1>2, <1>3
<1>6. b = o /\ o \in C
  BY <1>1, <1>3, <1>5 DEF NodesApart
<1>7. PICK c \in C : blocks[c].next = o
  BY <1>2, <1>3, <1>4, <1>6
<1>. QED
  BY <1>1, <1>3, <1>4, <1>6, <1>7 DEF NodesApart

\* However often the file is opened again, between calls or in the middle of one, values
\* and nodes that share a block share the one the header names, and the root keeps its
\* own: for every layout, as long as no chain of blocks has been freed or lost a link.
THEOREM ReopenHarmConfined == Spec => []ReopenHarm
<1>1. Init /\ TypeOK /\ FirstFreeIsFree /\ NodeRunIsFree => HarmInv
  BY LinksInit DEF HarmInv
<1>2. HarmInv /\ [Next]_vars /\ TypeOK' /\ FirstFreeIsFree' /\ NodeRunIsFree' => HarmInv'
  BY HarmStep
<1>3. HarmInv => ReopenHarm
  <2>. SUFFICES ASSUME TypeOK, Links, ~stale PROVE ReopenHarm
    BY DEF HarmInv, ReopenHarm
  <2>1. \A r, q \in held : r # q => Shared(Chain(r[1]), Chain(q[1]))
    <3>. SUFFICES ASSUME NEW r \in held, NEW q \in held, r # q,
                         Chain(r[1]) \cap Chain(q[1]) # {}
                  PROVE  H \in Chain(r[1]) \cap Chain(q[1])
      BY DEF Shared, H
    <3>. QED
      BY ChainsApart
  <2>2. \A o, p \in nodes : o # p => Shared(NodePair(o), NodePair(p))
    BY DEF Shared, Links, NodesApart, H
  <2>3. \A r \in held, o \in nodes :
          Chain(r[1]) \cap NodePair(o) # {} => HeaderFirstFree \in Chain(r[1])
    BY ChainNodeApart DEF H
  <2>4. (UNION Owned) \cap RootBlocks = {}
    <3>1. ASSUME NEW r \in held, NEW x \in Chain(r[1]), x \in RootBlocks
          PROVE  FALSE
      <4>1. r[1] \in DataBlock /\ blocks \in [DataBlock -> Block] /\ x # r[1]
        BY <3>1 DEF TypeOK, Links, RootApart, IsHead
      <4>2. PICK b \in Reached(blocks, r[1]) : blocks[b].next = x
        BY <4>1, ReachedBefore DEF Chain
      <4>3. b \in DataBlock
        BY <4>1, ReachedIsLeast
      <4>. QED
        BY <3>1, <4>2, <4>3 DEF Links, RootApart
    <3>2. \A o \in nodes : NodePair(o) \cap RootBlocks = {}
      BY DEF Links, RootApart
    <3>. QED
      BY <3>1, <3>2 DEF Owned
  <2>. QED
    BY <2>1, <2>2, <2>3, <2>4 DEF ReopenHarm
<1>. QED
  BY <1>1, <1>2, <1>3, TypeCorrect, FirstFreeCorrect, NodeRunCorrect, PTL DEF Spec

=============================================================================
