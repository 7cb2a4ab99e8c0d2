------------------------------- MODULE BPTree -------------------------------
(***************************************************************************)
(* BPTreeStorage: a B+ tree of hashed paths, kept in memory and written to *)
(* the blocks of the block manager at the end of every call.               *)
(*                                                                         *)
(* Nodes are named by their place in heap; the node named m_root is the    *)
(* object m_root points to, whose contents the code swaps.  A name means   *)
(* no more than an address does; nodes nobody reaches any more stay in the *)
(* heap.                                                                   *)
(* The members that call themselves are functions of how deep they may do  *)
(* so, and no way down a heap is longer than the heap has nodes.           *)
(***************************************************************************)
EXTENDS BPNodes, FiniteSets

CONSTANTS
  Paths,       \* the paths clients use
  Hash,        \* Hash[p]: Utils::hash(p), the key of path p
  Values,      \* the vectors clients store
  Inline,      \* those of at most 8 bytes, kept in the tree itself
  Padded,      \* Padded[v]: v as it is read back, filled up to 8 bytes if inline
  MaxOpens     \* bound: how often a tree is made anew on the file

ASSUME TreeAssumption ==
  /\ Hash \in [Paths -> Nat] /\ Inline \subseteq Values
  /\ MaxOpens \in Nat

VARIABLES
  heap,             \* the nodes in memory
  disk,             \* disk[off]: what the tree block at offset off holds
  pathBlocks,       \* pathBlocks[p]: allocated blocks holding path p
  dataBlocks,       \* dataBlocks[v]: allocated blocks holding value v
  taken,            \* the first free offset of the block manager names a block in use
  rootInitialized,  \* isRootInitialized() of the block manager
  undefined,        \* a call has had undefined behaviour
  astray,           \* what has ended the model: a block in use written over, a load garbled
  contents,         \* what getValue answers, taken anew after every call
  reply,            \* the path of the last call and how it ended
  opens,            \* how often a tree was made anew
  forgotten,        \* history: it was made anew without what the file holds
  behind            \* history: a removal that took a record out has thrown

blocks == <<pathBlocks, dataBlocks>>
vars == <<heap, disk, blocks, taken, rootInitialized, undefined, astray,
          contents, reply, opens, forgotten, behind>>

DataRecord(p, v) == [path |-> p, val |-> v]

-----------------------------------------------------------------------------
(***************************************************************************)
(* Searching.                                                              *)
(***************************************************************************)

getChildWithKey(h, n, k) ==
  LET find[d \in 0 .. Len(h)] ==
        [m \in DOMAIN h |->
           LET i == LowerBound(Items(h, m), k)
           IN IF d = 0 \/ i > Size(h, m) THEN None
              ELSE IF h[m].leaf THEN m
              ELSE find[d - 1][Items(h, m)[i].data]]
  IN find[Len(h)][n]

\* The first node the walk stops at that starts at n and goes on, to the right sibling,
\* from the nodes goesOn says.
WalkRight(h, goesOn, n) ==
  LET walk[d \in 0 .. Len(h)] ==
        [m \in DOMAIN h |-> IF d = 0 \/ ~goesOn[m] THEN m ELSE walk[d - 1][h[m].right]]
  IN walk[Len(h)][n]

\* The loop of getValue, updateValue and isExist, begun in leaf n: from the first item with
\* the key of path p on, into the right siblings too, as long as items have that key.  An
\* empty sibling is dereferenced.  answer[m] is how it ends in node m.
FindFrom(h, p) ==
  [n \in DOMAIN h |->
     LET k == Hash[p]
         start == [m \in DOMAIN h |-> IF m = n THEN FirstWithKey(Items(h, n), k) ELSE 1]
         stop == [m \in DOMAIN h |->
                    SelectInSubSeq(Items(h, m), start[m], Size(h, m),
                                   LAMBDA it : it.key # k \/ it.data.path = p)]
         goesOn == [m \in DOMAIN h |-> stop[m] = 0 /\ Size(h, m) # 0 /\ h[m].right # None]
         answer == [m \in DOMAIN h |->
                      LET i == stop[m]
                      IN IF Size(h, m) = 0 THEN [result |-> "undefined"]
                         ELSE IF i = 0 THEN [result |-> "NoSuchPath"]
                         ELSE IF Items(h, m)[i].key # k THEN [result |-> "NoSuchPath"]
                         ELSE [result |-> "found", node |-> m, at |-> i]]
     IN IF start[n] = 0 THEN [result |-> "NoSuchPath"] ELSE answer[WalkRight(h, goesOn, n)]]

Find(h, p) ==
  LET n == getChildWithKey(h, m_root, Hash[p])
  IN IF n = None THEN [result |-> "NoSuchPath"] ELSE FindFrom(h, p)[n]

isExist(h, p) == Find(h, p).result = "found"

\* The paths getValue finds a value for, and the values it returns.
getValue(h) ==
  [p \in {q \in Paths : isExist(h, q)} |->
     LET f == Find(h, p) IN Padded[Items(h, f.node)[f.at].data.val]]

-----------------------------------------------------------------------------
(***************************************************************************)
(* Adding.                                                                 *)
(***************************************************************************)

\* The heap after the item was added below n, and whether n may be too full.
internalAddData(h, n, item) ==
  LET add[d \in 0 .. Len(h)] ==
        [m \in DOMAIN h |->
           LET i == ChildFor(Items(h, m), item.key)
               child == Items(h, m)[i].data
           IN IF d = 0 \/ h[m].leaf THEN AddToLeaf(h, m, item)
              ELSE AddedBelow(add[d - 1][child], m, i, child)]
  IN add[Len(h)][n]

addData(h, item) == AddedInTree(internalAddData(h, m_root, item))

-----------------------------------------------------------------------------
(***************************************************************************)
(* Removing.                                                               *)
(***************************************************************************)

\* The loop of internalRemoveData over a child and its right siblings, as long as the
\* path is not found and the key goes on; removed[m] is what the removal below m gives.
SearchSiblings(h, removed, child, k) ==
  LET next(m) == h[m].right
      goesOn == [m \in DOMAIN h |->
                   /\ removed[m].status = "NOT_FOUND" /\ next(m) # None
                   /\ Size(h, next(m)) # 0 /\ Head(Items(h, next(m))).key = k]
      last == WalkRight(h, goesOn, child)
  IN IF removed[last].status # "NOT_FOUND" \/ next(last) = None
     THEN [result |-> removed[last], child |-> last]
     ELSE IF Size(h, next(last)) = 0
     THEN [result |-> Result(h, "undefined", Nothing), child |-> next(last)]
     ELSE [result |-> Result(h, "NoSuchPath", Nothing), child |-> next(last)]

internalRemoveData(h, n, k, p) ==
  LET remove[d \in 0 .. Len(h)] ==
        [m \in DOMAIN h |->
           LET i == LowerBound(Items(h, m), k)
               s == SearchSiblings(h, remove[d - 1], Items(h, m)[i].data, k)
           IN IF d = 0 \/ h[m].leaf THEN RemoveFromLeaf(h, m, k, p)
              ELSE IF i > Size(h, m) THEN Result(h, "NoSuchPath", Nothing)
              ELSE RemovedBelow(s.result, m, i, s.child)]
  IN remove[Len(h)][n]

-----------------------------------------------------------------------------
(***************************************************************************)
(* Writing the tree to its blocks, and reading it back.                    *)
(***************************************************************************)

\* A sibling's offset is written in eight bytes and read as one.  Blocks start at
\* multiples of 1024, so what is read is 0, except for a NULL_OFFSET written before
\* the sibling had a block: then it is 255, and so it is for the node read there.
PHANTOM_OFFSET == 255
LowByte(off) == IF off \in {NULL_OFFSET, PHANTOM_OFFSET} THEN 255 ELSE 0

SiblingField(offs, m) == IF m = None THEN 0 ELSE LowByte(offs[m])

Children(node) == IF node.leaf THEN <<>> ELSE [i \in 1 .. Len(node.items) |-> node.items[i].data]

\* What storeSubtree has still to do: to begin with a node, or to write it once its children
\* are stored, with the sibling fields taken when it was begun.
Begin(n) == [node |-> n, begun |-> FALSE]
Write(n, left, right) == [node |-> n, begun |-> TRUE, left |-> left, right |-> right]

\* One such step; s has the offsets of the nodes and the blocks so far.  A node is written
\* into its block, or one that it gets if it has none.
StoreStep(h, s) ==
  LET job == Head(s.todo)
      n == job.node
      begins == [i \in 1 .. Len(Children(h[n])) |-> Begin(Children(h[n])[i])]
      writes == <<Write(n, SiblingField(s.offs, h[n].left), SiblingField(s.offs, h[n].right))>>
      block ==
        [leaf |-> h[n].leaf, left |-> job.left, right |-> job.right,
         items |-> IF h[n].leaf THEN Items(h, n)
                   ELSE [i \in 1 .. Size(h, n) |->
                           Item(Items(h, n)[i].key, s.offs[Items(h, n)[i].data])]]
  IN IF s.todo = <<>> THEN s
     ELSE IF ~job.begun THEN [s EXCEPT !.todo = begins \o writes \o Tail(@)]
     ELSE IF s.offs[n] # NULL_OFFSET
     THEN [s EXCEPT !.todo = Tail(@), !.disk[s.offs[n]] = block]
     ELSE [s EXCEPT !.todo = Tail(@), !.offs[n] = Len(s.disk) + 1, !.disk = Append(@, block)]

\* storeSubtree(m_root): every node of the tree is begun and written once.  (What is done
\* is the element of a set: TLC evaluates a bound variable's value, not a LET's, before its uses.)
storeSubtree(h, d) ==
  LET begun == [todo |-> <<Begin(m_root)>>, offs |-> [n \in DOMAIN h |-> h[n].off], disk |-> d]
      done[j \in 0 .. 2 * Len(h)] ==
        IF j = 0 THEN {begun} ELSE {StoreStep(h, s) : s \in done[j - 1]}
  IN {[heap |-> [n \in DOMAIN h |-> [h[n] EXCEPT !.off = s.offs[n]]], disk |-> s.disk] :
        s \in done[2 * Len(h)]}

\* makeNodeFromData from the block at RootOffset, level by level: the blocks read, one for each
\* way from the root to it, are the nodes, the first of them m_root.  The children of a
\* node follow those of all nodes before it.  A sibling field that is not zero gives a sibling
\* made of bitmap bytes: an internal node without children, as long as the bits there, those of
\* blocks some 2000 after the root, are clear.  What else comes of it is LoadsGarbled.
Loaded(d) ==
  LET levels[j \in 1 .. Len(d)] ==
        IF j = 1 THEN <<<<RootOffset>>>>
        ELSE LET above == levels[j - 1]
                 below == FlattenSeq([i \in 1 .. Len(Last(above)) |-> Children(d[Last(above)[i]])])
             IN IF below = <<>> THEN above ELSE Append(above, below)
      offs == FlattenSeq(levels[Len(d)])
      count == Len(offs)
      first[i \in 1 .. count] ==
        IF i = 1 THEN 2 ELSE first[i - 1] + Len(Children(d[offs[i - 1]]))
      node(i) ==
        LET block == d[offs[i]]
            children == [j \in 1 .. Len(Children(block)) |->
                           Item(block.items[j].key, first[i] + j - 1)]
        IN [Node(block.leaf, IF block.leaf THEN block.items ELSE children, offs[i]) EXCEPT
              !.left = IF block.left = 0 THEN None ELSE count + 2 * i - 1,
              !.right = IF block.right = 0 THEN None ELSE count + 2 * i]
  IN [i \in 1 .. count |-> node(i)]
       \o [i \in 1 .. 2 * count |-> Node(FALSE, <<>>, PHANTOM_OFFSET)]

\* Some node of a loaded heap has such a sibling.
ReadsBitmap(h) == \E n \in DOMAIN h : {h[n].left, h[n].right} # {None}

load(d) == IF rootInitialized THEN Loaded(d) ELSE <<Node(TRUE, <<>>, RootOffset)>>

\* The tree in memory is h and what the blocks hold is d.
Becomes(h, d) ==
  /\ heap' = h
  /\ disk' = d
  /\ \E tree \in {h} : contents' = getValue(tree)

\* store(): the whole tree is written.
Stores(h) ==
  \E tree \in {h} : \E stored \in storeSubtree(tree, disk) : Becomes(stored.heap, stored.disk)

-----------------------------------------------------------------------------
(***************************************************************************)
(* The calls.                                                              *)
(***************************************************************************)
Answers(p, result) == reply' = [path |-> p, result |-> result]

Added(counts, x) == [counts EXCEPT ![x] = @ + 1]
Freed(counts, x) == [counts EXCEPT ![x] = @ - 1]

WithData(v) == IF v \in Inline THEN dataBlocks ELSE Added(dataBlocks, v)

\* A block is freed: it may be the one that the first free offset names.
FreesBlock == taken' \in {taken, FALSE}

\* A faulty UpdateValue: the old data block is not freed.
UpdateValueLeaking(p, v) ==
  \E f \in {Find(heap, p)} :
    /\ ~undefined
    /\ f.result = "found"
    /\ v \in Inline \/ ~taken
    /\ dataBlocks' = WithData(v)
    /\ Stores([heap EXCEPT ![f.node].items[f.at].data = DataRecord(p, v)])
    /\ Answers(p, "done")
    /\ UNCHANGED <<pathBlocks, taken, rootInitialized, undefined, astray, opens, forgotten, behind>>

\* setValue of a path that updateValue finds: a long value gets a block of its own, and the
\* old data block is freed.
UpdateValue(p, v) ==
  \E f \in {Find(heap, p)} :
    LET old == Items(heap, f.node)[f.at].data.val
    IN /\ ~undefined
       /\ f.result = "found"
       /\ v \in Inline \/ ~taken
       /\ \/ old \in Inline /\ dataBlocks' = WithData(v) /\ UNCHANGED taken
          \/ old \notin Inline /\ dataBlocks' = Freed(WithData(v), old) /\ FreesBlock
       /\ Stores([heap EXCEPT ![f.node].items[f.at].data = DataRecord(p, v)])
       /\ Answers(p, "done")
       /\ UNCHANGED <<pathBlocks, rootInitialized, undefined, astray, opens, forgotten, behind>>

\* setValue of a new path.
AddValue(p, v) ==
  /\ ~undefined
  /\ Find(heap, p).result = "NoSuchPath"
  /\ ~(heap[m_root].items = <<>> /\ ~heap[m_root].leaf)
  /\ ~taken
  /\ dataBlocks' = WithData(v)
  /\ pathBlocks' = Added(pathBlocks, p)
  /\ Stores(addData(heap, Item(Hash[p], DataRecord(p, v))))
  /\ Answers(p, "done")
  /\ UNCHANGED <<taken, rootInitialized, undefined, astray, opens, forgotten, behind>>

\* A new path, or a long value, is stored at an offset that is in use: what another path, value
\* or node had there is lost.  What becomes of the tree is not modelled.
Overwrites(p, v) ==
  /\ ~undefined
  /\ taken
  /\ v \notin Inline \/ Find(heap, p).result = "NoSuchPath"
  /\ astray' = "overwritten"
  /\ UNCHANGED <<heap, disk, blocks, taken, rootInitialized, undefined, contents, reply, opens,
                 forgotten, behind>>

\* A faulty GivesBack: the block of the path is freed twice.
GivesBackTwice(gone) ==
  IF gone = Nothing THEN UNCHANGED <<blocks, taken>>
  ELSE /\ FreesBlock
       /\ pathBlocks' = Freed(Freed(pathBlocks, gone[1].path), gone[1].path)
       /\ UNCHANGED dataBlocks

\* The blocks after the record taken out of the tree, if any, gave back its own.
GivesBack(gone) ==
  IF gone = Nothing THEN UNCHANGED <<blocks, taken>>
  ELSE /\ FreesBlock
       /\ pathBlocks' = Freed(pathBlocks, gone[1].path)
       /\ dataBlocks' = IF gone[1].val \in Inline THEN dataBlocks
                        ELSE Freed(dataBlocks, gone[1].val)

\* A faulty removeValue: the tree is not stored.
removeValueUnsaved(p) ==
  \E r \in {internalRemoveData(heap, m_root, Hash[p], p)} :
    /\ ~undefined
    /\ r.status \in {"OK", "REMOVED", "NOT_FOUND"}
    /\ GivesBack(r.gone)
    /\ Becomes(r.heap, disk)
    /\ Answers(p, "done")
    /\ UNCHANGED <<rootInitialized, undefined, astray, opens, forgotten, behind>>

\* removeValue: a root that is a leaf and answers NOT_FOUND passes for a success.
removeValue(p) ==
  \E r \in {internalRemoveData(heap, m_root, Hash[p], p)} :
    /\ ~undefined
    /\ r.status \in {"OK", "REMOVED", "NOT_FOUND"}
    /\ GivesBack(r.gone)
    /\ Stores(r.heap)
    /\ Answers(p, "done")
    /\ UNCHANGED <<rootInitialized, undefined, astray, opens, forgotten, behind>>

\* The exception of a removal passes by store(): what the tree has become stays in
\* memory only.
RemoveThrows(p) ==
  \E r \in {internalRemoveData(heap, m_root, Hash[p], p)} :
    /\ ~undefined
    /\ r.status \in {"NoSuchPath", "StorageException"}
    /\ GivesBack(r.gone)
    /\ Becomes(r.heap, disk)
    /\ Answers(p, r.status)
    /\ behind' = (behind \/ r.gone # Nothing)
    /\ UNCHANGED <<rootInitialized, undefined, astray, opens, forgotten>>

\* An item put below an internal node without children, an empty sibling read, a
\* vector copied into itself: from here on the code's behaviour is undefined.
GoesWrong(p) ==
  /\ ~undefined
  /\ \/ Find(heap, p).result = "undefined"
     \/ Find(heap, p).result = "NoSuchPath" /\ heap[m_root].items = <<>> /\ ~heap[m_root].leaf
     \/ internalRemoveData(heap, m_root, Hash[p], p).status = "undefined"
  /\ undefined' = TRUE
  /\ UNCHANGED <<heap, disk, blocks, taken, rootInitialized, astray, contents, reply, opens,
                 forgotten, behind>>

\* A BPTreeStorage is made anew on the same block manager.
Reopen ==
  /\ ~undefined
  /\ opens < MaxOpens
  /\ opens' = opens + 1
  /\ Becomes(load(disk), disk)
  /\ forgotten' = (forgotten \/ ~rootInitialized)
  /\ UNCHANGED <<blocks, taken, rootInitialized, undefined, astray, reply, behind>>

\* The process ends between two calls and the file is opened again.  The block manager takes
\* its first free offset from the header, which has that of the first block after the root's
\* for ever: if anything was stored, that block may be in use.
Restart ==
  /\ ~undefined
  /\ opens < MaxOpens
  /\ opens' = opens + 1
  /\ rootInitialized' = TRUE
  /\ taken' \in IF \/ Len(disk) > 1
                  \/ \E p \in Paths : pathBlocks[p] > 0
                  \/ \E v \in Values \ Inline : dataBlocks[v] > 0
               THEN BOOLEAN ELSE {FALSE}
  /\ Becomes(Loaded(disk), disk)
  /\ UNCHANGED <<blocks, undefined, astray, reply, forgotten, behind>>

\* A file that has got a sibling field wrong is read when bits are set where the sibling seems
\* to be: it has 255 for a sibling again, which is itself, so that makeNodeFromData calls
\* itself without end, or children that are no nodes.
LoadsGarbled ==
  /\ ~undefined
  /\ opens < MaxOpens
  /\ \E h \in {Loaded(disk)} : ReadsBitmap(h)
  /\ opens' = opens + 1
  /\ astray' = "garbled"
  /\ UNCHANGED <<heap, disk, blocks, taken, rootInitialized, undefined, contents, reply,
                 forgotten, behind>>

\* A new file: the root's block is all zeros, which reads as an internal node.
Init ==
  /\ heap = <<Node(TRUE, <<>>, RootOffset)>>
  /\ disk = <<[leaf |-> FALSE, items |-> <<>>, left |-> 0, right |-> 0]>>
  /\ pathBlocks = [p \in Paths |-> 0]
  /\ dataBlocks = [v \in Values \ Inline |-> 0]
  /\ taken = FALSE /\ rootInitialized = FALSE
  /\ undefined = FALSE /\ astray = "no"
  /\ contents = <<>>
  /\ reply = [path |-> CHOOSE p \in Paths : TRUE, result |-> "done"]
  /\ opens = 0 /\ forgotten = FALSE /\ behind = FALSE

Next == astray = "no" /\
  \/ \E p \in Paths, v \in Values : UpdateValue(p, v) \/ AddValue(p, v) \/ Overwrites(p, v)
  \/ \E p \in Paths : removeValue(p) \/ RemoveThrows(p) \/ GoesWrong(p)
  \/ Reopen
  \/ Restart
  \/ LoadsGarbled

Spec == Init /\ [][Next]_vars

-----------------------------------------------------------------------------
(***************************************************************************)
(* Properties.                                                             *)
(***************************************************************************)

\* The levels of the tree, the root's first.
Rows(h) ==
  LET row[j \in 1 .. Len(h)] ==
        IF j = 1 THEN {m_root} ELSE UNION {ToSet(Children(h[n])) : n \in row[j - 1]}
  IN [j \in 1 .. Cardinality({i \in 1 .. Len(h) : row[i] # {}}) |-> row[j]]

Tree(h) == UNION ToSet(Rows(h))

\* Where its records are: an item of a leaf each.
Places(h) ==
  UNION {{<<n, i>> : i \in 1 .. Size(h, n)} : n \in {m \in Tree(h) : h[m].leaf}}
RecordAt(h, x) == Items(h, x[1])[x[2]].data

TypeOK ==
  /\ \A n \in DOMAIN heap :
       /\ heap[n].leaf \in BOOLEAN
       /\ {heap[n].left, heap[n].right} \subseteq DOMAIN heap \cup {None}
       /\ heap[n].off \in DOMAIN disk \cup {NULL_OFFSET, PHANTOM_OFFSET}
       /\ \A i \in 1 .. Size(heap, n) :
            Items(heap, n)[i].data \in IF heap[n].leaf THEN [path : Paths, val : Values]
                                       ELSE DOMAIN heap
  /\ pathBlocks \in [Paths -> Nat] /\ dataBlocks \in [Values \ Inline -> Nat]
  /\ taken \in BOOLEAN /\ rootInitialized \in BOOLEAN
  /\ undefined \in BOOLEAN /\ astray \in {"no", "overwritten", "garbled"}
  /\ reply.path \in Paths
  /\ opens \in 0 .. MaxOpens /\ forgotten \in BOOLEAN /\ behind \in BOOLEAN

\* What assertInvariants asserts when it is compiled in, and of the first item of a
\* node too, in a tree that was not made anew (siblings and stale roots): nodes are filled
\* within the load factors, keys are in order, the key of a child is its largest, the
\* children of a node are linked in order.  Keys differ, so their order is strict.
assertInvariants == opens = 0 => \A n \in Tree(heap) :
  /\ LoadInBounds(heap, n) /\ KeysInOrder(heap, n)
  /\ ~heap[n].leaf => KeysBoundChildren(heap, n) /\ SiblingsLinked(heap, n)

\* The nodes of every level form one list in key order, through all parents, and so do
\* their keys: a search that runs off a leaf goes on in the next, whatever splits and
\* merges made of the nodes above.  (A tree made anew has lost its siblings.)
LevelsRight == opens = 0 =>
  \/ heap[m_root] = Node(TRUE, <<>>, heap[m_root].off)
  \/ TreeRight(heap, Rows(heap))

\* How many of the records at some places have path p, or value v.
CountPath(h, places, p) == Cardinality({x \in places : RecordAt(h, x).path = p})
CountData(h, places, v) == Cardinality({x \in places : RecordAt(h, x).val = v})

\* Every block of a path or of a value is referred to by exactly one record, until one is
\* written over whose offset the block manager took for free after a restart: from then on
\* two records, or a record and a node, have a block between them.
NoLeak == ~forgotten /\ astray # "overwritten" =>
  \A places \in {Places(heap)} :
    /\ \A p \in Paths : pathBlocks[p] = CountPath(heap, places, p)
    /\ \A v \in Values \ Inline : dataBlocks[v] = CountData(heap, places, v)

\* No record, in memory or as the file would be read, refers to a freed block, unless a
\* removal has thrown after it had freed them, or a block in use was written over, which is then
\* freed with one of its records while the other still refers to it.
NoDangling == ~behind /\ astray # "overwritten" =>
  \A h \in {heap, Loaded(disk)} : \A places \in {Places(h)} :
    /\ \A p \in Paths : pathBlocks[p] >= CountPath(h, places, p)
    /\ \A v \in Values \ Inline : dataBlocks[v] >= CountData(h, places, v)

\* After every call the file holds the tree: opened again, it reads back the same,
\* unless the root was left at another block by a collapse; then paths may be
\* missing, but none is read with a wrong value.  (As long as no block in use was written over,
\* and if the file is read while the bits are clear that Loaded takes for a sibling.)
FileHoldsTree ==
  ~forgotten /\ ~behind /\ astray # "overwritten" =>
  \A h \in {Loaded(disk)} : \A then \in {getValue(h)} :
  LET now == contents
  IN /\ \A p \in DOMAIN then : p \in DOMAIN now /\ then[p] = now[p]
     /\ heap[m_root].off = RootOffset => DOMAIN then = DOMAIN now

\* As long as hashes differ, and no load was garbled nor a block in use written over, undefined
\* behaviour has one cause: the first path is added to a file that was opened again before
\* anything was stored in it.
UndefinedOnlyUnwritten == undefined => disk[RootOffset].items = <<>> /\ ~disk[RootOffset].leaf

\* A removal throws only while it has changed nothing, as long as the tree has not been
\* read from a file whose root a collapse left stale: passing by store() is harmless then.
ThrowsUnchanged == behind => opens > 0

\* The tree is the map IStorage promises, until it is made anew.
Map == INSTANCE StorageMap WITH map <- contents, Kept <- Padded
ImplementsMap == Map!Init /\ [][opens' = 0 => Map!Next]_<<contents, reply>>

\* What the tests RootStoreLoadTest and SimpleStoreLoadTest expect: a tree made anew
\* on the same block manager finds what was stored.
ReopenKeeps == [][Reopen => contents' = contents]_vars

\* What OneElementRemovingTest expects: a path that is removed takes no other along.
RemoveKeepsOthers ==
  [][(\E p \in Paths : removeValue(p))
       => DOMAIN contents \subseteq DOMAIN contents' \cup {reply'.path}]_vars

=============================================================================
