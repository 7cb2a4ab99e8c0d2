---------------------------- MODULE BlockManager ----------------------------
(***************************************************************************)
(* MappedFileBlockManager: the block allocator inside the memory-mapped    *)
(* data file.  A sector is one bitmap block followed by the data blocks    *)
(* the bitmap describes.  Offsets are counted in blocks of DATA_BLOCK_SIZE *)
(* from p_firstDataBlock, so that 0 is the first bitmap (and the "no next  *)
(* block" mark of a chain) and 1..2 is the root tree node.                 *)
(*                                                                         *)
(* A loop of the code that writes the file is one action per iteration:    *)
(* the mapping is shared, so a process that dies between two iterations    *)
(* leaves what it had written to the next process (Restart).               *)
(***************************************************************************)
EXTENDS Naturals, FiniteSets

CONSTANTS
  ByteBits,     \* bits of one byte of a bitmap (8 in the code)
  BitmapBytes,  \* bytes of one bitmap (DATA_BLOCK_SIZE in the code)
  Sectors,      \* bound: sectors the file may grow to
  Values,       \* the paths and data vectors clients store
  Size,         \* Size[v]: how many blocks v fills
  NoData,       \* what a block holds that no storeData call has written
  LastBlock,    \* bound: no call starts once a block above this one is taken
  MaxCalls,     \* bound: how many calls the clients make
  MaxRestarts   \* bound: how often the file is closed and opened again

SectorBlocks == ByteBits * BitmapBytes
Stride == SectorBlocks + 1

ASSUME ConstantsAssumption ==
  /\ ByteBits \in Nat \ {0} /\ BitmapBytes \in Nat \ {0}
  /\ SectorBlocks >= 3
  /\ Sectors \in Nat \ {0}
  /\ Size \in [Values -> Nat]
  /\ NoData \notin Values
  /\ LastBlock \in Nat /\ MaxCalls \in Nat /\ MaxRestarts \in Nat

DataBlock == {s * Stride + b : s \in 0 .. Sectors - 1, b \in 1 .. SectorBlocks}
SectorNumber(o) == o \div Stride
BlockNumber(o) == o % Stride
Byte(o) == (BlockNumber(o) - 1) \div ByteBits
Bit(o) == (BlockNumber(o) - 1) % ByteBits

NodeBlocks == 2                      \* DATA_BLOCKS_IN_TREE_NODE
Root == 1                            \* getRootOffset()
NodePair(o) == o .. o + NodeBlocks - 1
RootBlocks == NodePair(Root)
HeaderFirstFree == Root + NodeBlocks \* written into the header of a new file, and never again

VARIABLES
  used,       \* offsets whose bitmap bit is set
  blocks,     \* blocks[o]: length field, payload and next-block field of block o
  sectors,    \* sectors the file has
  firstFree,  \* m_firstFreeBlockOffset, in memory only
  op,         \* the call in progress
  held,       \* client: <<head, value>> of every stored value it still refers to
  nodes,      \* client: offsets of the tree node blocks it refers to
  calls,      \* how many calls have been made
  restarts,   \* how often the file has been opened again
  retired,    \* history: blocks of the tree nodes given to freeTreeNodeBlock
  stale       \* history: a chain of blocks was freed with its links, or lost one

file == <<used, blocks, sectors>>
client == <<held, nodes>>
history == <<retired, stale>>
vars == <<file, firstFree, op, client, calls, restarts, history>>

Idle == [kind |-> "idle"]
StoreOp == [kind : {"store"}, head : DataBlock, at : DataBlock, left : Nat, val : Values]
FreeOp == [kind : {"free"}, at : DataBlock]
NodeOp == [kind : {"node"}, run : DataBlock, last : DataBlock]

Block == [len : Nat, data : Values \cup {NoData}, next : DataBlock \cup {0}]

(***************************************************************************)
(* findFreeBlockOffset and aquireBlock.                                    *)
(***************************************************************************)

\* The clear bits findFreeBlockOffset(o) looks at when the set bits are u.  In
\* the sector of o it starts at the byte and the bit of o, and keeps starting at
\* that bit in every later byte (start_bit is reset only at the next sector).
\* At a bitmap's own offset the block number 0 - 1 wraps around, so the whole
\* sector is passed over.
Candidates(u, o) ==
  {c \in DataBlock \ u :
     \/ SectorNumber(c) > SectorNumber(o)
     \/ /\ SectorNumber(c) = SectorNumber(o)
        /\ BlockNumber(o) # 0
        /\ Byte(c) >= Byte(o)
        /\ Bit(c) >= Bit(o)}

Least(S) == CHOOSE m \in S : \A n \in S : m <= n

FindFree(u, o) == Least(Candidates(u, o))

\* Faulty variants of AfterAcquire: the search is forgotten; the following block is
\* taken without a look at its bit; the following offset is, even a bitmap's.
AfterAcquireStuck(u, ff, b) == ff
AfterAcquireBlind(u, ff, b) == IF ff = b THEN Least({c \in DataBlock : c > b}) ELSE ff
AfterAcquireNext(u, ff, b) == IF ff = b THEN b + 1 ELSE ff

\* m_firstFreeBlockOffset after aquireBlock(b) has set b's bit.
AfterAcquire(u, ff, b) == IF ff = b THEN FindFree(u \cup {b}, b + 1) ELSE ff

\* Bound: the search aquireBlock(b) makes ends inside the modelled sectors.
CanAcquire(u, ff, b) == ff = b => Candidates(u \cup {b}, b + 1) # {}

\* resizeFile: the file has grown to hold the sector of every block found.
GrownTo(o) == IF SectorNumber(o) >= sectors THEN SectorNumber(o) + 1 ELSE sectors

\* Bounds: a call starts only while MaxCalls is not reached, and one that takes
\* blocks only while none above LastBlock is taken or next.
Call == op = Idle /\ calls < MaxCalls /\ calls' = calls + 1
HasRoom == \A o \in used \cup {firstFree} : o <= LastBlock

(***************************************************************************)
(* storeNewData, storeNewPath: getFreeBlock, the length field, then the    *)
(* copying loop of storeData.                                              *)
(***************************************************************************)
StoreNew(v) ==
  /\ Call
  /\ HasRoom
  /\ CanAcquire(used, firstFree, firstFree)
  /\ LET head == firstFree IN
       /\ used' = used \cup {head}
       /\ firstFree' = AfterAcquire(used, firstFree, head)
       /\ sectors' = GrownTo(firstFree')
       /\ blocks' = [blocks EXCEPT ![head].len = Size[v]]
       /\ op' = [kind |-> "store", head |-> head, at |-> head, left |-> Size[v], val |-> v]
  /\ UNCHANGED <<client, restarts, history>>

\* One iteration copies the leading bytes of the value (data is never advanced).
Copied(o) == [blocks EXCEPT ![o].data = op.val]

\* The last iteration ends the chain.
StoreLast ==
  /\ op.kind = "store" /\ op.left = 1
  /\ blocks' = [Copied(op.at) EXCEPT ![op.at].next = 0]
  /\ op' = [op EXCEPT !.left = 0]
  /\ UNCHANGED <<used, sectors, firstFree, client, calls, restarts, history>>

\* More is left and the block already has a next block: it is taken as it is.
StoreFollow ==
  /\ op.kind = "store" /\ op.left > 1
  /\ blocks[op.at].next # 0
  /\ blocks' = Copied(op.at)
  /\ op' = [op EXCEPT !.left = @ - 1, !.at = blocks[op.at].next]
  /\ UNCHANGED <<used, sectors, firstFree, client, calls, restarts, history>>

\* More is left and there is no next block: getFreeBlock supplies one.  When that
\* resizes the file the mapping moves, and next_block_ptr, taken before the call,
\* no longer points into it: the link is written, if the mapping has come to the same
\* place, or lost.  (A process that dies of the write does what Restart does.  Where else
\* in memory it may land is not modelled.)
StoreExtend ==
  /\ op.kind = "store" /\ op.left > 1
  /\ blocks[op.at].next = 0
  /\ CanAcquire(used, firstFree, firstFree)
  /\ used' = used \cup {firstFree}
  /\ firstFree' = AfterAcquire(used, firstFree, firstFree)
  /\ sectors' = GrownTo(firstFree')
  /\ \/ blocks' = [Copied(op.at) EXCEPT ![op.at].next = firstFree]
        /\ stale' = stale
     \/ /\ sectors' # sectors
        /\ blocks' = Copied(op.at)
        /\ stale' = TRUE
  /\ op' = [op EXCEPT !.left = @ - 1, !.at = firstFree]
  /\ UNCHANGED <<client, calls, restarts, retired>>

\* storeData returns the offset of the first block to the client.
StoreReturn ==
  /\ op.kind = "store" /\ op.left = 0
  /\ held' = held \cup {<<op.head, op.val>>}
  /\ op' = Idle
  /\ UNCHANGED <<file, firstFree, nodes, calls, restarts, history>>

(***************************************************************************)
(* freeBlock: internalFreeBlock(offset, true) follows the chain.           *)
(***************************************************************************)
FreeBlock(r) ==
  /\ Call
  /\ held' = held \ {r}
  /\ op' = [kind |-> "free", at |-> r[1]]
  /\ UNCHANGED <<file, firstFree, nodes, restarts, history>>

\* Faulty variants of FreeStep: the chain is not followed; the mask is off by one bit.
FreeFirstOnly ==
  /\ op.kind = "free"
  /\ used' = used \ {op.at}
  /\ firstFree' = IF op.at < firstFree THEN op.at ELSE firstFree
  /\ op' = Idle
  /\ UNCHANGED <<blocks, sectors, client, calls, restarts, history>>

FreeNeighbour ==
  /\ op.kind = "free"
  /\ used' = used \ {op.at + 1}
  /\ firstFree' = IF op.at < firstFree THEN op.at ELSE firstFree
  /\ op' = Idle
  /\ UNCHANGED <<blocks, sectors, client, calls, restarts, history>>

FreeStep ==
  /\ op.kind = "free"
  /\ used' = used \ {op.at}
  /\ firstFree' = IF op.at < firstFree THEN op.at ELSE firstFree
  /\ LET next == blocks[op.at].next IN
       /\ op' = IF next = 0 THEN Idle ELSE [op EXCEPT !.at = next]
       /\ stale' = (stale \/ next # 0)
  /\ UNCHANGED <<blocks, sectors, client, calls, restarts, retired>>

(***************************************************************************)
(* getFreeTreeNodeBlock: findContiguousFreeBlocks, then aquireBlock on     *)
(* each block.                                                             *)
(***************************************************************************)
NodeNew ==
  /\ Call
  /\ HasRoom
  /\ Candidates(used, firstFree) # {}
  /\ LET found == FindFree(used, firstFree) IN
       /\ op' = [kind |-> "node", run |-> found, last |-> found]
       /\ sectors' = GrownTo(found)
  /\ UNCHANGED <<used, blocks, firstFree, client, restarts, history>>

\* Faulty variants of NodeScan: the search starts at the block found last, not after
\* it; a gap does not start the run anew.
NodeScanAgain ==
  /\ op.kind = "node" /\ op.last - op.run + 1 < NodeBlocks
  /\ LET found == FindFree(used, op.last) IN
       op' = [op EXCEPT !.run = IF found = op.last + 1 THEN @ ELSE found, !.last = found]
  /\ UNCHANGED <<file, firstFree, client, calls, restarts, history>>

NodeScanOverGap ==
  /\ op.kind = "node" /\ op.last - op.run + 1 < NodeBlocks
  /\ Candidates(used, op.last + 1) # {}
  /\ LET found == FindFree(used, op.last + 1) IN
       /\ op' = [op EXCEPT !.last = found]
       /\ sectors' = GrownTo(found)
  /\ UNCHANGED <<used, blocks, firstFree, client, calls, restarts, history>>

\* One iteration of findContiguousFreeBlocks.
NodeScan ==
  /\ op.kind = "node" /\ op.last - op.run + 1 < NodeBlocks
  /\ Candidates(used, op.last + 1) # {}
  /\ LET found == FindFree(used, op.last + 1) IN
       /\ op' = [op EXCEPT !.run = IF found = op.last + 1 THEN @ ELSE found, !.last = found]
       /\ sectors' = GrownTo(found)
  /\ UNCHANGED <<used, blocks, firstFree, client, calls, restarts, history>>

\* The pair is handed out, linked.  The client fills it with a node, the next field of the
\* first block included, which is left as it is here: it would be read only by a value that is
\* stored in that block after the file was opened again and goes on from it.
NodeReturn ==
  /\ op.kind = "node" /\ op.last - op.run + 1 = NodeBlocks
  /\ LET u1 == used \cup {op.run}
         f1 == AfterAcquire(used, firstFree, op.run)
     IN /\ CanAcquire(used, firstFree, op.run)
        /\ CanAcquire(u1, f1, op.last)
        /\ used' = u1 \cup {op.last}
        /\ firstFree' = AfterAcquire(u1, f1, op.last)
        /\ sectors' = GrownTo(firstFree')
  /\ blocks' = [blocks EXCEPT ![op.run].next = op.last, ![op.last].next = 0]
  /\ nodes' = nodes \cup {op.run}
  /\ op' = Idle
  /\ UNCHANGED <<held, calls, restarts, history>>

\* freeTreeNodeBlock calls internalFreeBlock(offset, false), whose loop condition
\* is false: the client drops the node and the file keeps its blocks.
FreeTreeNode(o) ==
  /\ Call
  /\ nodes' = nodes \ {o}
  /\ retired' = retired \cup NodePair(o)
  /\ UNCHANGED <<file, firstFree, op, held, restarts, stale>>

(***************************************************************************)
(* The process ends, at rest or in the middle of a call, and the           *)
(* constructor opens the existing file: the bitmap, the blocks and what    *)
(* the client stored in them survive, m_firstFreeBlockOffset is read from  *)
(* the header.                                                             *)
(***************************************************************************)
Restart ==
  /\ restarts < MaxRestarts
  /\ restarts' = restarts + 1
  /\ firstFree' = HeaderFirstFree
  /\ op' = Idle
  /\ UNCHANGED <<file, client, calls, history>>

\* The constructor on a new file: one sector, the root node's blocks taken.
Init ==
  /\ used = RootBlocks
  /\ blocks = [o \in DataBlock |-> [len |-> 0, data |-> NoData, next |-> 0]]
  /\ sectors = 1
  /\ firstFree = HeaderFirstFree
  /\ op = Idle
  /\ held = {} /\ nodes = {}
  /\ calls = 0 /\ restarts = 0
  /\ retired = {}
  /\ stale = FALSE

\* What the code does by itself once a call has been made.
Step ==
  \/ StoreLast \/ StoreFollow \/ StoreExtend \/ StoreReturn
  \/ FreeStep
  \/ NodeScan \/ NodeReturn

Next ==
  \/ \E v \in Values : StoreNew(v)
  \/ \E r \in held : FreeBlock(r)
  \/ NodeNew
  \/ \E o \in nodes : FreeTreeNode(o)
  \/ Step
  \/ Restart

\* A call runs to its return: the code has no wait inside one.
Spec == Init /\ [][Next]_vars /\ WF_vars(Step)

(***************************************************************************)
(* getDataFromBlock.                                                       *)
(***************************************************************************)

\* The blocks a walk along the next fields of bs visits from block o on.
Reached(bs, o) ==
  LET walk[S \in SUBSET DataBlock] ==
        LET nexts == {bs[b].next : b \in S} \ (S \cup {0})
        IN IF nexts = {} THEN S ELSE walk[S \cup nexts]
  IN walk[{o}]

Chain(o) == Reached(blocks, o)

\* Every block of the chain is copied to the front of the result (copied is never
\* advanced): it begins with the bytes of the last block, and what lies beyond
\* one block is the zeros of resize().
getDataFromBlock(o) ==
  LET len == blocks[o].len
      last == CHOOSE b \in Chain(o) : blocks[b].next = 0
  IN [len |-> len,
      lead |-> IF len = 0 THEN NoData ELSE blocks[last].data,
      tail |-> IF len > 1 THEN "zeros" ELSE "none"]

\* The bytes of v, in the same terms.
Bytes(v) ==
  [len |-> Size[v],
   lead |-> IF Size[v] = 0 THEN NoData ELSE v,
   tail |-> IF Size[v] > 1 THEN "bytes" ELSE "none"]

-----------------------------------------------------------------------------
(***************************************************************************)
(* Properties.                                                             *)
(***************************************************************************)

TypeOK ==
  /\ used \subseteq DataBlock
  /\ blocks \in [DataBlock -> Block]
  /\ sectors \in Nat
  /\ firstFree \in DataBlock
  /\ op \in {Idle} \cup StoreOp \cup FreeOp \cup NodeOp
  /\ held \subseteq DataBlock \X Values
  /\ nodes \subseteq DataBlock
  /\ calls \in 0 .. MaxCalls
  /\ restarts \in 0 .. MaxRestarts
  /\ retired \subseteq Nat
  /\ stale \in BOOLEAN

\* getFreeBlock hands out m_firstFreeBlockOffset without looking at its bit, so it
\* has to be clear.  It always is, until the file is opened again: then the one
\* block that may be handed out although it is taken is the header's.
FirstFreeIsFree == firstFree \in used => restarts > 0 /\ firstFree = HeaderFirstFree

\* The blocks of a stored value, and of a tree node, as their owners see them.
Owned == {Chain(r[1]) : r \in held} \cup {NodePair(o) : o \in nodes}

\* Until the file is reopened or a chain's links go stale, the bitmap is exact
\* between calls: every set bit is the root's, a retired node's or belongs to
\* exactly one owner, so that nothing is handed out twice and nothing leaks.
Clean == restarts = 0 /\ ~stale
ExactOwnership ==
  Clean /\ op = Idle =>
    /\ used = (UNION Owned) \cup RootBlocks \cup retired
    /\ \A r, q \in held : r # q => Chain(r[1]) \cap Chain(q[1]) = {}
    /\ \A r \in held, o \in nodes : Chain(r[1]) \cap NodePair(o) = {}
    /\ \A o, p \in nodes : o # p => NodePair(o) \cap NodePair(p) = {}
    /\ (UNION Owned) \cap (RootBlocks \cup retired) = {}

\* A value of at most one block reads back what was stored, whatever was stored,
\* freed or reused around it.
ReadBack ==
  Clean => \A r \in held : Size[r[2]] <= 1 => getDataFromBlock(r[1]) = Bytes(r[2])

\* Opening a file again forgets which block is free, but the harm that does is
\* confined to the block named in the header: while no links have gone stale, two values
\* or nodes that share any block both have that one, and nobody has the root's.
Shared(S, T) == S \cap T # {} => HeaderFirstFree \in S \cap T
ReopenHarm ==
  ~stale =>
    /\ \A r, q \in held : r # q => Shared(Chain(r[1]), Chain(q[1]))
    /\ \A o, p \in nodes : o # p => Shared(NodePair(o), NodePair(p))
    /\ \A r \in held, o \in nodes :
         Chain(r[1]) \cap NodePair(o) # {} => HeaderFirstFree \in Chain(r[1])
    /\ (UNION Owned) \cap RootBlocks = {}

\* The run of blocks found for a tree node is clear in the bitmap and never spans a
\* bitmap, so that a node is given no block of anybody else, whatever was reopened
\* or lost its links before.
NodeRunIsFree == op.kind = "node" => op.run .. op.last \subseteq DataBlock \ used

\* Every call returns: the searches end, and so does a walk along a chain whose
\* links are good.
Terminates == (op # Idle /\ (op.kind = "free" => ~stale)) ~> (op = Idle)

\* What the third field of the header is said to be, and the constructor takes it for:
\* the offset of a free block.
FirstFreeAlwaysFree == firstFree \notin used

\* What SetGetDataTest expects: a value reads back as it was stored, whatever its size.
ReadsBackAnySize == Clean => \A r \in held : getDataFromBlock(r[1]) = Bytes(r[2])

=============================================================================
