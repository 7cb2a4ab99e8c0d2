# UniversalStorage: a TLA+ model, its checks and its proofs

UniversalStorage keeps byte vectors under paths. Values go through a
`StorageAccessor` to storages mounted in a tree of paths; a storage is a B+ tree in
a memory-mapped file, a map in a memory-mapped file, or a cache in front of another
storage.
This directory models that code, checks the models with TLC and proves facts about
them with TLAPS. Paths of source files below are relative to the repository.

## The system

| component | state | operations | calls |
|---|---|---|---|
| `MappedFileBlockManager` (src/MappedFileBlockManager.cpp) | the mapped file: header, sectors of one bitmap and its blocks; `m_firstFreeBlockOffset` in memory | storeNewData, storeNewPath, freeBlock, getDataFromBlock, getFreeTreeNodeBlock, freeTreeNodeBlock, opening a file | the file system |
| `BPTreeStorage` (src/BPTreeStorage.cpp) | nodes in memory, each with a block of the file | setValue, getValue, removeValue, isExist, load, store | the block manager, `Utils::hash` |
| `LRUCachingProxyStorage` (src/LRUCachingProxyStorage.cpp) | cached entries, the list of their use, the size counted | setValue, getValue, removeValue | the storage behind it |
| `NaiveStorage` (src/NaiveStorage.cpp) | one mapped file with a boost map in it, and pointers to both | setValue, getValue, removeValue, opening a file | boost.interprocess |
| `StorageAccessor` (src/StorageAccessor.hpp) | the mount tree, a queue of timed keys, `m_exit`, one thread | setValue (with a time to live or not), getValue, removeValue, mounting and unmounting | the mount tree, every storage |
| `MountPointTree`, `MountPoint`, `PathView` | a tree of names whose nodes hold storages with priorities, under one lock | addMountPoint, removeMountPoint, the choice of storages for a path | - |
| `Utils`, `CityHash` | none | hash, packVector, unpackValue | - |

How they interact. A `BPTreeStorage` writes every node it has to the block manager at
the end of every change, and stores vectors of more than eight bytes and all paths
in blocks of their own. A cache calls the storage behind it before it touches its
entries. The accessor asks the mount tree, under the tree's lock, for the storages of a path
and calls them after it has let the lock go. The accessor's thread waits for the earliest timed key and removes it through
the accessor, concurrently with clients; no storage has a lock.

What makes each of them right, and hard to get right:

* Block manager: a block has one owner, and a block without owner can be found; a value
  reads back; a call returns. Hard: the mapping moves when the file grows, freed blocks
  keep their links, the search for a free block has its own arithmetic at the ends of
  bytes and bitmaps, and a process may die in the middle of a loop.
* B+ tree: order, load factors, parents' keys, the list of leaves, blocks neither
  leaked nor freed early, the file equal to the memory, and above all the map from
  paths to values. Hard: long sequences of splits, borrows and merges; exceptions that
  pass by `store()`; offsets that travel with swapped nodes; equal hashes.
* Cache: it agrees with the storage, stays within its limit, evicts the least recently
  used. Hard: eviction while an entry is overwritten, failures between the two
  containers, and the timer thread between two steps of a client.
* Accessor: a timed key disappears, a key without a time does not, and the destructor
  returns. Hard: the flag and the condition variable, timers of overwritten keys.
* Mount tree: what is written through the accessor is what is read, and it is a table of
  mount points whatever was mounted and unmounted. Hard: storages of equal numbers,
  nodes erased on the way back, storages unmounted between the lookup and the call.
* `NaiveStorage`: a map through the growth of its file. Hard: the pointers that are null or old
  while it grows, entries the timer erases between find and use, and values too large for the
  file together with the copy made of them.

`PROJECT.json` lists these hazards one by one, each at its line.

## The modules

| module | what it is |
|---|---|
| `BlockManager` | the block allocator |
| `BlockManagerProofs` | theorems about it |
| `BPNodes` | the nodes of the B+ tree and what a call does to one, its children and their neighbours |
| `BPNodesProofs` | theorems about two rows of nodes: what one step of a call does to them |
| `BPLevelsProofs` | theorems about all rows: what an addition or a removal does to a whole tree, of any height |
| `BPTree` | the B+ tree over what the block manager offers |
| `BPTreeProofs` | theorems about it: the recursive members, the calls, the map they implement |
| `StorageMap` | what `IStorage` promises: a map and the answer to the last call |
| `LRUCache` | the cache, called by clients and timers |
| `LRUCacheProofs` | theorems about it |
| `StorageAccessor` | values with a time, the destroyer thread, the destructor |
| `StorageAccessorProofs` | theorems about it |
| `MountTable` | what a tree of mount points promises: a table |
| `MountTree` | mount tree, mount points and the parts of a path |
| `Routing` | the accessor's calls through the mount tree, by several threads |
| `RoutingProofs` | theorems about tree and calls |
| `NaiveStorage` | the map in a mapped file that grows |
| `NaiveStorageProofs` | theorems about it |
| `MCBlockManager`, `MCBPTree`, `MCLRUCache`, `MCRouting`, `MCNaiveStorage` | constants for TLC |

Operators named `...Stuck`, `...Leaking`, `...Unsaved` and so on, introduced by "a faulty",
are wrong variants of the definition that follows them. Each property of a passing run is
violated when one of them takes the definition's place; they are used for nothing else.

### BlockManager

Offsets are counted in blocks; a sector is its bitmap and `ByteBits * BitmapBytes` blocks
(8 and 1024 in the code). `used` is the set of set bits, `blocks[o]` the length field, the
payload and the next field of a block. `StoreNew` is `getFreeBlock` and the length field;
then `StoreLast`, `StoreFollow` and `StoreExtend` are one iteration of `storeData`'s
loop each: the last one, one that goes on into the block a next field already names, one
that takes a new block. `FreeStep` is one iteration of `internalFreeBlock`, `NodeScan`
one of `findContiguousFreeBlocks`. `Restart` may come between any two: the mapping is
shared with the file, so what was written stays.

`Candidates` is the arithmetic of `findFreeBlockOffset`, its two oddities included: the
start bit is kept for every later byte of the sector, and from a bitmap's own offset
the search skips that sector. `StoreExtend` has two outcomes when the file grows,
because `next_block_ptr` then points into the old mapping: the link is written, if the new
mapping lies at the same place, or it is lost (`stale`); where else in memory it may land is not modelled. `FreeStep` leaves the next field of a freed block, which a later value
follows (`stale` too). The exact ownership of blocks is claimed while neither has
happened (`Clean`); what survives them is claimed without that condition: `FirstFreeIsFree`
and `NodeRunIsFree` always, `ReopenHarm` through any restarts while no link is stale. That one
says what forgetting the first free block does: two values or nodes that share a block both have the
block the header names, a value that shares one with a node has it too, and the root's blocks
are nobody's. (Not more: the value that wrote over that block last may have grown into blocks both see.)

`Chain` is the walk along the next fields from a block (`Reached` for any contents of the blocks), a
recursive function on sets of blocks, which ends although links may form a loop.

The client that gets a pair of blocks fills them with a node, the next field of the first included.
The model keeps that field as `getFreeTreeNodeBlock` left it. It makes a difference only to a value of several
blocks that is stored in the header's block after a reopening, where that block is a node's: the code would follow node
data, the model the pair.

`freeTreeNodeBlock` frees nothing; `retired` records the blocks it leaves taken, so that
`ExactOwnership` says exactly which set bits have no owner.

### BPTree

A node is a record at its place in `heap`; the root is always 1, as the code swaps the
contents of the object `m_root` points to. `BPNodes` has what is done at one node: the lower
bound, `makeSibling`, the split of a child (the lines of `internalAddData` after the recursive
call, `AddedBelow`) and of the root, the removal from a leaf, and what follows it in the node above
(`RemovedBelow`), `Rebalance` with its cases `Borrow`, `Merge` and `Collapse`. `BPTree` has the members
that call themselves, with the names of the code, as functions of how deep they may go: no way down a heap is longer
than the heap has nodes. `WalkRight` is a loop over right siblings: that of `getValue`, `updateValue` and `isExist`
(`FindFrom`) and that of `internalRemoveData` (`SearchSiblings`). `storeSubtree` keeps a list of what it has still
to do, as the calls on the stack of the code do; `Loaded` reads the file level by level. Then come
the blocks and the calls. A removal yields the heap, a status (the two exceptions are
statuses) and the record taken out, which says whose blocks `GivesBack` frees. `disk`
holds what the tree blocks hold, `pathBlocks` and `dataBlocks` count allocated blocks.
A call is one action: nothing runs beside the tree. `Stores` is `store()`, part of every
change; `RemoveThrows` passes by it, as the exception does.

The fields that the file loses are modelled as it loses them. Of a sibling's offset one
byte is read back (`LowByte`), which is 0 for every block, except for a sibling that had
no block when it was written: then a node is read from the bitmap (`PHANTOM_OFFSET`).
That phantom is an internal node without children as long as the bits there are clear, which are those of
some blocks about 2000 after the root. Once they are set it has the same sibling again, and
`makeNodeFromData` calls itself without end, or it has children that are no nodes: `LoadsGarbled`, which any
load of a file with such a field may be, ends the model (`astray`). (The tests of 10000 paths in
`BTreeTest` use blocks enough for it, but none of them loads its tree.) `isRootInitialized` is false for ever on the
manager that created the file (`Reopen`), true after a `Restart`.

A `Restart` also takes the first free offset from the header, which has that of the first block after the
root's for ever. If that block is in use then (`taken`), the next path or long value that is stored is written over
it (`Overwrites`). This ends the model too: from there on a path, a value or a node is lost, a block has two
owners and is freed with one of them, and the program follows what it reads. The first removal or update that frees
a block may free this one, after which all is well again. Nodes are never written over others, as their
blocks are searched for in the bitmap. So after a restart the properties speak of reading, of removing, of updates by inline
values, of all stores if the block is free, and of a tree made anew, but not of a store over a block in use; `blockmanager_header` shows
how that begins and `ReopenHarm` how far it goes.

What the tree promises, it promises until it is made anew (`opens = 0`); until then it does not go astray (`AstrayOnlyAnew`). A stale root that is
read after a restart misses paths and load factors, and then a removal may throw after it
has taken the record out and freed its blocks, so that the file, not written, refers to freed
blocks (`behind`). `ThrowsUnchanged` says that this happens to no tree that was never made anew:
there an exception leaves everything as it was.

Nodes nobody reaches any more stay in `heap`, for a name means no more than an address. To TLC
states are the same that differ only in such names: the VIEW `Unnamed` of `MCBPTree` numbers nodes and
blocks in the order a walk from the root meets them, and forgets those it does not meet. This
merges only states that behave alike.

### LRUCache

A call is a sequence of steps, for another thread may run between any two: the storage
is called, the entry is looked up (`SetFind`, `GetFind`, `RemoveFind`) and then used: its size is read and the space
worked out (`SetSize`), entries are evicted one by one (`Evict`), the entry is overwritten (`Update`), moved and
returned (`GetCached`) or erased (`RemoveCached`); an entry that was not found is inserted. `dangling` says whose found entry
was erased by whom before it was used; to use it is undefined behaviour (`UsesErased`), and ends the model.
`UndefinedByGrowthOrRace` says how that comes about: a thread alone erases its own entry only when `freeCache` makes
space for a value that grows; else a second thread erased it, and of timers only one started for that path. Clients make every call,
timers only remove the paths in `Timed`. A removal goes on to the cache whether or not the
storage had the path: some storages throw for a missing path, which ends the call with
nothing done, and some do not. `lost`, `recency` and `raced` are history: what `removeValue`
forgot to subtract, the order of use, and the paths whose last call began during another on
the same path. On such a path the cache may keep a value the storage has lost
(`setValue` stores, the timer removes from storage and cache, `setValue` fills the cache), until
a call on the path is alone again; `Coherent` claims just that. Steps are atomic, and one change of the list
and the map together is one step: two threads inside one operation of a container, or one that sees the map changed and
the list not yet, are beyond the model, as is the rehash of the map by an insertion, which makes the
iterators of other threads and those kept in the list invalid.

### StorageAccessor

`held` is what the storages behind the accessor hold, taken as one map; each value carries
the number of the call that set it and whether it was given a time. A client that gives a time
takes three steps, with others between them: the value goes to the storage (`SetValue`), the
timer is put into the queue under the mutex (`Emplace`), the condition variable is notified
without it (`Notify`). The destroyer thread is at `check` (the loop's condition), `lock`,
`wait` or `waitUntil`, `woken` (about to lock again), `expire` and `remove`; it holds the
mutex in the last two only, since everything between `lock` and the wait is one step under it.
A notification reaches nobody unless the thread waits; a spurious wakeup may come at any time
and is never owed. `m_exit` is read and written without the mutex in the code (a data race);
the calls around the reads keep the compiler from caching it, so the model reads what was
last written. The destructor (`Destroy`, `DestroyNotify`, `Join`) runs when no client call is in
progress, as C++ demands of its callers. Timers of equal times leave the queue in any order.

### MountTree, MountTable and Routing

A path is a sequence of names and slashes. `Parts` are the names `PathView::next` yields: a
trailing slash adds none, a double slash ends them with an exception (`Malformed`). `nodes` maps
the way to each node, as a sequence of names, to its `storage_vector`. A walk is the set of places
(`<<node, index>>`) it meets, ordered by `Before`: the nodes on the way until one is missing; `getSuitableStorageList` is a set ordered by priority, which
keeps the first of equals, and `getPriorityStorage` the first with the smallest number.
`addMountPoint` leaves the nodes made before a double slash throws. `MountTable` has no
nodes, only mount points by place: the tree implements it although it makes and erases nodes.

`Routing` takes `setValue` and `removeValue` apart at the tree's lock: a call asks once
(`SetRoute`, `RemoveRoute`) and then works on the storages it was told (`SetStore`, `RemoveNext`
once per storage). `expected` is history: how each path has to read. It is `Unknown` when the
storages of a path changed while one of them had a value for it, or another path reached its
place in a storage; a removal that was spoilt by such a change promises nothing either.
`Unknown` is not idle caution: a value goes to the smallest number and is read from the
largest, so after another storage is mounted on the way an older value in it is read, however
often the path is set; and `fullPath` takes off as many characters as the mount path has,
so `/a/b` under a mount at `/a/` can be the place of `/b/b` (`MCRouting`).

### NaiveStorage

`free` is what the file's allocator has left: a stored value takes a node and a vector of
its capacity, the copy in `trySetValue` a vector more until the call ends. An allocation may
fail at any time, since the file may be fragmented, except within what was just grown. After
`bad_alloc` the client goes through `Close`, `Grow`, `Open` and `Attach` (lines 30 to 33) and
tries again; a removal by the timer in between uses a null or an old pointer (`undefined`).
`setValue` and `getValue` find an entry in one step (`Find`, `GetValue`) and use it in another, between which the timer
may erase it: the iterator is then dangling, and its use undefined too (`UsesErased`). A call of the
boost map is one step (a removal is one), so threads inside such calls at once are not modelled.
`Restart` is the death of the process at any step; the file stays, a copy in it is lost. A
death inside the boost map's own insertion is taken as before or after it. `getValue` copies the
value within the file and reports a failure to do so as a missing path: the value set last
can always be read (`LastSetReads`), one stored earlier may not be when the file is full.

## What the runs show

| run | question | bounds |
|---|---|---|
| `blockmanager` | does every block have one owner, do values read back, does every call return, across stores, frees, tree nodes and one death | sectors of 4 blocks in 2 bytes, 4 sectors, 8 calls, values of 0, 1, 2 blocks |
| `bptree` | is the tree a map; its shape, list of leaves, blocks and file; what a reopening spoils | 6 paths in any order, nodes of 2 to 4 items, an inline and a long value; a tree of three levels of 11 paths, up to 3 removed in any order or all in order; one reopening or restart |
| `lru` | coherence, limit, order and accounting of the cache while a timer removes between find and use; who uses an erased entry | 1 client, 1 timer on one of 3 paths, sizes 1, 2, 4, limit 3 |
| `mounts` | is the mount tree a table, does a walk see all, is what is written what is read while others mount and unmount | 2 clients, 2 values, up to 3 mounts out of 5 mount points, 2 storages, 2 paths |
| `naive` | is the file a map through growth, refusals and a death; who meets a missing mapping or an erased entry | 3 paths, values of 0, 2, 7 in a file of 4 that grows up to 32, 1 timer, 1 death |
| `accessor` | is every timer noticed, does every timed value go, does the destructor return when a timer is left | 2 clients, 2 paths, 2 values, times of 1 and 2, a clock that starts timers at 0 to 2 and later while one runs |

The bounds are chosen so that each case of the code occurs. Four blocks in two bytes have
a kept start bit, a wrapped block number and a pair that does not fit at the end of a
sector; eight calls fill one sector and the next, free in between and fill again. A node of
four items is the smallest even size that can split into two legal nodes; six paths
split the root, borrow from either side, merge and collapse; eleven give the third level,
where inner nodes do the same, and their removal in order takes the tree back to an empty
leaf. Of the cache's sizes one is empty, two fit together, one
never fits. Of the mount points two are at one node, two have equal numbers on one way, one path
has a double slash and two end in one place of a storage; three mounts put storages on every
node of the way to `/a/b`. Of the values of `naive` one takes nothing, one fits the new file
and one does not, with or without its copy.

`bptree*` runs use the VIEW `Unnamed`, which also leaves out `reply`, as no step reads it; `ImplementsMap`
looks at it in every step TLC computes, so the view hides no violation. `bptree` starts from an
empty tree, of which six paths are used, or from the one that setting 1 to 11 in order leaves;
its CONSTRAINT is on the paths of the latter that are missing, and stops the search
beyond it. Trees of up to five long values are also made anew. `mounts` is symmetric in its clients and checks
no liveness. `blockmanager`, `bptree`, `lru`, `naive` and `accessor` turn deadlock checking off:
all but the last stop when undefined behaviour, or a bound on calls, ends the
behaviour; the accessor ends when it is destroyed.

Six runs end in a violation on purpose, each of a statement the repository makes:

* `blockmanager_header`: the first free block named by the header is in use after reopening.
* `blockmanager_tail`: a value of two blocks does not read back.
* `bptree_collide`: with equal hashes, removing one path loses another.
* `bptree_reopen`: a second tree on the manager that created the file finds nothing.
* `lru_drift`: after removals the cache refuses what fits into it.
* `accessor_shutdown`: the destructor notifies a thread that does not wait yet, and joins it for
  ever.

## Fairness

`BlockManager` has weak fairness of the steps a call makes by itself: a call runs in one
thread without waiting, so it goes on until it returns. `LRUCache` has it for each
thread's steps. `StorageAccessor` has it for each client's call, for the destroyer thread, for the
destructor and for the clock: threads that can run do, and time passes; nothing makes a
spurious wakeup happen. Nothing is assumed of clients: they may never call. `Terminates` is not
claimed for freeing a chain that follows a stale link, which the code would follow
wherever it leads. The tree has no liveness: its calls are single actions.

## What is proved

The library's induction theorems take operators, which no prover here can instantiate. Instead
the proof modules begin with lemmas drawn from well-founded orders (`HasLeast`, and the like for sets): a
set of naturals has a least element, a finite one a greatest, and among finite sets there is one without a smaller (or
larger) one. Facts about recursive functions are proved with them by smallest counterexample.

`BlockManagerProofs`, for every layout of bytes, bitmaps and sectors, every set of values
and sizes and every bound, from `ConstantsAssumption` alone:

* `TypeCorrect`: `Spec => []TypeOK`. Its core is that a search returns a block:
  `LeastIsMember` and `FindFreeIsFree`, both also used by the next two.
* `FirstFreeCorrect`: `Spec => []FirstFreeIsFree`. The formula is inductive once types are
  known: `AfterAcquireIsFree` says that `aquireBlock` leaves the first free offset at a
  clear bit if it was at one, and a free or a restart does not spoil it.
* `NodeRunCorrect`: `Spec => []NodeRunIsFree`, inductive relative to types: the search
  either extends the run by the next block, which is free, or starts it anew.
* `OwnershipCorrect` (`ExactOwnership`) and `ReadBackCorrect` (`ReadBack`), from one invariant `Inv`.
  Ownership is claimed between calls only, so `Exact` says what holds inside one: set bits that nobody
  owns are in the chain the call is building or freeing, and in no other's. That needs `Ends`: a free block has
  no next block, so that `storeData` follows no old link. `Contents` ties the length field and the payload to
  the value. `ReachedIsLeast` is what the recursion `Reached` computes: the least set that
  contains the first block and is closed under next fields; from it follow that a walk is not changed by writes
  outside it (`ReachedFrame`) and grows by one block when its end is linked to one (`ReachedGrow`).
* `ReopenHarmConfined` (`ReopenHarm`), from the invariant `Links`. After a restart bits may be set that nobody
  owns and chains may be half written, so ownership is not inductive any more; `Links` speaks of single links
  instead. A block other than the header's that a link, a value or a node refers to is in use, and one of them
  refers to it. Then two chains that meet, met before, back to the header's block (`ChainsApart`).

`LRUCacheProofs`, for all paths, values, sizes and limits, from `CacheAssumption` alone, over
lemmas on what erasing, appending and moving an entry do to a list of distinct entries and to its order:

* `CacheTypeCorrect` and `ListAndMapPaired`, for any number of threads: `TypeOK` and
  `OneEntryEach` are inductive only together (`Paired`), and with `Found`, that an entry a call has found is there
  unless it is known to be erased, since `removeValue` erases from the list what it found in the map.
* `ListInOrderOfUse` (`LruInOrder`), for any number of threads: inductive with the pairing, and with the
  history listing each path once.
* `CacheCoherent`, for any number of threads: inductive with `OneCallEach`, that on a path that is
  not raced one call runs at a time, and `CarryStored`, that the value such a call carries is
  the storage's and that a call about to insert still finds its path not cached.
* `CacheAccounted` (`Accounting`), for one client and any timers: inductive with `OldIsCached`, that the size
  `setValue` has read before `freeCache` is still that of the entry it will overwrite. With two clients it is
  false, for the entry may be evicted and cached anew in between. `SizeIsBytes` gives the recursive sum
  a meaning that has no order in it: the number of pairs of a path and a byte of its value.
* `SizeNeverWraps`: a consequence, that `m_currentSize` never goes below zero. It is an integer in the model
  and a `size_t` in the code.
* `CacheWithinLimit`, for one client and any timers: inductive with `NeedIsGrowth`, that a call
  in `freeCache` makes room for exactly what it will add. One client is assumed because
  `SizeNeverWraps` needs it.
* `UndefinedOnlySo` (`UndefinedByGrowthOrRace`), for any clients and timers: inductive with `Erasures`, that an
  erased entry is still held by the call that found it and who may have erased it, with `Roles`, what timers
  do, and with `NeedIsGrowth`: nothing is evicted for a value that does not grow.

`StorageAccessorProofs`, for all clients, paths, times and bounds, from `AccessorAssumption`:

* `AccessorTypeCorrect`: `Spec => []TypeOK`.
* `NoTimerSleptThrough`: `Spec => []WaitCoversQueue`, inductive with the types. A client that makes
  the waiting thread's view old is itself the one about to notify.
* `TimedKeysWatched`: `Spec => []TimedIsWatched`, inductive with the types: each step that takes
  a timer away from one place puts it into the next.
* `TimerRemovesOwnOrNewer`: the action property `RemovesOwnOrNewer`, from the invariant `Ordered`:
  no timer's number, not even that of a timer about to start, exceeds the number of the value
  at its path, and what the thread has read of the clock is past.

`RoutingProofs`, for every set of names, mount points and paths, from `MountAssumption` and
`RoutingAssumption`. Its first part takes the tree by
itself (`TreeSpec`: any mounting and unmounting, theorem `TreeCorrect`); the invariant `TreeInv` is its shape, that each mount
point is at the node its path names, and `NoDeadNodes`. On it rest that a walk sees exactly what the table holds on
the way, that the storage written to is one of those read (both keep the first of equals: the
places met are finitely many and `Before` orders them, so there is a best one), and that the tree
implements `MountTable` step by step. The second part shows that `Routing`'s steps are steps of that tree, so that all of it holds under the calls
of any number of clients (`NodesAreAlive`, `SeesAll`, `WritesAreRead`, `MountsAreTable`), and:

* `TypeCorrect` (`TypeOK`) and `SetIsRead` (`ReadsBack`), for any clients and storages, from one invariant.
  `Settled` says where a value may be: the value that has to be read is in the storage of the smallest number,
  and no other place its path reaches holds one. `Swept` says what a removal under way that nothing
  interfered with has left: nothing in the storages it has done.

`NaiveStorageProofs`, for all paths, values, sizes and disks, from `NaiveAssumption`:

* `InvCorrect`: the inductive invariant. `Usable`: in which stages of `setValue` the pointers are good.
  `LastFits`: the value set last fits into what will be free when the copy of the call in progress is given
  back. `Grown`: what a grown file has gained is still there for the call that grew it.
* `LastReads` (`LastSetReads`), `UndefinedByTimer` (`UndefinedOnlyByTimer`), and the action
  property `RefusesOnlyLarge` (`ThrowsOnlyIfLarge`) follow from it.
* `ImplementsStorageMap` (`ImplementsMap`): `NaiveStorage` implements `StorageMap`, every step
  being one of its operations or a stutter.

The B+ tree is proved in three modules: one step at a node, the steps of a call put together, and the
calls of the program. The result is the one of `BPTreeProofs`, that the tree with its splits, merges and
stores implements the map of `IStorage`; the others are what it takes.

`BPNodesProofs`, for every load factor that `LoadAssumption` admits, every heap and nodes of any length, says what
one step of the recursive members does. Its invariant is `Levels`: a row of nodes and the row of all their
children are each a list in the order of keys, linked both ways through all parents; the key of a child
is its largest; no key is in two nodes of a row; and no node is without a parent. `Held` is the set of all items of a row, which at the
leaves are the records of the tree.

* `SearchDescendsRight`: the lower bound of a key that is somewhere below a node is the place of the child that holds it.
* `InsertedInOrder`, `RemovesWhatItHolds`: a leaf gains or loses exactly the record in question and
  stays in order; a removal that takes nothing out changes nothing.
* `SplitsAChild`: both levels stay right with the new node among the children, both halves have legal loads.
* `BorrowRepairs`, `MergeRepairs`, `RebalanceRepairs`: after a removal both levels are right again, loads too, and
  the same items are held. Before it they are right but for one key of the parent (`StaleAt`), and the keys as they are
  still tell left from right, by which `Borrow` and `Merge` go. Under a node
  of two names or more, which every node but the root has, there is no exception and no null pointer on the way.

The argument is one about
ends of lists: a row is right if every node is right with its two neighbours (`RowNode`), so a step changes a few
`RowNode`s, and whatever it does to two neighbouring nodes is a matter of the two lists of items put together
(`InnerAgrees`, `LevelsKept`, `NamesKept`).

`BPLevelsProofs`, for trees of any height, is about all rows of a tree, `TreeRight` of `BPNodes`, with the root
for the first and legal loads (`RootedTree`), and about the whole way from the root to a leaf and back.

* `SearchReachesLeaf`: the way down by lower bounds ends in the leaf that has the key, if any leaf has.
* `AdditionStalesTree`, `RemovalStalesTree`: what was done to the leaf leaves the tree right but for one key of its
  parent and one load.
* `KeyKeepsTree`, `SplitKeepsTree`, `SplitRootKeepsTree`, `RebalanceKeepsTree`, `CollapseKeepsTree`: each step on the way
  back leaves the tree right but for one key of the node above, one level higher, and keeps all records; a split of
  the root adds a row, a collapse takes one off.
* `AdditionKeepsTree`, `RemovalKeepsTree`: put together, by a smallest counterexample along the way up, an addition of a
  new key and a removal of a record that is there make a right tree with just that record more or less.
* `FirstAdditionMakesTree`, `LastRemovalBaresTree`: from the empty leaf of a new file to the first record, and back.

`BPTreeProofs` is about `BPTree` itself: for any paths, values, hashes and load factor, from `TreeAssumption` and
`LoadAssumption`, as long as no two paths have the same hash (`HashesDiffer`, a hypothesis of each theorem: without it the
theorems are false, as `bptree_collide` shows) and until the tree is made anew (`opens = 0`: after that the tree has lost
its siblings). It has three parts.

* The members that call themselves (`AddFollowsWay`, `RemoveFollowsWay`, `SearchFollowsWay`): each is a function of the depth,
  about which only its equation is known; a smallest counterexample along the way shows that it does the steps of
  `BPLevelsProofs`. `TreeRows` and `BareRows` say that `Rows`, by which the properties are stated, are the rows of the theorems.
  `StoredAlike` says that `storeSubtree` changes offsets only.
* The map. `Holds(h, m)`: heap `h` is a right tree whose records are those of the map `m`, or an empty leaf if it
  has none. `ReadsMap`: then `getValue` answers `m`. `AddHolds`, `UpdateHolds`, `RemoveHolds` and `StoreHolds`: what the
  calls make of it. `PlacesOfMap` and `CountsOfMap`: the items of the leaves and the paths of the map stand for each other.
* The program. The inductive invariant `HoldsMap` says that, until the tree is made anew, there is a map that the tree
  holds, that was the answer after the last call, and whose paths and values have one block each. It is needed in full: without order and
  links a search may miss a record, then a path is added twice; without loads a removal may throw after it took
  the record out; and which blocks are given back depends on which record is found. `AlwaysHoldsMap` is `Spec => []HoldsMap`.
  From it follow `LevelsStayRight` (`LevelsRight`), `AssertionsHold` (`assertInvariants`), `ThrowsAreHarmless`
  (`ThrowsUnchanged`), `BlocksHaveOneOwner` (`NoLeak` while `opens = 0`), `NoUndefinedBehaviour`, and `StorageIsMap`
  (`ImplementsMap`), the refinement of `StorageMap`, for which there has to be a path at all. `AstrayOnlyAnew` says that until
  then no block in use is written over and no load garbled, so nothing is left out of what they claim.

Only model-checked: liveness (`Terminates`, `CallsReturn`, `TimedKeysGo`, `ReturnsWithTimer`), out of the
prover's reach; and of the B+ tree what is about its file and about trees made anew from it: `FileHoldsTree`, `NoDangling`,
`UndefinedOnlyUnwritten`, `NoLeak` after a reopening, and the offsets of `TypeOK`.

## What is not modelled, and the plan

Never to be modelled: `CityHash` (vendored; any function from paths to keys is
a parameter), `function_checking.hpp` (types only), build files. Wording of messages, the
conversion of values to bytes, the characters of names and the version field of the header are
abstracted away; the priority of a mount point is the number it keeps, cut to 32 bits. So are failures to open a file, and data races inside one operation of
a container, of which no outcome can be excluded. `isExist` of the cache and of
`NaiveStorage` always answers false and changes nothing.

A death inside `BPTreeStorage::store()` leaves some nodes of the new tree in the file and the
others of the old one. They are overwritten in place without a log, so there is no promise
about the mixture to check, and the model stores a tree in one step. The timers of the accessor live in
memory only; after a restart over a persistent storage timed values stay, which
`StorageAccessor` leaves out since it ends with the accessor.

What could come next: theorems about the file of the tree. They need that `storeSubtree` writes each node
of a right tree into a block of its own, what `Loaded` makes of such a file, and an invariant for trees whose
siblings and stale root were read from one.
