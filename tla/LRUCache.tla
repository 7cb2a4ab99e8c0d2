------------------------------ MODULE LRUCache ------------------------------
(***************************************************************************)
(* LRUCachingProxyStorage: a cache of bounded size in front of another     *)
(* IStorage.  Nothing in it is locked, so a call is a sequence of steps    *)
(* (the call into the storage behind, the search for the entry, each round *)
(* of freeCache, the change of the cache), which the calls of other        *)
(* threads may come between: the accessor's timer thread removes paths     *)
(* while clients use the storage.  One change of the list and the map is   *)
(* one step.                                                               *)
(***************************************************************************)
EXTENDS Integers, Sequences, FiniteSets

CONSTANTS
  Threads,  \* the threads that call the storage
  Clients,  \* those of clients; the others are timers and only remove values
  Timed,    \* the paths timers are started for
  Paths,    \* the paths they use
  Values,   \* the vectors they store
  Size,     \* Size[v]: v.size()
  MaxSize   \* m_maxSize

ASSUME CacheAssumption ==
  Clients \subseteq Threads /\ Size \in [Values -> Nat] /\ MaxSize \in Nat

VARIABLES
  storage,   \* storage[p]: what p_storage holds for each path that is there
  cache,     \* m_cache
  lru,       \* m_lru_list: its paths, the least recently used first
  current,   \* m_currentSize
  call,      \* call[t]: the call thread t is in
  dangling,  \* <<t, u>>: the entry that the call of t has found was erased by thread u
  undefined, \* an iterator to an erased entry has been used
  lost,      \* history: the sizes removeValue took from the cache, not from current
  recency,   \* history: all paths that were cached, by their last use
  raced      \* history: the paths whose last call began during another one on them

counts == <<current, lost>>
vars == <<storage, cache, lru, counts, call, dangling, undefined, recency, raced>>

Idle == [kind |-> "idle", stage |-> "idle"]
Stages == {"find", "size", "insert", "update"}
SetCall == [kind : {"set"}, path : Paths, val : Values, stage : Stages,
            need : Nat, old : Nat]
GetCall == [kind : {"get"}, path : Paths, val : Values, stage : {"insert"},
            need : Nat, old : {0}]
HitCall == [kind : {"hit"}, path : Paths, stage : {"hit"}]
RemoveCall == [kind : {"remove"}, path : Paths, stage : {"find", "erase"}]
Calls == {Idle} \cup SetCall \cup GetCall \cup HitCall \cup RemoveCall

Without(f, p) == [q \in DOMAIN f \ {p} |-> f[q]]
With(f, p, v) == [q \in DOMAIN f \cup {p} |-> IF q = p THEN v ELSE f[q]]

\* A list without the entry of p, as list::erase leaves it.
Except(s, p) ==
  LET at == CHOOSE i \in DOMAIN s : s[i] = p
  IN [i \in 1 .. Len(s) - 1 |-> IF i < at THEN s[i] ELSE s[i + 1]]

\* The entry of p moved to the end, as splice() in advanceIterator moves it.
ToBack(s, p) == Append(IF \E i \in DOMAIN s : s[i] = p THEN Except(s, p) ELSE s, p)

\* Thread t begins a call on path p, alone or not; a hit, which changes no value, does
\* not count.
In(t, p) == call[t].kind \in {"set", "get", "remove"} /\ call[t].path = p
Begins(t, p) ==
  raced' = IF \E u \in Threads : In(u, p) THEN raced \cup {p} ELSE raced \ {p}

\* The calls that have found the entry of p and still have to use it, unless it is erased
\* already; what an erase by thread t makes of their iterators.
Dangles(t) == \E u \in Threads : <<t, u>> \in dangling
Holding(t) == call[t].stage \in {"size", "update", "hit", "erase"}
Holders(p) == {t \in Threads : Holding(t) /\ call[t].path = p /\ ~Dangles(t)}
ErasedBy(t, p) == dangling \cup (Holders(p) \X {t})

ReturnsLeaving(t, erased) ==
  /\ call' = [call EXCEPT ![t] = Idle]
  /\ dangling' = {d \in erased : d[1] # t}
  /\ UNCHANGED raced
Returns(t) == ReturnsLeaving(t, dangling)

-----------------------------------------------------------------------------
(***************************************************************************)
(* setValue: the storage first, then the cache.                            *)
(***************************************************************************)
SetStorage(t, p, v) ==
  /\ call[t] = Idle
  /\ Begins(t, p)
  /\ storage' = With(storage, p, v)
  /\ call' = [call EXCEPT ![t] = [kind |-> "set", path |-> p, val |-> v, stage |-> "find",
                                  need |-> 0, old |-> 0]]
  /\ UNCHANGED <<cache, lru, counts, dangling, undefined, recency>>

\* The entry is looked up.
SetFind(t) ==
  /\ call[t].kind = "set" /\ call[t].stage = "find"
  /\ call' = [call EXCEPT
       ![t].stage = IF call[t].path \in DOMAIN cache THEN "size" ELSE "insert",
       ![t].need = IF call[t].path \in DOMAIN cache THEN 0 ELSE Size[call[t].val]]
  /\ UNCHANGED <<storage, cache, lru, counts, dangling, undefined, recency, raced>>

SetSizeNeeding(t, need) ==
  /\ call[t].stage = "size" /\ ~Dangles(t)
  /\ call' = [call EXCEPT ![t].stage = "update", ![t].old = Size[cache[call[t].path]],
                          ![t].need = need]
  /\ UNCHANGED <<storage, cache, lru, counts, dangling, undefined, recency, raced>>

\* Faulty variants of SetSize: the difference is taken even when the value shrinks; the
\* whole size is freed for a value that is overwritten.
SetSizeDifference(t) == SetSizeNeeding(t, Size[call[t].val] - Size[cache[call[t].path]])
SetSizeWhole(t) == SetSizeNeeding(t, Size[call[t].val])

\* The size of the entry that was found, and the space to free for the new value: none
\* when it does not grow.
SetSize(t) ==
  /\ call[t].stage = "size" /\ ~Dangles(t)
  /\ LET size == Size[call[t].val]
         old == Size[cache[call[t].path]]
     IN call' = [call EXCEPT ![t].stage = "update", ![t].old = old,
                             ![t].need = IF size > old THEN size - old ELSE 0]
  /\ UNCHANGED <<storage, cache, lru, counts, dangling, undefined, recency, raced>>

-----------------------------------------------------------------------------
(***************************************************************************)
(* freeCache(call[t].need).                                                *)
(***************************************************************************)
\* A faulty Full: the space for the new value is not counted.
FullAlready(t) ==
  /\ call[t].kind \in {"set", "get"} /\ call[t].stage \in {"insert", "update"}
  /\ MaxSize < current

Full(t) ==
  /\ call[t].kind \in {"set", "get"} /\ call[t].stage \in {"insert", "update"}
  /\ call[t].stage = "update" => call[t].need > 0
  /\ MaxSize < current + call[t].need

\* A faulty Evict: the size of the entry stays counted.
EvictKeepingSize(t) ==
  /\ Full(t)
  /\ lru # <<>>
  /\ cache' = Without(cache, Head(lru))
  /\ lru' = Tail(lru)
  /\ dangling' = ErasedBy(t, Head(lru))
  /\ UNCHANGED <<storage, current, call, undefined, lost, recency, raced>>

Evict(t) ==
  /\ Full(t)
  /\ lru # <<>>
  /\ LET p == Head(lru) IN
       /\ current' = current - Size[cache[p]]
       /\ cache' = Without(cache, p)
       /\ dangling' = ErasedBy(t, p)
  /\ lru' = Tail(lru)
  /\ UNCHANGED <<storage, call, undefined, lost, recency, raced>>

\* A faulty EvictThrows: freeCache goes on with an empty list.
EvictSpins(t) == Full(t) /\ lru = <<>> /\ UNCHANGED vars

\* Nothing is left to evict: the exception leaves the call.
EvictThrows(t) ==
  /\ Full(t)
  /\ lru = <<>>
  /\ Returns(t)
  /\ UNCHANGED <<storage, cache, lru, counts, undefined, recency>>

HasSpace(t) == call[t].kind \in {"set", "get"} /\ ~Full(t)

\* insert() does nothing when the path has got an entry in the meantime.
Insert(t) ==
  /\ HasSpace(t) /\ call[t].stage = "insert"
  /\ LET p == call[t].path IN
       \/ /\ p \notin DOMAIN cache
          /\ cache' = With(cache, p, call[t].val)
          /\ current' = current + Size[call[t].val]
          /\ lru' = Append(lru, p)
          /\ recency' = ToBack(recency, p)
       \/ /\ p \in DOMAIN cache
          /\ UNCHANGED <<cache, current, lru, recency>>
  /\ Returns(t)
  /\ UNCHANGED <<storage, lost, undefined>>

\* A faulty Update: the entry moves to the end but keeps its value.
UpdateKeepingValue(t) ==
  /\ HasSpace(t) /\ call[t].stage = "update" /\ ~Dangles(t)
  /\ lru' = ToBack(lru, call[t].path)
  /\ recency' = ToBack(recency, call[t].path)
  /\ Returns(t)
  /\ UNCHANGED <<storage, cache, counts, undefined>>

\* The entry found before freeCache is overwritten.
Update(t) ==
  /\ HasSpace(t) /\ call[t].stage = "update" /\ ~Dangles(t)
  /\ LET p == call[t].path IN
       /\ cache' = With(cache, p, call[t].val)
       /\ current' = current - call[t].old + Size[call[t].val]
       /\ lru' = ToBack(lru, p)
       /\ recency' = ToBack(recency, p)
  /\ Returns(t)
  /\ UNCHANGED <<storage, lost, undefined>>

\* What any call does whose entry has been erased since it was found.
UsesErased(t) ==
  /\ Holding(t) /\ Dangles(t)
  /\ call[t].stage = "update" => HasSpace(t)
  /\ undefined' = TRUE
  /\ UNCHANGED <<storage, cache, lru, counts, call, dangling, recency, raced>>

-----------------------------------------------------------------------------
(***************************************************************************)
(* getValue.                                                               *)
(***************************************************************************)
GetFind(t, p) ==
  /\ call[t] = Idle
  /\ p \in DOMAIN cache
  /\ call' = [call EXCEPT ![t] = [kind |-> "hit", path |-> p, stage |-> "hit"]]
  /\ UNCHANGED <<storage, cache, lru, counts, dangling, undefined, recency, raced>>

\* Faulty variants of GetCached: the entry is added to the list again; it stays where
\* it is.
GetCachedAgain(t) ==
  /\ call[t].stage = "hit" /\ ~Dangles(t)
  /\ lru' = Append(lru, call[t].path)
  /\ recency' = ToBack(recency, call[t].path)
  /\ Returns(t)
  /\ UNCHANGED <<storage, cache, counts, undefined>>

GetCachedInPlace(t) ==
  /\ call[t].stage = "hit" /\ ~Dangles(t)
  /\ recency' = ToBack(recency, call[t].path)
  /\ Returns(t)
  /\ UNCHANGED <<storage, cache, lru, counts, undefined>>

\* The entry that was found moves to the end, and its value is returned.
GetCached(t) ==
  /\ call[t].stage = "hit" /\ ~Dangles(t)
  /\ lru' = ToBack(lru, call[t].path)
  /\ recency' = ToBack(recency, call[t].path)
  /\ Returns(t)
  /\ UNCHANGED <<storage, cache, counts, undefined>>

GetStored(t, p) ==
  /\ call[t] = Idle
  /\ Begins(t, p)
  /\ p \notin DOMAIN cache /\ p \in DOMAIN storage
  /\ LET v == storage[p] IN
       call' = [call EXCEPT ![t] = [kind |-> "get", path |-> p, val |-> v, stage |-> "insert",
                                    need |-> Size[v], old |-> 0]]
  /\ UNCHANGED <<storage, cache, lru, counts, dangling, undefined, recency>>

-----------------------------------------------------------------------------
(***************************************************************************)
(* removeValue: the storage first, whose exception passes by the cache.    *)
(***************************************************************************)
RemoveStorage(t, p) ==
  /\ call[t] = Idle
  /\ Begins(t, p)
  /\ storage' = Without(storage, p)
  /\ call' = [call EXCEPT ![t] = [kind |-> "remove", path |-> p, stage |-> "find"]]
  /\ UNCHANGED <<cache, lru, counts, dangling, undefined, recency>>

RemoveFind(t) ==
  /\ call[t].kind = "remove" /\ call[t].stage = "find"
  /\ \/ /\ call[t].path \in DOMAIN cache
        /\ call' = [call EXCEPT ![t].stage = "erase"]
        /\ UNCHANGED <<dangling, raced>>
     \/ call[t].path \notin DOMAIN cache /\ Returns(t)
  /\ UNCHANGED <<storage, cache, lru, counts, undefined, recency>>

\* The entry that was found is erased; m_currentSize is left as it is.
RemoveCached(t) ==
  /\ call[t].stage = "erase" /\ ~Dangles(t)
  /\ LET p == call[t].path IN
       /\ cache' = Without(cache, p)
       /\ lru' = Except(lru, p)
       /\ lost' = lost + Size[cache[p]]
       /\ ReturnsLeaving(t, ErasedBy(t, p))
  /\ UNCHANGED <<storage, current, undefined, recency>>

Init ==
  /\ storage = <<>> /\ cache = <<>> /\ lru = <<>>
  /\ current = 0 /\ lost = 0
  /\ call = [t \in Threads |-> Idle]
  /\ dangling = {} /\ undefined = FALSE
  /\ recency = <<>> /\ raced = {}

\* What the code does by itself once thread t has made a call.
Step(t) ==
  \/ SetFind(t) \/ SetSize(t) \/ Evict(t) \/ EvictThrows(t) \/ Insert(t) \/ Update(t)
  \/ GetCached(t) \/ RemoveFind(t) \/ RemoveCached(t) \/ UsesErased(t)

Next == ~undefined /\ \E t \in Threads :
  \/ \E p \in Paths :
       \/ t \in Clients /\ \E v \in Values : SetStorage(t, p, v)
       \/ t \in Clients /\ (GetFind(t, p) \/ GetStored(t, p))
       \/ (t \in Clients \/ p \in Timed) /\ RemoveStorage(t, p)
  \/ Step(t)

Spec == Init /\ [][Next]_vars /\ \A t \in Threads : WF_vars(~undefined /\ Step(t))

-----------------------------------------------------------------------------
(***************************************************************************)
(* Properties.                                                             *)
(***************************************************************************)
TypeOK ==
  /\ DOMAIN storage \subseteq Paths /\ \A p \in DOMAIN storage : storage[p] \in Values
  /\ DOMAIN cache \subseteq Paths /\ \A p \in DOMAIN cache : cache[p] \in Values
  /\ lru \in Seq(Paths) /\ recency \in Seq(Paths)
  /\ current \in Int /\ lost \in Nat
  /\ call \in [Threads -> Calls]
  /\ dangling \subseteq Threads \X Threads
  /\ undefined \in BOOLEAN
  /\ raced \subseteq Paths

\* The list holds every cached path once and no other, so that the iterators kept
\* in either container are good.
OneEntryEach ==
  /\ \A i, j \in DOMAIN lru : lru[i] = lru[j] => i = j
  /\ DOMAIN cache = {lru[i] : i \in DOMAIN lru}

\* A cached value is the storage's, but for a path in a call that has changed the
\* storage and not yet the cache, or on which two calls overlapped since the last call
\* that was alone: a timer that fires during a setValue may leave a removed value cached.
Busy(p) == \E t \in Threads : call[t].kind \in {"set", "remove"} /\ call[t].path = p
Coherent ==
  \A p \in DOMAIN cache \ raced : Busy(p) \/ (p \in DOMAIN storage /\ cache[p] = storage[p])

\* m_currentSize never exceeds m_maxSize.
WithinLimit == current <= MaxSize

\* m_currentSize counts what is cached, and what removeValue left in it by mistake.
SizeOf(c) ==
  LET total[S \in SUBSET DOMAIN c] ==
        IF S = {} THEN 0
        ELSE LET p == CHOOSE q \in S : TRUE IN Size[c[p]] + total[S \ {p}]
  IN total[DOMAIN c]
Accounting == current = SizeOf(cache) + lost

\* The list is in the order of last use, across hits, overwrites, evictions and
\* removals: what is evicted is the least recently used.
UsedBefore(p, q) == \E i, j \in DOMAIN recency : i < j /\ recency[i] = p /\ recency[j] = q
LruInOrder == \A i, j \in DOMAIN lru : i < j => UsedBefore(lru[i], lru[j])

\* The ways into undefined behaviour, which is the use of an entry that was erased since
\* it was found: a thread erases the entry of its own call only where freeCache makes space
\* for a cached value that grows; else another thread has come in between, and a timer,
\* which evicts nothing, only takes away what it was started for.
Grows(t) ==
  call[t].kind = "set" /\ call[t].stage = "update" /\ Size[call[t].val] > call[t].old
UndefinedByGrowthOrRace ==
  /\ undefined => dangling # {}
  /\ \A d \in dangling :
       /\ d[1] = d[2] => Grows(d[1])
       /\ d[2] \notin Clients => call[d[1]].path \in Timed

\* Every call returns or throws: freeCache runs out of entries to evict.
CallsReturn == \A t \in Threads : call[t] # Idle ~> call[t] = Idle \/ undefined

\* What the exception says: it is thrown for a value the cache is too small for.
ThrowsOnlyIfTooLarge ==
  [][\A t \in Threads : EvictThrows(t) => Size[call[t].val] > MaxSize]_vars

=============================================================================
