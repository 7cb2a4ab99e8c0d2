--------------------------- MODULE LRUCacheProofs ---------------------------
(***************************************************************************)
(* Proofs about LRUCache: for any number of threads, the list and the map  *)
(* stay paired and in the order of use, the cache agrees with the storage  *)
(* behind it where calls do not overlap, and undefined behaviour comes of  *)
(* a growing value or of a second thread only; with one client and any     *)
(* timers, the size counted is that of what is cached and of what removals *)
(* forget, within the limit.                                               *)
(***************************************************************************)
EXTENDS LRUCache, TLAPS, SequenceTheorems, WellFoundedInduction, FiniteSetTheorems

\* Among finite subsets of a set there is one that has no other as a part.
LEMMA HasSmallestSet ==
  ASSUME NEW D, NEW G \in SUBSET FiniteSubsetsOf(D), G # {}
  PROVE  \E L \in G : \A K \in G : K \subseteq L => K = L
<1>1. IsWellFoundedOn(StrictSubsetOrdering(D), FiniteSubsetsOf(D))
  BY FS_StrictSubsetOrderingWellFounded
<1>2. PICK L \in G : \A K \in G : ~ (<<K, L>> \in StrictSubsetOrdering(D))
  BY <1>1, WFMin, Zenon
<1>3. \A K \in G : K \subseteq L => K = L
  BY <1>2 DEF StrictSubsetOrdering, FiniteSubsetsOf
<1>. QED
  BY <1>3

Distinct(s) == \A i, j \in DOMAIN s : s[i] = s[j] => i = j
Entries(s) == {s[i] : i \in DOMAIN s}

-----------------------------------------------------------------------------
(***************************************************************************)
(* Maps and lists.                                                         *)
(***************************************************************************)

\* An entry written into a map: its domain and its values.
LEMMA WithMap ==
  ASSUME NEW f, NEW p, NEW v
  PROVE  /\ DOMAIN With(f, p, v) = DOMAIN f \cup {p}
         /\ With(f, p, v)[p] = v
         /\ \A q \in DOMAIN f \ {p} : With(f, p, v)[q] = f[q]
  BY DEF With

\* An entry erased from a map.
LEMMA WithoutMap ==
  ASSUME NEW f, NEW p
  PROVE  /\ DOMAIN Without(f, p) = DOMAIN f \ {p}
         /\ \A q \in DOMAIN f \ {p} : Without(f, p)[q] = f[q]
  BY DEF Without

\* Both keep a map typed.
LEMMA WithTyped ==
  ASSUME NEW f, DOMAIN f \subseteq Paths, \A q \in DOMAIN f : f[q] \in Values,
         NEW p \in Paths, NEW v \in Values
  PROVE  /\ DOMAIN With(f, p, v) = DOMAIN f \cup {p}
         /\ DOMAIN With(f, p, v) \subseteq Paths
         /\ \A q \in DOMAIN With(f, p, v) : With(f, p, v)[q] \in Values
  BY DEF With

LEMMA WithoutTyped ==
  ASSUME NEW f, DOMAIN f \subseteq Paths, \A q \in DOMAIN f : f[q] \in Values, NEW p
  PROVE  /\ DOMAIN Without(f, p) \subseteq Paths
         /\ \A q \in DOMAIN Without(f, p) : Without(f, p)[q] \in Values
  BY DEF Without

\* Erasing the entry of p from a list of distinct entries erases just p.
LEMMA ExceptList ==
  ASSUME NEW S, NEW s \in Seq(S), Distinct(s), NEW p \in Entries(s)
  PROVE  /\ Except(s, p) \in Seq(S)
         /\ Distinct(Except(s, p))
         /\ Entries(Except(s, p)) = Entries(s) \ {p}
<1>. DEFINE at == CHOOSE i \in DOMAIN s : s[i] = p
            e == Except(s, p)
            n == Len(s)
<1>1. at \in 1 .. n /\ s[at] = p /\ n \in Nat /\ DOMAIN s = 1 .. n
  BY DEF Entries
<1>2. e = [i \in 1 .. n - 1 |-> IF i < at THEN s[i] ELSE s[i + 1]]
  BY DEF Except
<1>. HIDE DEF at, e, n
<1>3. n - 1 \in Nat /\ DOMAIN e = 1 .. n - 1
  BY <1>1, <1>2
<1>4. \A i \in 1 .. n - 1 : \E k \in 1 .. n : k # at /\ e[i] = s[k]
                                         /\ k = IF i < at THEN i ELSE i + 1
  BY <1>1, <1>2
<1>5. \A i \in 1 .. n : s[i] \in S
  BY <1>1 DEF n
<1>6. e \in Seq(S)
  BY <1>2, <1>3, <1>4, <1>5
<1>7. Distinct(e)
  <2>. SUFFICES ASSUME NEW i \in 1 .. n - 1, NEW j \in 1 .. n - 1, e[i] = e[j] PROVE i = j
    BY <1>3 DEF Distinct
  <2>. QED
    BY <1>1, <1>4 DEF Distinct
<1>8. Entries(e) \subseteq Entries(s) \ {p}
  <2>. SUFFICES ASSUME NEW i \in 1 .. n - 1 PROVE e[i] \in Entries(s) /\ e[i] # p
    BY <1>3 DEF Entries
  <2>. QED
    BY <1>1, <1>4 DEF Distinct, Entries
<1>9. Entries(s) \ {p} \subseteq Entries(e)
  <2>. SUFFICES ASSUME NEW k \in 1 .. n, s[k] # p PROVE \E i \in 1 .. n - 1 : e[i] = s[k]
    BY <1>1, <1>3 DEF Entries
  <2>1. CASE k < at
    BY <2>1, <1>1, <1>2
  <2>2. CASE k > at
    <3>1. k - 1 \in 1 .. n - 1 /\ ~(k - 1 < at) /\ (k - 1) + 1 = k
      BY <2>2, <1>1
    <3>. QED
      BY <3>1, <1>2
  <2>. QED
    BY <2>1, <2>2, <1>1
<1>. QED
  BY <1>6, <1>7, <1>8, <1>9 DEF e

\* Adding a new entry at the end of a list of distinct entries.
LEMMA AppendList ==
  ASSUME NEW S, NEW s \in Seq(S), Distinct(s), NEW p \in S, p \notin Entries(s)
  PROVE  /\ Append(s, p) \in Seq(S)
         /\ Distinct(Append(s, p))
         /\ Entries(Append(s, p)) = Entries(s) \cup {p}
<1>. DEFINE a == Append(s, p)
            n == Len(s)
<1>1. /\ a \in Seq(S) /\ n \in Nat /\ DOMAIN s = 1 .. n
      /\ DOMAIN a = 1 .. n + 1 /\ a[n + 1] = p /\ \A i \in 1 .. n : a[i] = s[i]
  OBVIOUS
<1>. HIDE DEF a, n
<1>2. Distinct(a)
  BY <1>1 DEF Distinct, Entries
<1>3. Entries(a) = Entries(s) \cup {p}
  <2>1. \A i \in 1 .. n + 1 : i \in 1 .. n \/ i = n + 1
    BY <1>1
  <2>2. n + 1 \in 1 .. n + 1 /\ 1 .. n \subseteq 1 .. n + 1
    BY <1>1
  <2>. QED
    BY <1>1, <2>1, <2>2 DEF Entries
<1>. QED
  BY <1>1, <1>2, <1>3 DEF a

\* Moving an entry to the end, or adding it, keeps the entries distinct.
LEMMA ToBackList ==
  ASSUME NEW S, NEW s \in Seq(S), Distinct(s), NEW p \in S
  PROVE  /\ ToBack(s, p) \in Seq(S)
         /\ Distinct(ToBack(s, p))
         /\ Entries(ToBack(s, p)) = Entries(s) \cup {p}
<1>1. CASE p \in Entries(s)
  <2>1. ToBack(s, p) = Append(Except(s, p), p)
    BY <1>1 DEF ToBack, Entries
  <2>. QED
    BY <1>1, <2>1, ExceptList, AppendList
<1>2. CASE p \notin Entries(s)
  <2>1. ToBack(s, p) = Append(s, p)
    BY <1>2 DEF ToBack, Entries
  <2>. QED
    BY <1>2, <2>1, AppendList
<1>. QED
  BY <1>1, <1>2

\* pop_front() takes the first entry away.
LEMMA TailList ==
  ASSUME NEW S, NEW s \in Seq(S), Distinct(s), s # <<>>
  PROVE  /\ Head(s) \in S /\ Head(s) \in Entries(s)
         /\ Tail(s) \in Seq(S)
         /\ Distinct(Tail(s))
         /\ Entries(Tail(s)) = Entries(s) \ {Head(s)}
<1>. DEFINE n == Len(s)
<1>1. /\ n \in Nat /\ n > 0 /\ DOMAIN s = 1 .. n /\ 1 \in DOMAIN s
      /\ Head(s) = s[1] /\ s[1] \in S
  OBVIOUS
<1>2. /\ Tail(s) \in Seq(S) /\ Len(Tail(s)) = n - 1
      /\ \A i \in 1 .. n - 1 : Tail(s)[i] = s[i + 1]
  OBVIOUS
<1>3. s[1] \in Entries(s)
  BY <1>1 DEF Entries
<1>4. /\ Except(s, s[1]) \in Seq(S)
      /\ Except(s, s[1]) = [i \in 1 .. n - 1 |-> s[i + 1]]
  <2>1. (CHOOSE i \in DOMAIN s : s[i] = s[1]) = 1
    BY <1>1 DEF Distinct
  <2>2. \A i \in 1 .. n - 1 : ~(i < 1)
    BY <1>1
  <2>. QED
    BY <1>3, <2>1, <2>2, ExceptList DEF Except
<1>5. /\ Len(Except(s, s[1])) = n - 1
      /\ \A i \in 1 .. n - 1 : Except(s, s[1])[i] = s[i + 1]
  <2>1. n - 1 \in Nat /\ DOMAIN Except(s, s[1]) = 1 .. n - 1
    BY <1>1, <1>4
  <2>. QED
    BY <2>1, <1>4
<1>6. Tail(s) = Except(s, s[1])
  <2>. HIDE DEF n
  <2>. QED
    BY <1>2, <1>4, <1>5, SeqEqual
<1>7. /\ Distinct(Except(s, s[1]))
      /\ Entries(Except(s, s[1])) = Entries(s) \ {s[1]}
  BY <1>3, ExceptList
<1>. QED
  BY <1>1, <1>2, <1>3, <1>6, <1>7

\* The same for a list that may hold an entry twice: it stays a list.
LEMMA ToBackSeq ==
  ASSUME NEW S, NEW s \in Seq(S), NEW p \in S
  PROVE  ToBack(s, p) \in Seq(S)
<1>1. CASE \E i \in DOMAIN s : s[i] = p
  <2>. DEFINE at == CHOOSE i \in DOMAIN s : s[i] = p
              n == Len(s)
  <2>1. at \in 1 .. n /\ n \in Nat /\ n > 0 /\ \A i \in 1 .. n : s[i] \in S
    BY <1>1
  <2>2. Except(s, p) = [i \in 1 .. n - 1 |-> IF i < at THEN s[i] ELSE s[i + 1]]
    BY DEF Except
  <2>. HIDE DEF at, n
  <2>3. n - 1 \in Nat
       /\ \A i \in 1 .. n - 1 : (IF i < at THEN s[i] ELSE s[i + 1]) \in S
    BY <2>1
  <2>4. Except(s, p) \in Seq(S)
    BY <2>2, <2>3
  <2>. QED
    BY <1>1, <2>4 DEF ToBack
<1>2. CASE ~\E i \in DOMAIN s : s[i] = p
  BY <1>2 DEF ToBack
<1>. QED
  BY <1>1, <1>2

-----------------------------------------------------------------------------
(***************************************************************************)
(* Types, and the pairing of the list and the map, which they need: an     *)
(* entry is erased from the list only when the map says that it is there.  *)
(***************************************************************************)
\* What a call has found is there, as long as nobody has erased it.
Found == \A t \in Threads : Holding(t) /\ ~Dangles(t) => call[t].path \in DOMAIN cache

Paired == TypeOK /\ OneEntryEach /\ Found

\* What the fields of a call are.
LEMMA CallTyped ==
  ASSUME TypeOK, NEW t \in Threads
  PROVE  /\ call[t].kind = "set" => call[t] \in SetCall
         /\ call[t].kind = "get" => call[t] \in GetCall
         /\ call[t].kind = "remove" => call[t] \in RemoveCall
         /\ call[t].kind \in {"set", "get"} =>
              /\ call[t].path \in Paths /\ call[t].val \in Values
              /\ call[t].need \in Nat /\ call[t].old \in Nat
              /\ Size[call[t].val] \in Nat
  BY CacheAssumption
     DEF TypeOK, Calls, Idle, SetCall, GetCall, HitCall, RemoveCall, Stages

\* The calls that hold an entry.
LEMMA HoldingTyped ==
  ASSUME TypeOK, NEW t \in Threads
  PROVE  /\ call[t].stage \in {"size", "update"} => call[t] \in SetCall /\ call[t].kind = "set"
         /\ call[t].stage = "hit" => call[t] \in HitCall /\ call[t].kind = "hit"
         /\ call[t].stage = "erase" => call[t] \in RemoveCall /\ call[t].kind = "remove"
         /\ Holding(t) => call[t].path \in Paths /\ call[t] # Idle
<1>1. call[t] \in Calls
  BY DEF TypeOK
<1>2. CASE call[t] = Idle
  BY <1>2 DEF Idle, Holding
<1>3. CASE call[t] \in SetCall
  BY <1>3 DEF Idle, SetCall, Stages, Holding
<1>4. CASE call[t] \in GetCall
  BY <1>4 DEF Idle, GetCall, Holding
<1>5. CASE call[t] \in HitCall
  BY <1>5 DEF Idle, HitCall, Holding
<1>6. CASE call[t] \in RemoveCall
  BY <1>6 DEF Idle, RemoveCall, Holding
<1>. QED
  BY <1>1, <1>2, <1>3, <1>4, <1>5, <1>6 DEF Calls

\* A call that ends leaves the calls typed, and what other threads hold.
LEMMA ReturnTyped ==
  ASSUME TypeOK, NEW t \in Threads, NEW erased \in SUBSET (Threads \X Threads),
         ReturnsLeaving(t, erased)
  PROVE  /\ call' \in [Threads -> Calls]
         /\ dangling' \subseteq Threads \X Threads
         /\ raced' \subseteq Paths
         /\ call'[t] = Idle /\ \A u \in Threads \ {t} : call'[u] = call[u]
         /\ \A u \in Threads \ {t} : \A w : <<u, w>> \in dangling' <=> <<u, w>> \in erased
  BY DEF TypeOK, Calls, ReturnsLeaving

\* What an erase leaves of the iterators.
LEMMA ErasedTyped ==
  ASSUME TypeOK, NEW t \in Threads, NEW p
  PROVE  /\ ErasedBy(t, p) \in SUBSET (Threads \X Threads)
         /\ dangling \subseteq ErasedBy(t, p)
         /\ \A u \in Threads : u \in Holders(p) => <<u, t>> \in ErasedBy(t, p)
         /\ \A d \in ErasedBy(t, p) \ dangling :
              d[1] \in Holders(p) /\ d[2] = t /\ d = <<d[1], t>>
  BY DEF TypeOK, ErasedBy, Holders

\* A call that begins keeps the paths of overlapping calls typed.
LEMMA BeginTyped ==
  ASSUME TypeOK, NEW t \in Threads, NEW p \in Paths, Begins(t, p)
  PROVE  raced' \subseteq Paths
  BY DEF TypeOK, Begins

LEMMA PairedInit == Init => Paired
<1>. SUFFICES ASSUME Init PROVE Paired
  OBVIOUS
<1>1. <<>> \in Seq(Paths) /\ DOMAIN <<>> = {} /\ {<<>>[i] : i \in DOMAIN <<>>} = {}
  OBVIOUS
<1>2. call \in [Threads -> Calls] /\ dangling \subseteq Threads \X Threads
  BY DEF Init, Calls
<1>3. TypeOK
  <2>1. DOMAIN storage = {} /\ DOMAIN cache = {}
    BY <1>1 DEF Init
  <2>2. lru \in Seq(Paths) /\ recency \in Seq(Paths)
    BY <1>1 DEF Init
  <2>3. current \in Int /\ lost \in Nat
    BY DEF Init
  <2>4. undefined \in BOOLEAN /\ raced \subseteq Paths
    BY DEF Init
  <2>. QED
    BY <1>2, <2>1, <2>2, <2>3, <2>4 DEF TypeOK
<1>4. OneEntryEach
  BY <1>1 DEF Init, OneEntryEach
<1>5. Found
  BY DEF Init, Found, Holding, Idle
<1>. QED
  BY <1>3, <1>4, <1>5 DEF Paired

\* Every step keeps the list and the map typed and paired.
LEMMA TypedStep ==
  ASSUME Paired, [Next]_vars
  PROVE  TypeOK' /\ OneEntryEach'
<1>. USE DEF Paired
<1>0. /\ lru \in Seq(Paths) /\ recency \in Seq(Paths) /\ Distinct(lru)
      /\ DOMAIN cache = Entries(lru)
  BY DEF TypeOK, OneEntryEach, Distinct, Entries
<1>1. ASSUME NEW t \in Threads, NEW p \in Paths, NEW v \in Values, SetStorage(t, p, v)
      PROVE  TypeOK' /\ OneEntryEach'
  <2>1. [kind |-> "set", path |-> p, val |-> v, stage |-> "find", need |-> 0, old |-> 0]
        \in SetCall
    BY DEF SetCall, Stages
  <2>2. call' \in [Threads -> Calls]
    BY <1>1, <2>1 DEF SetStorage, TypeOK, Calls
  <2>3. DOMAIN storage' \subseteq Paths /\ \A q \in DOMAIN storage' : storage'[q] \in Values
    BY <1>1, WithTyped DEF SetStorage, TypeOK
  <2>. QED
    BY <1>1, <2>2, <2>3, BeginTyped DEF SetStorage, TypeOK, OneEntryEach, counts
<1>2. ASSUME NEW t \in Threads, SetFind(t)
      PROVE  TypeOK' /\ OneEntryEach'
  <2>. DEFINE there == call[t].path \in DOMAIN cache
              stage == IF there THEN "size" ELSE "insert"
              need == IF there THEN 0 ELSE Size[call[t].val]
  <2>1. call[t] \in SetCall /\ Size[call[t].val] \in Nat
    BY <1>2, CallTyped DEF SetFind
  <2>2. call' = [call EXCEPT ![t] = [call[t] EXCEPT !.stage = stage, !.need = need]]
    BY <1>2 DEF SetFind, TypeOK
  <2>3. stage \in Stages /\ need \in Nat
    BY <2>1 DEF Stages
  <2>. HIDE DEF stage, need
  <2>4. [call[t] EXCEPT !.stage = stage, !.need = need] \in SetCall
    BY <2>1, <2>3 DEF SetCall
  <2>5. call' \in [Threads -> Calls]
    BY <2>2, <2>4 DEF TypeOK, Calls
  <2>. QED
    BY <1>2, <2>5 DEF SetFind, TypeOK, OneEntryEach, counts
<1>13. ASSUME NEW t \in Threads, SetSize(t)
       PROVE  TypeOK' /\ OneEntryEach'
  <2>. DEFINE size == Size[call[t].val]
              old == Size[cache[call[t].path]]
              need == IF size > old THEN size - old ELSE 0
  <2>1. call[t] \in SetCall /\ size \in Nat
    BY <1>13, HoldingTyped, CallTyped DEF SetSize
  <2>2. call[t].path \in DOMAIN cache
    BY <1>13 DEF SetSize, Found, Holding
  <2>3. old \in Nat
    BY <2>2, CacheAssumption DEF TypeOK
  <2>4. need \in Nat
    BY <2>1, <2>3
  <2>5. call' = [call EXCEPT ![t] = [call[t] EXCEPT !.stage = "update", !.old = old,
                                                    !.need = need]]
    BY <1>13 DEF SetSize, TypeOK
  <2>. HIDE DEF need, old
  <2>6. [call[t] EXCEPT !.stage = "update", !.old = old, !.need = need] \in SetCall
    BY <2>1, <2>3, <2>4 DEF SetCall, Stages
  <2>7. call' \in [Threads -> Calls]
    BY <2>5, <2>6 DEF TypeOK, Calls
  <2>. QED
    BY <1>13, <2>7 DEF SetSize, TypeOK, OneEntryEach, counts
<1>3. ASSUME NEW t \in Threads, Evict(t)
      PROVE  TypeOK' /\ OneEntryEach'
  <2>. DEFINE p == Head(lru)
  <2>1. /\ p \in Entries(lru) /\ lru' \in Seq(Paths) /\ Distinct(lru')
        /\ Entries(lru') = Entries(lru) \ {p}
    BY <1>0, <1>3, TailList DEF Evict
  <2>2. /\ DOMAIN cache' = DOMAIN cache \ {p}
        /\ \A q \in DOMAIN cache' : cache'[q] = cache[q]
    BY <1>3, WithoutMap DEF Evict
  <2>3. current' \in Int
    BY <1>0, <1>3, <2>1, CacheAssumption DEF Evict, TypeOK
  <2>4. OneEntryEach'
    BY <1>0, <2>1, <2>2 DEF OneEntryEach, Distinct, Entries
  <2>5. dangling' \subseteq Threads \X Threads
    BY <1>3, ErasedTyped DEF Evict
  <2>. QED
    BY <1>3, <2>1, <2>2, <2>3, <2>4, <2>5 DEF Evict, TypeOK
<1>4. ASSUME NEW t \in Threads, EvictThrows(t)
      PROVE  TypeOK' /\ OneEntryEach'
  <2>1. /\ call' \in [Threads -> Calls] /\ dangling' \subseteq Threads \X Threads
        /\ raced' \subseteq Paths
    BY <1>4, ReturnTyped DEF EvictThrows, Returns, TypeOK
  <2>. QED
    BY <1>4, <2>1 DEF EvictThrows, TypeOK, OneEntryEach, counts
<1>5. ASSUME NEW t \in Threads, Insert(t)
      PROVE  TypeOK' /\ OneEntryEach'
  <2>. DEFINE p == call[t].path
  <2>1. /\ p \in Paths /\ call[t].val \in Values /\ Size[call[t].val] \in Nat
    BY <1>5, CallTyped DEF Insert, HasSpace
  <2>2. /\ call' \in [Threads -> Calls] /\ dangling' \subseteq Threads \X Threads
        /\ raced' \subseteq Paths
    BY <1>5, ReturnTyped DEF Insert, Returns, TypeOK
  <2>3. CASE p \notin DOMAIN cache
    <3>1. /\ cache' = With(cache, p, call[t].val) /\ lru' = Append(lru, p)
          /\ recency' = ToBack(recency, p) /\ current' = current + Size[call[t].val]
      BY <1>5, <2>3 DEF Insert
    <3>2. /\ lru' \in Seq(Paths) /\ Distinct(lru') /\ Entries(lru') = Entries(lru) \cup {p}
      BY <1>0, <2>1, <2>3, <3>1, AppendList
    <3>3. /\ DOMAIN cache' = DOMAIN cache \cup {p}
          /\ \A q \in DOMAIN cache' : cache'[q] \in Values
      BY <2>1, <3>1, WithTyped DEF TypeOK
    <3>4. recency' \in Seq(Paths) /\ current' \in Int
      BY <1>0, <2>1, <3>1, ToBackSeq DEF TypeOK
    <3>5. OneEntryEach'
      BY <1>0, <3>2, <3>3 DEF OneEntryEach, Distinct, Entries
    <3>. QED
      BY <1>5, <2>1, <2>2, <3>2, <3>3, <3>4, <3>5 DEF Insert, TypeOK
  <2>4. CASE p \in DOMAIN cache
    BY <1>5, <2>2, <2>4 DEF Insert, TypeOK, OneEntryEach
  <2>. QED
    BY <2>3, <2>4
<1>6. ASSUME NEW t \in Threads, Update(t)
      PROVE  TypeOK' /\ OneEntryEach'
  <2>. DEFINE p == call[t].path
  <2>1. /\ p \in Paths /\ call[t].val \in Values /\ Size[call[t].val] \in Nat
        /\ call[t].old \in Nat /\ p \in DOMAIN cache
    BY <1>6, CallTyped DEF Update, HasSpace, Found, Holding
  <2>2. /\ call' \in [Threads -> Calls] /\ dangling' \subseteq Threads \X Threads
        /\ raced' \subseteq Paths
    BY <1>6, ReturnTyped DEF Update, Returns, TypeOK
  <2>3. /\ cache' = With(cache, p, call[t].val) /\ lru' = ToBack(lru, p)
        /\ recency' = ToBack(recency, p)
        /\ current' = current - call[t].old + Size[call[t].val]
    BY <1>6 DEF Update
  <2>4. /\ lru' \in Seq(Paths) /\ Distinct(lru') /\ Entries(lru') = Entries(lru) \cup {p}
    BY <1>0, <2>1, <2>3, ToBackList
  <2>5. /\ DOMAIN cache' = DOMAIN cache \cup {p}
        /\ \A q \in DOMAIN cache' : cache'[q] \in Values
    BY <2>1, <2>3, WithTyped DEF TypeOK
  <2>6. recency' \in Seq(Paths) /\ current' \in Int
    BY <1>0, <2>1, <2>3, ToBackSeq DEF TypeOK
  <2>7. OneEntryEach'
    BY <1>0, <2>4, <2>5 DEF OneEntryEach, Distinct, Entries
  <2>. QED
    BY <1>6, <2>1, <2>2, <2>4, <2>5, <2>6, <2>7 DEF Update, TypeOK
<1>7. ASSUME NEW t \in Threads, UsesErased(t)
      PROVE  TypeOK' /\ OneEntryEach'
  BY <1>7 DEF UsesErased, TypeOK, OneEntryEach, counts
<1>8. ASSUME NEW t \in Threads, GetCached(t)
      PROVE  TypeOK' /\ OneEntryEach'
  <2>. DEFINE p == call[t].path
  <2>1. p \in Paths /\ p \in DOMAIN cache
    BY <1>8, HoldingTyped DEF GetCached, Found, Holding
  <2>2. /\ lru' \in Seq(Paths) /\ Distinct(lru') /\ Entries(lru') = Entries(lru) \cup {p}
        /\ recency' \in Seq(Paths)
    BY <1>0, <1>8, <2>1, ToBackList, ToBackSeq DEF GetCached
  <2>3. OneEntryEach'
    BY <1>0, <1>8, <2>1, <2>2 DEF GetCached, OneEntryEach, Distinct, Entries
  <2>4. /\ call' \in [Threads -> Calls] /\ dangling' \subseteq Threads \X Threads
        /\ raced' \subseteq Paths
    BY <1>8, ReturnTyped DEF GetCached, Returns, TypeOK
  <2>. QED
    BY <1>8, <2>2, <2>3, <2>4 DEF GetCached, TypeOK, counts
<1>14. ASSUME NEW t \in Threads, NEW p \in Paths, GetFind(t, p)
       PROVE  TypeOK' /\ OneEntryEach'
  <2>1. [kind |-> "hit", path |-> p, stage |-> "hit"] \in HitCall
    BY DEF HitCall
  <2>2. call' \in [Threads -> Calls]
    BY <1>14, <2>1 DEF GetFind, TypeOK, Calls
  <2>. QED
    BY <1>14, <2>2 DEF GetFind, TypeOK, OneEntryEach, counts
<1>9. ASSUME NEW t \in Threads, NEW p \in Paths, GetStored(t, p)
      PROVE  TypeOK' /\ OneEntryEach'
  <2>. DEFINE v == storage[p]
  <2>1. v \in Values /\ Size[v] \in Nat
    BY <1>9, CacheAssumption DEF GetStored, TypeOK
  <2>2. [kind |-> "get", path |-> p, val |-> v, stage |-> "insert", need |-> Size[v],
         old |-> 0] \in GetCall
    BY <2>1 DEF GetCall
  <2>3. call' \in [Threads -> Calls]
    BY <1>9, <2>2 DEF GetStored, TypeOK, Calls
  <2>. QED
    BY <1>9, <2>3, BeginTyped DEF GetStored, TypeOK, OneEntryEach, counts
<1>10. ASSUME NEW t \in Threads, NEW p \in Paths, RemoveStorage(t, p)
       PROVE  TypeOK' /\ OneEntryEach'
  <2>1. call' \in [Threads -> Calls]
    BY <1>10 DEF RemoveStorage, TypeOK, RemoveCall, Calls
  <2>2. DOMAIN storage' \subseteq Paths /\ \A q \in DOMAIN storage' : storage'[q] \in Values
    BY <1>10, WithoutTyped DEF RemoveStorage, TypeOK
  <2>. QED
    BY <1>10, <2>1, <2>2, BeginTyped DEF RemoveStorage, TypeOK, OneEntryEach, counts
<1>11. ASSUME NEW t \in Threads, RemoveCached(t)
       PROVE  TypeOK' /\ OneEntryEach'
  <2>. DEFINE p == call[t].path
  <2>1. /\ call' \in [Threads -> Calls] /\ dangling' \subseteq Threads \X Threads
        /\ raced' \subseteq Paths
    BY <1>11, ErasedTyped, ReturnTyped DEF RemoveCached
  <2>2. p \in DOMAIN cache
    BY <1>11 DEF RemoveCached, Found, Holding
  <2>3. /\ cache' = Without(cache, p) /\ lru' = Except(lru, p)
        /\ lost' = lost + Size[cache[p]]
    BY <1>11 DEF RemoveCached
  <2>4. /\ lru' \in Seq(Paths) /\ Distinct(lru') /\ Entries(lru') = Entries(lru) \ {p}
    BY <1>0, <2>2, <2>3, ExceptList
  <2>5. /\ DOMAIN cache' = DOMAIN cache \ {p}
        /\ \A q \in DOMAIN cache' : cache'[q] = cache[q]
    BY <2>3, WithoutMap
  <2>6. lost' \in Nat
    BY <2>2, <2>3, CacheAssumption DEF TypeOK
  <2>7. OneEntryEach'
    BY <1>0, <2>4, <2>5 DEF OneEntryEach, Distinct, Entries
  <2>. QED
    BY <1>11, <2>1, <2>4, <2>5, <2>6, <2>7 DEF RemoveCached, TypeOK
<1>15. ASSUME NEW t \in Threads, RemoveFind(t)
       PROVE  TypeOK' /\ OneEntryEach'
  <2>1. CASE Returns(t)
    <3>1. /\ call' \in [Threads -> Calls] /\ dangling' \subseteq Threads \X Threads
          /\ raced' \subseteq Paths
      BY <2>1, ReturnTyped DEF Returns, TypeOK
    <3>. QED
      BY <1>15, <3>1 DEF RemoveFind, TypeOK, OneEntryEach, counts
  <2>2. CASE call' = [call EXCEPT ![t].stage = "erase"] /\ UNCHANGED <<dangling, raced>>
    <3>1. call[t] \in RemoveCall
      BY <1>15, CallTyped DEF RemoveFind
    <3>2. [call[t] EXCEPT !.stage = "erase"] \in RemoveCall
      BY <3>1 DEF RemoveCall
    <3>3. call' = [call EXCEPT ![t] = [call[t] EXCEPT !.stage = "erase"]]
      BY <2>2 DEF TypeOK
    <3>4. call' \in [Threads -> Calls]
      BY <3>2, <3>3 DEF TypeOK, Calls
    <3>. QED
      BY <1>15, <2>2, <3>4 DEF RemoveFind, TypeOK, OneEntryEach, counts
  <2>. QED
    BY <1>15, <2>1, <2>2 DEF RemoveFind
<1>12. CASE UNCHANGED vars
  BY <1>12 DEF vars, counts, TypeOK, OneEntryEach
<1>. QED
  BY <1>1, <1>2, <1>3, <1>4, <1>5, <1>6, <1>7, <1>8, <1>9, <1>10, <1>11, <1>12, <1>13,
     <1>14, <1>15 DEF Next, Step

\* Every step keeps what calls have found, or tells that it is erased.
LEMMA FoundStep ==
  ASSUME Paired, [Next]_vars
  PROVE  Found'
<1>. USE DEF Paired
<1>0. TypeOK
  OBVIOUS
<1>1. ASSUME NEW t \in Threads, \A u \in Threads \ {t} : call'[u] = call[u],
             DOMAIN cache \subseteq DOMAIN cache', dangling' = dangling,
             call'[t].stage \in {"size", "update", "hit", "erase"} =>
               \/ call'[t].path \in DOMAIN cache
               \/ Holding(t) /\ call'[t].path = call[t].path
      PROVE  Found'
  BY <1>1 DEF Found, Holding, Dangles
<1>2. ASSUME NEW t \in Threads, Returns(t), DOMAIN cache \subseteq DOMAIN cache'
      PROVE  Found'
  <2>1. /\ call'[t] = Idle /\ \A u \in Threads \ {t} : call'[u] = call[u]
        /\ \A u \in Threads \ {t} : \A w : <<u, w>> \in dangling' <=> <<u, w>> \in dangling
    BY <1>2, ReturnTyped DEF Returns, TypeOK
  <2>2. SUFFICES ASSUME NEW u \in Threads, Holding(u)', ~Dangles(u)'
                 PROVE  call'[u].path \in DOMAIN cache'
    BY DEF Found
  <2>3. u # t
    BY <2>1, <2>2 DEF Holding, Idle
  <2>4. Holding(u) /\ ~Dangles(u) /\ call'[u] = call[u]
    BY <2>1, <2>2, <2>3 DEF Holding, Dangles
  <2>. QED
    BY <1>2, <2>4 DEF Found
<1>3. ASSUME NEW t \in Threads, NEW p \in Paths, NEW v \in Values, SetStorage(t, p, v)
      PROVE  Found'
  BY <1>1, <1>3 DEF SetStorage, TypeOK
<1>4. ASSUME NEW t \in Threads, NEW p \in Paths, GetFind(t, p)
      PROVE  Found'
  BY <1>1, <1>4 DEF GetFind, TypeOK
<1>5. ASSUME NEW t \in Threads, NEW p \in Paths, GetStored(t, p)
      PROVE  Found'
  BY <1>1, <1>5 DEF GetStored, TypeOK
<1>6. ASSUME NEW t \in Threads, NEW p \in Paths, RemoveStorage(t, p)
      PROVE  Found'
  BY <1>1, <1>6 DEF RemoveStorage, TypeOK
<1>7. ASSUME NEW t \in Threads, SetFind(t)
      PROVE  Found'
  <2>1. call[t] \in SetCall
    BY <1>7, CallTyped DEF SetFind
  <2>2. /\ call'[t].path = call[t].path
        /\ call'[t].stage = IF call[t].path \in DOMAIN cache THEN "size" ELSE "insert"
        /\ \A u \in Threads \ {t} : call'[u] = call[u]
    BY <1>7, <2>1 DEF SetFind, TypeOK, SetCall
  <2>3. dangling' = dangling /\ DOMAIN cache \subseteq DOMAIN cache'
    BY <1>7 DEF SetFind
  <2>4. call'[t].stage \in {"size", "update", "hit", "erase"} => call'[t].path \in DOMAIN cache
    BY <2>2
  <2>. QED
    BY <1>1, <2>2, <2>3, <2>4
<1>8. ASSUME NEW t \in Threads, SetSize(t)
      PROVE  Found'
  <2>1. call[t] \in SetCall
    BY <1>8, HoldingTyped DEF SetSize
  <2>2. call'[t].path = call[t].path /\ \A u \in Threads \ {t} : call'[u] = call[u]
    BY <1>8, <2>1 DEF SetSize, TypeOK, SetCall
  <2>. QED
    BY <1>1, <1>8, <2>2 DEF SetSize, Holding
<1>9. ASSUME NEW t \in Threads, RemoveFind(t)
      PROVE  Found'
  <2>1. call[t] \in RemoveCall
    BY <1>9, CallTyped DEF RemoveFind
  <2>2. CASE Returns(t)
    BY <1>2, <1>9, <2>2 DEF RemoveFind
  <2>3. CASE /\ call' = [call EXCEPT ![t].stage = "erase"] /\ dangling' = dangling
             /\ call[t].path \in DOMAIN cache
    <3>1. call'[t].path = call[t].path /\ \A u \in Threads \ {t} : call'[u] = call[u]
      BY <2>1, <2>3 DEF TypeOK, RemoveCall
    <3>. QED
      BY <1>1, <1>9, <2>3, <3>1 DEF RemoveFind
  <2>. QED
    BY <1>9, <2>2, <2>3 DEF RemoveFind
<1>10. ASSUME NEW t \in Threads, EvictThrows(t) \/ GetCached(t)
       PROVE  Found'
  BY <1>2, <1>10 DEF EvictThrows, GetCached
<1>11. ASSUME NEW t \in Threads, Insert(t) \/ Update(t)
       PROVE  Found'
  BY <1>2, <1>11 DEF Insert, Update, With
<1>12. ASSUME NEW t \in Threads, Evict(t)
       PROVE  Found'
  <2>. DEFINE p == Head(lru)
  <2>1. DOMAIN cache' = DOMAIN cache \ {p} /\ dangling' = ErasedBy(t, p) /\ call' = call
    BY <1>12 DEF Evict, Without
  <2>. SUFFICES ASSUME NEW u \in Threads, Holding(u), ~Dangles(u)'
                PROVE  call[u].path \in DOMAIN cache'
    BY <2>1 DEF Found, Holding
  <2>2. ~Dangles(u) /\ u \notin Holders(p)
    BY <2>1, ErasedTyped DEF Dangles
  <2>. QED
    BY <2>1, <2>2 DEF Holders, Found
<1>13. ASSUME NEW t \in Threads, RemoveCached(t)
       PROVE  Found'
  <2>. DEFINE p == call[t].path
  <2>1. DOMAIN cache' = DOMAIN cache \ {p} /\ ReturnsLeaving(t, ErasedBy(t, p))
    BY <1>13 DEF RemoveCached, Without
  <2>2. /\ call'[t] = Idle /\ \A u \in Threads \ {t} : call'[u] = call[u]
        /\ \A u \in Threads \ {t} : \A w : <<u, w>> \in dangling' <=> <<u, w>> \in ErasedBy(t, p)
    BY <2>1, ErasedTyped, ReturnTyped
  <2>. SUFFICES ASSUME NEW u \in Threads \ {t}, Holding(u), ~Dangles(u)'
                PROVE  call[u].path \in DOMAIN cache'
    BY <2>2 DEF Found, Holding, Idle
  <2>3. ~Dangles(u) /\ u \notin Holders(p)
    BY <2>2, ErasedTyped DEF Dangles
  <2>. QED
    BY <2>1, <2>3 DEF Holders, Found
<1>14. ASSUME call' = call, cache' = cache, dangling' = dangling
       PROVE  Found'
  BY <1>14 DEF Found, Holding, Dangles
<1>. QED
  BY <1>3, <1>4, <1>5, <1>6, <1>7, <1>8, <1>9, <1>10, <1>11, <1>12, <1>13, <1>14
     DEF Next, Step, UsesErased, vars

LEMMA PairedStep ==
  ASSUME Paired, [Next]_vars
  PROVE  Paired'
  BY TypedStep, FoundStep DEF Paired

\* The state is typed, and m_lru_list and m_cache hold the same paths, each once,
\* whatever the calls of any number of threads do between each other's steps.
THEOREM CacheTypeCorrect == Spec => []TypeOK
<1>1. Paired /\ [Next]_vars => Paired'
  BY PairedStep
<1>2. Paired => TypeOK
  BY DEF Paired
<1>. QED
  BY PairedInit, <1>1, <1>2, PTL DEF Spec

\* m_lru_list and m_cache hold the same paths, each once, in every reachable state.
THEOREM ListAndMapPaired == Spec => []OneEntryEach
<1>1. Paired /\ [Next]_vars => Paired'
  BY PairedStep
<1>2. Paired => OneEntryEach
  BY DEF Paired
<1>. QED
  BY PairedInit, <1>1, <1>2, PTL DEF Spec

-----------------------------------------------------------------------------
(***************************************************************************)
(* The limit.  Inductive once the space that freeCache makes is known to   *)
(* be what the change of the cache will take.                              *)
(***************************************************************************)
Growth(c) == IF Size[c.val] > c.old THEN Size[c.val] - c.old ELSE 0

NeedIsGrowth ==
  \A t \in Threads : call[t].kind \in {"set", "get"} =>
    /\ call[t].stage = "insert" => call[t].need = Size[call[t].val]
    /\ call[t].stage = "update" => call[t].need = Growth(call[t])

Limited == Paired /\ NeedIsGrowth /\ WithinLimit

LEMMA LimitedInit == Init => Limited
  BY PairedInit, CacheAssumption
     DEF Init, Limited, NeedIsGrowth, WithinLimit, Idle

\* Every step keeps the size counted within the limit.
LEMMA LimitedStep ==
  ASSUME Limited, [Next]_vars
  PROVE  Limited'
<1>. USE DEF Limited
<1>0. Paired' /\ TypeOK
  BY PairedStep DEF Paired
<1>. SUFFICES NeedIsGrowth' /\ WithinLimit'
  BY <1>0
<1>1. ASSUME NEW t \in Threads, NEW p \in Paths, NEW v \in Values, SetStorage(t, p, v)
      PROVE  NeedIsGrowth' /\ WithinLimit'
  BY <1>0, <1>1 DEF SetStorage, TypeOK, NeedIsGrowth, WithinLimit, counts, Growth
<1>2. ASSUME NEW t \in Threads, SetFind(t)
      PROVE  NeedIsGrowth' /\ WithinLimit'
  <2>1. call[t] \in SetCall
    BY <1>0, <1>2, CallTyped DEF SetFind
  <2>2. \A u \in Threads \ {t} : call'[u] = call[u]
    BY <1>0, <1>2 DEF SetFind, TypeOK
  <2>3. \/ call'[t].stage = "insert" /\ call'[t].need = Size[call'[t].val]
        \/ call'[t].stage = "size"
    BY <1>0, <1>2, <2>1 DEF SetFind, TypeOK, SetCall
  <2>4. NeedIsGrowth'
    BY <2>2, <2>3 DEF NeedIsGrowth, Growth
  <2>. QED
    BY <1>2, <2>4 DEF SetFind, WithinLimit, counts
<1>3. ASSUME NEW t \in Threads, Evict(t)
      PROVE  NeedIsGrowth' /\ WithinLimit'
  <2>1. Head(lru) \in DOMAIN cache
    BY <1>0, <1>3, TailList DEF Evict, TypeOK, Paired, OneEntryEach, Distinct, Entries
  <2>2. Size[cache[Head(lru)]] \in Nat
    BY <1>0, <2>1, CacheAssumption DEF TypeOK
  <2>3. current' = current - Size[cache[Head(lru)]] /\ current \in Int /\ MaxSize \in Nat
    BY <1>0, <1>3, CacheAssumption DEF Evict, TypeOK
  <2>4. WithinLimit'
    BY <2>2, <2>3 DEF WithinLimit
  <2>. QED
    BY <1>3, <2>4 DEF Evict, NeedIsGrowth, Growth
<1>4. ASSUME NEW t \in Threads, EvictThrows(t)
      PROVE  NeedIsGrowth' /\ WithinLimit'
  BY <1>0, <1>4 DEF EvictThrows, Returns, ReturnsLeaving, Idle, TypeOK, NeedIsGrowth, WithinLimit, counts, Growth
<1>5. ASSUME NEW t \in Threads, Insert(t)
      PROVE  NeedIsGrowth' /\ WithinLimit'
  <2>1. NeedIsGrowth'
    BY <1>0, <1>5 DEF Insert, Returns, ReturnsLeaving, Idle, TypeOK, NeedIsGrowth, Growth
  <2>2. /\ call[t].need \in Nat /\ call[t].need = Size[call[t].val]
        /\ current \in Int /\ MaxSize \in Nat
    BY <1>0, <1>5, CallTyped, CacheAssumption DEF Insert, HasSpace, NeedIsGrowth, TypeOK
  <2>3. ~(MaxSize < current + call[t].need)
    BY <1>5 DEF Insert, HasSpace, Full
  <2>4. current' = current + Size[call[t].val] \/ current' = current
    BY <1>5 DEF Insert
  <2>5. WithinLimit'
    BY <2>2, <2>3, <2>4 DEF WithinLimit
  <2>. QED
    BY <2>1, <2>5
<1>6. ASSUME NEW t \in Threads, Update(t)
      PROVE  NeedIsGrowth' /\ WithinLimit'
  <2>1. NeedIsGrowth'
    BY <1>0, <1>6 DEF Update, Returns, ReturnsLeaving, Idle, TypeOK, NeedIsGrowth, Growth
  <2>2. /\ call[t].need = Growth(call[t]) /\ Size[call[t].val] \in Nat /\ call[t].old \in Nat
        /\ call[t].need \in Nat /\ current \in Int /\ MaxSize \in Nat
    BY <1>0, <1>6, CallTyped, CacheAssumption DEF Update, HasSpace, NeedIsGrowth, TypeOK
  <2>3. call[t].need = 0 \/ ~(MaxSize < current + call[t].need)
    BY <1>6, <2>2 DEF Update, HasSpace, Full
  <2>4. current' = current - call[t].old + Size[call[t].val]
    BY <1>6 DEF Update
  <2>5. WithinLimit'
    BY <2>2, <2>3, <2>4 DEF WithinLimit, Growth
  <2>. QED
    BY <2>1, <2>5
<1>7. ASSUME NEW t \in Threads, UsesErased(t)
      PROVE  NeedIsGrowth' /\ WithinLimit'
  BY <1>7 DEF UsesErased, NeedIsGrowth, WithinLimit, counts, Growth
<1>8. ASSUME NEW t \in Threads, GetCached(t)
      PROVE  NeedIsGrowth' /\ WithinLimit'
  BY <1>0, <1>8 DEF GetCached, Returns, ReturnsLeaving, Idle, TypeOK, NeedIsGrowth, WithinLimit,
                    counts, Growth
<1>13. ASSUME NEW t \in Threads, NEW p \in Paths, GetFind(t, p)
       PROVE  NeedIsGrowth' /\ WithinLimit'
  BY <1>0, <1>13 DEF GetFind, TypeOK, NeedIsGrowth, WithinLimit, counts, Growth
<1>14. ASSUME NEW t \in Threads, SetSize(t)
       PROVE  NeedIsGrowth' /\ WithinLimit'
  <2>1. call[t] \in SetCall
    BY <1>0, <1>14, HoldingTyped DEF SetSize
  <2>2. \A u \in Threads \ {t} : call'[u] = call[u]
    BY <1>0, <1>14 DEF SetSize, TypeOK
  <2>3. call'[t].stage = "update" /\ call'[t].need = Growth(call'[t])
    BY <1>0, <1>14, <2>1 DEF SetSize, TypeOK, SetCall, Growth
  <2>4. NeedIsGrowth'
    BY <2>2, <2>3 DEF NeedIsGrowth, Growth
  <2>. QED
    BY <1>14, <2>4 DEF SetSize, WithinLimit, counts
<1>15. ASSUME NEW t \in Threads, RemoveFind(t)
       PROVE  NeedIsGrowth' /\ WithinLimit'
  <2>1. call'[t].kind \in {"idle", "remove"} /\ \A u \in Threads \ {t} : call'[u] = call[u]
    <3>1. call[t] \in RemoveCall
      BY <1>0, <1>15, CallTyped DEF RemoveFind
    <3>. QED
      BY <1>0, <1>15, <3>1
         DEF RemoveFind, Returns, ReturnsLeaving, Idle, TypeOK, RemoveCall
  <2>2. NeedIsGrowth'
    BY <2>1 DEF NeedIsGrowth, Growth
  <2>. QED
    BY <1>15, <2>2 DEF RemoveFind, WithinLimit, counts
<1>9. ASSUME NEW t \in Threads, NEW p \in Paths, GetStored(t, p)
      PROVE  NeedIsGrowth' /\ WithinLimit'
  BY <1>0, <1>9 DEF GetStored, TypeOK, NeedIsGrowth, WithinLimit, counts, Growth
<1>10. ASSUME NEW t \in Threads, NEW p \in Paths, RemoveStorage(t, p)
       PROVE  NeedIsGrowth' /\ WithinLimit'
  BY <1>0, <1>10 DEF RemoveStorage, TypeOK, NeedIsGrowth, WithinLimit, counts, Growth
<1>11. ASSUME NEW t \in Threads, RemoveCached(t)
       PROVE  NeedIsGrowth' /\ WithinLimit'
  BY <1>0, <1>11 DEF RemoveCached, Returns, ReturnsLeaving, Idle, TypeOK, NeedIsGrowth, WithinLimit, Growth
<1>12. CASE UNCHANGED vars
  BY <1>12 DEF vars, counts, NeedIsGrowth, WithinLimit, Growth
<1>. QED
  BY <1>1, <1>2, <1>3, <1>4, <1>5, <1>6, <1>7, <1>8, <1>9, <1>10, <1>11, <1>12, <1>13,
     <1>14, <1>15 DEF Next, Step

\* m_currentSize stays within m_maxSize for any sizes and values, through evictions,
\* overwrites that grow or shrink, the sizes that removeValue forgets, and timers that
\* remove entries between the steps.  One client, so that the integers of the model
\* are the code's size_t (SizeNeverWraps).
THEOREM CacheWithinLimit ==
  ASSUME NEW c, Clients = {c}
  PROVE  Spec => []WithinLimit
<1>1. Limited /\ [Next]_vars => Limited'
  BY LimitedStep
<1>2. Limited => WithinLimit
  BY DEF Limited
<1>. QED
  BY LimitedInit, <1>1, <1>2, PTL DEF Spec

-----------------------------------------------------------------------------
(***************************************************************************)
(* Coherence.  On a path that is not raced one call runs at a time, the    *)
(* value it carries is the storage's, and if it will insert, the path is   *)
(* not cached.                                                             *)
(***************************************************************************)
OneCallEach ==
  \A p \in Paths \ raced : \A t, u \in Threads : In(t, p) /\ In(u, p) => t = u

CarryStored ==
  \A t \in Threads : call[t].kind \in {"set", "get"} /\ call[t].path \notin raced =>
    /\ call[t].path \in DOMAIN storage /\ storage[call[t].path] = call[t].val
    /\ call[t].stage = "insert" => call[t].path \notin DOMAIN cache

Agreeing == Paired /\ OneCallEach /\ CarryStored /\ Coherent

\* Every step keeps calls alone on a path that is not raced.
LEMMA OneCallStep ==
  ASSUME Agreeing, [Next]_vars
  PROVE  OneCallEach'
<1>. USE DEF Agreeing
<1>0. TypeOK
  BY DEF Paired
<1>1. ASSUME NEW t \in Threads, NEW p \in Paths, call[t] = Idle, Begins(t, p),
             \A u \in Threads \ {t} : call'[u] = call[u], In(t, p)'
      PROVE  OneCallEach'
  <2>1. call'[t].path = p
    BY <1>1 DEF In
  <2>2. \A q \in Paths \ {p} : q \in raced' <=> q \in raced
    BY <1>1 DEF Begins
  <2>3. p \notin raced' => \A u \in Threads : ~In(u, p)
    BY <1>1 DEF Begins
  <2>. QED
    BY <1>1, <2>1, <2>2, <2>3 DEF OneCallEach, In
<1>2. ASSUME raced' = raced, \A u \in Threads : \A q \in Paths : In(u, q)' => In(u, q)
      PROVE  OneCallEach'
  BY <1>2 DEF OneCallEach
<1>3. ASSUME NEW t \in Threads, NEW p \in Paths, NEW v \in Values, SetStorage(t, p, v)
      PROVE  OneCallEach'
  <2>1. call'[t].kind = "set" /\ call'[t].path = p
    BY <1>0, <1>3 DEF SetStorage, TypeOK
  <2>. QED
    BY <1>0, <1>1, <1>3, <2>1 DEF SetStorage, TypeOK, In, Idle
<1>4. ASSUME NEW t \in Threads, NEW p \in Paths, GetStored(t, p)
      PROVE  OneCallEach'
  <2>1. call'[t].kind = "get" /\ call'[t].path = p
    BY <1>0, <1>4 DEF GetStored, TypeOK
  <2>. QED
    BY <1>0, <1>1, <1>4, <2>1 DEF GetStored, TypeOK, In, Idle
<1>5. ASSUME NEW t \in Threads, NEW p \in Paths, RemoveStorage(t, p)
      PROVE  OneCallEach'
  <2>1. call'[t].kind = "remove" /\ call'[t].path = p
    BY <1>0, <1>5 DEF RemoveStorage, TypeOK
  <2>. QED
    BY <1>0, <1>1, <1>5, <2>1 DEF RemoveStorage, TypeOK, In, Idle
<1>6. ASSUME NEW t \in Threads, SetFind(t)
      PROVE  OneCallEach'
  <2>1. call[t] \in SetCall
    BY <1>0, <1>6, CallTyped DEF SetFind
  <2>2. call'[t].path = call[t].path /\ call'[t].kind = "set" /\ call[t].kind = "set"
    BY <1>0, <1>6, <2>1 DEF SetFind, TypeOK, SetCall
  <2>. QED
    BY <1>0, <1>2, <1>6, <2>2 DEF SetFind, TypeOK, In
<1>7. ASSUME NEW t \in Threads,
             \/ ReturnsLeaving(t, dangling)
             \/ ReturnsLeaving(t, ErasedBy(t, call[t].path))
      PROVE  OneCallEach'
  <2>1. raced' = raced /\ call'[t] = Idle /\ \A u \in Threads \ {t} : call'[u] = call[u]
    BY <1>0, <1>7 DEF ReturnsLeaving, TypeOK
  <2>2. \A u \in Threads, q \in Paths : In(u, q)' => In(u, q)
    BY <2>1 DEF In, Idle
  <2>. QED
    BY <1>2, <2>1, <2>2
<1>8. ASSUME raced' = raced, call' = call
      PROVE  OneCallEach'
  BY <1>2, <1>8 DEF In
<1>9. ASSUME NEW t \in Threads, SetSize(t)
      PROVE  OneCallEach'
  <2>1. call[t] \in SetCall
    BY <1>0, <1>9, HoldingTyped DEF SetSize
  <2>2. call'[t].path = call[t].path /\ call'[t].kind = "set" /\ call[t].kind = "set"
    BY <1>0, <1>9, <2>1 DEF SetSize, TypeOK, SetCall
  <2>. QED
    BY <1>0, <1>2, <1>9, <2>2 DEF SetSize, TypeOK, In
<1>10. ASSUME NEW t \in Threads, NEW p \in Paths, GetFind(t, p)
       PROVE  OneCallEach'
  BY <1>0, <1>2, <1>10 DEF GetFind, TypeOK, In
<1>11. ASSUME NEW t \in Threads, RemoveFind(t)
       PROVE  OneCallEach'
  <2>1. call[t] \in RemoveCall
    BY <1>0, <1>11, CallTyped DEF RemoveFind
  <2>2. CASE call' = [call EXCEPT ![t].stage = "erase"] /\ raced' = raced
    BY <1>0, <1>2, <2>1, <2>2 DEF TypeOK, RemoveCall, In
  <2>. QED
    BY <1>7, <1>11, <2>2 DEF RemoveFind, Returns
<1>. QED
  BY <1>3, <1>4, <1>5, <1>6, <1>7, <1>8, <1>9, <1>10, <1>11
     DEF Next, Step, Evict, EvictThrows, Insert, Update, UsesErased, GetCached,
         RemoveCached, Returns, vars

\* What a thread that is in no call on q leaves of the calls on q.
LEMMA BusyStays ==
  ASSUME NEW t \in Threads, NEW q, call[t].path # q \/ call[t] = Idle,
         \A u \in Threads \ {t} : call'[u] = call[u], Busy(q)
  PROVE  Busy(q)'
  BY DEF Busy, Idle

\* A step that leaves storage, the calls but for hits, and the paths not raced as they
\* are, and at most takes entries from the cache, keeps the agreement.
LEMMA ShrinkAgrees ==
  ASSUME CarryStored, Coherent, raced' = raced, storage' = storage,
         \A u \in Threads : \/ call'[u] = call[u]
                            \/ {call[u].kind, call'[u].kind} \subseteq {"idle", "hit"},
         DOMAIN cache' \subseteq DOMAIN cache, \A q \in DOMAIN cache' : cache'[q] = cache[q]
  PROVE  CarryStored' /\ Coherent'
<1>1. CarryStored'
  BY DEF CarryStored
<1>2. \A q : Busy(q) => Busy(q)'
  BY DEF Busy
<1>. QED
  BY <1>1, <1>2 DEF Coherent

\* Every step keeps the calls in agreement with the storage.
LEMMA AgreeStep ==
  ASSUME Agreeing, [Next]_vars
  PROVE  CarryStored' /\ Coherent'
<1>. USE DEF Agreeing
<1>0. TypeOK /\ OneEntryEach
  BY DEF Paired
<1>1. ASSUME NEW t \in Threads, NEW p \in Paths, call[t] = Idle, Begins(t, p),
             \A u \in Threads \ {t} : call'[u] = call[u],
             \A q \in DOMAIN storage \ {p} : q \in DOMAIN storage' /\ storage'[q] = storage[q],
             cache' = cache, call'[t].path = p,
             call'[t].kind \in {"set", "get"} =>
               /\ p \in DOMAIN storage' /\ storage'[p] = call'[t].val
               /\ call'[t].stage = "insert" => p \notin DOMAIN cache,
             p \notin DOMAIN cache \/ call'[t].kind \in {"set", "remove"}
      PROVE  CarryStored' /\ Coherent'
  <2>1. \A q : q # p => (q \in raced' <=> q \in raced)
    BY <1>1 DEF Begins
  <2>2. p \notin raced' => \A u \in Threads : ~In(u, p)
    BY <1>1 DEF Begins
  <2>3. CarryStored'
    <3>. SUFFICES ASSUME NEW u \in Threads, call'[u].kind \in {"set", "get"},
                         call'[u].path \notin raced'
                  PROVE  /\ call'[u].path \in DOMAIN storage'
                         /\ storage'[call'[u].path] = call'[u].val
                         /\ call'[u].stage = "insert" => call'[u].path \notin DOMAIN cache'
      BY DEF CarryStored
    <3>1. CASE u = t
      BY <1>1, <3>1
    <3>2. CASE u # t
      <4>1. call'[u] = call[u] /\ call[u].kind \in {"set", "get"}
        BY <1>1, <3>2
      <4>2. call[u].path # p
        BY <1>1, <2>2, <4>1 DEF In, Begins
      <4>. QED
        BY <1>1, <2>1, <4>1, <4>2 DEF CarryStored
    <3>. QED
      BY <3>1, <3>2
  <2>4. Coherent'
    <3>. SUFFICES ASSUME NEW q \in DOMAIN cache \ raced'
                  PROVE  Busy(q)' \/ (q \in DOMAIN storage' /\ cache[q] = storage'[q])
      BY <1>1 DEF Coherent
    <3>1. CASE q = p
      BY <1>1, <3>1 DEF Busy
    <3>2. CASE q # p
      <4>1. Busy(q) \/ (q \in DOMAIN storage /\ cache[q] = storage[q])
        BY <2>1, <3>2 DEF Coherent
      <4>. QED
        BY <1>1, <3>2, <4>1, BusyStays
    <3>. QED
      BY <3>1, <3>2
  <2>. QED
    BY <2>3, <2>4
<1>2. ASSUME NEW t \in Threads, NEW p, p = call[t].path, NEW erased, ReturnsLeaving(t, erased),
             storage' = storage, In(t, p), p \in Paths,
             DOMAIN cache' \subseteq DOMAIN cache \cup {p},
             \A q \in DOMAIN cache' \ {p} : cache'[q] = cache[q],
             p \in DOMAIN cache' \ raced => p \in DOMAIN storage /\ cache'[p] = storage[p]
      PROVE  CarryStored' /\ Coherent'
  <2>1. /\ raced' = raced /\ call'[t] = Idle
        /\ \A u \in Threads \ {t} : call'[u] = call[u]
    BY <1>0, <1>2 DEF ReturnsLeaving, TypeOK
  <2>2. CarryStored'
    <3>. SUFFICES ASSUME NEW u \in Threads \ {t}, call[u].kind \in {"set", "get"},
                         call[u].path \notin raced
                  PROVE  /\ call[u].path \in DOMAIN storage
                         /\ storage[call[u].path] = call[u].val
                         /\ call[u].stage = "insert" => call[u].path \notin DOMAIN cache'
      BY <1>2, <2>1 DEF CarryStored, Idle
    <3>1. call[u].path # p
      BY <1>2 DEF OneCallEach, In
    <3>. QED
      BY <1>2, <3>1 DEF CarryStored
  <2>3. Coherent'
    <3>. SUFFICES ASSUME NEW q \in DOMAIN cache' \ raced
                  PROVE  Busy(q)' \/ (q \in DOMAIN storage /\ cache'[q] = storage[q])
      BY <1>2, <2>1 DEF Coherent
    <3>1. CASE q = p
      BY <1>2, <3>1
    <3>2. CASE q # p
      <4>1. Busy(q) \/ (q \in DOMAIN storage /\ cache[q] = storage[q])
        BY <1>2, <3>2 DEF Coherent
      <4>. QED
        BY <1>2, <2>1, <3>2, <4>1, BusyStays
    <3>. QED
      BY <3>1, <3>2
  <2>. QED
    BY <2>2, <2>3
<1>3. ASSUME NEW t \in Threads, NEW p \in Paths, NEW v \in Values, SetStorage(t, p, v)
      PROVE  CarryStored' /\ Coherent'
  <2>1. /\ p \in DOMAIN storage' /\ storage'[p] = v
        /\ \A q \in DOMAIN storage \ {p} : q \in DOMAIN storage' /\ storage'[q] = storage[q]
    BY <1>3 DEF SetStorage, With
  <2>2. /\ call'[t].kind = "set" /\ call'[t].path = p /\ call'[t].val = v
        /\ call'[t].stage = "find" /\ \A u \in Threads \ {t} : call'[u] = call[u]
    BY <1>0, <1>3 DEF SetStorage, TypeOK
  <2>. QED
    BY <1>1, <1>3, <2>1, <2>2 DEF SetStorage
<1>4. ASSUME NEW t \in Threads, NEW p \in Paths, GetStored(t, p)
      PROVE  CarryStored' /\ Coherent'
  <2>1. /\ call'[t].kind = "get" /\ call'[t].path = p /\ call'[t].val = storage[p]
        /\ \A u \in Threads \ {t} : call'[u] = call[u]
    BY <1>0, <1>4 DEF GetStored, TypeOK
  <2>. QED
    BY <1>1, <1>4, <2>1 DEF GetStored
<1>5. ASSUME NEW t \in Threads, NEW p \in Paths, RemoveStorage(t, p)
      PROVE  CarryStored' /\ Coherent'
  <2>1. \A q \in DOMAIN storage \ {p} : q \in DOMAIN storage' /\ storage'[q] = storage[q]
    BY <1>5, WithoutMap DEF RemoveStorage
  <2>2. /\ call'[t].kind = "remove" /\ call'[t].path = p
        /\ \A u \in Threads \ {t} : call'[u] = call[u]
    BY <1>0, <1>5 DEF RemoveStorage, TypeOK
  <2>. QED
    BY <1>1, <1>5, <2>1, <2>2 DEF RemoveStorage
<1>6. ASSUME NEW t \in Threads, SetFind(t)
      PROVE  CarryStored' /\ Coherent'
  <2>1. call[t] \in SetCall
    BY <1>0, <1>6, CallTyped DEF SetFind
  <2>2. /\ call'[t].kind = "set" /\ call[t].kind = "set" /\ call'[t].path = call[t].path
        /\ call'[t].val = call[t].val
        /\ call'[t].stage = "insert" => call[t].path \notin DOMAIN cache
        /\ \A u \in Threads \ {t} : call'[u] = call[u]
    BY <1>0, <1>6, <2>1 DEF SetFind, TypeOK, SetCall
  <2>3. storage' = storage /\ cache' = cache /\ raced' = raced
    BY <1>6 DEF SetFind
  <2>4. CarryStored'
    BY <2>2, <2>3 DEF CarryStored
  <2>5. \A q : Busy(q) => Busy(q)'
    BY <2>2 DEF Busy
  <2>. QED
    BY <2>3, <2>4, <2>5 DEF Coherent
<1>7. ASSUME NEW t \in Threads, Evict(t)
      PROVE  CarryStored' /\ Coherent'
  <2>1. DOMAIN cache' \subseteq DOMAIN cache /\ \A q \in DOMAIN cache' : cache'[q] = cache[q]
    BY <1>7, WithoutMap DEF Evict
  <2>. QED
    BY <1>7, <2>1, ShrinkAgrees DEF Evict
<1>8. ASSUME NEW t \in Threads, EvictThrows(t)
      PROVE  CarryStored' /\ Coherent'
  <2>1. DOMAIN cache' = {}
    <3>1. lru = <<>> /\ cache' = cache
      BY <1>8 DEF EvictThrows
    <3>2. DOMAIN lru = {}
      BY <3>1
    <3>. QED
      BY <1>0, <3>1, <3>2 DEF OneEntryEach
  <2>2. call[t].path \in Paths /\ In(t, call[t].path)
    BY <1>0, <1>8, CallTyped DEF EvictThrows, Full, In
  <2>. QED
    BY <1>2, <1>8, <2>1, <2>2 DEF EvictThrows, Returns
<1>9. ASSUME NEW t \in Threads, Insert(t)
      PROVE  CarryStored' /\ Coherent'
  <2>. DEFINE p == call[t].path
  <2>1. p \in Paths /\ In(t, p) /\ call[t].kind \in {"set", "get"}
        /\ call[t].stage = "insert"
    BY <1>0, <1>9, CallTyped DEF Insert, HasSpace, In
  <2>2. \/ cache' = cache
        \/ /\ DOMAIN cache' = DOMAIN cache \cup {p} /\ cache'[p] = call[t].val
           /\ \A q \in DOMAIN cache \ {p} : cache'[q] = cache[q]
    BY <1>9 DEF Insert, With
  <2>3. p \notin raced =>
          p \notin DOMAIN cache /\ p \in DOMAIN storage /\ storage[p] = call[t].val
    BY <2>1 DEF CarryStored
  <2>. QED
    BY <1>2, <1>9, <2>1, <2>2, <2>3 DEF Insert, Returns
<1>10. ASSUME NEW t \in Threads, Update(t)
       PROVE  CarryStored' /\ Coherent'
  <2>. DEFINE p == call[t].path
  <2>1. p \in Paths /\ In(t, p) /\ call[t].kind \in {"set", "get"}
    BY <1>0, <1>10, CallTyped DEF Update, HasSpace, In
  <2>2. /\ DOMAIN cache' = DOMAIN cache \cup {p} /\ cache'[p] = call[t].val
        /\ \A q \in DOMAIN cache \ {p} : cache'[q] = cache[q]
    BY <1>10 DEF Update, With
  <2>3. p \notin raced => p \in DOMAIN storage /\ storage[p] = call[t].val
    BY <2>1 DEF CarryStored
  <2>. QED
    BY <1>2, <1>10, <2>1, <2>2, <2>3 DEF Update, Returns
<1>11. ASSUME NEW t \in Threads, RemoveCached(t)
       PROVE  CarryStored' /\ Coherent'
  <2>. DEFINE p == call[t].path
  <2>1. p \in Paths /\ In(t, p)
    BY <1>0, <1>11, HoldingTyped DEF RemoveCached, RemoveCall, In
  <2>2. /\ DOMAIN cache' = DOMAIN cache \ {p}
        /\ \A q \in DOMAIN cache' : cache'[q] = cache[q]
    BY <1>11 DEF RemoveCached, Without
  <2>. QED
    BY <1>2, <1>11, <2>1, <2>2 DEF RemoveCached
<1>12. ASSUME raced' = raced, storage' = storage, call' = call, cache' = cache
       PROVE  CarryStored' /\ Coherent'
  BY <1>12, ShrinkAgrees
<1>13. ASSUME NEW t \in Threads, SetSize(t)
       PROVE  CarryStored' /\ Coherent'
  <2>1. call[t] \in SetCall
    BY <1>0, <1>13, HoldingTyped DEF SetSize
  <2>2. /\ call'[t].kind = "set" /\ call[t].kind = "set" /\ call'[t].path = call[t].path
        /\ call'[t].val = call[t].val /\ call'[t].stage = "update"
        /\ \A u \in Threads \ {t} : call'[u] = call[u]
    BY <1>0, <1>13, <2>1 DEF SetSize, TypeOK, SetCall
  <2>3. storage' = storage /\ cache' = cache /\ raced' = raced
    BY <1>13 DEF SetSize
  <2>4. CarryStored'
    BY <2>2, <2>3 DEF CarryStored
  <2>5. \A q : Busy(q) => Busy(q)'
    BY <2>2 DEF Busy
  <2>. QED
    BY <2>3, <2>4, <2>5 DEF Coherent
<1>14. ASSUME NEW t \in Threads, NEW p \in Paths, GetFind(t, p)
       PROVE  CarryStored' /\ Coherent'
  <2>1. \A u \in Threads : \/ call'[u] = call[u]
                           \/ {call[u].kind, call'[u].kind} \subseteq {"idle", "hit"}
    BY <1>0, <1>14 DEF GetFind, TypeOK, Idle
  <2>. QED
    BY <1>14, <2>1, ShrinkAgrees DEF GetFind
<1>15. ASSUME NEW t \in Threads, GetCached(t)
       PROVE  CarryStored' /\ Coherent'
  <2>1. call[t].kind = "hit"
    BY <1>0, <1>15, HoldingTyped DEF GetCached
  <2>2. \A u \in Threads : \/ call'[u] = call[u]
                           \/ {call[u].kind, call'[u].kind} \subseteq {"idle", "hit"}
    BY <1>0, <1>15, <2>1 DEF GetCached, Returns, ReturnsLeaving, TypeOK, Idle
  <2>. QED
    BY <1>15, <2>2, ShrinkAgrees DEF GetCached, Returns, ReturnsLeaving
<1>16. ASSUME NEW t \in Threads, RemoveFind(t)
       PROVE  CarryStored' /\ Coherent'
  <2>1. call[t] \in RemoveCall /\ call[t].path \in Paths /\ In(t, call[t].path)
    BY <1>0, <1>16, CallTyped DEF RemoveFind, RemoveCall, In
  <2>2. CASE Returns(t) /\ call[t].path \notin DOMAIN cache
    BY <1>2, <1>16, <2>1, <2>2 DEF RemoveFind, Returns
  <2>3. CASE call' = [call EXCEPT ![t].stage = "erase"] /\ raced' = raced
    <3>1. /\ call'[t].kind = "remove" /\ call'[t].path = call[t].path
          /\ \A u \in Threads \ {t} : call'[u] = call[u]
      BY <1>0, <1>16, <2>1, <2>3 DEF RemoveFind, TypeOK, RemoveCall
    <3>2. CarryStored'
      BY <1>16, <2>3, <3>1 DEF RemoveFind, CarryStored
    <3>3. \A q : Busy(q) => Busy(q)'
      BY <3>1 DEF Busy
    <3>. QED
      BY <1>16, <2>3, <3>2, <3>3 DEF RemoveFind, Coherent
  <2>. QED
    BY <1>16, <2>2, <2>3 DEF RemoveFind
<1>. QED
  BY <1>3, <1>4, <1>5, <1>6, <1>7, <1>8, <1>9, <1>10, <1>11, <1>12, <1>13, <1>14, <1>15,
     <1>16 DEF Next, Step, UsesErased, vars

\* Whatever threads, values, sizes and limit: a cached value is the storage's, except on
\* the path of a call that has changed the storage and not yet the cache, and on a path
\* whose last call overlapped another.
THEOREM CacheCoherent == Spec => []Coherent
<1>1. Init => Agreeing
  <2>. SUFFICES ASSUME Init PROVE Agreeing
    OBVIOUS
  <2>1. (\A t \in Threads : call[t] = Idle) /\ DOMAIN cache = {}
    BY DEF Init
  <2>. QED
    BY <2>1, PairedInit DEF Agreeing, OneCallEach, CarryStored, Coherent, In, Idle
<1>2. Agreeing /\ [Next]_vars => Agreeing'
  BY PairedStep, OneCallStep, AgreeStep DEF Agreeing
<1>3. Agreeing => Coherent
  BY DEF Agreeing
<1>. QED
  BY <1>1, <1>2, <1>3, PTL DEF Spec

-----------------------------------------------------------------------------
(***************************************************************************)
(* The order of the list: what ToBack, Except and pop_front() do to who    *)
(* stands before whom.                                                     *)
(***************************************************************************)
Precedes(s, x, y) == \E i, j \in DOMAIN s : i < j /\ s[i] = x /\ s[j] = y

\* Erasing an entry leaves the others in their order.
LEMMA ExceptOrder ==
  ASSUME NEW S, NEW s \in Seq(S), Distinct(s), NEW p \in Entries(s), NEW x, NEW y
  PROVE  Precedes(Except(s, p), x, y) <=> x # p /\ y # p /\ Precedes(s, x, y)
<1>. DEFINE at == CHOOSE i \in DOMAIN s : s[i] = p
            e == Except(s, p)
            n == Len(s)
            From(i) == IF i < at THEN i ELSE i + 1
<1>1. at \in 1 .. n /\ s[at] = p /\ n \in Nat /\ DOMAIN s = 1 .. n
  BY DEF Entries
<1>2. e = [i \in 1 .. n - 1 |-> IF i < at THEN s[i] ELSE s[i + 1]]
  BY DEF Except
<1>. HIDE DEF at, e, n
<1>3. \A i \in 1 .. n - 1 : From(i) \in 1 .. n /\ From(i) # at /\ e[i] = s[From(i)]
  BY <1>1, <1>2
<1>4. \A i, j \in 1 .. n - 1 : i < j <=> From(i) < From(j)
  BY <1>1
<1>5. \A k \in 1 .. n : k # at => \E i \in 1 .. n - 1 : From(i) = k
  <2>. TAKE k \in 1 .. n
  <2>1. CASE k < at
    BY <2>1, <1>1
  <2>2. CASE k > at
    <3>1. k - 1 \in 1 .. n - 1 /\ From(k - 1) = k
      BY <2>2, <1>1
    <3>. QED
      BY <3>1
  <2>. QED
    BY <2>1, <2>2, <1>1
<1>6. DOMAIN e = 1 .. n - 1
  BY <1>2
<1>. HIDE DEF From
<1>7. ASSUME Precedes(e, x, y)
      PROVE  x # p /\ y # p /\ Precedes(s, x, y)
  <2>1. PICK i, j \in 1 .. n - 1 : i < j /\ e[i] = x /\ e[j] = y
    BY <1>6, <1>7 DEF Precedes
  <2>. QED
    BY <1>1, <1>3, <1>4, <2>1 DEF Precedes, Distinct
<1>8. ASSUME x # p, y # p, Precedes(s, x, y)
      PROVE  Precedes(e, x, y)
  <2>1. PICK k, l \in 1 .. n : k < l /\ s[k] = x /\ s[l] = y
    BY <1>1, <1>8 DEF Precedes
  <2>2. PICK i \in 1 .. n - 1 : From(i) = k
    BY <1>1, <1>5, <1>8, <2>1
  <2>3. PICK j \in 1 .. n - 1 : From(j) = l
    BY <1>1, <1>5, <1>8, <2>1
  <2>. QED
    BY <1>3, <1>4, <1>6, <2>1, <2>2, <2>3 DEF Precedes
<1>. QED
  BY <1>7, <1>8 DEF e

\* A new entry at the end comes after all others, which keep their order.
LEMMA AppendOrder ==
  ASSUME NEW S, NEW s \in Seq(S), NEW p \in S, p \notin Entries(s), NEW x, NEW y
  PROVE  Precedes(Append(s, p), x, y) <=>
           \/ y = p /\ x \in Entries(s)
           \/ Precedes(s, x, y)
<1>. DEFINE a == Append(s, p)
            n == Len(s)
<1>1. /\ n \in Nat /\ DOMAIN s = 1 .. n
      /\ DOMAIN a = 1 .. n + 1 /\ a[n + 1] = p /\ \A i \in 1 .. n : a[i] = s[i]
  OBVIOUS
<1>. HIDE DEF a, n
<1>2. ASSUME Precedes(a, x, y)
      PROVE  (y = p /\ x \in Entries(s)) \/ Precedes(s, x, y)
  <2>1. PICK i, j \in 1 .. n + 1 : i < j /\ a[i] = x /\ a[j] = y
    BY <1>1, <1>2 DEF Precedes
  <2>2. i \in 1 .. n /\ (j \in 1 .. n \/ j = n + 1)
    BY <1>1, <2>1
  <2>. QED
    BY <1>1, <2>1, <2>2 DEF Precedes, Entries
<1>3. ASSUME Precedes(s, x, y)
      PROVE  Precedes(a, x, y)
  <2>1. PICK i, j \in 1 .. n : i < j /\ s[i] = x /\ s[j] = y
    BY <1>1, <1>3 DEF Precedes
  <2>2. i \in 1 .. n + 1 /\ j \in 1 .. n + 1
    BY <1>1
  <2>. QED
    BY <1>1, <2>1, <2>2 DEF Precedes
<1>4. ASSUME y = p, x \in Entries(s)
      PROVE  Precedes(a, x, y)
  <2>1. PICK i \in 1 .. n : s[i] = x
    BY <1>1, <1>4 DEF Entries
  <2>2. i \in 1 .. n + 1 /\ n + 1 \in 1 .. n + 1 /\ i < n + 1
    BY <1>1
  <2>. QED
    BY <1>1, <1>4, <2>1, <2>2 DEF Precedes
<1>. QED
  BY <1>2, <1>3, <1>4 DEF a

\* An entry moved to the end comes after all others, which keep their order.
LEMMA ToBackOrder ==
  ASSUME NEW S, NEW s \in Seq(S), Distinct(s), NEW p \in S, NEW x, NEW y
  PROVE  Precedes(ToBack(s, p), x, y) <=>
           /\ x # p
           /\ \/ y = p /\ x \in Entries(s)
              \/ y # p /\ Precedes(s, x, y)
<1>1. Precedes(s, x, y) => x \in Entries(s) /\ y \in Entries(s)
  BY DEF Precedes, Entries
<1>2. CASE p \in Entries(s)
  <2>1. ToBack(s, p) = Append(Except(s, p), p)
    BY <1>2 DEF ToBack, Entries
  <2>2. Except(s, p) \in Seq(S) /\ Entries(Except(s, p)) = Entries(s) \ {p}
    BY <1>2, ExceptList
  <2>3. Precedes(Except(s, p), x, y) <=> x # p /\ y # p /\ Precedes(s, x, y)
    BY <1>2, ExceptOrder
  <2>4. Precedes(Append(Except(s, p), p), x, y) <=>
          (y = p /\ x \in Entries(Except(s, p))) \/ Precedes(Except(s, p), x, y)
    BY <2>2, AppendOrder
  <2>. QED
    BY <2>1, <2>2, <2>3, <2>4
<1>3. CASE p \notin Entries(s)
  <2>1. ToBack(s, p) = Append(s, p)
    BY <1>3 DEF ToBack, Entries
  <2>2. Precedes(Append(s, p), x, y) <=> (y = p /\ x \in Entries(s)) \/ Precedes(s, x, y)
    BY <1>3, AppendOrder
  <2>. QED
    BY <1>1, <1>3, <2>1, <2>2
<1>. QED
  BY <1>2, <1>3

\* pop_front() leaves the others in their order.
LEMMA TailOrder ==
  ASSUME NEW S, NEW s \in Seq(S), s # <<>>, NEW x, NEW y, Precedes(Tail(s), x, y)
  PROVE  Precedes(s, x, y)
<1>. DEFINE n == Len(s)
            e == Tail(s)
<1>1. /\ n \in Nat /\ n > 0 /\ DOMAIN s = 1 .. n /\ DOMAIN e = 1 .. n - 1
      /\ \A i \in 1 .. n - 1 : e[i] = s[i + 1]
  OBVIOUS
<1>. HIDE DEF n, e
<1>2. PICK i, j \in 1 .. n - 1 : i < j /\ e[i] = x /\ e[j] = y
  BY <1>1 DEF Precedes, e
<1>3. i + 1 \in 1 .. n /\ j + 1 \in 1 .. n /\ i + 1 < j + 1
  BY <1>1, <1>2
<1>. QED
  BY <1>1, <1>2, <1>3 DEF Precedes

-----------------------------------------------------------------------------
(***************************************************************************)
(* The eviction order.  Inductive once recency is known to name every path *)
(* of the list, each once.                                                 *)
(***************************************************************************)
Ordered ==
  /\ Paired
  /\ Distinct(recency) /\ Entries(lru) \subseteq Entries(recency)
  /\ \A x, y \in Paths : Precedes(lru, x, y) => Precedes(recency, x, y)

\* A use of p, which moves it to the end of both.
LEMMA UseOrdered ==
  ASSUME Ordered, Paired', NEW p \in Paths,
         lru' = ToBack(lru, p), recency' = ToBack(recency, p)
  PROVE  Ordered'
<1>1. lru \in Seq(Paths) /\ recency \in Seq(Paths) /\ Distinct(lru) /\ Distinct(recency)
  BY DEF Ordered, Paired, TypeOK, OneEntryEach, Distinct
<1>2. /\ Entries(lru') = Entries(lru) \cup {p}
      /\ Entries(recency') = Entries(recency) \cup {p} /\ Distinct(recency')
  BY <1>1, ToBackList
<1>3. ASSUME NEW x \in Paths, NEW y \in Paths, Precedes(lru', x, y)
      PROVE  Precedes(recency', x, y)
  <2>1. x # p /\ ((y = p /\ x \in Entries(lru)) \/ (y # p /\ Precedes(lru, x, y)))
    BY <1>1, <1>3, ToBackOrder
  <2>2. x # p /\ ((y = p /\ x \in Entries(recency)) \/ (y # p /\ Precedes(recency, x, y)))
    BY <2>1 DEF Ordered
  <2>. QED
    BY <1>1, <2>2, ToBackOrder
<1>. QED
  BY <1>2, <1>3 DEF Ordered

\* A step that takes paths from the list without changing the order of the others.
LEMMA ShrinkOrdered ==
  ASSUME Ordered, Paired', recency' = recency, Entries(lru') \subseteq Entries(lru),
         \A x, y \in Paths : Precedes(lru', x, y) => Precedes(lru, x, y)
  PROVE  Ordered'
  BY DEF Ordered

LEMMA OrderedInit == Init => Ordered
<1>. SUFFICES ASSUME Init PROVE Ordered
  OBVIOUS
<1>1. lru = <<>> /\ recency = <<>> /\ DOMAIN <<>> = {}
  BY DEF Init
<1>. QED
  BY <1>1, PairedInit DEF Ordered, Distinct, Entries, Precedes

\* Every step keeps the list in the order of last use.
LEMMA OrderedStep ==
  ASSUME Ordered, [Next]_vars
  PROVE  Ordered'
<1>0. /\ Paired /\ Paired' /\ TypeOK /\ lru \in Seq(Paths) /\ Distinct(lru)
      /\ DOMAIN cache = Entries(lru)
  BY PairedStep DEF Ordered, Paired, TypeOK, OneEntryEach, Distinct, Entries
<1>1. CASE lru' = lru /\ recency' = recency
  BY <1>0, <1>1 DEF Ordered
<1>2. ASSUME NEW t \in Threads, Evict(t)
      PROVE  Ordered'
  <2>1. lru # <<>> /\ lru' = Tail(lru) /\ recency' = recency
    BY <1>2 DEF Evict
  <2>2. Entries(lru') \subseteq Entries(lru)
    BY <1>0, <2>1, TailList
  <2>3. \A x, y \in Paths : Precedes(lru', x, y) => Precedes(lru, x, y)
    BY <1>0, <2>1, TailOrder
  <2>. QED
    BY <1>0, <2>1, <2>2, <2>3, ShrinkOrdered
<1>3. ASSUME NEW t \in Threads, Insert(t)
      PROVE  Ordered'
  <2>. DEFINE p == call[t].path
  <2>1. p \in Paths
    BY <1>0, <1>3, CallTyped DEF Insert, HasSpace
  <2>2. CASE p \notin DOMAIN cache
    <3>1. lru' = Append(lru, p) /\ recency' = ToBack(recency, p)
      BY <1>3, <2>2 DEF Insert
    <3>2. lru' = ToBack(lru, p)
      BY <1>0, <2>2, <3>1 DEF ToBack, Entries
    <3>. QED
      BY <1>0, <2>1, <3>1, <3>2, UseOrdered
  <2>3. CASE p \in DOMAIN cache
    BY <1>1, <1>3, <2>3 DEF Insert
  <2>. QED
    BY <2>2, <2>3
<1>4. ASSUME NEW t \in Threads, Update(t)
      PROVE  Ordered'
  <2>1. /\ call[t].path \in Paths
        /\ lru' = ToBack(lru, call[t].path) /\ recency' = ToBack(recency, call[t].path)
    BY <1>0, <1>4, CallTyped DEF Update, HasSpace
  <2>. QED
    BY <1>0, <2>1, UseOrdered
<1>5. ASSUME NEW t \in Threads, GetCached(t)
      PROVE  Ordered'
  <2>1. /\ call[t].path \in Paths
        /\ lru' = ToBack(lru, call[t].path) /\ recency' = ToBack(recency, call[t].path)
    BY <1>0, <1>5, HoldingTyped DEF GetCached, Holding
  <2>. QED
    BY <1>0, <2>1, UseOrdered
<1>6. ASSUME NEW t \in Threads, RemoveCached(t)
      PROVE  Ordered'
  <2>. DEFINE p == call[t].path
  <2>1. p \in Entries(lru) /\ lru' = Except(lru, p) /\ recency' = recency
    BY <1>0, <1>6 DEF RemoveCached, Paired, Found, Holding
  <2>2. Entries(lru') \subseteq Entries(lru)
    BY <1>0, <2>1, ExceptList
  <2>3. \A x, y \in Paths : Precedes(lru', x, y) => Precedes(lru, x, y)
    BY <1>0, <2>1, ExceptOrder
  <2>. QED
    BY <1>0, <2>1, <2>2, <2>3, ShrinkOrdered
<1>. QED
  BY <1>1, <1>2, <1>3, <1>4, <1>5, <1>6
     DEF Next, Step, SetStorage, SetFind, SetSize, EvictThrows, UsesErased, GetFind,
         GetStored, RemoveStorage, RemoveFind, vars

\* The list is in the order of last use for any number of threads and of paths, so that
\* what freeCache takes from its front is always the least recently used.
THEOREM ListInOrderOfUse == Spec => []LruInOrder
<1>1. Ordered /\ [Next]_vars => Ordered'
  BY OrderedStep
<1>2. Ordered => LruInOrder
  <2>. SUFFICES ASSUME Ordered, NEW i \in DOMAIN lru, NEW j \in DOMAIN lru, i < j
                PROVE  UsedBefore(lru[i], lru[j])
    BY DEF LruInOrder
  <2>1. lru[i] \in Paths /\ lru[j] \in Paths
    BY DEF Ordered, Paired, TypeOK
  <2>2. Precedes(lru, lru[i], lru[j])
    BY DEF Precedes
  <2>. QED
    BY <2>1, <2>2 DEF Ordered, Precedes, UsedBefore
<1>. QED
  BY OrderedInit, <1>1, <1>2, PTL DEF Spec

-----------------------------------------------------------------------------
(***************************************************************************)
(* Undefined behaviour.  A thread erases what its own call has found only  *)
(* in freeCache, which setValue runs after a hit only for a value that     *)
(* grows; and a timer erases only entries of the paths it was started for. *)
(***************************************************************************)
Roles ==
  \A t \in Threads :
    /\ call[t].kind \in {"set", "get"} => t \in Clients
    /\ call[t].kind = "remove" => t \in Clients \/ call[t].path \in Timed

Erasures ==
  \A d \in dangling :
    /\ Holding(d[1])
    /\ d[1] = d[2] => Grows(d[1])
    /\ d[2] \notin Clients => call[d[1]].path \in Timed

Defined == Limited /\ Roles /\ Erasures

\* Only clients set and get values, and timers remove timed paths.
LEMMA RolesStep ==
  ASSUME TypeOK, Roles, [Next]_vars
  PROVE  Roles'
<1>1. ASSUME NEW t \in Threads, NEW p \in Paths, NEW v \in Values, t \in Clients,
             SetStorage(t, p, v)
      PROVE  Roles'
  BY <1>1 DEF SetStorage, TypeOK, Roles
<1>2. ASSUME NEW t \in Threads, NEW p \in Paths, t \in Clients, GetStored(t, p)
      PROVE  Roles'
  BY <1>2 DEF GetStored, TypeOK, Roles
<1>3. ASSUME NEW t \in Threads, NEW p \in Paths, t \in Clients \/ p \in Timed,
             RemoveStorage(t, p)
      PROVE  Roles'
  BY <1>3 DEF RemoveStorage, TypeOK, Roles
<1>4. ASSUME NEW t \in Threads, SetFind(t) \/ SetSize(t)
      PROVE  Roles'
  <2>1. call[t] \in SetCall
    BY <1>4, CallTyped, HoldingTyped DEF SetFind, SetSize
  <2>2. \A u \in Threads \ {t} : call'[u] = call[u]
    BY <1>4 DEF SetFind, SetSize, TypeOK
  <2>3. call'[t].kind = "set" /\ call[t].kind = "set"
    BY <1>4, <2>1 DEF SetFind, SetSize, SetCall, TypeOK
  <2>. QED
    BY <2>2, <2>3 DEF Roles
<1>5. ASSUME NEW t \in Threads, NEW erased, ReturnsLeaving(t, erased)
      PROVE  Roles'
  BY <1>5 DEF ReturnsLeaving, Idle, TypeOK, Roles
<1>6. ASSUME NEW t \in Threads, NEW p \in Paths, GetFind(t, p)
      PROVE  Roles'
  BY <1>6 DEF GetFind, TypeOK, Roles
<1>7. ASSUME NEW t \in Threads, RemoveFind(t)
      PROVE  Roles'
  <2>1. call[t] \in RemoveCall
    BY <1>7, CallTyped DEF RemoveFind
  <2>2. CASE call' = [call EXCEPT ![t].stage = "erase"]
    BY <2>1, <2>2 DEF TypeOK, RemoveCall, Roles
  <2>. QED
    BY <1>5, <1>7, <2>2 DEF RemoveFind, Returns
<1>8. CASE call' = call
  BY <1>8 DEF Roles
<1>. QED
  BY <1>1, <1>2, <1>3, <1>4, <1>5, <1>6, <1>7, <1>8
     DEF Next, Step, Evict, EvictThrows, Insert, Update, UsesErased, GetCached,
         RemoveCached, Returns, vars

\* Every step keeps the account of who erased whose entry.
LEMMA ErasuresStep ==
  ASSUME Defined, [Next]_vars
  PROVE  Erasures'
<1>. USE DEF Defined
<1>0. TypeOK
  BY DEF Limited, Paired
<1>1. ASSUME NEW t \in Threads, ~Dangles(t), \A u \in Threads \ {t} : call'[u] = call[u],
             dangling' = dangling
      PROVE  Erasures'
  <2>. SUFFICES ASSUME NEW d \in dangling
                PROVE  /\ Holding(d[1])'
                       /\ d[1] = d[2] => Grows(d[1])'
                       /\ d[2] \notin Clients => call'[d[1]].path \in Timed
    BY <1>1 DEF Erasures
  <2>1. d[1] \in Threads \ {t} /\ d[2] \in Threads
    <3>1. d \in Threads \X Threads
      BY <1>0 DEF TypeOK
    <3>2. d = <<d[1], d[2]>> /\ d[1] \in Threads /\ d[2] \in Threads
      BY <3>1
    <3>. QED
      BY <1>1, <3>2 DEF Dangles
  <2>2. call'[d[1]] = call[d[1]]
    BY <1>1, <2>1
  <2>. QED
    BY <2>2 DEF Erasures, Holding, Grows
<1>2. ASSUME NEW t \in Threads, ~Holding(t)
      PROVE  ~Dangles(t)
  BY <1>2 DEF Dangles, Erasures
<1>3. ASSUME NEW t \in Threads, NEW erased \in SUBSET (Threads \X Threads),
             ReturnsLeaving(t, erased),
             \A d \in erased \ dangling :
               /\ Holding(d[1])
               /\ d[1] # t => d[1] # d[2]
               /\ d[2] \notin Clients => call[d[1]].path \in Timed
      PROVE  Erasures'
  <2>. SUFFICES ASSUME NEW d \in dangling'
                PROVE  /\ Holding(d[1])'
                       /\ d[1] = d[2] => Grows(d[1])'
                       /\ d[2] \notin Clients => call'[d[1]].path \in Timed
    BY DEF Erasures
  <2>1. d \in erased /\ d[1] # t /\ d[1] \in Threads
    BY <1>3 DEF ReturnsLeaving
  <2>2. call'[d[1]] = call[d[1]]
    BY <1>0, <1>3, <2>1 DEF ReturnsLeaving, TypeOK
  <2>. QED
    BY <1>3, <2>1, <2>2 DEF Erasures, Holding, Grows
<1>4. ASSUME NEW t \in Threads, Returns(t)
      PROVE  Erasures'
  BY <1>0, <1>3, <1>4 DEF Returns, TypeOK
<1>5. ASSUME NEW t \in Threads, NEW p \in Paths, NEW v \in Values, SetStorage(t, p, v)
      PROVE  Erasures'
  <2>1. ~Dangles(t)
    BY <1>2, <1>5 DEF SetStorage, Holding, Idle
  <2>. QED
    BY <1>0, <1>1, <1>5, <2>1 DEF SetStorage, TypeOK
<1>6. ASSUME NEW t \in Threads, NEW p \in Paths, GetStored(t, p) \/ GetFind(t, p)
      PROVE  Erasures'
  <2>1. ~Dangles(t)
    BY <1>2, <1>6 DEF GetStored, GetFind, Holding, Idle
  <2>. QED
    BY <1>0, <1>1, <1>6, <2>1 DEF GetStored, GetFind, TypeOK
<1>7. ASSUME NEW t \in Threads, NEW p \in Paths, RemoveStorage(t, p)
      PROVE  Erasures'
  <2>1. ~Dangles(t)
    BY <1>2, <1>7 DEF RemoveStorage, Holding, Idle
  <2>. QED
    BY <1>0, <1>1, <1>7, <2>1 DEF RemoveStorage, TypeOK
<1>8. ASSUME NEW t \in Threads, SetFind(t)
      PROVE  Erasures'
  <2>1. ~Dangles(t)
    BY <1>2, <1>8 DEF SetFind, Holding
  <2>. QED
    BY <1>0, <1>1, <1>8, <2>1 DEF SetFind, TypeOK
<1>9. ASSUME NEW t \in Threads, SetSize(t)
      PROVE  Erasures'
  BY <1>0, <1>1, <1>9 DEF SetSize, TypeOK
<1>10. ASSUME NEW t \in Threads, RemoveFind(t)
       PROVE  Erasures'
  <2>1. ~Dangles(t)
    BY <1>2, <1>10 DEF RemoveFind, Holding
  <2>2. CASE call' = [call EXCEPT ![t].stage = "erase"] /\ dangling' = dangling
    BY <1>0, <1>1, <2>1, <2>2 DEF TypeOK
  <2>. QED
    BY <1>4, <1>10, <2>2 DEF RemoveFind
<1>11. ASSUME NEW t \in Threads, Evict(t)
       PROVE  Erasures'
  <2>. DEFINE p == Head(lru)
  <2>1. dangling' = ErasedBy(t, p) /\ call' = call /\ Full(t)
    BY <1>11 DEF Evict
  <2>2. t \in Clients
    BY <2>1 DEF Full, Roles
  <2>. SUFFICES ASSUME NEW d \in ErasedBy(t, p) \ dangling
                PROVE  /\ Holding(d[1])
                       /\ d[1] = d[2] => Grows(d[1])
                       /\ d[2] \notin Clients => call[d[1]].path \in Timed
    BY <2>1 DEF Erasures, Holding, Grows
  <2>3. d[1] \in Holders(p) /\ d[2] = t
    BY <1>0, ErasedTyped
  <2>4. Holding(d[1])
    BY <2>3 DEF Holders
  <2>5. ASSUME d[1] = d[2] PROVE Grows(t)
    <3>1. call[t].stage = "update" /\ call[t].need > 0
      BY <2>1, <2>3, <2>4, <2>5 DEF Full, Holding
    <3>2. call[t].kind = "set"
      BY <1>0, <3>1, HoldingTyped
    <3>3. call[t].need = Growth(call[t])
      BY <3>1, <3>2 DEF Limited, NeedIsGrowth
    <3>. QED
      BY <3>1, <3>2, <3>3 DEF Growth, Grows
  <2>. QED
    BY <2>2, <2>3, <2>4, <2>5
<1>12. ASSUME NEW t \in Threads, RemoveCached(t)
       PROVE  Erasures'
  <2>. DEFINE p == call[t].path
  <2>1. ReturnsLeaving(t, ErasedBy(t, p)) /\ call[t].kind = "remove"
    BY <1>0, <1>12, HoldingTyped DEF RemoveCached
  <2>2. t \in Clients \/ p \in Timed
    BY <2>1 DEF Roles
  <2>3. ASSUME NEW d \in ErasedBy(t, p) \ dangling
        PROVE  /\ Holding(d[1])
               /\ d[1] # t => d[1] # d[2]
               /\ d[2] \notin Clients => call[d[1]].path \in Timed
    <3>1. d[1] \in Holders(p) /\ d[2] = t
      BY <1>0, <2>3, ErasedTyped
    <3>. QED
      BY <2>2, <3>1 DEF Holders
  <2>4. ErasedBy(t, p) \in SUBSET (Threads \X Threads)
    BY <1>0, ErasedTyped
  <2>. QED
    BY <1>3, <2>1, <2>3, <2>4
<1>13. ASSUME call' = call, dangling' = dangling
       PROVE  Erasures'
  BY <1>13 DEF Erasures, Holding, Grows
<1>. QED
  BY <1>4, <1>5, <1>6, <1>7, <1>8, <1>9, <1>10, <1>11, <1>12, <1>13
     DEF Next, Step, EvictThrows, Insert, Update, GetCached, UsesErased, vars

\* For any clients, timers, sizes and limit: an erased entry is used only after another
\* thread has come between find and use, or freeCache has made space for the very value
\* that grows; and a timer takes away entries of timed paths only.
THEOREM UndefinedOnlySo == Spec => []UndefinedByGrowthOrRace
<1>. DEFINE Safe == Defined /\ UndefinedByGrowthOrRace
<1>1. Init => Safe
  <2>. SUFFICES ASSUME Init PROVE Safe
    OBVIOUS
  <2>1. (\A t \in Threads : call[t] = Idle) /\ dangling = {} /\ undefined = FALSE
    BY DEF Init
  <2>. QED
    BY <2>1, LimitedInit DEF Defined, Idle, Roles, Erasures, UndefinedByGrowthOrRace
<1>2. Safe /\ [Next]_vars => Safe'
  <2>. SUFFICES ASSUME Safe, [Next]_vars PROVE Safe'
    OBVIOUS
  <2>1. Defined'
    BY LimitedStep, RolesStep, ErasuresStep DEF Defined, Limited, Paired
  <2>2. undefined' => dangling' # {}
    <3>1. CASE UNCHANGED vars
      <4>1. undefined' = undefined /\ dangling' = dangling
        BY <3>1 DEF vars
      <4>. QED
        BY <4>1, Zenon DEF UndefinedByGrowthOrRace
    <3>2. ASSUME NEW t \in Threads, UsesErased(t) PROVE dangling' # {}
      BY <3>2 DEF UsesErased, Dangles
    <3>3. CASE Next
      <4>1. ~undefined
        BY <3>3 DEF Next
      <4>2. undefined' = undefined \/ \E t \in Threads : UsesErased(t)
        BY <3>3 DEF Next, Step, SetStorage, SetFind, SetSize, Evict, EvictThrows, Insert,
                    Update, GetFind, GetCached, GetStored, RemoveStorage, RemoveFind,
                    RemoveCached
      <4>3. CASE undefined' = undefined
        BY <4>1, <4>3, Zenon
      <4>. QED
        BY <3>2, <4>2, <4>3
    <3>. QED
      BY <3>1, <3>3
  <2>. QED
    BY <2>1, <2>2 DEF Defined, Erasures, UndefinedByGrowthOrRace, Grows
<1>3. Safe => UndefinedByGrowthOrRace
  OBVIOUS
<1>. QED
  BY <1>1, <1>2, <1>3, PTL DEF Spec

-----------------------------------------------------------------------------
(***************************************************************************)
(* The size of what is cached.  SizeOf is defined by a recursion over the  *)
(* paths in an order nobody knows.  It is well defined, and independent of *)
(* that order, because it is the number of pairs of a path and the place   *)
(* of a byte in its value.                                                 *)
(***************************************************************************)
BytesAt(m, p) == {p} \X (1 .. Size[m[p]])
Bytes(m, S) == UNION {BytesAt(m, p) : p \in S}

LEMMA DisjointSum ==
  ASSUME NEW S, IsFiniteSet(S), NEW T, IsFiniteSet(T), S \cap T = {}
  PROVE  IsFiniteSet(S \cup T) /\ Cardinality(S \cup T) = Cardinality(S) + Cardinality(T)
<1>1. Cardinality(S \cup T) = Cardinality(S) + Cardinality(T) - 0
  BY FS_Union, FS_EmptySet
<1>2. Cardinality(S) \in Nat /\ Cardinality(T) \in Nat
  BY FS_CardinalityType
<1>3. IsFiniteSet(S \cup T)
  BY FS_Union
<1>. QED
  BY <1>1, <1>2, <1>3

LEMMA UpTo ==
  ASSUME NEW n \in Nat
  PROVE  IsFiniteSet(1 .. n) /\ Cardinality(1 .. n) = n
<1>1. IsFiniteSet(1 .. n) /\ Cardinality(1 .. n) = (IF 1 > n THEN 0 ELSE n - 1 + 1)
  BY FS_Interval
<1>2. (IF 1 > n THEN 0 ELSE n - 1 + 1) = n
  OBVIOUS
<1>. QED
  BY <1>1, <1>2

\* The bytes at one path.
LEMMA OneMore ==
  ASSUME NEW m, NEW S, NEW p \in S, Size[m[p]] \in Nat, IsFiniteSet(Bytes(m, S \ {p}))
  PROVE  /\ IsFiniteSet(Bytes(m, S))
         /\ Cardinality(Bytes(m, S)) = Size[m[p]] + Cardinality(Bytes(m, S \ {p}))
<1>. DEFINE n == Size[m[p]]
<1>1. IsFiniteSet({p}) /\ Cardinality({p}) = 1
  BY FS_Singleton
<1>2. IsFiniteSet(1 .. n) /\ Cardinality(1 .. n) = n
  BY UpTo
<1>3. IsFiniteSet(BytesAt(m, p)) /\ Cardinality(BytesAt(m, p)) = 1 * n
  BY <1>1, <1>2, FS_Product DEF BytesAt
<1>4. Bytes(m, S) = BytesAt(m, p) \cup Bytes(m, S \ {p})
  BY DEF Bytes
<1>5. BytesAt(m, p) \cap Bytes(m, S \ {p}) = {}
  BY DEF Bytes, BytesAt
<1>6. Cardinality(Bytes(m, S \ {p})) \in Nat
  BY FS_CardinalityType
<1>7. /\ IsFiniteSet(BytesAt(m, p) \cup Bytes(m, S \ {p}))
      /\ Cardinality(BytesAt(m, p) \cup Bytes(m, S \ {p}))
           = Cardinality(BytesAt(m, p)) + Cardinality(Bytes(m, S \ {p}))
  BY Zenon, <1>3, <1>5, DisjointSum
<1>. HIDE DEF n
<1>8. n \in Nat
  BY DEF n
<1>. QED
  BY <1>3, <1>4, <1>6, <1>7, <1>8 DEF n

\* Finitely many values have finitely many bytes.
LEMMA BytesFinite ==
  ASSUME NEW m, NEW D, IsFiniteSet(D), \A p \in D : Size[m[p]] \in Nat
  PROVE  \A S \in SUBSET D : IsFiniteSet(Bytes(m, S))
<1>. DEFINE G == {S \in FiniteSubsetsOf(D) : ~IsFiniteSet(Bytes(m, S))}
<1>1. \A S \in SUBSET D : S \in FiniteSubsetsOf(D)
  BY FS_Subset DEF FiniteSubsetsOf
<1>. SUFFICES ASSUME G # {} PROVE FALSE
  BY <1>1
<1>2. PICK L \in G : \A K \in G : K \subseteq L => K = L
  <2>1. G \in SUBSET FiniteSubsetsOf(D)
    OBVIOUS
  <2>. HIDE DEF G
  <2>. QED
    BY <2>1, HasSmallestSet
<1>3. L \in SUBSET D
  BY DEF FiniteSubsetsOf
<1>4. L # {}
  BY FS_EmptySet DEF Bytes
<1>5. PICK p \in L : TRUE
  BY <1>4
<1>6. L \ {p} \in FiniteSubsetsOf(D) /\ L \ {p} \subseteq L /\ L \ {p} # L
  BY <1>1, <1>3, <1>5
<1>7. IsFiniteSet(Bytes(m, L \ {p}))
  BY <1>2, <1>6
<1>8. p \in D /\ Size[m[p]] \in Nat
  BY <1>3, <1>5
<1>9. IsFiniteSet(Bytes(m, L))
  BY <1>5, <1>7, <1>8, OneMore
<1>. QED
  BY <1>2, <1>9

\* What the recursion computes.
LEMMA SizeIsBytes ==
  ASSUME NEW m, IsFiniteSet(DOMAIN m), \A p \in DOMAIN m : Size[m[p]] \in Nat
  PROVE  SizeOf(m) = Cardinality(Bytes(m, DOMAIN m))
<1>. DEFINE D == DOMAIN m
            Some(S) == CHOOSE q \in S : TRUE
            Sums(g) == g = [S \in SUBSET D |->
                              IF S = {} THEN 0
                              ELSE LET p == CHOOSE q \in S : TRUE
                                   IN  Size[m[p]] + g[S \ {p}]]
            total == CHOOSE g : Sums(g)
            Card(S) == Cardinality(Bytes(m, S))
            card == [S \in SUBSET D |-> Card(S)]
<1>1. SizeOf(m) = total[D]
  BY DEF SizeOf
<1>2. \A S \in SUBSET D : S # {} => Some(S) \in S /\ S \ {Some(S)} \in SUBSET D
  OBVIOUS
<1>3. Card({}) = 0
  BY FS_EmptySet DEF Bytes
<1>4. ASSUME NEW S \in SUBSET D, S # {}
      PROVE  Card(S) = Size[m[Some(S)]] + Card(S \ {Some(S)})
  <2>. DEFINE p == Some(S)
  <2>1. p \in S /\ Size[m[p]] \in Nat
    BY <1>2, <1>4
  <2>2. IsFiniteSet(Bytes(m, S \ {p}))
    BY <1>2, <1>4, BytesFinite
  <2>. HIDE DEF p, Some
  <2>3. Card(S) = Size[m[p]] + Card(S \ {p})
    BY <2>1, <2>2, OneMore
  <2>. QED
    BY <2>3 DEF p
<1>. HIDE DEF Card
<1>5. Sums(total)
  <2>1. Sums(card)
    <3>1. \A S \in SUBSET D : card[S] = IF S = {} THEN 0
                                        ELSE Size[m[Some(S)]] + card[S \ {Some(S)}]
      BY <1>2, <1>3, <1>4
    <3>. QED
      BY <3>1
  <2>. HIDE DEF card, Sums
  <2>. QED
    BY <2>1
<1>. HIDE DEF total
<1>6. \A S \in SUBSET D : total[S] = IF S = {} THEN 0
                                     ELSE Size[m[Some(S)]] + total[S \ {Some(S)}]
  BY <1>5
<1>. HIDE DEF Some, Sums, D
<1>7. \A S \in SUBSET D : total[S] = Card(S)
  <2>. DEFINE G == {S \in FiniteSubsetsOf(D) : total[S] # Card(S)}
  <2>1. \A S \in SUBSET D : S \in FiniteSubsetsOf(D)
    BY FS_Subset DEF FiniteSubsetsOf, D
  <2>. SUFFICES ASSUME G # {} PROVE FALSE
    BY <2>1
  <2>2. PICK L \in G : \A K \in G : K \subseteq L => K = L
    <3>1. G \in SUBSET FiniteSubsetsOf(D)
      OBVIOUS
    <3>. HIDE DEF G
    <3>. QED
      BY <3>1, HasSmallestSet
  <2>3. L \in SUBSET D
    BY DEF FiniteSubsetsOf
  <2>4. L # {}
    BY <1>3, <1>6, <2>3
  <2>5. Some(L) \in L /\ L \ {Some(L)} \in SUBSET D
    BY <1>2, <2>3, <2>4
  <2>6. total[L \ {Some(L)}] = Card(L \ {Some(L)})
    BY <2>1, <2>2, <2>5
  <2>. QED
    BY <1>4, <1>6, <2>3, <2>4, <2>6
<1>. QED
  BY <1>1, <1>7 DEF Card, D

\* A map of finitely many values of Values.
SizedMap(m) == IsFiniteSet(DOMAIN m) /\ \A p \in DOMAIN m : Size[m[p]] \in Nat

\* Taking an entry out takes its size off.
LEMMA SizeWithout ==
  ASSUME NEW m, SizedMap(m), NEW p \in DOMAIN m
  PROVE  /\ SizedMap(Without(m, p))
         /\ SizeOf(Without(m, p)) \in Nat
         /\ SizeOf(m) = Size[m[p]] + SizeOf(Without(m, p))
<1>. DEFINE w == Without(m, p)
<1>1. /\ DOMAIN w = DOMAIN m \ {p}
      /\ \A q \in DOMAIN w : w[q] = m[q]
  BY WithoutMap
<1>2. IsFiniteSet(DOMAIN w)
  BY <1>1, FS_RemoveElement DEF SizedMap
<1>. HIDE DEF w
<1>3. SizedMap(w)
  BY <1>1, <1>2 DEF SizedMap
<1>4. Bytes(w, DOMAIN w) = Bytes(m, DOMAIN m \ {p})
  BY <1>1 DEF Bytes, BytesAt
<1>5. IsFiniteSet(Bytes(m, DOMAIN m \ {p}))
  <2>1. DOMAIN m \ {p} \in SUBSET DOMAIN m
    OBVIOUS
  <2>. QED
    BY <2>1, BytesFinite DEF SizedMap
<1>6. Cardinality(Bytes(m, DOMAIN m)) = Size[m[p]] + Cardinality(Bytes(m, DOMAIN m \ {p}))
  BY <1>5, OneMore DEF SizedMap
<1>7. SizeOf(m) = Cardinality(Bytes(m, DOMAIN m))
  BY SizeIsBytes DEF SizedMap
<1>8. SizeOf(w) = Cardinality(Bytes(w, DOMAIN w))
  BY <1>3, SizeIsBytes DEF SizedMap
<1>9. SizeOf(w) \in Nat
  BY <1>4, <1>5, <1>8, FS_CardinalityType
<1>. QED
  BY <1>3, <1>4, <1>6, <1>7, <1>8, <1>9 DEF w

\* Writing an entry puts its size on, and takes off that of the entry it replaces.
LEMMA SizeWith ==
  ASSUME NEW m, SizedMap(m), NEW p, NEW v, Size[v] \in Nat
  PROVE  /\ SizedMap(With(m, p, v))
         /\ p \notin DOMAIN m => SizeOf(With(m, p, v)) = Size[v] + SizeOf(m)
         /\ p \in DOMAIN m => SizeOf(With(m, p, v)) = Size[v] + SizeOf(Without(m, p))
<1>. DEFINE w == With(m, p, v)
            r == Without(m, p)
<1>1. /\ DOMAIN w = DOMAIN m \cup {p} /\ w[p] = v
      /\ \A q \in DOMAIN m \ {p} : w[q] = m[q]
  BY DEF With
<1>2. IsFiniteSet(DOMAIN w)
  BY <1>1, FS_AddElement DEF SizedMap
<1>3. Without(w, p) = r
  BY <1>1 DEF Without
<1>4. DOMAIN r = DOMAIN m \ {p} /\ \A q \in DOMAIN r : r[q] = m[q]
  BY DEF Without
<1>. HIDE DEF w, r
<1>5. SizedMap(w)
  BY <1>1, <1>2 DEF SizedMap
<1>6. SizeOf(w) = Size[v] + SizeOf(Without(w, p))
  BY <1>1, <1>5, SizeWithout
<1>7. p \notin DOMAIN m => SizeOf(r) = SizeOf(m)
  <2>. SUFFICES ASSUME p \notin DOMAIN m PROVE SizeOf(r) = SizeOf(m)
    OBVIOUS
  <2>1. DOMAIN r = DOMAIN m /\ SizedMap(r) /\ Bytes(r, DOMAIN r) = Bytes(m, DOMAIN m)
    BY <1>4 DEF SizedMap, Bytes, BytesAt
  <2>. QED
    BY <2>1, SizeIsBytes DEF SizedMap
<1>. QED
  BY <1>3, <1>5, <1>6, <1>7 DEF w, r

\* The size of what is cached is a natural.
LEMMA SizeIsNat ==
  ASSUME NEW m, SizedMap(m)
  PROVE  SizeOf(m) \in Nat
<1>1. IsFiniteSet(Bytes(m, DOMAIN m))
  BY BytesFinite DEF SizedMap
<1>. QED
  BY <1>1, SizeIsBytes, FS_CardinalityType DEF SizedMap

\* The cache is finite, since the list of its paths is.
LEMMA CacheSized ==
  ASSUME Paired
  PROVE  SizedMap(cache)
<1>1. lru \in Seq(Paths) /\ Len(lru) \in Nat /\ DOMAIN lru = 1 .. Len(lru)
  BY DEF Paired, TypeOK
<1>2. lru \in Surjection(1 .. Len(lru), DOMAIN cache)
  <2>1. DOMAIN cache = {lru[i] : i \in DOMAIN lru}
    BY DEF Paired, OneEntryEach
  <2>2. lru \in [1 .. Len(lru) -> DOMAIN cache]
    BY <1>1, <2>1
  <2>. QED
    BY <1>1, <2>1, <2>2 DEF Surjection
<1>3. IsFiniteSet(DOMAIN cache)
  BY <1>1, <1>2, UpTo, FS_Surjection
<1>. QED
  BY <1>3, CacheAssumption DEF Paired, TypeOK, SizedMap

-----------------------------------------------------------------------------
(***************************************************************************)
(* The accounting.  With one client, the size that setValue subtracts for  *)
(* the entry it overwrites, read before freeCache, is still that entry's.  *)
(***************************************************************************)
OldIsCached ==
  \A t \in Threads :
    call[t].kind = "set" /\ call[t].stage = "update" /\ call[t].path \in DOMAIN cache
      => call[t].old = Size[cache[call[t].path]]

Accounted == Paired /\ Roles /\ OldIsCached /\ Accounting

LEMMA OldStep ==
  ASSUME NEW c, Clients = {c}, Accounted, [Next]_vars
  PROVE  OldIsCached'
<1>. USE DEF Accounted
<1>0. TypeOK /\ OneEntryEach
  BY DEF Paired
<1>1. ASSUME NEW t \in Threads, \A u \in Threads \ {t} : call'[u] = call[u],
             cache' = cache, call'[t].kind = "set" => call'[t].stage # "update"
      PROVE  OldIsCached'
  BY <1>1 DEF OldIsCached
<1>2. ASSUME \A u \in Threads : call'[u] = call[u] \/ call'[u] = Idle,
             \A q \in DOMAIN cache' : q \in DOMAIN cache /\ cache'[q] = cache[q]
      PROVE  OldIsCached'
  BY <1>2 DEF OldIsCached, Idle
<1>3. ASSUME NEW t \in Threads, Returns(t), t \in Clients
      PROVE  OldIsCached'
  <2>1. \A u \in Threads : call'[u].kind # "set"
    BY <1>0, <1>3 DEF Returns, ReturnsLeaving, TypeOK, Idle, Roles
  <2>. QED
    BY <2>1 DEF OldIsCached
<1>4. ASSUME NEW t \in Threads, NEW p \in Paths, NEW v \in Values, SetStorage(t, p, v)
      PROVE  OldIsCached'
  BY <1>0, <1>1, <1>4 DEF SetStorage, TypeOK
<1>5. ASSUME NEW t \in Threads, NEW p \in Paths, GetStored(t, p)
      PROVE  OldIsCached'
  BY <1>0, <1>1, <1>5 DEF GetStored, TypeOK
<1>6. ASSUME NEW t \in Threads, NEW p \in Paths, RemoveStorage(t, p)
      PROVE  OldIsCached'
  BY <1>0, <1>1, <1>6 DEF RemoveStorage, TypeOK
<1>7. ASSUME NEW t \in Threads, SetFind(t)
      PROVE  OldIsCached'
  <2>1. call[t] \in SetCall
    BY <1>0, <1>7, CallTyped DEF SetFind
  <2>2. call'[t].stage # "update" /\ \A u \in Threads \ {t} : call'[u] = call[u]
    BY <1>0, <1>7, <2>1 DEF SetFind, TypeOK, SetCall
  <2>. QED
    BY <1>1, <1>7, <2>2 DEF SetFind
<1>13. ASSUME NEW t \in Threads, SetSize(t)
       PROVE  OldIsCached'
  <2>1. call[t] \in SetCall
    BY <1>0, <1>13, HoldingTyped DEF SetSize
  <2>2. /\ call'[t].path = call[t].path /\ call'[t].old = Size[cache[call[t].path]]
        /\ \A u \in Threads \ {t} : call'[u] = call[u]
    BY <1>0, <1>13, <2>1 DEF SetSize, TypeOK, SetCall
  <2>. QED
    BY <1>13, <2>2 DEF SetSize, OldIsCached
<1>14. ASSUME NEW t \in Threads, NEW p \in Paths, GetFind(t, p)
       PROVE  OldIsCached'
  BY <1>0, <1>1, <1>14 DEF GetFind, TypeOK
<1>15. ASSUME NEW t \in Threads, GetCached(t)
       PROVE  OldIsCached'
  BY <1>0, <1>2, <1>15 DEF GetCached, Returns, ReturnsLeaving, TypeOK
<1>16. ASSUME NEW t \in Threads, RemoveFind(t)
       PROVE  OldIsCached'
  <2>1. call[t] \in RemoveCall
    BY <1>0, <1>16, CallTyped DEF RemoveFind
  <2>2. call'[t].kind # "set" /\ \A u \in Threads \ {t} : call'[u] = call[u]
    BY <1>0, <1>16, <2>1 DEF RemoveFind, Returns, ReturnsLeaving, TypeOK, Idle, RemoveCall
  <2>. QED
    BY <1>1, <1>16, <2>2 DEF RemoveFind
<1>8. ASSUME NEW t \in Threads, Evict(t)
      PROVE  OldIsCached'
  BY <1>2, <1>8 DEF Evict, Without
<1>9. ASSUME NEW t \in Threads, EvictThrows(t)
      PROVE  OldIsCached'
  BY <1>0, <1>2, <1>9 DEF EvictThrows, Returns, ReturnsLeaving, TypeOK
<1>10. ASSUME NEW t \in Threads, Insert(t) \/ Update(t)
       PROVE  OldIsCached'
  <2>1. call[t].kind \in {"set", "get"} /\ Returns(t)
    BY <1>10 DEF Insert, Update, HasSpace
  <2>. QED
    BY <1>3, <2>1 DEF Roles
<1>11. ASSUME NEW t \in Threads, RemoveCached(t)
       PROVE  OldIsCached'
  <2>1. \A q \in DOMAIN cache' : q \in DOMAIN cache /\ cache'[q] = cache[q]
    BY <1>11 DEF RemoveCached, Without
  <2>. QED
    BY <1>0, <1>2, <1>11, <2>1 DEF RemoveCached, ReturnsLeaving, TypeOK
<1>12. CASE call' = call /\ cache' = cache
  BY <1>2, <1>12
<1>. QED
  BY <1>4, <1>5, <1>6, <1>7, <1>8, <1>9, <1>10, <1>11, <1>12, <1>13, <1>14, <1>15, <1>16
     DEF Next, Step, UsesErased, vars

\* Every step changes m_currentSize by what it changes the cache by, but for what
\* removeValue loses.
LEMMA AccountStep ==
  ASSUME Accounted, [Next]_vars
  PROVE  Accounting'
<1>. USE DEF Accounted
<1>0. TypeOK /\ OneEntryEach /\ SizedMap(cache) /\ SizeOf(cache) \in Nat
  BY CacheSized, SizeIsNat DEF Paired
<1>1. current \in Int /\ lost \in Nat /\ current = SizeOf(cache) + lost
  BY <1>0 DEF TypeOK, Accounting
<1>2. ASSUME NEW t \in Threads, Evict(t)
      PROVE  Accounting'
  <2>1. Head(lru) \in DOMAIN cache
    BY <1>0, <1>2, TailList DEF Evict, TypeOK, OneEntryEach, Distinct, Entries
  <2>2. Size[cache[Head(lru)]] \in Nat
    BY <1>0, <2>1 DEF SizedMap
  <2>3. SizeOf(cache) = Size[cache[Head(lru)]] + SizeOf(cache') /\ SizeOf(cache') \in Nat
    BY <1>0, <1>2, <2>1, SizeWithout DEF Evict
  <2>4. current' = current - Size[cache[Head(lru)]] /\ lost' = lost
    BY <1>2 DEF Evict
  <2>. QED
    BY <1>0, <1>1, <2>2, <2>3, <2>4 DEF Accounting
<1>3. ASSUME NEW t \in Threads, Insert(t)
      PROVE  Accounting'
  <2>. DEFINE p == call[t].path
              v == call[t].val
  <2>1. Size[v] \in Nat
    BY <1>0, <1>3, CallTyped DEF Insert, HasSpace
  <2>2. CASE p \in DOMAIN cache
    BY <1>1, <1>3, <2>2 DEF Insert, Accounting
  <2>3. CASE p \notin DOMAIN cache
    <3>1. cache' = With(cache, p, v) /\ current' = current + Size[v] /\ lost' = lost
      BY <1>3, <2>3 DEF Insert
    <3>. HIDE DEF p, v
    <3>2. SizeOf(cache') = Size[v] + SizeOf(cache)
      BY <1>0, <2>1, <2>3, <3>1, SizeWith
    <3>. QED
      BY <1>0, <1>1, <2>1, <3>1, <3>2 DEF Accounting
  <2>. QED
    BY <2>2, <2>3
<1>4. ASSUME NEW t \in Threads, Update(t)
      PROVE  Accounting'
  <2>. DEFINE p == call[t].path
              v == call[t].val
              o == Size[cache[p]]
  <2>1. Size[v] \in Nat /\ p \in DOMAIN cache
    BY <1>0, <1>4, CallTyped DEF Update, HasSpace, Paired, Found, Holding
  <2>2. call[t].old = o
    BY <1>0, <1>4, <2>1, CallTyped DEF Update, HasSpace, OldIsCached, GetCall
  <2>3. cache' = With(cache, p, v) /\ current' = current - o + Size[v] /\ lost' = lost
    BY <1>4, <2>2 DEF Update
  <2>4. o \in Nat
    BY <1>0, <2>1 DEF SizedMap
  <2>5. /\ SizeOf(cache) = o + SizeOf(Without(cache, p))
        /\ SizeOf(Without(cache, p)) \in Nat
    BY <1>0, <2>1, SizeWithout
  <2>. HIDE DEF p, v, o
  <2>6. SizeOf(cache') = Size[v] + SizeOf(Without(cache, p))
    BY <1>0, <2>1, <2>3, SizeWith
  <2>. QED
    BY <1>1, <2>1, <2>3, <2>4, <2>5, <2>6 DEF Accounting
<1>5. ASSUME NEW t \in Threads, RemoveCached(t)
      PROVE  Accounting'
  <2>. DEFINE p == call[t].path
              o == Size[cache[p]]
  <2>1. p \in DOMAIN cache
    BY <1>5 DEF RemoveCached, Paired, Found, Holding
  <2>2. cache' = Without(cache, p) /\ current' = current /\ lost' = lost + o
    BY <1>5 DEF RemoveCached
  <2>3. o \in Nat
    BY <1>0, <2>1 DEF SizedMap
  <2>4. SizeOf(cache) = o + SizeOf(Without(cache, p)) /\ SizeOf(Without(cache, p)) \in Nat
    BY <1>0, <2>1, SizeWithout
  <2>. HIDE DEF p, o
  <2>. QED
    BY <1>1, <2>2, <2>3, <2>4 DEF Accounting
<1>6. CASE UNCHANGED <<cache, counts>>
  BY <1>6 DEF Accounting, counts
<1>. QED
  BY <1>2, <1>3, <1>4, <1>5, <1>6
     DEF Next, Step, SetStorage, SetFind, SetSize, EvictThrows, UsesErased, GetFind,
         GetCached, GetStored, RemoveStorage, RemoveFind, vars, counts

LEMMA AccountedInit == Init => Accounted
<1>. SUFFICES ASSUME Init PROVE Accounted
  OBVIOUS
<1>1. Paired
  BY PairedInit
<1>2. (\A t \in Threads : call[t] = Idle) /\ DOMAIN cache = {} /\ current = 0 /\ lost = 0
  BY DEF Init
<1>3. SizeOf(cache) = 0
  <2>1. SizedMap(cache) /\ Bytes(cache, DOMAIN cache) = {}
    BY <1>1, <1>2, CacheSized DEF Bytes
  <2>. QED
    BY <2>1, SizeIsBytes, FS_EmptySet DEF SizedMap
<1>. QED
  BY <1>1, <1>2, <1>3 DEF Accounted, Roles, OldIsCached, Accounting, Idle

LEMMA AccountedStep ==
  ASSUME NEW c, Clients = {c}
  PROVE  Accounted /\ [Next]_vars => Accounted'
<1>. SUFFICES ASSUME Accounted, [Next]_vars PROVE Accounted'
  OBVIOUS
<1>1. Paired'
  BY PairedStep DEF Accounted
<1>2. Roles'
  BY RolesStep DEF Accounted, Paired
<1>. QED
  BY <1>1, <1>2, OldStep, AccountStep DEF Accounted

\* With one client and any timers, sizes and limit, m_currentSize is the size of what is
\* cached and of what removeValue has taken out without subtracting it.
THEOREM CacheAccounted ==
  ASSUME NEW c, Clients = {c}
  PROVE  Spec => []Accounting
<1>1. Accounted => Accounting
  BY DEF Accounted
<1>. QED
  BY AccountedInit, AccountedStep, <1>1, PTL DEF Spec

\* So m_currentSize, a size_t in the code and an integer in the model, never goes below
\* zero, which the subtractions of freeCache and setValue could make it do.
THEOREM SizeNeverWraps ==
  ASSUME NEW c, Clients = {c}
  PROVE  Spec => [](current \in Nat)
<1>1. Accounted => current \in Nat
  BY CacheSized, SizeIsNat DEF Accounted, Paired, TypeOK, Accounting
<1>. QED
  BY AccountedInit, AccountedStep, <1>1, PTL DEF Spec

=============================================================================
