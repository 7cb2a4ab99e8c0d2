---------------------------- MODULE NaiveStorage ----------------------------
(***************************************************************************)
(* NaiveStorage: a boost map in one memory-mapped file, whose allocator    *)
(* serves the stored values and the copies that calls make of them.  When  *)
(* an allocation fails, setValue closes the file, grows it, opens it again *)
(* and tries once more.  One client sets and reads values, and the timer   *)
(* thread removes them between its steps.                                  *)
(***************************************************************************)
EXTENDS Integers, FiniteSetsExt

CONSTANTS
  Paths, Values,
  Size,     \* Size[v]: v.size()
  Node,     \* what a path takes of the file, apart from its value
  Initial,  \* INITIAL_SIZE
  MaxFile,  \* bound: the disk ends here and growing fails
  MaxDeaths \* bound: how often the process dies

ASSUME NaiveAssumption ==
  Size \in [Values -> Nat] /\ {Node, Initial, MaxFile, MaxDeaths} \subseteq Nat

VARIABLES
  data,      \* the map in the file: data[p].val in a vector of capacity data[p].room
  size,      \* the size of the file
  free,      \* what of it is not allocated
  mapping,   \* "closed": p_file is null; "detached": p_data is of the last mapping
  call,      \* the setValue or getValue in progress; "gone": the entry it found is erased
  undefined, \* the null or the old pointer, or an erased entry, was used
  reply,     \* the path of the last call that changed the map, and its end
  deaths     \* how often the process died

vars == <<data, size, free, mapping, call, undefined, reply, deaths>>

Idle == [stage |-> "idle"]
At(stage) == call.stage = stage
Done(p) == [path |-> p, result |-> "done"]
Room(p) == IF p \in DOMAIN data THEN data[p].room ELSE 0

-----------------------------------------------------------------------------
(***************************************************************************)
(* trySetValue.                                                            *)
(***************************************************************************)
SetValue(p, v) ==
  /\ At("idle")
  /\ call' = [stage |-> "try", path |-> p, val |-> v, grown |-> -1]
  /\ UNCHANGED <<data, size, free, mapping, undefined, reply, deaths>>

\* The value is copied into the file.
Copy ==
  /\ At("try") /\ mapping = "ready"
  /\ Size[call.val] <= free
  /\ free' = free - Size[call.val]
  /\ call' = [call EXCEPT !.stage = "copied"]
  /\ UNCHANGED <<data, size, mapping, undefined, reply, deaths>>

\* The entry of the path is looked up.
Find ==
  /\ At("copied") /\ mapping = "ready"
  /\ call' = [call EXCEPT !.stage = IF call.path \in DOMAIN data THEN "found" ELSE "missing"]
  /\ UNCHANGED <<data, size, free, mapping, undefined, reply, deaths>>

Storing == At("found") \/ At("missing")

\* What storing takes: a node and a vector, or a longer vector before the old one goes.
Needed(p, v) ==
  IF p \notin DOMAIN data THEN Node + Size[v]
  ELSE IF Size[v] > Room(p) THEN Size[v] ELSE 0

StoreReturning(copy) ==
  /\ Storing /\ mapping = "ready"
  /\ LET p == call.path
         v == call.val
     IN /\ Needed(p, v) <= free
        /\ data' = [q \in DOMAIN data \cup {p} |->
             IF q = p THEN [val |-> v, room |-> Max({Room(p), Size[v]})] ELSE data[q]]
        /\ free' = free - Needed(p, v) + copy + (IF Size[v] > Room(p) THEN Room(p) ELSE 0)
        /\ reply' = Done(p)
  /\ call' = Idle
  /\ UNCHANGED <<size, mapping, undefined, deaths>>

\* A faulty Store: the copy stays allocated.
StoreKeepingCopy == StoreReturning(0)

\* It is stored, in a new vector or in the one that was found, and the copy goes.
Store == StoreReturning(Size[call.val])

\* bad_alloc: in a fragmented file at any time, in one that has just grown only when the
\* copy and what is stored do not fit into what was added.  The copy goes.
BadAlloc ==
  /\ mapping = "ready"
  /\ LET v == call.val
         fails(need, all) == need > 0 /\ (free < need \/ call.grown < all)
     IN \/ At("try") /\ fails(Size[v], Size[v]) /\ UNCHANGED free
        \/ /\ Storing /\ fails(Needed(call.path, v), Size[v] + Needed(call.path, v))
           /\ free' = free + Size[v]
  /\ call' = IF call.grown = -1 THEN [call EXCEPT !.stage = "full"] ELSE Idle
  /\ UNCHANGED <<data, size, mapping, undefined, reply, deaths>>

-----------------------------------------------------------------------------
(***************************************************************************)
(* setValue after bad_alloc.                                               *)
(***************************************************************************)
Close ==
  /\ At("full")
  /\ mapping' = "closed"
  /\ call' = [call EXCEPT !.stage = "closed"]
  /\ UNCHANGED <<data, size, free, undefined, reply, deaths>>

GrowBy(more) ==
  /\ At("closed")
  /\ LET grown == IF size + more <= MaxFile THEN more ELSE 0 IN
       /\ call' = [call EXCEPT !.stage = "grown", !.grown = grown]
       /\ size' = size + grown /\ free' = free + grown
  /\ UNCHANGED <<data, mapping, undefined, reply, deaths>>

\* A faulty Grow: by what the value takes, however large the file is.
GrowByValue == GrowBy(Node + Size[call.val])

\* grow() tells by its result, which nobody looks at, when it fails.
Grow == GrowBy(Max({Node + Size[call.val], size}))

OpenAs(found, stage) ==
  /\ At("grown")
  /\ mapping' = "detached" /\ data' = found
  /\ call' = [call EXCEPT !.stage = stage]
  /\ UNCHANGED <<size, free, undefined, reply, deaths>>

\* Faulty variants of Open: the map is not looked up again; the file is made anew.
OpenOnly == OpenAs(data, "try")
OpenNew == OpenAs(<<>>, "opened")

Open == OpenAs(data, "opened")

\* find_or_construct gives the map, and trySetValue is called again.
Attach ==
  /\ At("opened")
  /\ mapping' = "ready"
  /\ call' = [call EXCEPT !.stage = "try"]
  /\ UNCHANGED <<data, size, free, undefined, reply, deaths>>

-----------------------------------------------------------------------------
\* getValue of a path that is there: the entry is looked up, then its value is copied.
GetValue(p) ==
  /\ At("idle")
  /\ p \in DOMAIN data
  /\ call' = [stage |-> "reading", path |-> p, val |-> data[p].val, grown |-> -1]
  /\ UNCHANGED <<data, size, free, mapping, undefined, reply, deaths>>

Read ==
  /\ At("reading")
  /\ call' = Idle
  /\ UNCHANGED <<data, size, free, mapping, undefined, reply, deaths>>

-----------------------------------------------------------------------------
\* removeValue, by the client between its calls or by the timer at any time: whoever has
\* found the entry is left with what is no entry any more.
RemoveValue(p) ==
  /\ mapping = "ready"
  /\ p \in DOMAIN data
  /\ data' = [q \in DOMAIN data \ {p} |-> data[q]]
  /\ free' = free + Node + Room(p)
  /\ call' = IF (At("found") \/ At("reading")) /\ call.path = p
             THEN [call EXCEPT !.stage = "gone"] ELSE call
  /\ reply' = Done(p)
  /\ UNCHANGED <<size, mapping, undefined, deaths>>

UsesErased ==
  /\ At("gone")
  /\ undefined' = TRUE
  /\ UNCHANGED <<data, size, free, mapping, call, reply, deaths>>

\* Any call goes through both pointers.
UsesMapping ==
  /\ mapping # "ready"
  /\ undefined' = TRUE
  /\ UNCHANGED <<data, size, free, mapping, call, reply, deaths>>

\* The process dies, and the file is opened again: a copy in it is never freed.
Restart ==
  /\ deaths < MaxDeaths /\ deaths' = deaths + 1
  /\ call' = Idle /\ mapping' = "ready"
  /\ UNCHANGED <<data, size, free, undefined, reply>>

Init ==
  /\ data = <<>> /\ size = Initial /\ free = Initial
  /\ mapping = "ready" /\ call = Idle
  /\ undefined = FALSE /\ deaths = 0
  /\ \E p \in Paths : reply = Done(p)

Next == ~undefined /\
  \/ \E p \in Paths : GetValue(p) \/ RemoveValue(p) \/ \E v \in Values : SetValue(p, v)
  \/ Read \/ Copy \/ Find \/ Store \/ BadAlloc \/ Close \/ Grow \/ Open \/ Attach
  \/ UsesMapping \/ UsesErased \/ Restart

Spec == Init /\ [][Next]_vars

-----------------------------------------------------------------------------
(***************************************************************************)
(* Properties.                                                             *)
(***************************************************************************)
\* A read copies the value within the file: where that fails, the path is said missing.
\* (The copy goes when the read ends.)
getValue(p) ==
  IF p \in DOMAIN data /\ Size[data[p].val] <= free THEN data[p].val ELSE "NoSuchPath"

\* The value set last can be read, however full the file: the room of the copy that was
\* made to store it is free again.  A value stored before may well read as missing.
LastSetReads ==
  At("idle") /\ deaths = 0 /\ reply.path \in DOMAIN data =>
    getValue(reply.path) = data[reply.path].val

\* The ways into undefined behaviour, all the timer's: its call while the file grows, and
\* its removal of the very entry that the client's call has found and not yet used.
UndefinedOnlyByTimer ==
  undefined => At("closed") \/ At("grown") \/ At("opened") \/ At("gone")

\* A value is refused only if the file cannot grow, or if it takes with its copy more
\* than the whole file had before it grew.
ThrowsOnlyIfLarge ==
  [][BadAlloc /\ call' = Idle =>
       call.grown = 0 \/ 2 * Size[call.val] + Node > size - call.grown]_vars

\* The map IStorage promises, through growth, refused values and restarts; a removal
\* that finds nothing, and says nothing, is no step of it.
Map == INSTANCE StorageMap WITH
  map <- [p \in DOMAIN data |-> data[p].val],
  Kept <- [v \in Values |-> v]
ImplementsMap == Map!Spec

=============================================================================
