----------------------------- MODULE StorageMap -----------------------------
(***************************************************************************)
(* What IStorage promises: a map from paths to values.  setValue makes a   *)
(* path hold a value, removeValue forgets it or reports that there is no   *)
(* such path, and neither touches any other path.                          *)
(***************************************************************************)
CONSTANTS Paths, Values,
  Kept   \* Kept[v]: what is read back when v was stored

VARIABLES
  map,   \* map[p]: the value of every path that has one
  reply  \* the path of the last call and how it ended

Done(p) == [path |-> p, result |-> "done"]
NoSuchPath(p) == [path |-> p, result |-> "NoSuchPath"]

Set(p, v) ==
  /\ reply' = Done(p)
  /\ map' = [q \in DOMAIN map \cup {p} |-> IF q = p THEN Kept[v] ELSE map[q]]

Remove(p) ==
  /\ p \in DOMAIN map
  /\ reply' = Done(p)
  /\ map' = [q \in DOMAIN map \ {p} |-> map[q]]

RemoveMissing(p) ==
  /\ p \notin DOMAIN map
  /\ reply' = NoSuchPath(p)
  /\ UNCHANGED map

\* A storage may hold values from the start.
Init ==
  /\ \E S \in SUBSET Paths : map \in [S -> {Kept[v] : v \in Values}]
  /\ \E p \in Paths : reply = Done(p)

Next == \E p \in Paths :
  \/ \E v \in Values : Set(p, v)
  \/ Remove(p)
  \/ RemoveMissing(p)

Spec == Init /\ [][Next]_<<map, reply>>

=============================================================================
