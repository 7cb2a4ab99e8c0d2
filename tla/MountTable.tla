----------------------------- MODULE MountTable -----------------------------
(***************************************************************************)
(* What a tree of mount points promises: a table of storages by the place  *)
(* they are mounted at, each list in the order of mounting.  A path sees   *)
(* the storages of all places on the way to it.                            *)
(***************************************************************************)
EXTENDS Naturals, Sequences, SequencesExt

CONSTANTS
  Mountable,  \* the mount points
  Place       \* Place[m]: the sequence of names where m is mounted

VARIABLE table  \* table[x]: the mount points at place x, if there are any

At(x) == IF x \in DOMAIN table THEN table[x] ELSE <<>>

\* <<y, i>> is entry i of the list at place y.
Seen(x) == UNION {{y} \X DOMAIN table[y] : y \in Prefixes(x) \cap DOMAIN table}

Mount(m) ==
  table' = [x \in DOMAIN table \cup {Place[m]} |->
              IF x = Place[m] THEN Append(At(x), m) ELSE table[x]]

Umount(x) == table' = [y \in DOMAIN table \ {x} |-> table[y]]

Init == table = <<>>

Next == \E m \in Mountable : Mount(m) \/ Umount(Place[m])

Spec == Init /\ [][Next]_table

=============================================================================
