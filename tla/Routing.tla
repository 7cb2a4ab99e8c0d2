------------------------------ MODULE Routing -------------------------------
(***************************************************************************)
(* StorageAccessor's calls through the mount tree.  A call asks the tree   *)
(* once, under its lock, and then works on the storages it was told of,    *)
(* while other threads mount, unmount, set and remove.  What happens in    *)
(* one storage is one step.                                                *)
(***************************************************************************)
EXTENDS MountTree

CONSTANTS
  Clients,  \* the threads that set and remove values
  Storages, \* the storages of the mount points
  MaxSets   \* bound: how often values are set

ASSUME RoutingAssumption ==
  MaxSets \in Nat /\ \A m \in Mountable : m.storage \in Storages

VARIABLES
  held,     \* held[s]: the values storage s holds, under its own paths
  call,     \* call[c]: the call client c is in
  sets,     \* how often values were set; a set stores its number
  expected  \* history: expected[p]: how path p has to read, None or Unknown

vars == <<nodes, held, call, sets, expected>>

None == 0      \* there is no value
Unknown == -1  \* the storages of the path changed over values, or another path reached them

Idle == [kind |-> "idle"]

\* Where a mount point keeps the value of a path.
Spot(m, p) == [storage |-> m.storage, key |-> fullPath(m, p)]
Spots(n, p) == {Spot(m, p) : m \in getSuitableStorageList(n, p)}
Holds(s) == s.key \in DOMAIN held[s.storage]

\* getValue without others between its steps: the first storage of the list that answers.
getValue(p) ==
  LET holders == {m \in getSuitableStorageList(nodes, p) : Holds(Spot(m, p))}
      s == Spot(First(holders), p)
  IN IF holders = {} THEN None ELSE held[s.storage][s.key]

-----------------------------------------------------------------------------
(***************************************************************************)
(* setValue.                                                               *)
(***************************************************************************)
SetRoute(c, p) ==
  /\ call[c] = Idle /\ sets < MaxSets
  /\ Mounted(nodes, p)
  /\ sets' = sets + 1
  /\ call' = [call EXCEPT ![c] = [kind |-> "set", path |-> p, set |-> sets',
                                  at |-> getPriorityStorage(nodes, p)]]
  /\ UNCHANGED <<nodes, held, expected>>

\* A removal under way is spoilt for what p sees: a value was stored behind its back.
Spoilt(touched(_)) ==
  [c \in Clients |-> IF call[c].kind = "remove" /\ touched(call[c].path)
                     THEN [call[c] EXCEPT !.clean = FALSE] ELSE call[c]]

\* The value goes to the storage the tree named, mounted still or not.
SetStore(c) ==
  /\ call[c].kind = "set"
  /\ LET s == Spot(call[c].at, call[c].path)
         seen(p) == s \in Spots(nodes, p)
     IN /\ held' = [held EXCEPT ![s.storage] =
                      [k \in DOMAIN @ \cup {s.key} |-> IF k = s.key THEN call[c].set ELSE @[k]]]
        /\ expected' = [p \in Requests |->
             IF ~seen(p) THEN expected[p]
             ELSE IF p = call[c].path /\ expected[p] # Unknown
                     /\ s = Spot(getPriorityStorage(nodes, p), p)
             THEN call[c].set ELSE Unknown]
        /\ call' = [Spoilt(seen) EXCEPT ![c] = Idle]
  /\ UNCHANGED <<nodes, sets>>

-----------------------------------------------------------------------------
(***************************************************************************)
(* removeValue.                                                            *)
(***************************************************************************)
RemoveRoute(c, p) ==
  /\ call[c] = Idle
  /\ getSuitableStorageList(nodes, p) # {}
  /\ call' = [call EXCEPT ![c] = [kind |-> "remove", path |-> p, clean |-> TRUE,
                                  left |-> getSuitableStorageList(nodes, p)]]
  /\ UNCHANGED <<nodes, held, sets, expected>>

\* A faulty RemoveNext: the call ends with the first storage.
RemoveOne(c) ==
  /\ call[c].kind = "remove"
  /\ LET s == Spot(First(call[c].left), call[c].path) IN
       /\ held' = [held EXCEPT ![s.storage] = [k \in DOMAIN @ \ {s.key} |-> @[k]]]
       /\ expected' = [p \in Requests |-> IF p = call[c].path THEN None ELSE expected[p]]
  /\ call' = [call EXCEPT ![c] = Idle]
  /\ UNCHANGED <<nodes, sets>>

\* One storage after the other; one that has no value may say so, and the call goes on.
RemoveNext(c) ==
  /\ call[c].kind = "remove"
  /\ LET m == First(call[c].left)
         s == Spot(m, call[c].path)
         last == call[c].left = {m}
     IN /\ held' = [held EXCEPT ![s.storage] = [k \in DOMAIN @ \ {s.key} |-> @[k]]]
        /\ call' = IF last THEN [call EXCEPT ![c] = Idle] ELSE [call EXCEPT ![c].left = @ \ {m}]
        /\ expected' = [p \in Requests |->
             IF p = call[c].path /\ last /\ call[c].clean THEN None
             ELSE IF s \in Spots(nodes, p) /\ Holds(s) THEN Unknown ELSE expected[p]]
  /\ UNCHANGED <<nodes, sets>>

-----------------------------------------------------------------------------
(***************************************************************************)
(* mountPhysicalVolume and umountVolume, by any thread.                    *)
(***************************************************************************)
Remounts ==
  LET changed(p) == getSuitableStorageList(nodes', p) # getSuitableStorageList(nodes, p)
  IN /\ expected' = [p \in Requests |->
          IF ~changed(p) THEN expected[p]
          ELSE IF \E s \in Spots(nodes', p) : Holds(s) THEN Unknown ELSE None]
     /\ call' = Spoilt(changed)
     /\ UNCHANGED <<held, sets>>

Mount(m) == addMountPoint(m) /\ Remounts
Umount(path) == removeMountPoint(path) /\ Remounts

Init ==
  /\ TreeInit
  /\ held = [s \in Storages |-> <<>>]
  /\ call = [c \in Clients |-> Idle]
  /\ sets = 0
  /\ expected = [p \in Requests |-> None]

Next ==
  \/ \E m \in Mountable : Mount(m) \/ Umount(m.mount)
  \/ \E c \in Clients :
       \/ \E p \in Requests : SetRoute(c, p) \/ RemoveRoute(c, p)
       \/ SetStore(c) \/ RemoveNext(c)

Spec == Init /\ [][Next]_vars

-----------------------------------------------------------------------------
(***************************************************************************)
(* Properties.                                                             *)
(***************************************************************************)
TypeOK ==
  /\ TreeTypeOK
  /\ \A s \in Storages : \A k \in DOMAIN held[s] : held[s][k] \in 1 .. sets
  /\ \A c \in Clients : call[c] = Idle \/
       /\ call[c].path \in Requests
       /\ call[c].kind = "set" => call[c].at \in Mountable /\ call[c].set \in 1 .. sets
       /\ call[c].kind = "remove" => call[c].left \in (SUBSET Mountable) \ {{}}
  /\ sets \in 0 .. MaxSets
  /\ expected \in [Requests -> {None, Unknown} \cup 1 .. sets]

\* What was set last is read, and what was removed is gone, as long as the storages of
\* the path stay, no other path reaches its values, and the path had no value before.
ReadsBack == \A p \in Requests : expected[p] \in {Unknown, getValue(p)}

=============================================================================
