----------------------------- MODULE MCRouting ------------------------------
(* Constants for checking Routing: storages at the root and at two places below it, with *)
(* equal numbers at one place and at two, one under a path with a double slash.  Under /a/ the values of   *)
(* /a/b are those of /b/b in the storage at the root.                                   *)
EXTENDS Routing, TLC

MCNames == {"a", "b"}
Root == <<"/">>
AB == <<"/", "a", "/", "b">>
BB == <<"/", "b", "/", "b">>

Point(s, priority, mount, phys) ==
  [storage |-> s, priority |-> priority, mount |-> mount, phys |-> phys]

MCMountable == {
  Point("s1", 1, Root, Root),
  Point("s1", 2, <<"/", "a", "/">>, <<"/", "b", "/">>),
  Point("s2", 2, <<"/", "a">>, Root),
  Point("s2", 1, AB, Root),
  Point("s2", 2, <<"/", "a", "/", "/", "b">>, Root)}

MCRequests == {AB, BB}

AnyClient == Permutations(Clients)

=============================================================================
