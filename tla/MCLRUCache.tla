----------------------------- MODULE MCLRUCache -----------------------------
(* Constants for checking LRUCache: values of size 0, 1, 2 and one that is larger  *)
(* than the cache.                                                                 *)
EXTENDS LRUCache

CONSTANTS zero, small, big, huge

MCSize == [v \in Values |->
             CASE v = zero -> 0 [] v = small -> 1 [] v = big -> 2 [] v = huge -> 4]

=============================================================================
