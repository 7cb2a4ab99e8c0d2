--------------------------- MODULE MCNaiveStorage ---------------------------
(* Constants for checking NaiveStorage: values of nothing, of less than the file and of *)
(* more than it.                                                                        *)
EXTENDS NaiveStorage

CONSTANTS none, small, large

MCSize == [v \in {none, small, large} |->
             CASE v = none -> 0 [] v = small -> 2 [] v = large -> 7]

=============================================================================
