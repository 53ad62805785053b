-------------------------------- MODULE MCBench --------------------------------
(***************************************************************************)
(* Bench over two spots that span a grid, and four pixels of which the     *)
(* second and the fourth tie where --point-order auto compares them.       *)
(***************************************************************************)
EXTENDS Bench

BenchSpots == {[x |-> 0, y |-> 0, z |-> 0], [x |-> 2, y |-> 1, z |-> 2]}
BenchPixels == {[x |-> 0, y |-> 0], [x |-> 3, y |-> 1], [x |-> 3, y |-> 3], [x |-> 0, y |-> 2]}

=============================================================================
