--------------------------- MODULE MCConfigSync ---------------------------
(* Instances of ConfigSync for TLC. *)
EXTENDS ConfigSync, TLC
CONSTANTS x1, w1, w2

\* The goroutines that sync a node are interchangeable.
WorkerSymmetry == Permutations({w1, w2})
=============================================================================
