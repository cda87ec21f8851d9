------------------------------ MODULE MCApply ------------------------------
(* Apply for TLC. *)
EXTENDS Apply
CONSTANTS a, b, c, i1, i2, noid, k1, k2, none

\* Between these two one user changes its UUID, one goes and one comes: every
\* kind of call in one delta.
TwoSets == {[n \in Names |-> IF n = c THEN noid ELSE i1],
            [n \in Names |-> IF n = b THEN noid ELSE IF n = a THEN i2 ELSE i1]}
=============================================================================
