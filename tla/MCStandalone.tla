---------------------------- MODULE MCStandalone ----------------------------
(* Standalone for TLC. *)
EXTENDS Standalone, TLC
CONSTANTS a, b, p1, p2, none, broken

\* Processes are interchangeable.
Perms == Permutations(Procs)

\* Bound: commands once two have run at the same time.
MaxOverlapping == 3
Short == "overlap" \in causes => cmds <= MaxOverlapping
=============================================================================
