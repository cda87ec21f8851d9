----------------------------- MODULE MCSessions -----------------------------
(* Sessions for TLC. *)
EXTENDS Sessions, TLC
CONSTANTS root, ann, usr, w1, w2

\* Requests are handled alike, whoever handles them.
WorkerPerms == Permutations(Workers)
=============================================================================
