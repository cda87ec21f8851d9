---------------------------- MODULE MCAccounts ----------------------------
(* Accounts for TLC. *)
EXTENDS Accounts, TLC

CONSTANTS u1, u2, n1, n2, w1, w2, gone

\* Requests are handled alike, whoever handles them.
WorkerPerms == Permutations(Workers)
===========================================================================
