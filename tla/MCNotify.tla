------------------------------ MODULE MCNotify ------------------------------
(* Notify for TLC. *)
EXTENDS Notify
CONSTANTS u1
=============================================================================
