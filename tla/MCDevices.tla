----------------------------- MODULE MCDevices -----------------------------
(* Devices for TLC. *)
EXTENDS Devices

CONSTANTS k1, k2
============================================================================
