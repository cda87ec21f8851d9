----------------------------- MODULE MCTraffic -----------------------------
(* Instances of Traffic for TLC. *)
EXTENDS TrafficLedger

CONSTANTS alice, bob, a1, b1

OwnerOne == [u \in {a1} |-> alice]
OwnerMix == [u \in {a1, b1} |-> IF u = a1 THEN alice ELSE bob]

\* Causes stay: once one of each kind has occurred, NoWindowLost and NoDoubleCount
\* except the rest of the behaviour, and nothing is left to check on it.
Promising == causes \cap LossCauses = {} \/ causes \cap DoubleCauses = {}
=============================================================================
