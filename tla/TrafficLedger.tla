--------------------------- MODULE TrafficLedger ---------------------------
(***************************************************************************)
(* The accounting protocol implements the ledger.  Volatile is what only   *)
(* Xray or a goroutine of the agent holds; kept is what pendingTraffic     *)
(* holds, in flight or pending; the books are data_used.                   *)
(***************************************************************************)
EXTENDS Traffic

Ledger == INSTANCE Ledger WITH
    Cap      <- CountCap,
    idle     <- unused,
    volatile <- xray \cup InHand,
    kept     <- Buffered,
    books    <- counted,
    refused  <- ignored,
    lossy    <- causes \cap LossCauses # {},
    twice    <- causes \cap DoubleCauses # {}

\* The agent's buffer, the resends, the acks and ingestTraffic together are a
\* ledger: however connections overlap and processes restart, a unit leaves
\* pending-traffic.json only credited or refused, and is credited only once and
\* only while it is still there, until one of the named causes has occurred.
ImplementsLedger == Ledger!Spec
=============================================================================
