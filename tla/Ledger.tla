------------------------------- MODULE Ledger -------------------------------
(***************************************************************************)
(* What traffic accounting promises, with no agent, wire or panel in it:   *)
(* a unit of traffic is volatile until it is kept durably; a kept unit is  *)
(* credited once and then released.  Two named weaknesses say how far the  *)
(* promise goes: once lossy, kept units may disappear uncredited; once     *)
(* twice, a unit may be credited again.  A weakness never goes away.       *)
(***************************************************************************)
EXTENDS Integers

CONSTANTS
    Units,      \* quantities of traffic
    Cap         \* credits of one unit are counted up to here, at least 2

VARIABLES
    idle,       \* units nobody has transferred yet
    volatile,   \* transferred, and lost if the process that has them ends
    kept,       \* in the durable buffer
    books,      \* how often a unit was credited
    refused,    \* reported for a user the node does not serve
    lossy,      \* the buffer has failed to keep
    twice       \* the books have failed to recognise a repetition

vars == <<idle, volatile, kept, books, refused, lossy, twice>>

Init ==
    /\ idle = Units
    /\ volatile = {}
    /\ kept = {}
    /\ books = [u \in Units |-> 0]
    /\ refused = {}
    /\ lossy = FALSE
    /\ twice = FALSE

Use(u) ==
    /\ u \in idle
    /\ idle' = idle \ {u}
    /\ volatile' = volatile \cup {u}
    /\ UNCHANGED <<kept, books, refused>>

\* Volatile units become durable, all that one collection holds at a time.
Keep(S) ==
    /\ volatile' = volatile \ S
    /\ kept' = kept \cup S
    /\ UNCHANGED <<idle, books, refused>>

Drop(S) ==
    /\ volatile' = volatile \ S
    /\ UNCHANGED <<idle, kept, books, refused>>

\* Only what is still kept is reported.
Reported(S) == lossy' \/ twice' \/ S \subseteq kept

\* A unit is credited only for the first time.
Credit(S) ==
    /\ Reported(S)
    /\ twice' \/ \A u \in S : books[u] = 0
    /\ books' = [u \in Units |-> IF u \in S /\ books[u] < Cap THEN books[u] + 1
                                                             ELSE books[u]]
    /\ UNCHANGED <<idle, volatile, kept, refused>>

Refuse(S) ==
    /\ Reported(S)
    /\ refused' = refused \cup S
    /\ UNCHANGED <<idle, volatile, kept, books>>

\* Only what was credited or refused is released.
Release(S) ==
    /\ lossy' \/ \A u \in S : books[u] > 0 \/ u \in refused
    /\ kept' = kept \ S
    /\ UNCHANGED <<idle, volatile, books, refused>>

\* A lossy buffer comes back with whatever it had at some earlier time.
Forget(S) ==
    /\ lossy'
    /\ \E kp \in SUBSET Units : kept' = kp
    /\ volatile' = volatile \ S
    /\ UNCHANGED <<idle, books, refused>>

Next ==
    /\ lossy => lossy'
    /\ twice => twice'
    /\ \/ \E u \in Units : Use(u)
       \/ \E S \in SUBSET volatile : Keep(S) \/ Drop(S) \/ Forget(S)
       \/ \E S \in SUBSET Units : Credit(S) \/ Refuse(S)
       \/ \E S \in SUBSET kept : Release(S)

Spec == Init /\ [][Next]_vars
=============================================================================
