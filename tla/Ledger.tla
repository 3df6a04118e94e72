------------------------------- MODULE Ledger -------------------------------
(***************************************************************************)
(* What the audit log promises: a ledger, numbered from 0, of which        *)
(* nothing is ever taken back.  A step adds one entry, linked to the one   *)
(* before it, and may confirm it to the caller; an entry can also come to  *)
(* stay without a confirmation.  Restarts and failures do not show.        *)
(***************************************************************************)
EXTENDS Integers

CONSTANTS
    Genesis,        \* the hash the first entry links to
    MaxEntries      \* bound on the length of the ledger

VARIABLES
    ledger,         \* function from 0..n-1 to entries
    confirmed       \* entries the callers were told of

Init ==
    /\ DOMAIN ledger = {}
    /\ confirmed = {}

\* The ledger of n entries gets another one.
Extend(n) ==
    /\ DOMAIN ledger = 0..(n - 1)
    /\ DOMAIN ledger' = 0..n
    /\ \A k \in 0..(n - 1) : ledger'[k] = ledger[k]
    /\ ledger'[n].prev_hash = (IF n = 0 THEN Genesis ELSE ledger[n - 1].hash)
    /\ \/ confirmed' = confirmed
       \/ confirmed' = confirmed \cup {ledger'[n]}

Next == \E n \in 0..MaxEntries : Extend(n)

Spec == Init /\ [][Next]_<<ledger, confirmed>>
=============================================================================
