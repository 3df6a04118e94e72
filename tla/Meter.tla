-------------------------------- MODULE Meter --------------------------------
(***************************************************************************)
(* What a quota promises: a command is let through, and counted, or turned *)
(* away, in one step, and turned away only when the quota is used up.      *)
(***************************************************************************)
EXTENDS Naturals

CONSTANTS
    Conns,      \* connections
    Keys,       \* keys with a quota
    KeyOf,      \* the key of each connection
    Limit       \* the quota of each key

VARIABLES
    used,       \* [Keys -> number of commands let through]
    asking      \* connections whose command is not decided

vars == <<used, asking>>

Init ==
    /\ used = [k \in Keys |-> 0]
    /\ asking = {}

Ask(c) ==
    /\ c \notin asking
    /\ asking' = asking \cup {c}
    /\ UNCHANGED used

Admit(c) ==
    /\ c \in asking
    /\ used[KeyOf[c]] < Limit[KeyOf[c]]
    /\ used' = [used EXCEPT ![KeyOf[c]] = @ + 1]
    /\ asking' = asking \ {c}

Refuse(c) ==
    /\ c \in asking
    /\ used[KeyOf[c]] = Limit[KeyOf[c]]
    /\ asking' = asking \ {c}
    /\ UNCHANGED used

Next == \E c \in Conns : Ask(c) \/ Admit(c) \/ Refuse(c)

Spec == Init /\ [][Next]_vars
=============================================================================
