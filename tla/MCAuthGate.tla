----------------------------- MODULE MCAuthGate -----------------------------
(* Two keys, one of them read-only, and two connections.                   *)
EXTENDS AuthGate, TLC

CONSTANTS k1, k2, c1, c2

MCKeys == {k1, k2}
MCConns == {c1, c2}
MCPermOf == k1 :> {"read", "write"} @@ k2 :> {"read"}
=============================================================================
