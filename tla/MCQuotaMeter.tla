---------------------------- MODULE MCQuotaMeter ----------------------------
(* Three connections, two of them on the same key.  Width is small enough   *)
(* for the counter to wrap and large enough not to be reached by commands.  *)
EXTENDS QuotaMeter, TLC

CONSTANTS c1, c2, c3, k1, k2

MCConns == {c1, c2, c3}
MCKeys == {k1, k2}
MCKeyOf == c1 :> k1 @@ c2 :> k1 @@ c3 :> k2
MCLimit == k1 :> 2 @@ k2 :> 1
=============================================================================
