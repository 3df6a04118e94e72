----------------------------- MODULE MCAuditLog -----------------------------
(* Up to five entries over two events.  The clock stands still: sequence   *)
(* numbers alone must tell entries apart.                                 *)
EXTENDS AuditLog

CONSTANTS e1, e2

MCPayload == {e1, e2}
MCTimestamp == {1}
=============================================================================
