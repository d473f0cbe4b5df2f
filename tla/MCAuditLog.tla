----------------------------- MODULE MCAuditLog -----------------------------
(* Four tasks: three lines of which the buffer holds two, one too long for it. *)
EXTENDS AuditLog

CONSTANTS w1, w2, w3, w4

MCSize == w1 :> 2 @@ w2 :> 2 @@ w3 :> 4 @@ w4 :> 2

=============================================================================
