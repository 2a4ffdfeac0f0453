----------------------------- MODULE MCAuditLog -----------------------------
(* AuditLog and StatusPage for TLC. *)
EXTENDS StatusPage, TLC

Symmetry == Permutations(Caller) \cup Permutations(Sweep)
=============================================================================
