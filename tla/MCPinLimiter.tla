---------------------------- MODULE MCPinLimiter ----------------------------
(* PinLimiter for TLC. *)
EXTENDS PinLimiter
=============================================================================
