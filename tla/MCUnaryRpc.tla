----------------------------- MODULE MCUnaryRpc -----------------------------
(* Small instances of UnaryRpc for TLC. *)
EXTENDS UnaryRpc

CONSTANTS c1, c2   \* goroutines, as model values
=============================================================================
