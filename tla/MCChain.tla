------------------------------ MODULE MCChain -------------------------------
(* Small instances of Chain for TLC. *)
EXTENDS Chain

CONSTANTS c1, c2   \* clients, as model values
=============================================================================
