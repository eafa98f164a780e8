----------------------------- MODULE MCServing ------------------------------
(* Small instances of Serving for TLC. *)
EXTENDS Serving, TLC

CONSTANTS c1, c2, c3   \* clients, as model values

\* Clients run the same code: swapping them changes no safety property.
ClientSymmetry == Permutations(Clients)
=============================================================================
