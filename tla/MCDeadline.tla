----------------------------- MODULE MCDeadline -----------------------------
(* A small instance of Deadline for TLC. *)
EXTENDS Deadline

\* Each unit is longer than the one before it, as in Go.
MCUnitLen == [u \in {"H", "M", "S", "m", "u", "n"} |->
                CASE u = "n" -> 1 [] u = "u" -> 2 [] u = "m" -> Ms
                  [] u = "S" -> 3 * Ms [] u = "M" -> 6 * Ms [] u = "H" -> 12 * Ms]

\* What a caller may have left: nothing, parts of a millisecond, several.
MCDeadlines == {-9, -4, 0, 1, 3, 4, 5, 11, 30}

\* Timeouts as callers may write them: small and ordinary, negative, ones whose
\* product overflows, one that int64 cannot hold, one of an unknown unit.
MCTexts == {[n |-> n, unit |-> u] : n \in {-1, 0, 2, 5, Half \div 2}, u \in {"H", "S", "m", "n"}}
             \cup {[n |-> Half, unit |-> "n"], [n |-> 3, unit |-> "d"]}
=============================================================================
