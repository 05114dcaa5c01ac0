--------------------------- MODULE MCExpiringSet ---------------------------
(* A small instance of ExpiringSet for TLC. *)
EXTENDS ExpiringSet, TLC

CONSTANTS r1, r2, r3

MCItem == {r1, r2, r3}

Symmetric == Permutations(MCItem)
=============================================================================
