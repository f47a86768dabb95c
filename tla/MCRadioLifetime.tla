-------------------------- MODULE MCRadioLifetime --------------------------
(* Instances of RadioLifetime for TLC. *)
EXTENDS RadioLifetime

CONSTANTS w1, w2

TwoControls == {w1, w2}
=============================================================================
