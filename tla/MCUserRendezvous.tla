------------------------- MODULE MCUserRendezvous -------------------------
(* Instances of UserRendezvous for TLC. *)
EXTENDS UserRendezvous

CONSTANTS h1, h2, h3, u1, u2

ThreePackets == {h1, h2, h3}
TwoReads == {u1, u2}
=============================================================================
