---------------------------- MODULE MCVhciDevice ----------------------------
(* An instance of VhciDevice for TLC.  The reader and the writers share     *)
(* only what the owner alone changes, so a behaviour has one or the other.  *)
EXTENDS VhciDevice

CONSTANTS w1, w2

VARIABLE side

TwoWrites == {w1, w2}

ReadsOnly == side = "read" /\ UNCHANGED side /\ (OwnerNext \/ CallNext(Reader))
WritesOnly == side = "write" /\ UNCHANGED side /\ (OwnerNext \/ \E w \in Writes : CallNext(w))

SideInit == Init /\ side \in Dirs

SideSpec ==
  /\ SideInit
  /\ [][ReadsOnly \/ WritesOnly]_<<vars, side>>
  /\ Fairness
=============================================================================
