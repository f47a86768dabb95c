---------------------------- MODULE MCPacketRules ----------------------------
(* PacketRules for TLC: lengths on both sides of every limit. *)
EXTENDS PacketRules

Around(n) == {n - 1, n, n + 1}

MCWriteLengths == {0, 1, 2, 3} \cup Around(1 + 257) \cup Around(1 + 1021) \cup Around(1026)
MCOpcodes == {0, 3, 4, 32, 64, 128}
MCInputLengths == {0, 1, 4, 5, 6} \cup Around(5 + 1021) \cup Around(5 + 1025)
MCDataLens == {0, 1, 2} \cup Around(1021) \cup Around(1025) \cup {2^30 - 1}
MCTypeLengths == {3, 4}
MCOutputLengths == {0, 4, 5, 6} \cup Around(5 + 257) \cup Around(5 + 1021)
MCRequestedTypes == {0, ACL, EVENT}
MCReadLengths == {0, 1} \cup Around(1026)
MCConfigLengths == {0} \cup Around(4) \cup Around(16) \cup Around(52)
MCWordSize == 2^30
=============================================================================
