------------------------- MODULE MCStackRendezvous -------------------------
(* Instances of StackRendezvous for TLC. *)
EXTENDS StackRendezvous

CONSTANTS event, acl, e1, e2, a1, a2, re, ra1, ra2

\* Both channels side by side: one read outstanding for events and two for ACL
\* data, as BthPort keeps them.
BothChannels == {event, acl}
EventPackets == {e1, e2}
AclPair == {a1, a2}
AclReads == {ra1, ra2}
BothPackets == EventPackets \cup AclPair
BothReads == {re} \cup AclReads
BothOf == [p \in BothPackets |-> IF p \in AclPair THEN acl ELSE event]
BothReadOf == [r \in BothReads |-> IF r \in AclReads THEN acl ELSE event]

\* The module treats the packets of a channel, and its reads, alike.
Symmetry == Permutations(EventPackets) \cup Permutations(AclPair) \cup Permutations(AclReads)
=============================================================================
