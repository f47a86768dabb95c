----------------------------- MODULE MCWinVhci -----------------------------
(* Instances of WinVhci for TLC. *)
EXTENDS WinVhci

CONSTANTS event, e1, e2, r1, r2, c1, c2, h1, u1, w1

OneChannel == {event}
OneOrder == <<event>>
OnePacket == {e1}
TwoPackets == {e1, e2}
OneRead == {r1}
TwoReads == {r1, r2}
OnePacketOf == [p \in OnePacket |-> event]
TwoPacketsOf == [p \in TwoPackets |-> event]
OneReadOf == [r \in OneRead |-> event]
TwoReadsOf == [r \in TwoReads |-> event]
OneUserRead == {u1}
OneControl == {w1}
ReplyOnly == {c1}
OneRadioReply == <<c1>>
TwoReplies == {c1, c2}
TwoRadioReplies == <<c1, c2>>
OneCommand == {c1, h1}
=============================================================================
