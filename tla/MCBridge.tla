------------------------------ MODULE MCBridge ------------------------------
(* An instance of Bridge for TLC: buffers of 6, 7 and 9 bytes for 1026,     *)
(* 4096 and 8192, and frames around these limits.  Bodies hold bytes that   *)
(* are types themselves.                                                    *)
EXTENDS Bridge

CONSTANTS reply, p1, p2

EmptyEvent == <<4, 4, 0>>
Event == <<4, 5, 2, 2, 4>>
Acl == <<2, 1, 2, 1, 0, 3>>
Iso == <<5, 0, 0, 1, 64, 9>>  \* flags beside its 14-bit length
TooLong == <<2, 0, 0, 3, 0, 4, 4, 0>>
Endless == <<2, 0, 0, 9, 1, 4, 4, 0, 4, 4, 0>>
NoType == <<9, 4, 4, 0>>

MCScripts ==
  {<<Event, Event, Acl>>, <<Acl, EmptyEvent, Iso>>, <<Iso, Event>>, <<EmptyEvent, EmptyEvent, EmptyEvent, Event>>,
   <<Event, TooLong>>, <<EmptyEvent, Endless>>, <<Acl, NoType>>}
MCOffers == <<reply, p1, p2>>
=============================================================================
