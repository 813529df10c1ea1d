-------------------------- MODULE MCWebSocketDrain --------------------------
(***************************************************************************)
(* Instances of WebSocketDrain: two devices, one of which reconnects.      *)
(***************************************************************************)
EXTENDS WebSocketDrain

CONSTANTS h1, h2, h3, i1, i2

Reconnects == [h \in Handles |-> IF h = h3 THEN i2 ELSE i1]
=============================================================================
