------------------------- MODULE MCOutboundDelivery -------------------------
(* TLC instance of OutboundDelivery.                                       *)
EXTENDS OutboundDelivery
=============================================================================
