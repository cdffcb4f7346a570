------------------------- MODULE MCChannelLifecycle -------------------------
(* TLC instances of ChannelLifecycle.                                      *)
EXTENDS ChannelLifecycle
=============================================================================
