--------------------------- MODULE MCEventStream ----------------------------
(* A small instance of EventStream for TLC.                                *)
EXTENDS EventStream
=============================================================================
