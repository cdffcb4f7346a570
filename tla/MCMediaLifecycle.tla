-------------------------- MODULE MCMediaLifecycle --------------------------
(* TLC instances of MediaLifecycle.                                        *)
EXTENDS MediaLifecycle
=============================================================================
