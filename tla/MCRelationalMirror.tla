------------------------- MODULE MCRelationalMirror -------------------------
(* TLC instance of RelationalMirror.                                       *)
EXTENDS RelationalMirror
=============================================================================
