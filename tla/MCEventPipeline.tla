--------------------------- MODULE MCEventPipeline --------------------------
(* TLC instances of EventPipeline: the configurations differ in which      *)
(* faults may happen, and give every constant a literal value.             *)
EXTENDS EventPipeline
=============================================================================
