--------------------------- MODULE MCConsumerLoop ---------------------------
(* TLC instance of ConsumerLoop: one backend that follows the documented   *)
(* loop beside one careless consumer.  It has temporal properties, for     *)
(* which symmetry would be unsound.                                        *)
EXTENDS ConsumerLoop
=============================================================================
