--------------------------- MODULE MCTranscription --------------------------
(* TLC instances of Transcription.                                         *)
EXTENDS Transcription
=============================================================================
