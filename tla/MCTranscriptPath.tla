---------------------- MODULE MCTranscriptPath ----------------------
(* One session of the transcript path for TLC. *)
EXTENDS TranscriptPath
CONSTANT w1
MCInserters == {w1}
=============================================================================
