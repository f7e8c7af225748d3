-------------------------- MODULE MCTranscription --------------------------
(* Small instances of Transcription. *)
EXTENDS Transcription

MCFollows == [r \in Readers |-> "int1"]
=============================================================================
