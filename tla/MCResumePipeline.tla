-------------------------- MODULE MCResumePipeline --------------------------
(* Small instances of ResumePipeline. *)
EXTENDS ResumePipeline
=============================================================================
