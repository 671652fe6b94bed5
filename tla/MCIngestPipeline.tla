--------------------------- MODULE MCIngestPipeline ---------------------------
(* Small values for the constants of IngestPipeline.                       *)
EXTENDS IngestPipeline, TLC

CONSTANTS r1, r2, s1, s2

\* Two runs of two students.
MCStudentOf == r1 :> s1 @@ r2 :> s2
=============================================================================
