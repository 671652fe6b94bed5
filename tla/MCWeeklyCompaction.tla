-------------------------- MODULE MCWeeklyCompaction --------------------------
(* Small values for the constants of WeeklyCompaction.                     *)
EXTENDS WeeklyCompaction, TLC

CONSTANTS a1, a2, b1, ann, bob, ana, boris

\* Ann is a pupil of Ana's and Bob of Boris's.  Ann's runs are on one level,
\* and a2 comes in when the week is being compacted.
MCStudentOf == [r \in Runs |-> IF r = b1 THEN bob ELSE ann]

MCHome == [x \in Students |-> IF x = bob THEN boris ELSE ana]

MCPairOf == [r \in Runs |-> IF r = b1 THEN b1 ELSE a1]
=============================================================================
