----------------------------- MODULE MCRunBuckets -----------------------------
(* Small values for the constants of RunBuckets: one pupil's runs, all on  *)
(* one level but "b".                                                      *)
EXTENDS RunBuckets

CONSTANTS low, high, kim

MCPairOf == [r \in Runs |-> IF r = "b" THEN high ELSE low]

MCStudentOf == [p \in Pairs |-> kim]

MCArrivals == <<"a1", "a2", "b", "a3">>

\* Flushers are compared for equality only.
FlusherSymmetry == Permutations(Flushers)
===============================================================================
