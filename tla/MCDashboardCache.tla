--------------------------- MODULE MCDashboardCache ---------------------------
(* Small values for the constants of DashboardCache: a room for each of    *)
(* two teachers, a pupil, and a run of his in each of two weeks.           *)
EXTENDS DashboardCache

CONSTANTS ann, ben, ra, rb, p, r1, r2

MCPupilOf == [r \in Runs |-> p]

MCWeekOf == [r \in Runs |-> IF r = r1 THEN 1 ELSE 2]

MCTeacherOf == [room \in Rooms |-> IF room = ra THEN ann ELSE ben]

MCHomes == [x \in Pupils |-> ra]

MCVisits == {<<"dashboard", ann, ra>>, <<"analytics", ann, All>>, <<"dashboard", ben, ra>>}
===============================================================================
