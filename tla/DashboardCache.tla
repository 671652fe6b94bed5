---------------------------- MODULE DashboardCache ----------------------------
(***************************************************************************)
(* The teacher dashboard and its two visualisation sections, computed from *)
(* the rollup tables and kept in the cache for a week.  Gunicorn workers   *)
(* answer requests; the flusher counts runs, pupils move, and the weekly   *)
(* compaction fills the turn-level tables, rebuilds the run buckets and    *)
(* then deletes the cache's keys, one pattern after the other.             *)
(*                                                                         *)
(* A request looks into the cache, then reads the pupils and the tables,   *)
(* one query after the other in no transaction, and stores what it has     *)
(* computed.  A page is the set of pupils and of runs it stands for.       *)
(* A request is killed after half a minute, so none outlives a day.        *)
(***************************************************************************)
EXTENDS Naturals, FiniteSets, Functions

CONSTANTS
    Runs, Pupils, Rooms, Teachers,
    PupilOf,      \* [Runs -> Pupils]
    WeekOf,       \* [Runs -> Weeks]
    TeacherOf,    \* [Rooms -> Teachers]
    Homes,        \* [Pupils -> Rooms], where the pupils start
    All,          \* no filter
    Visits,       \* the pages asked for: <<section, teacher, filter>>
    Workers,
    LastWeek,     \* bound on the weeks
    MaxEvents,    \* bound on the pupils' moves and the requests that die
    Lifetime      \* days the cache keeps a page, 7 in the code

Sections == {"dashboard", "analytics", "turn_insights"}

ASSUME DashboardAssumption ==
    /\ IsFiniteSet(Runs)
    /\ PupilOf \in [Runs -> Pupils] /\ WeekOf \in [Runs -> 1 .. LastWeek]
    /\ TeacherOf \in [Rooms -> Teachers] /\ Homes \in [Pupils -> Rooms]
    /\ Visits \subseteq Sections \X Teachers \X (Rooms \union {All})
    /\ LastWeek \in Nat \ {0} /\ MaxEvents \in Nat /\ Lifetime \in Nat \ {0}

VARIABLES
    home,        \* Student.classroom
    counted,     \* runs in the run-level weekly tables
    trend,       \* runs in StudentRunBucketTrend
    detail,      \* runs in the turn-level weekly tables
    compacted,   \* runs without raw turns
    week,
    compaction,  \* the compaction command
    done,        \* weeks marked COMPACTED
    silent,      \* history: a compaction ended without its deletions
    cache,       \* what is stored under a key, and the days it has left
    request,     \* per worker
    since,       \* history: days since a run was counted
    settled,     \* history: days since a pupil moved
    events

tables  == <<home, counted, trend, detail, compacted, week>>
jobs    == <<compaction, done, silent>>
history == <<since, settled, events>>
vars    == <<tables, jobs, cache, request, history>>

NoJob     == [stage |-> "idle", week |-> 0, todo |-> {}]
NoRequest == [stage |-> "idle", teacher |-> {}, asked |-> {}, page |-> {}, outdated |-> FALSE]
Blank     == [pupils |-> {}, compared |-> {}, runs |-> {}, curve |-> {}, detail |-> {}]
Pages     == [pupils : SUBSET Pupils, compared : SUBSET Pupils, runs : SUBSET Runs,
              curve : SUBSET Runs, detail : SUBSET Runs]

\* Mutant: the key leaves out the teacher.
KeyOfAll(visit) == <<visit[1], visit[3]>>

(* teacher_dashboard:{id}:{filters}, teacher_stats_viz:{id}:{section}:{filters} *)
Key(visit) == visit

Keys == {Key(visit) : visit \in Visits}

TypeOK ==
    /\ home \in [Pupils -> Rooms]
    /\ counted \subseteq Runs /\ trend \subseteq counted
    /\ detail \subseteq compacted /\ compacted \subseteq counted
    /\ week \in 1 .. LastWeek /\ done \subseteq 1 .. week - 1 /\ silent \in BOOLEAN
    /\ compaction \in [stage : {"idle", "slices", "sections", "dashboards"},
                       week : 0 .. LastWeek, todo : SUBSET Teachers]
    /\ DOMAIN cache \subseteq Keys
    /\ \A k \in DOMAIN cache :
          cache[k] \in [page : Pages, left : 1 .. Lifetime, outdated : BOOLEAN]
    /\ \A w \in Workers :
          \/ request[w] = NoRequest
          \/ request[w] \in [stage : {"pupils", "weekly", "buckets", "turns", "store", "answer"},
                             teacher : {{t} : t \in Teachers}, asked : {{v} : v \in Visits},
                             page : {{p} : p \in Pages}, outdated : BOOLEAN]
    /\ since \in [Runs -> 0 .. Lifetime] /\ settled \in [Pupils -> 0 .. Lifetime]
    /\ events \in 0 .. MaxEvents

Init ==
    /\ home = Homes
    /\ counted = {} /\ trend = {} /\ detail = {} /\ compacted = {}
    /\ week = 1
    /\ compaction = NoJob /\ done = {} /\ silent = FALSE
    /\ cache = [k \in {} |-> NoRequest]
    /\ request = [w \in Workers |-> NoRequest]
    /\ since = [r \in Runs |-> 0] /\ settled = [p \in Pupils |-> Lifetime] /\ events = 0

Teaches(t, p) == TeacherOf[home[p]] = t
Of(S)         == {r \in Runs : PupilOf[r] \in S}
-------------------------------------------------------------------------------
(* The world around the dashboard.                                         *)

(* The flusher counts a run in the week it inserts it in.                  *)
Count(r) ==
    /\ r \notin counted /\ WeekOf[r] = week
    /\ counted' = counted \union {r} /\ trend' = trend \union {r}
    /\ UNCHANGED <<home, detail, compacted, week, jobs, cache, request, history>>

Move(p, room) ==
    /\ home[p] # room /\ events < MaxEvents
    /\ home' = [home EXCEPT ![p] = room]
    /\ settled' = [settled EXCEPT ![p] = 0]
    /\ events' = events + 1
    /\ UNCHANGED <<counted, trend, detail, compacted, week, jobs, cache, request, since>>

NextWeek ==
    /\ week < LastWeek
    /\ week' = week + 1
    /\ UNCHANGED <<home, counted, trend, detail, compacted, jobs, cache, request, history>>

Older(n) == IF n < Lifetime THEN n + 1 ELSE n

\* Mutant: entries are stored without a timeout.
KeptForEver == UNCHANGED cache

\* Mutant: an entry is kept for a day too many.
AgedLate ==
    cache' = [k \in {k \in DOMAIN cache : cache[k].left > 0} |->
                 [cache[k] EXCEPT !.left = @ - 1]]

(* Entries whose days are over are gone.                                   *)
Aged ==
    cache' = [k \in {k \in DOMAIN cache : cache[k].left > 1} |->
                 [cache[k] EXCEPT !.left = @ - 1]]

Day ==
    /\ \A w \in Workers : request[w] = NoRequest
    /\ Aged
    /\ since' = [r \in Runs |-> IF r \in counted THEN Older(since[r]) ELSE 0]
    /\ settled' = [p \in Pupils |-> Older(settled[p])]
    /\ UNCHANGED <<tables, jobs, request, events>>

-------------------------------------------------------------------------------
(* The weekly compaction.                                                  *)

Played(w) == {r \in counted : WeekOf[r] = w}

StartCompaction(w) ==
    /\ compaction = NoJob
    /\ w < week /\ w \notin done /\ Played(w) # {}
    /\ compaction' = [stage |-> "slices", week |-> w,
                      todo |-> {TeacherOf[home[PupilOf[r]]] : r \in Played(w)}]
    /\ UNCHANGED <<tables, done, silent, cache, request, history>>

(* One teacher's slice, whole: the turn-level rows of the week's runs from *)
(* the turns there still are, the bucket rows of their pupils from         *)
(* compacted runs only, and the turns deleted.                             *)
Slice(t) ==
    /\ compaction.stage = "slices" /\ t \in compaction.todo
    /\ LET mine   == {r \in Played(compaction.week) : Teaches(t, PupilOf[r])}
           others == trend \ Of({PupilOf[r] : r \in mine})
       IN  /\ detail' = (detail \ mine) \union (mine \ compacted)
           /\ compacted' = compacted \union mine
           /\ trend' = others \union
                 {r \in compacted \union mine : PupilOf[r] \in {PupilOf[q] : q \in mine}}
    /\ compaction' = [compaction EXCEPT !.todo = @ \ {t}]
    /\ UNCHANGED <<home, counted, week, done, silent, cache, request, history>>

Finalize ==
    /\ compaction.stage = "slices" /\ compaction.todo = {}
    /\ done' = done \union {compaction.week}
    /\ compaction' = [compaction EXCEPT !.stage = "sections"]
    /\ UNCHANGED <<tables, silent, cache, request, history>>

Deleted(sections) ==
    /\ cache' = Restrict(cache, {k \in DOMAIN cache : k[1] \notin sections})
    /\ request' = [w \in Workers |->
           IF request[w].stage = "store" /\ \E v \in request[w].asked : v[1] \in sections
             THEN [request[w] EXCEPT !.outdated = TRUE] ELSE request[w]]

(* delete_pattern("teacher_stats_viz:*") ...                               *)
DeleteSections ==
    /\ compaction.stage = "sections"
    /\ Deleted({"analytics", "turn_insights"})
    /\ compaction' = [compaction EXCEPT !.stage = "dashboards"]
    /\ UNCHANGED <<tables, done, silent, history>>

\* Mutant: only the first pattern is deleted.
DeleteNothing ==
    /\ compaction.stage = "dashboards"
    /\ compaction' = NoJob /\ silent' = FALSE
    /\ UNCHANGED <<tables, done, cache, request, history>>

(* ... delete_pattern("teacher_dashboard:*")                               *)
DeleteDashboards ==
    /\ compaction.stage = "dashboards"
    /\ Deleted({"dashboard"})
    /\ compaction' = NoJob /\ silent' = FALSE
    /\ UNCHANGED <<tables, done, history>>

(* A slice fails or the command dies: a week that is marked is not         *)
(* compacted again, and its pages stay.                                    *)
Interrupted ==
    /\ compaction # NoJob
    /\ compaction' = NoJob /\ silent' = TRUE
    /\ UNCHANGED <<tables, done, cache, request, history>>

-------------------------------------------------------------------------------
(* Requests.                                                               *)

Step(w, stage, page) ==
    request' = [request EXCEPT ![w].stage = stage, ![w].page = {page}]

(* cache.get                                                               *)
Ask(w, visit) ==
    /\ request[w] = NoRequest
    /\ LET hit == Key(visit) \in DOMAIN cache
       IN  request' = [request EXCEPT ![w] =
              [stage |-> IF hit THEN "answer" ELSE "pupils",
               teacher |-> {visit[2]}, asked |-> {visit},
               page |-> {IF hit THEN cache[Key(visit)].page ELSE Blank},
               outdated |-> FALSE]]
    /\ UNCHANGED <<tables, jobs, cache, history>>

InRoom(filter) == {p \in Pupils : filter \in {All, home[p]}}

(* The teacher's pupils, those of the filter and, on a filtered dashboard, *)
(* all of them to compare with.                                            *)
ReadPupils(w) ==
    /\ request[w].stage = "pupils"
    /\ \E visit \in request[w].asked :
          LET own == {p \in Pupils : Teaches(visit[2], p)}
          IN  Step(w, IF visit[1] = "dashboard" THEN "weekly" ELSE "turns",
                   [Blank EXCEPT !.pupils = own \intersect InRoom(visit[3]),
                                 !.compared = IF visit[1] = "dashboard" THEN own ELSE {}])
    /\ UNCHANGED <<tables, jobs, cache, history>>

ReadWeekly(w) ==
    /\ request[w].stage = "weekly"
    /\ \E page \in request[w].page :
          Step(w, "buckets", [page EXCEPT !.runs = counted \intersect Of(page.compared)])
    /\ UNCHANGED <<tables, jobs, cache, history>>

ReadBuckets(w) ==
    /\ request[w].stage = "buckets"
    /\ \E page \in request[w].page :
          Step(w, "store", [page EXCEPT !.curve = trend \intersect Of(page.compared)])
    /\ UNCHANGED <<tables, jobs, cache, history>>

(* A section: the turn-level tables, and the run-level ones for its levels. *)
ReadTurns(w) ==
    /\ request[w].stage = "turns"
    /\ \E page \in request[w].page :
          Step(w, "store", [page EXCEPT !.detail = detail \intersect Of(page.pupils),
                                        !.runs = counted \intersect Of(page.pupils)])
    /\ UNCHANGED <<tables, jobs, cache, history>>

(* cache.set                                                               *)
Store(w) ==
    /\ request[w].stage = "store"
    /\ \E visit \in request[w].asked, page \in request[w].page :
          /\ cache' = [k \in DOMAIN cache \union {Key(visit)} |->
                 IF k = Key(visit)
                   THEN [page |-> page, left |-> Lifetime, outdated |-> request[w].outdated]
                   ELSE cache[k]]
          /\ Step(w, "answer", page)
    /\ UNCHANGED <<tables, jobs, history>>

Answered(w) ==
    /\ request[w].stage = "answer"
    /\ request' = [request EXCEPT ![w] = NoRequest]
    /\ UNCHANGED <<tables, jobs, cache, history>>

RequestDies(w) ==
    /\ request[w].stage \notin {"idle", "answer"} /\ events < MaxEvents
    /\ request' = [request EXCEPT ![w] = NoRequest]
    /\ events' = events + 1
    /\ UNCHANGED <<tables, jobs, cache, since, settled>>

-------------------------------------------------------------------------------
(* The specification.                                                      *)

Serving(w) == ReadPupils(w) \/ ReadWeekly(w) \/ ReadBuckets(w) \/ ReadTurns(w)
                 \/ Store(w) \/ Answered(w)

Next ==
    \/ \E r \in Runs : Count(r)
    \/ \E p \in Pupils, room \in Rooms : Move(p, room)
    \/ NextWeek \/ Day
    \/ \E w \in 1 .. LastWeek : StartCompaction(w)
    \/ \E t \in Teachers : Slice(t)
    \/ Finalize \/ DeleteSections \/ DeleteDashboards \/ Interrupted
    \/ \E w \in Workers :
          (\E visit \in Visits : Ask(w, visit)) \/ Serving(w) \/ RequestDies(w)

Spec == Init /\ [][Next]_vars

-------------------------------------------------------------------------------
(* Properties.                                                             *)

Answer(w, visit, page) ==
    request[w].stage = "answer" /\ visit \in request[w].asked /\ page \in request[w].page

(* However requests, moves and the cache interleave, a page shows a        *)
(* teacher pupils of somebody else only if they moved within the days a    *)
(* page is kept.                                                           *)
PagesAreTheTeachersOwn ==
    \A w \in Workers, visit \in Visits : \A page \in request[w].page :
        Answer(w, visit, page) =>
            \A p \in page.pupils \union page.compared :
                Teaches(visit[2], p) \/ settled[p] < Lifetime

(* A dashboard, from the cache or computed, leaves out of the totals only  *)
(* runs counted, and pupils come, within the days a page is kept: nothing  *)
(* invalidates it when runs are counted.                                   *)
PagesMissOnlyRecentRuns ==
    \A w \in Workers, visit \in Visits : \A page \in request[w].page :
        Answer(w, visit, page) /\ visit[1] = "dashboard" =>
            \A p \in InRoom(visit[3]) :
                Teaches(visit[2], p) /\ settled[p] = Lifetime =>
                    /\ p \in page.pupils
                    /\ {r \in counted \intersect Of({p}) : since[r] = Lifetime} \subseteq page.runs

(* Once a compaction is over, the pages in the cache show what it did: no  *)
(* section lacks turns it has added, no dashboard draws a curve it has     *)
(* replaced.  Excepted are pages whose request computed them before the    *)
(* deletion and stored them after it, and compactions that ended without   *)
(* their deletions.                                                        *)
CompactionShows ==
    compaction = NoJob /\ ~silent =>
        \A k \in DOMAIN cache :
            ~cache[k].outdated =>
                IF k[1] = "dashboard"
                  THEN cache[k].page.curve \subseteq trend
                  ELSE detail \intersect Of(cache[k].page.pupils) \subseteq cache[k].page.detail
===============================================================================
