-------------------------- MODULE DashboardCacheProofs --------------------------
(***************************************************************************)
(* Theorems of DashboardCache, for any runs, pupils, rooms, teachers,      *)
(* pages, workers and weeks and any lifetime of a page: whose pages are    *)
(* shown, what a page may lack, and that a compaction shows.               *)
(***************************************************************************)
EXTENDS DashboardCache, TLAPS

Stages == {"pupils", "weekly", "buckets", "turns", "store", "answer"}

Served == [stage : Stages, teacher : {{t} : t \in Teachers}, asked : {{v} : v \in Visits},
           page : {{p} : p \in Pages}, outdated : BOOLEAN]

Entry == [page : Pages, left : 1 .. Lifetime, outdated : BOOLEAN]

TableTypes ==
    /\ home \in [Pupils -> Rooms]
    /\ counted \subseteq Runs /\ trend \subseteq counted
    /\ detail \subseteq compacted /\ compacted \subseteq counted
    /\ week \in 1 .. LastWeek

(* Only a week that is over is compacted.                                  *)
JobTypes ==
    /\ compaction \in [stage : {"idle", "slices", "sections", "dashboards"},
                       week : 0 .. LastWeek, todo : SUBSET Teachers]
    /\ compaction.stage = "idle" \/ compaction.week \in 1 .. week - 1
    /\ done \subseteq 1 .. week - 1 /\ silent \in BOOLEAN

CacheTypes ==
    /\ DOMAIN cache \subseteq Keys
    /\ \A k \in DOMAIN cache : cache[k] \in Entry

RequestTypes == request \in [Workers -> Served \union {NoRequest}]

HistoryTypes ==
    /\ since \in [Runs -> 0 .. Lifetime] /\ settled \in [Pupils -> 0 .. Lifetime]
    /\ events \in 0 .. MaxEvents

Types == TableTypes /\ JobTypes /\ CacheTypes /\ RequestTypes /\ HistoryTypes

-------------------------------------------------------------------------------
(* Types.                                                                  *)

LEMMA StepServes ==
    ASSUME RequestTypes, NEW w \in Workers, request[w].stage \in Stages,
           NEW stage \in Stages, NEW page \in Pages, Step(w, stage, page)
    PROVE  /\ RequestTypes' /\ request[w] \in Served
           /\ request'[w].stage = stage /\ request'[w].page = {page}
           /\ request'[w].asked = request[w].asked
           /\ request'[w].outdated = request[w].outdated
           /\ \A x \in Workers \ {w} : request'[x] = request[x]
<1>1. request[w] \in Served
  BY DEF RequestTypes, NoRequest, Stages
<1>2. [request[w] EXCEPT !.stage = stage, !.page = {page}] \in Served
  BY <1>1 DEF Served
<1>3. request' = [request EXCEPT ![w] = [request[w] EXCEPT !.stage = stage, !.page = {page}]]
  BY DEF Step, RequestTypes
<1> QED
  BY <1>1, <1>2, <1>3 DEF RequestTypes, Served

LEMMA EndServes ==
    ASSUME RequestTypes, NEW w \in Workers, request' = [request EXCEPT ![w] = NoRequest]
    PROVE  RequestTypes'
BY DEF RequestTypes

LEMMA DeletedTypes ==
    ASSUME CacheTypes, RequestTypes, NEW sections, Deleted(sections)
    PROVE  CacheTypes' /\ RequestTypes'
<1>1. CacheTypes'
  BY DEF CacheTypes, Deleted, Restrict
<1>2. ASSUME NEW w \in Workers, request[w].stage = "store"
      PROVE  [request[w] EXCEPT !.outdated = TRUE] \in Served
  <2>1. request[w] \in Served
    BY <1>2 DEF RequestTypes, NoRequest
  <2> QED
    BY <2>1 DEF Served
<1>3. RequestTypes'
  BY <1>2 DEF RequestTypes, Deleted
<1> QED
  BY <1>1, <1>3

LEMMA AgedTypes == ASSUME CacheTypes, Aged PROVE CacheTypes'
<1>1. ASSUME NEW k \in DOMAIN cache, cache[k].left > 1
      PROVE  [cache[k] EXCEPT !.left = @ - 1] \in Entry
  BY <1>1, DashboardAssumption DEF CacheTypes, Entry, DashboardAssumption
<1> QED
  BY <1>1 DEF CacheTypes, Aged

LEMMA NoJobTypes ==
    NoJob \in [stage : {"idle", "slices", "sections", "dashboards"},
               week : 0 .. LastWeek, todo : SUBSET Teachers]
<1>1. 0 \in 0 .. LastWeek
  BY DashboardAssumption DEF DashboardAssumption
<1> QED
  BY <1>1 DEF NoJob

LEMMA TypesInit == Init => Types
<1> SUFFICES ASSUME Init PROVE Types
  OBVIOUS
<1> USE DashboardAssumption DEF Init, DashboardAssumption
<1>1. TableTypes /\ HistoryTypes
  BY DEF TableTypes, HistoryTypes
<1>2. JobTypes
  BY NoJobTypes DEF JobTypes, NoJob
<1>3. CacheTypes /\ RequestTypes
  BY DEF CacheTypes, RequestTypes
<1> QED
  BY <1>1, <1>2, <1>3 DEF Types

LEMMA TypesStep == ASSUME Types, [Next]_vars PROVE Types'
<1> USE DEF Types
<1>1. ASSUME NEW r \in Runs, Count(r) PROVE Types'
  BY <1>1 DEF Count, TableTypes, JobTypes, CacheTypes, RequestTypes, HistoryTypes, jobs, history
<1>2. ASSUME NEW p \in Pupils, NEW room \in Rooms, Move(p, room) PROVE Types'
  BY <1>2, DashboardAssumption
  DEF Move, TableTypes, JobTypes, CacheTypes, RequestTypes, HistoryTypes, jobs, DashboardAssumption
<1>3. CASE NextWeek
  BY <1>3, DashboardAssumption
  DEF NextWeek, TableTypes, JobTypes, CacheTypes, RequestTypes, HistoryTypes, jobs, history,
      DashboardAssumption
<1>4. CASE Day
  <2>1. CacheTypes'
    BY <1>4, AgedTypes DEF Day
  <2>2. HistoryTypes'
    BY <1>4, DashboardAssumption DEF Day, HistoryTypes, Older, DashboardAssumption
  <2> QED
    BY <1>4, <2>1, <2>2 DEF Day, TableTypes, JobTypes, RequestTypes, tables, jobs
<1>5. ASSUME NEW w \in 1 .. LastWeek, StartCompaction(w) PROVE Types'
  <2>1. JobTypes'
    BY <1>5, DashboardAssumption
    DEF StartCompaction, JobTypes, TableTypes, Played, tables, DashboardAssumption
  <2> QED
    BY <1>5, <2>1 DEF StartCompaction, TableTypes, CacheTypes, RequestTypes, HistoryTypes, tables,
                      history
<1>6. ASSUME NEW t \in Teachers, Slice(t) PROVE Types'
  <2>1. JobTypes'
    BY <1>6 DEF Slice, JobTypes
  <2>2. TableTypes'
    BY <1>6 DEF Slice, TableTypes, Played
  <2> QED
    BY <1>6, <2>1, <2>2 DEF Slice, CacheTypes, RequestTypes, HistoryTypes, history
<1>7. CASE Finalize
  BY <1>7 DEF Finalize, TableTypes, JobTypes, CacheTypes, RequestTypes, HistoryTypes, tables, history
<1>8. CASE DeleteSections
  <2>1. CacheTypes' /\ RequestTypes'
    BY <1>8, DeletedTypes DEF DeleteSections
  <2> QED
    BY <1>8, <2>1 DEF DeleteSections, TableTypes, JobTypes, HistoryTypes, tables, history
<1>9. CASE DeleteDashboards
  <2>1. CacheTypes' /\ RequestTypes'
    BY <1>9, DeletedTypes DEF DeleteDashboards
  <2>2. JobTypes'
    <3>1. compaction' = NoJob /\ silent' = FALSE /\ UNCHANGED <<done, week>>
      BY <1>9 DEF DeleteDashboards, tables
    <3> QED
      BY <3>1, NoJobTypes DEF JobTypes, NoJob
  <2> QED
    BY <1>9, <2>1, <2>2 DEF DeleteDashboards, TableTypes, HistoryTypes, tables, history
<1>10. CASE Interrupted
  BY <1>10, DashboardAssumption
  DEF Interrupted, TableTypes, JobTypes, NoJob, CacheTypes, RequestTypes, HistoryTypes, tables,
      history, DashboardAssumption
<1>11. ASSUME NEW w \in Workers, NEW visit \in Visits, Ask(w, visit) PROVE Types'
  <2>1. RequestTypes'
    <3>1. visit[2] \in Teachers
      BY DashboardAssumption DEF DashboardAssumption
    <3>2. Blank \in Pages
      BY DEF Blank, Pages
    <3>3. Key(visit) \in DOMAIN cache => cache[Key(visit)].page \in Pages
      BY DEF CacheTypes, Entry
    <3> QED
      BY <1>11, <3>1, <3>2, <3>3 DEF Ask, RequestTypes, Served, Stages
  <2> QED
    BY <1>11, <2>1 DEF Ask, TableTypes, JobTypes, CacheTypes, HistoryTypes, tables, jobs, history
<1>12. ASSUME NEW w \in Workers,
              ReadPupils(w) \/ ReadWeekly(w) \/ ReadBuckets(w) \/ ReadTurns(w)
       PROVE  Types'
  <2>1. request[w] \in Served
    <3>1. request[w].stage # "idle"
      BY <1>12 DEF ReadPupils, ReadWeekly, ReadBuckets, ReadTurns
    <3> QED
      BY <3>1 DEF RequestTypes, NoRequest
  <2>2. \A page \in request[w].page : page \in Pages
    BY <2>1 DEF Served
  <2>3. ASSUME NEW page \in Pages, NEW runs \in SUBSET Runs, NEW field \in {"runs", "curve", "detail"}
        PROVE  [page EXCEPT ![field] = runs] \in Pages
    BY DEF Pages
  <2>4. \E stage \in Stages, page \in Pages : Step(w, stage, page)
    <3>1. CASE ReadPupils(w)
      BY <3>1 DEF ReadPupils, Blank, Pages, Stages
    <3>2. CASE ReadWeekly(w)
      BY <3>2, <2>2 DEF ReadWeekly, Pages, Stages, Of
    <3>3. CASE ReadBuckets(w)
      BY <3>3, <2>2 DEF ReadBuckets, Pages, Stages, Of
    <3>4. CASE ReadTurns(w)
      BY <3>4, <2>2 DEF ReadTurns, Pages, Stages, Of
    <3> QED
      BY <1>12, <3>1, <3>2, <3>3, <3>4
  <2>5. RequestTypes'
    BY <2>1, <2>4, StepServes DEF Served
  <2> QED
    BY <1>12, <2>5
    DEF ReadPupils, ReadWeekly, ReadBuckets, ReadTurns, TableTypes, JobTypes, CacheTypes,
        HistoryTypes, tables, jobs, history
<1>13. ASSUME NEW w \in Workers, Store(w) PROVE Types'
  <2>1. request[w] \in Served
    BY <1>13 DEF Store, RequestTypes, NoRequest
  <2>2. PICK visit \in request[w].asked, page \in request[w].page :
          /\ cache' = [k \in DOMAIN cache \union {Key(visit)} |->
                 IF k = Key(visit)
                   THEN [page |-> page, left |-> Lifetime, outdated |-> request[w].outdated]
                   ELSE cache[k]]
          /\ Step(w, "answer", page)
    BY <1>13 DEF Store
  <2>3. visit \in Visits /\ page \in Pages
    BY <2>1 DEF Served
  <2>4. RequestTypes'
    BY <2>1, <2>2, <2>3, StepServes DEF Served, Stages
  <2>5. [page |-> page, left |-> Lifetime, outdated |-> request[w].outdated] \in Entry
    BY <2>1, <2>3, DashboardAssumption DEF Served, Entry, DashboardAssumption
  <2>6. CacheTypes'
    BY <2>2, <2>3, <2>5 DEF CacheTypes, Keys
  <2> QED
    BY <1>13, <2>4, <2>6 DEF Store, TableTypes, JobTypes, HistoryTypes, tables, jobs, history
<1>14. ASSUME NEW w \in Workers, Answered(w) \/ RequestDies(w) PROVE Types'
  <2>1. RequestTypes'
    BY <1>14, EndServes DEF Answered, RequestDies
  <2>2. HistoryTypes'
    BY <1>14, DashboardAssumption
    DEF Answered, RequestDies, HistoryTypes, history, DashboardAssumption
  <2> QED
    BY <1>14, <2>1, <2>2 DEF Answered, RequestDies, TableTypes, JobTypes, CacheTypes, tables, jobs
<1>15. CASE UNCHANGED vars
  BY <1>15 DEF vars, tables, jobs, history, TableTypes, JobTypes, CacheTypes, RequestTypes,
               HistoryTypes
<1> QED
  BY <1>1, <1>2, <1>3, <1>4, <1>5, <1>6, <1>7, <1>8, <1>9, <1>10, <1>11, <1>12, <1>13, <1>14, <1>15
  DEF Next, Serving

\* Every reachable state is well typed: no section counts turns that are not
\* compacted, and no page is older than its lifetime.
THEOREM TypeCorrect == Spec => []TypeOK
<1>1. Types => TypeOK
  BY DEF Types, TableTypes, JobTypes, CacheTypes, RequestTypes, HistoryTypes, Served, Stages, Entry,
         TypeOK
<1> QED
  BY <1>1, TypesInit, TypesStep, PTL DEF Spec

-------------------------------------------------------------------------------
(* What a page may show.  A page is made while no day passes, so what was  *)
(* true of a pupil when it was read is true, or the pupil moved today; in  *)
(* the cache a page's age is Lifetime less the days it has left.           *)

Shown(page) == page.pupils \union page.compared

OwnInCache ==
    \A k \in DOMAIN cache : \A p \in Shown(cache[k].page) :
        Teaches(k[2], p) \/ settled[p] + cache[k].left <= Lifetime

OwnInHand ==
    \A w \in Workers :
        \A visit \in request[w].asked, page \in request[w].page : \A p \in Shown(page) :
            \/ Teaches(visit[2], p) \/ settled[p] = 0
            \/ request[w].stage = "answer" /\ settled[p] < Lifetime

Own == OwnInCache /\ OwnInHand

LEMMA OwnInit == Init => Own
BY DEF Init, Own, OwnInCache, OwnInHand, NoRequest

(* Steps that leave requests alone and at most take pages away.            *)
LEMMA OwnAside ==
    ASSUME Types, Own, UNCHANGED settled, UNCHANGED home,
           DOMAIN cache' \subseteq DOMAIN cache, \A k \in DOMAIN cache' : cache'[k] = cache[k],
           \A w \in Workers : /\ request'[w].asked = request[w].asked
                              /\ request'[w].page = request[w].page
                              /\ request'[w].stage = request[w].stage
    PROVE  Own'
BY DEF Own, OwnInCache, OwnInHand, Teaches

LEMMA DeletedAside ==
    ASSUME Types, NEW sections, Deleted(sections)
    PROVE  /\ DOMAIN cache' \subseteq DOMAIN cache
           /\ \A k \in DOMAIN cache' : cache'[k] = cache[k]
           /\ \A w \in Workers : /\ request'[w].asked = request[w].asked
                                 /\ request'[w].page = request[w].page
                                 /\ request'[w].stage = request[w].stage
<1>1. DOMAIN cache' \subseteq DOMAIN cache /\ \A k \in DOMAIN cache' : cache'[k] = cache[k]
  BY DEF Deleted, Restrict
<1>2. ASSUME NEW w \in Workers
      PROVE  /\ request'[w].asked = request[w].asked
             /\ request'[w].page = request[w].page
             /\ request'[w].stage = request[w].stage
  <2>1. \/ request'[w] = request[w]
        \/ request'[w] = [request[w] EXCEPT !.outdated = TRUE]
    BY DEF Deleted
  <2>2. [request[w] EXCEPT !.outdated = TRUE].asked = request[w].asked
        /\ [request[w] EXCEPT !.outdated = TRUE].page = request[w].page
        /\ [request[w] EXCEPT !.outdated = TRUE].stage = request[w].stage
    BY DEF Types, RequestTypes, Served, NoRequest
  <2> QED
    BY <2>1, <2>2
<1> QED
  BY <1>1, <1>2

(* The one page a request reads, step by step.                             *)
LEMMA Serves ==
    ASSUME Types, NEW w \in Workers, request[w].stage \in Stages
    PROVE  /\ request[w] \in Served
           /\ \E visit \in Visits, page \in Pages :
                 request[w].asked = {visit} /\ request[w].page = {page}
BY DEF Types, RequestTypes, Served, NoRequest, Stages

LEMMA OwnStep == ASSUME Types, Own, [Next]_vars PROVE Own'
<1> USE DEF Types
<1>1. CASE UNCHANGED <<home, settled, cache, request>>
  BY <1>1, OwnAside
<1>2. ASSUME NEW p \in Pupils, NEW room \in Rooms, Move(p, room) PROVE Own'
  BY <1>2, DashboardAssumption
  DEF Move, Own, OwnInCache, OwnInHand, Teaches, TableTypes, CacheTypes, Entry, HistoryTypes,
      DashboardAssumption
<1>3. CASE Day
  <2>1. OwnInHand'
    BY <1>3 DEF Day, OwnInHand, NoRequest
  <2>2. ASSUME NEW k \in DOMAIN cache', NEW p \in Shown(cache'[k].page),
               ~Teaches(k[2], p)'
        PROVE  settled'[p] + cache'[k].left <= Lifetime
    <3>1. /\ k \in DOMAIN cache /\ cache[k] \in Entry /\ cache[k].left > 1
          /\ cache'[k] = [cache[k] EXCEPT !.left = @ - 1]
      BY <1>3 DEF Day, Aged, CacheTypes
    <3>2. cache'[k].page = cache[k].page /\ cache'[k].left = cache[k].left - 1
      BY <3>1 DEF Entry
    <3>3. p \in Pupils
      BY <3>1, <3>2 DEF Entry, Pages, Shown
    <3>4. settled[p] + cache[k].left <= Lifetime
      BY <1>3, <2>2, <3>1, <3>2 DEF Own, OwnInCache, Day, tables, Teaches
    <3>5. settled'[p] = Older(settled[p])
      BY <1>3, <3>3 DEF Day
    <3> QED
      BY <3>1, <3>2, <3>3, <3>4, <3>5, DashboardAssumption
      DEF HistoryTypes, Older, Entry, DashboardAssumption
  <2> QED
    BY <2>1, <2>2 DEF Own, OwnInCache
<1>4. CASE DeleteSections \/ DeleteDashboards
  BY <1>4, DeletedAside, OwnAside DEF DeleteSections, DeleteDashboards, tables, history
<1>5. ASSUME NEW w \in Workers, NEW visit \in Visits, Ask(w, visit) PROVE Own'
  <2>1. OwnInCache'
    BY <1>5 DEF Ask, Own, OwnInCache, Teaches, tables, history
  <2>2. CASE Key(visit) \in DOMAIN cache
    <3>1. \A p \in Shown(cache[visit].page) : Teaches(visit[2], p) \/ settled[p] < Lifetime
      BY <2>2, DashboardAssumption
      DEF Key, Own, OwnInCache, CacheTypes, Entry, Pages, Shown, HistoryTypes, DashboardAssumption
    <3>2. /\ request'[w].asked = {visit} /\ request'[w].page = {cache[visit].page}
          /\ request'[w].stage = "answer" /\ \A x \in Workers \ {w} : request'[x] = request[x]
      BY <1>5, <2>2 DEF Ask, Key, RequestTypes
    <3> QED
      BY <1>5, <2>1, <3>1, <3>2 DEF Ask, Own, OwnInHand, Teaches, tables, history
  <2>3. CASE Key(visit) \notin DOMAIN cache
    <3>1. request'[w].page = {Blank} /\ \A x \in Workers \ {w} : request'[x] = request[x]
      BY <1>5, <2>3 DEF Ask, RequestTypes
    <3> QED
      BY <1>5, <2>1, <3>1 DEF Ask, Own, OwnInHand, Shown, Blank, Teaches, tables, history
  <2> QED
    BY <2>2, <2>3
<1>6. ASSUME NEW w \in Workers, NEW stage \in Stages, NEW page \in Pages, Step(w, stage, page),
             request[w].stage \in Stages,
             \A p \in Shown(page), visit \in request[w].asked :
                Teaches(visit[2], p) \/ settled[p] = 0,
             UNCHANGED <<home, settled>>
      PROVE  OwnInHand'
  BY <1>6, StepServes DEF Own, OwnInHand, Teaches
<1>7. ASSUME NEW w \in Workers, ReadPupils(w) PROVE Own'
  <2>1. PICK visit \in request[w].asked :
          Step(w, IF visit[1] = "dashboard" THEN "weekly" ELSE "turns",
               [Blank EXCEPT !.pupils = {p \in Pupils : Teaches(visit[2], p)}
                                           \intersect InRoom(visit[3]),
                             !.compared = IF visit[1] = "dashboard"
                                            THEN {p \in Pupils : Teaches(visit[2], p)} ELSE {}])
    BY <1>7 DEF ReadPupils
  <2> DEFINE page == [Blank EXCEPT !.pupils = {p \in Pupils : Teaches(visit[2], p)}
                                                 \intersect InRoom(visit[3]),
                                   !.compared = IF visit[1] = "dashboard"
                                                  THEN {p \in Pupils : Teaches(visit[2], p)} ELSE {}]
  <2>2. page \in Pages /\ \A p \in Shown(page) : Teaches(visit[2], p)
    BY DEF Blank, Pages, Shown
  <2>3. request[w].stage \in Stages
    BY <1>7 DEF ReadPupils, Stages
  <2>4. request[w].asked = {visit}
    BY <2>1, <2>3, Serves
  <2>5. UNCHANGED <<home, settled, cache>>
    BY <1>7 DEF ReadPupils, tables, history
  <2>6. OwnInHand'
    <3>1. \E stage \in Stages : Step(w, stage, page)
      BY <2>1 DEF Stages
    <3> HIDE DEF page
    <3> QED
      BY <1>6, <2>2, <2>3, <2>4, <2>5, <3>1
  <2> QED
    BY <2>5, <2>6 DEF Own, OwnInCache, Teaches
<1>8. ASSUME NEW w \in Workers, ReadWeekly(w) \/ ReadBuckets(w) \/ ReadTurns(w) PROVE Own'
  <2>1. request[w].stage \in Stages \ {"answer"}
    BY <1>8 DEF ReadWeekly, ReadBuckets, ReadTurns, Stages
  <2>2. PICK old \in Pages : request[w].page = {old}
    BY <2>1, Serves
  <2>3. UNCHANGED <<home, settled, cache>>
    BY <1>8 DEF ReadWeekly, ReadBuckets, ReadTurns, tables, history
  <2> DEFINE Steps == \E stage \in Stages, page \in Pages :
                         Step(w, stage, page) /\ Shown(page) = Shown(old)
  <2>4. Steps
    <3>1. ReadWeekly(w) => Steps
      BY <2>2 DEF ReadWeekly, Pages, Stages, Of, Shown
    <3>2. ReadBuckets(w) => Steps
      BY <2>2 DEF ReadBuckets, Pages, Stages, Of, Shown
    <3>3. ReadTurns(w) => Steps
      <4> DEFINE new == [old EXCEPT !.detail = detail \intersect Of(old.pupils),
                                    !.runs = counted \intersect Of(old.pupils)]
      <4>1. new \in Pages /\ Shown(new) = Shown(old)
        BY DEF Pages, Of, Shown
      <4>2. ReadTurns(w) => Step(w, "store", new)
        BY <2>2 DEF ReadTurns
      <4> HIDE DEF new
      <4> QED
        BY <4>1, <4>2 DEF Stages
    <3> HIDE DEF Steps
    <3> QED
      BY <1>8, <3>1, <3>2, <3>3
  <2>5. \A p \in Shown(old), visit \in request[w].asked : Teaches(visit[2], p) \/ settled[p] = 0
    BY <2>1, <2>2 DEF Own, OwnInHand
  <2>6. OwnInHand'
    BY <1>6, <2>1, <2>3, <2>4, <2>5
  <2> QED
    BY <2>3, <2>6 DEF Own, OwnInCache, Teaches
<1>9. ASSUME NEW w \in Workers, Store(w) PROVE Own'
  <2>1. request[w].stage \in Stages \ {"answer"}
    BY <1>9 DEF Store, Stages
  <2>2. PICK visit \in Visits, page \in Pages :
          request[w].asked = {visit} /\ request[w].page = {page}
    BY <2>1, Serves
  <2>3. /\ cache' = [k \in DOMAIN cache \union {visit} |->
                 IF k = visit
                   THEN [page |-> page, left |-> Lifetime, outdated |-> request[w].outdated]
                   ELSE cache[k]]
        /\ Step(w, "answer", page) /\ UNCHANGED <<home, settled>>
    BY <1>9, <2>2 DEF Store, Key, tables, history
  <2>4. \A p \in Shown(page) : Teaches(visit[2], p) \/ settled[p] = 0
    BY <2>1, <2>2 DEF Own, OwnInHand
  <2>5. OwnInHand'
    BY <1>6, <2>1, <2>2, <2>3, <2>4 DEF Stages
  <2>6. OwnInCache'
    BY <2>3, <2>4, DashboardAssumption DEF Own, OwnInCache, Teaches, DashboardAssumption
  <2> QED
    BY <2>5, <2>6 DEF Own
<1>10. ASSUME NEW w \in Workers, Answered(w) \/ RequestDies(w) PROVE Own'
  BY <1>10 DEF Answered, RequestDies, NoRequest, RequestTypes, Own, OwnInCache, OwnInHand, Teaches,
               tables, history
<1>11. \/ \E r \in Runs : Count(r)
       \/ NextWeek \/ Finalize \/ Interrupted
       \/ \E w \in 1 .. LastWeek : StartCompaction(w)
       \/ \E t \in Teachers : Slice(t)
       \/ UNCHANGED vars
       => UNCHANGED <<home, settled, cache, request>>
  BY DEF Count, NextWeek, Finalize, Interrupted, StartCompaction, Slice, vars, tables, history
<1> QED
  BY <1>1, <1>2, <1>3, <1>4, <1>5, <1>7, <1>8, <1>9, <1>10, <1>11 DEF Next, Serving

\* A page, cached or computed, shows a teacher somebody else's pupil only if
\* the pupil moved within a page's lifetime: the key names the teacher, the
\* queries are limited to the teacher's pupils, and cache.set has a timeout
\* (views.py).
THEOREM OwnPages == Spec => []PagesAreTheTeachersOwn
<1>1. Types /\ Own => PagesAreTheTeachersOwn
  <2> SUFFICES ASSUME Types, Own, NEW w \in Workers, NEW visit \in Visits,
                      NEW page \in request[w].page, Answer(w, visit, page),
                      NEW p \in page.pupils \union page.compared
               PROVE  Teaches(visit[2], p) \/ settled[p] < Lifetime
    BY DEF PagesAreTheTeachersOwn
  <2> QED
    BY DashboardAssumption DEF Answer, Own, OwnInHand, Shown, DashboardAssumption
<1> QED
  BY <1>1, TypesInit, TypesStep, OwnInit, OwnStep, PTL DEF Spec

-------------------------------------------------------------------------------
(* What a page of the dashboard may lack, and that a compaction shows.     *)

(* A request goes from a stage and a page to the next.                     *)
Advances(w, visit, old, from, page, to) ==
    /\ request[w].asked = {visit} /\ request'[w].asked = {visit}
    /\ request[w].page = {old} /\ request'[w].page = {page}
    /\ request[w].stage = from /\ request'[w].stage = to
    /\ request'[w].outdated = request[w].outdated
    /\ \A x \in Workers \ {w} : request'[x] = request[x]

Quiet == UNCHANGED <<tables, jobs, cache, history>>

LEMMA StepAdvances ==
    ASSUME Types, NEW w \in Workers, request[w].stage \in Stages,
           NEW stage \in Stages, NEW page \in Pages, Step(w, stage, page),
           NEW visit, NEW old, request[w].asked = {visit}, request[w].page = {old}
    PROVE  Advances(w, visit, old, request[w].stage, page, stage)
BY StepServes DEF Types, Advances

LEMMA PupilsAreRead ==
    ASSUME Types, NEW w \in Workers, ReadPupils(w)
    PROVE  /\ Quiet
           /\ \E visit \in Visits, old, page \in Pages :
                 /\ Advances(w, visit, old, "pupils", page,
                             IF visit[1] = "dashboard" THEN "weekly" ELSE "turns")
                 /\ page.pupils = {p \in Pupils : Teaches(visit[2], p)} \intersect InRoom(visit[3])
                 /\ visit[1] = "dashboard" =>
                       page.compared = {p \in Pupils : Teaches(visit[2], p)}
<1>1. request[w].stage = "pupils" /\ "pupils" \in Stages
  BY DEF ReadPupils, Stages
<1>2. PICK visit \in Visits, old \in Pages : request[w].asked = {visit} /\ request[w].page = {old}
  BY <1>1, Serves
<1> DEFINE own  == {p \in Pupils : Teaches(visit[2], p)}
           page == [Blank EXCEPT !.pupils = own \intersect InRoom(visit[3]),
                                 !.compared = IF visit[1] = "dashboard" THEN own ELSE {}]
           to   == IF visit[1] = "dashboard" THEN "weekly" ELSE "turns"
<1>3. Step(w, to, page)
  BY <1>2 DEF ReadPupils
<1>4. /\ page \in Pages /\ page.pupils = own \intersect InRoom(visit[3])
      /\ visit[1] = "dashboard" => page.compared = own
  BY DEF Blank, Pages
<1>5. to \in Stages
  BY DEF Stages
<1> HIDE DEF page, to
<1>6. Advances(w, visit, old, "pupils", page, to)
  BY <1>1, <1>2, <1>3, <1>4, <1>5, StepAdvances
<1> QED
  BY <1>4, <1>6 DEF ReadPupils, Quiet, to

LEMMA WeeksAreRead ==
    ASSUME Types, NEW w \in Workers, ReadWeekly(w)
    PROVE  /\ Quiet
           /\ \E visit \in Visits, old \in Pages, page \in Pages :
                 /\ Advances(w, visit, old, "weekly", page, "buckets")
                 /\ page.pupils = old.pupils /\ page.compared = old.compared
                 /\ page.runs = counted \intersect Of(old.compared)
<1>1. request[w].stage = "weekly" /\ "weekly" \in Stages /\ "buckets" \in Stages
  BY DEF ReadWeekly, Stages
<1>2. PICK visit \in Visits, old \in Pages : request[w].asked = {visit} /\ request[w].page = {old}
  BY <1>1, Serves
<1> DEFINE page == [old EXCEPT !.runs = counted \intersect Of(old.compared)]
<1>3. Step(w, "buckets", page)
  BY <1>2 DEF ReadWeekly
<1>4. /\ page \in Pages /\ page.pupils = old.pupils /\ page.compared = old.compared
      /\ page.runs = counted \intersect Of(old.compared)
  BY DEF Pages, Of
<1> HIDE DEF page
<1>5. Advances(w, visit, old, "weekly", page, "buckets")
  BY <1>1, <1>2, <1>3, <1>4, StepAdvances
<1> QED
  BY <1>4, <1>5 DEF ReadWeekly, Quiet

LEMMA BucketsAreRead ==
    ASSUME Types, NEW w \in Workers, ReadBuckets(w)
    PROVE  /\ Quiet
           /\ \E visit \in Visits, old \in Pages, page \in Pages :
                 /\ Advances(w, visit, old, "buckets", page, "store")
                 /\ page.pupils = old.pupils /\ page.runs = old.runs
                 /\ page.curve \subseteq trend
<1>1. request[w].stage = "buckets" /\ "buckets" \in Stages /\ "store" \in Stages
  BY DEF ReadBuckets, Stages
<1>2. PICK visit \in Visits, old \in Pages : request[w].asked = {visit} /\ request[w].page = {old}
  BY <1>1, Serves
<1> DEFINE page == [old EXCEPT !.curve = trend \intersect Of(old.compared)]
<1>3. Step(w, "store", page)
  BY <1>2 DEF ReadBuckets
<1>4. /\ page \in Pages /\ page.pupils = old.pupils /\ page.runs = old.runs
      /\ page.curve \subseteq trend
  BY DEF Pages, Of
<1> HIDE DEF page
<1>5. Advances(w, visit, old, "buckets", page, "store")
  BY <1>1, <1>2, <1>3, <1>4, StepAdvances
<1> QED
  BY <1>4, <1>5 DEF ReadBuckets, Quiet

LEMMA TurnsAreRead ==
    ASSUME Types, NEW w \in Workers, ReadTurns(w)
    PROVE  /\ Quiet
           /\ \E visit \in Visits, old \in Pages, page \in Pages :
                 /\ Advances(w, visit, old, "turns", page, "store")
                 /\ detail \intersect Of(page.pupils) \subseteq page.detail
<1>1. request[w].stage = "turns" /\ "turns" \in Stages /\ "store" \in Stages
  BY DEF ReadTurns, Stages
<1>2. PICK visit \in Visits, old \in Pages : request[w].asked = {visit} /\ request[w].page = {old}
  BY <1>1, Serves
<1> DEFINE page == [old EXCEPT !.detail = detail \intersect Of(old.pupils),
                               !.runs = counted \intersect Of(old.pupils)]
<1>3. Step(w, "store", page)
  BY <1>2 DEF ReadTurns
<1>4. page \in Pages /\ detail \intersect Of(page.pupils) \subseteq page.detail
  BY DEF Pages, Of
<1> HIDE DEF page
<1>5. Advances(w, visit, old, "turns", page, "store")
  BY <1>1, <1>2, <1>3, <1>4, StepAdvances
<1> QED
  BY <1>4, <1>5 DEF ReadTurns, Quiet

LEMMA PageIsStored ==
    ASSUME Types, NEW w \in Workers, Store(w)
    PROVE  /\ UNCHANGED <<tables, jobs, history>>
           /\ \E visit \in Visits, page \in Pages :
                 /\ Advances(w, visit, page, "store", page, "answer")
                 /\ DOMAIN cache' = DOMAIN cache \union {visit}
                 /\ cache'[visit] = [page |-> page, left |-> Lifetime,
                                     outdated |-> request[w].outdated]
                 /\ \A k \in DOMAIN cache \ {visit} : cache'[k] = cache[k]
<1>1. request[w].stage = "store" /\ "store" \in Stages /\ "answer" \in Stages
  BY DEF Store, Stages
<1>2. PICK visit \in Visits, page \in Pages :
        request[w].asked = {visit} /\ request[w].page = {page}
  BY <1>1, Serves
<1>3. /\ Step(w, "answer", page)
      /\ cache' = [k \in DOMAIN cache \union {visit} |->
             IF k = visit
               THEN [page |-> page, left |-> Lifetime, outdated |-> request[w].outdated]
               ELSE cache[k]]
  BY <1>2 DEF Store, Key
<1>4. Advances(w, visit, page, "store", page, "answer")
  BY <1>1, <1>2, <1>3, StepAdvances
<1> QED
  BY <1>3, <1>4 DEF Store

LEMMA PageIsAsked ==
    ASSUME Types, NEW w \in Workers, NEW visit \in Visits, Ask(w, visit)
    PROVE  /\ Quiet /\ \A x \in Workers \ {w} : request'[x] = request[x]
           /\ request'[w].asked = {visit}
           /\ \/ /\ visit \in DOMAIN cache
                 /\ request'[w].stage = "answer" /\ request'[w].page = {cache[visit].page}
              \/ request'[w].stage = "pupils"
BY DEF Ask, Key, Types, RequestTypes, Quiet

LEMMA RequestEnds ==
    ASSUME Types, NEW w \in Workers, Answered(w) \/ RequestDies(w)
    PROVE  /\ UNCHANGED <<tables, jobs, cache, since, settled>>
           /\ request'[w] = NoRequest /\ \A x \in Workers \ {w} : request'[x] = request[x]
BY DEF Answered, RequestDies, Types, RequestTypes, history

(* What happens around the requests.                                       *)
Around ==
    \/ \E r \in Runs : Count(r)
    \/ \E p \in Pupils, room \in Rooms : Move(p, room)
    \/ NextWeek
    \/ \E w \in 1 .. LastWeek : StartCompaction(w)
    \/ \E t \in Teachers : Slice(t)
    \/ Finalize \/ DeleteSections \/ DeleteDashboards \/ Interrupted
    \/ UNCHANGED vars

LEMMA AroundRequests ==
    ASSUME Types, Around
    PROVE  /\ DOMAIN cache' \subseteq DOMAIN cache
           /\ \A k \in DOMAIN cache' : cache'[k] = cache[k]
           /\ \A w \in Workers : /\ request'[w].asked = request[w].asked
                                 /\ request'[w].page = request[w].page
                                 /\ request'[w].stage = request[w].stage
<1>1. CASE DeleteSections \/ DeleteDashboards
  BY <1>1, DeletedAside DEF DeleteSections, DeleteDashboards
<1>2. CASE UNCHANGED <<cache, request>>
  BY <1>2
<1> QED
  BY <1>1, <1>2
  DEF Around, Count, Move, NextWeek, StartCompaction, Slice, Finalize, Interrupted, vars

(* Dashboards read the weekly rows and the buckets, sections the turns.    *)
Kinds ==
    \A w \in Workers : \A visit \in request[w].asked :
        /\ request[w].stage \in {"weekly", "buckets"} => visit[1] = "dashboard"
        /\ request[w].stage = "turns" => visit[1] # "dashboard"

LEMMA KindsInit == Init => Kinds
BY DEF Init, Kinds, NoRequest

LEMMA KindsStep == ASSUME Types, Kinds, [Next]_vars PROVE Kinds'
<1>1. CASE Around
  BY <1>1, AroundRequests DEF Kinds
<1>2. CASE Day
  BY <1>2 DEF Day, Kinds
<1>3. ASSUME NEW w \in Workers, NEW visit \in Visits, Ask(w, visit) PROVE Kinds'
  BY <1>3, PageIsAsked DEF Kinds
<1>4. ASSUME NEW w \in Workers, ReadPupils(w) PROVE Kinds'
  BY <1>4, PupilsAreRead DEF Kinds, Advances
<1>5. ASSUME NEW w \in Workers, ReadWeekly(w) PROVE Kinds'
  BY <1>5, WeeksAreRead DEF Kinds, Advances
<1>6. ASSUME NEW w \in Workers, ReadBuckets(w) PROVE Kinds'
  BY <1>6, BucketsAreRead DEF Kinds, Advances
<1>7. ASSUME NEW w \in Workers, ReadTurns(w) PROVE Kinds'
  BY <1>7, TurnsAreRead DEF Kinds, Advances
<1>8. ASSUME NEW w \in Workers, Store(w) PROVE Kinds'
  <2>1. PICK visit \in Visits, page \in Pages : Advances(w, visit, page, "store", page, "answer")
    BY <1>8, PageIsStored
  <2> QED
    BY <2>1 DEF Kinds, Advances
<1>9. ASSUME NEW w \in Workers, Answered(w) \/ RequestDies(w) PROVE Kinds'
  BY <1>9, RequestEnds DEF Kinds, NoRequest
<1> QED
  BY <1>1, <1>2, <1>3, <1>4, <1>5, <1>6, <1>7, <1>8, <1>9 DEF Next, Serving, Around

-------------------------------------------------------------------------------
(* A finished compaction shows.                                            *)

ShowsTurns(page) == detail \intersect Of(page.pupils) \subseteq page.detail
ShowsCurve(page) == page.curve \subseteq trend

(* Since its deletions a compaction has changed nothing.                   *)
SectionsDone   == compaction.stage = "dashboards" \/ (compaction.stage = "idle" /\ ~silent)
DashboardsDone == compaction.stage = "idle" /\ ~silent

(* Pages in the cache, or about to be stored, that no deletion overtook.   *)
Stale(k, page) ==
    IF k[1] = "dashboard" THEN DashboardsDone /\ ~ShowsCurve(page)
                          ELSE SectionsDone /\ ~ShowsTurns(page)

Showing ==
    /\ \A k \in DOMAIN cache : ~cache[k].outdated => ~Stale(k, cache[k].page)
    /\ \A w \in Workers : \A k \in request[w].asked, page \in request[w].page :
          request[w].stage = "store" /\ ~request[w].outdated => ~Stale(k, page)

LEMMA ShowingInit == Init => Showing
BY DEF Init, Showing, NoRequest

(* A step that makes nothing stale.                                        *)
LEMMA NothingStaler ==
    ASSUME Types, Showing, NEW w,
           \A k \in Visits, page \in Pages : Stale(k, page)' => Stale(k, page),
           DOMAIN cache' \subseteq DOMAIN cache,
           \A k \in DOMAIN cache' : /\ cache'[k].page = cache[k].page
                                    /\ cache'[k].outdated = cache[k].outdated,
           \A x \in Workers \ {w} : request'[x] = request[x],
           w \in Workers =>
              \A k \in request'[w].asked, page \in request'[w].page :
                 request'[w].stage = "store" /\ ~request'[w].outdated => ~Stale(k, page)'
    PROVE  Showing'
<1>1. ASSUME NEW k \in DOMAIN cache', NEW page, page = cache'[k].page, ~cache'[k].outdated
      PROVE  ~Stale(k, page)'
  <2>1. /\ k \in DOMAIN cache /\ k \in Visits /\ page \in Pages
        /\ page = cache[k].page /\ ~cache[k].outdated
    BY <1>1 DEF Types, CacheTypes, Entry, Keys, Key
  <2> QED
    BY <2>1 DEF Showing
<1>2. ASSUME NEW x \in Workers \ {w}, NEW k \in request[x].asked, NEW page \in request[x].page,
             request[x].stage = "store", ~request[x].outdated
      PROVE  ~Stale(k, page)'
  <2>1. k \in Visits /\ page \in Pages
    BY <1>2, Serves DEF Stages
  <2> QED
    BY <1>2, <2>1 DEF Showing
<1> QED
  BY <1>1, <1>2 DEF Showing, Stale, ShowsCurve, ShowsTurns, SectionsDone, DashboardsDone

(* A deletion flags what it overtakes.                                     *)
LEMMA Overtaken ==
    ASSUME Types, NEW sections, Deleted(sections)
    PROVE  /\ \A k \in DOMAIN cache' : k \in DOMAIN cache /\ k[1] \notin sections
           /\ \A k \in DOMAIN cache' : cache'[k] = cache[k]
           /\ \A w \in Workers : \A k \in request'[w].asked, page \in request'[w].page :
                 request'[w].stage = "store" /\ ~request'[w].outdated =>
                    /\ k[1] \notin sections
                    /\ request'[w] = request[w]
<1>1. /\ \A k \in DOMAIN cache' : k \in DOMAIN cache /\ k[1] \notin sections
      /\ \A k \in DOMAIN cache' : cache'[k] = cache[k]
  BY DEF Deleted, Restrict
<1>2. ASSUME NEW w \in Workers, NEW k \in request'[w].asked,
             request'[w].stage = "store", ~request'[w].outdated
      PROVE  k[1] \notin sections /\ request'[w] = request[w]
  <2>1. \/ request'[w] = request[w]
        \/ request[w].stage = "store" /\ request'[w] = [request[w] EXCEPT !.outdated = TRUE]
    BY DEF Deleted
  <2>2. request'[w] = request[w]
    BY <1>2, <2>1 DEF Types, RequestTypes, Served, NoRequest
  <2>3. ASSUME k[1] \in sections PROVE FALSE
    <3>1. request'[w] = [request[w] EXCEPT !.outdated = TRUE]
      BY <1>2, <2>2, <2>3 DEF Deleted
    <3> QED
      BY <1>2, <2>2, <3>1 DEF Types, RequestTypes, Served, NoRequest
  <2> QED
    BY <2>2, <2>3
<1> QED
  BY <1>1, <1>2

LEMMA ShowingStep == ASSUME Types, Kinds, Showing, [Next]_vars PROVE Showing'
<1> DEFINE Same == UNCHANGED <<cache, request>>
           NoStaler == \A k \in Visits, page \in Pages : Stale(k, page)' => Stale(k, page)
<1>1. ASSUME Same, NoStaler PROVE Showing'
  <2>1. PICK w : w \notin Workers
    BY NoSetContainsEverything
  <2> QED
    BY <1>1, <2>1, NothingStaler
<1>2. ASSUME NEW r \in Runs, Count(r) PROVE Showing'
  <2>1. NoStaler
    BY <1>2 DEF Count, jobs, Stale, ShowsCurve, ShowsTurns, SectionsDone, DashboardsDone, Of
  <2> QED
    BY <1>1, <1>2, <2>1 DEF Count
<1>3. CASE Same /\ UNCHANGED <<trend, detail, compaction, silent>>
  BY <1>1, <1>3 DEF Stale, ShowsCurve, ShowsTurns, SectionsDone, DashboardsDone, Of
<1>4. CASE Same /\ ~SectionsDone' /\ ~DashboardsDone'
  BY <1>1, <1>4 DEF Stale
<1>5. CASE \/ \E w \in 1 .. LastWeek : StartCompaction(w)
           \/ \E t \in Teachers : Slice(t)
           \/ Finalize \/ Interrupted
  <2>1. Same /\ ~SectionsDone' /\ ~DashboardsDone'
    BY <1>5 DEF StartCompaction, Slice, Finalize, Interrupted, SectionsDone, DashboardsDone, NoJob,
                Types, JobTypes
  <2> QED
    BY <1>4, <2>1
<1>6. CASE DeleteSections
  <2>1. UNCHANGED <<trend, detail>> /\ compaction'.stage = "dashboards"
    BY <1>6 DEF DeleteSections, tables, Types, JobTypes
  <2>2. ~DashboardsDone'
    BY <2>1 DEF DashboardsDone
  <2>3. ASSUME NEW k \in Visits, NEW page, k[1] \notin {"analytics", "turn_insights"}
        PROVE  ~Stale(k, page)'
    BY <2>2, <2>3, DashboardAssumption DEF Stale, Sections, DashboardAssumption
  <2>4. ASSUME NEW k \in DOMAIN cache' PROVE ~Stale(k, cache[k].page)' /\ cache'[k] = cache[k]
    BY <1>6, <2>3, Overtaken DEF DeleteSections, Types, CacheTypes, Keys, Key
  <2>5. ASSUME NEW w \in Workers, NEW k \in request'[w].asked, NEW page \in request'[w].page,
               request'[w].stage = "store", ~request'[w].outdated
        PROVE  ~Stale(k, page)'
    BY <1>6, <2>3, <2>5, Overtaken, Serves DEF DeleteSections, Stages
  <2> QED
    BY <2>4, <2>5 DEF Showing, Stale, ShowsCurve, ShowsTurns, SectionsDone, DashboardsDone
<1>7. CASE DeleteDashboards
  <2>1. UNCHANGED <<trend, detail>> /\ SectionsDone
    BY <1>7 DEF DeleteDashboards, tables, SectionsDone
  <2>2. ASSUME NEW k, NEW page, k[1] # "dashboard", ~Stale(k, page) PROVE ~Stale(k, page)'
    BY <2>1, <2>2 DEF Stale, ShowsTurns, Of
  <2>3. ASSUME NEW k \in DOMAIN cache', ~cache'[k].outdated
        PROVE  ~Stale(k, cache[k].page)' /\ cache'[k] = cache[k]
    BY <1>7, <2>2, <2>3, Overtaken DEF DeleteDashboards, Showing
  <2>4. ASSUME NEW w \in Workers, NEW k \in request'[w].asked, NEW page \in request'[w].page,
               request'[w].stage = "store", ~request'[w].outdated
        PROVE  ~Stale(k, page)'
    BY <1>7, <2>2, <2>4, Overtaken DEF DeleteDashboards, Showing
  <2> QED
    BY <2>3, <2>4 DEF Showing, Stale, ShowsCurve, ShowsTurns, SectionsDone, DashboardsDone
<1>8. CASE Day
  <2>1. \A k \in DOMAIN cache' : /\ k \in DOMAIN cache /\ cache'[k].page = cache[k].page
                                 /\ cache'[k].outdated = cache[k].outdated
    BY <1>8 DEF Day, Aged, Types, CacheTypes, Entry
  <2> QED
    BY <1>8, <2>1 DEF Day, NoRequest, tables, jobs, Showing, Stale, ShowsCurve, ShowsTurns,
                      SectionsDone, DashboardsDone, Of
<1>9. ASSUME NEW w \in Workers, Quiet, \A x \in Workers \ {w} : request'[x] = request[x],
             \A k \in request'[w].asked, page \in request'[w].page :
                request'[w].stage = "store" /\ ~request'[w].outdated => ~Stale(k, page)'
      PROVE  Showing'
  <2>1. NoStaler
    BY <1>9 DEF Quiet, tables, jobs, Stale, ShowsCurve, ShowsTurns, SectionsDone, DashboardsDone, Of
  <2> QED
    BY <1>9, <2>1, NothingStaler DEF Quiet
<1>10. ASSUME NEW w \in Workers, NEW visit \in Visits, Ask(w, visit) PROVE Showing'
  BY <1>9, <1>10, PageIsAsked
<1>11. ASSUME NEW w \in Workers, ReadPupils(w) PROVE Showing'
  BY <1>9, <1>11, PupilsAreRead DEF Advances
<1>12. ASSUME NEW w \in Workers, ReadWeekly(w) PROVE Showing'
  BY <1>9, <1>12, WeeksAreRead DEF Advances
<1>13. ASSUME NEW w \in Workers, ReadBuckets(w) PROVE Showing'
  <2>1. PICK visit \in Visits, old \in Pages, page \in Pages :
          /\ Advances(w, visit, old, "buckets", page, "store") /\ page.curve \subseteq trend
    BY <1>13, BucketsAreRead
  <2>2. Quiet /\ visit[1] = "dashboard"
    BY <1>13, <2>1, BucketsAreRead DEF Kinds, Advances
  <2>3. ~Stale(visit, page)'
    BY <2>1, <2>2 DEF Quiet, tables, Stale, ShowsCurve
  <2> QED
    BY <1>9, <2>1, <2>2, <2>3 DEF Advances
<1>14. ASSUME NEW w \in Workers, ReadTurns(w) PROVE Showing'
  <2>1. PICK visit \in Visits, old \in Pages, page \in Pages :
          /\ Advances(w, visit, old, "turns", page, "store")
          /\ detail \intersect Of(page.pupils) \subseteq page.detail
    BY <1>14, TurnsAreRead
  <2>2. Quiet /\ visit[1] # "dashboard"
    BY <1>14, <2>1, TurnsAreRead DEF Kinds, Advances
  <2>3. ~Stale(visit, page)'
    BY <2>1, <2>2 DEF Quiet, tables, Stale, ShowsTurns, Of
  <2> QED
    BY <1>9, <2>1, <2>2, <2>3 DEF Advances
<1>15. ASSUME NEW w \in Workers, Store(w) PROVE Showing'
  <2>1. PICK visit \in Visits, page \in Pages :
          /\ Advances(w, visit, page, "store", page, "answer")
          /\ DOMAIN cache' = DOMAIN cache \union {visit}
          /\ cache'[visit] = [page |-> page, left |-> Lifetime, outdated |-> request[w].outdated]
          /\ \A k \in DOMAIN cache \ {visit} : cache'[k] = cache[k]
    BY <1>15, PageIsStored
  <2>2. UNCHANGED <<tables, jobs>>
    BY <1>15, PageIsStored
  <2>3. ~request[w].outdated => ~Stale(visit, page)
    BY <2>1 DEF Advances, Showing
  <2> QED
    BY <2>1, <2>2, <2>3 DEF Advances, tables, jobs, Showing, Stale, ShowsCurve, ShowsTurns,
                            SectionsDone, DashboardsDone, Of
<1>16. ASSUME NEW w \in Workers, Answered(w) \/ RequestDies(w) PROVE Showing'
  BY <1>16, RequestEnds DEF NoRequest, tables, jobs, Showing, Stale, ShowsCurve, ShowsTurns,
                            SectionsDone, DashboardsDone, Of
<1>17. CASE \/ \E p \in Pupils, room \in Rooms : Move(p, room)
            \/ NextWeek \/ UNCHANGED vars
  <2>1. Same /\ UNCHANGED <<trend, detail, compaction, silent>>
    BY <1>17 DEF Move, NextWeek, vars, tables, jobs
  <2> QED
    BY <1>3, <2>1
<1> QED
  BY <1>2, <1>5, <1>6, <1>7, <1>8, <1>10, <1>11, <1>12, <1>13, <1>14, <1>15, <1>16, <1>17
  DEF Next, Serving

\* Once a compaction is over no cached section lacks turns it has added and no
\* cached dashboard draws a curve it has replaced: the deletions come after
\* the tables are written (compact_student_weekly_runs.py), and a request
\* computes its page after them or is overtaken by them.
THEOREM CompactionIsShown == Spec => []CompactionShows
<1>1. Types /\ Showing => CompactionShows
  <2> SUFFICES ASSUME Types, Showing, compaction = NoJob, ~silent,
                      NEW k \in DOMAIN cache, ~cache[k].outdated
               PROVE  ~Stale(k, cache[k].page)
    BY DEF CompactionShows, Stale, ShowsCurve, ShowsTurns, SectionsDone, DashboardsDone, NoJob
  <2> QED
    BY DEF Showing
<1> QED
  BY <1>1, TypesInit, TypesStep, KindsInit, KindsStep, ShowingInit, ShowingStep, PTL DEF Spec

-------------------------------------------------------------------------------
(* What a dashboard lacks.  Its age is Lifetime less the days it has left, *)
(* and it stands for every pupil and run that has been there for longer.   *)

Complete(visit, page, age) ==
    \A p \in InRoom(visit[3]) :
        Teaches(visit[2], p) /\ settled[p] > age =>
            /\ p \in page.pupils
            /\ {r \in counted \intersect Of({p}) : since[r] > age} \subseteq page.runs

Listed(visit, page) ==
    \A p \in InRoom(visit[3]) :
        Teaches(visit[2], p) /\ settled[p] > 0 => p \in page.pupils \intersect page.compared

Uncounted == \A r \in Runs \ counted : since[r] = 0

CompleteInCache ==
    \A k \in DOMAIN cache :
        k[1] = "dashboard" => Complete(k, cache[k].page, Lifetime - cache[k].left)

HandComplete(w, visit, page) ==
    /\ request[w].stage = "weekly" => Listed(visit, page)
    /\ request[w].stage \in {"buckets", "store"} => Complete(visit, page, 0)
    /\ request[w].stage = "answer" => Complete(visit, page, Lifetime - 1)

CompleteInHand ==
    \A w \in Workers : \A visit \in request[w].asked, page \in request[w].page :
        visit[1] = "dashboard" => HandComplete(w, visit, page)

AllComplete == Uncounted /\ CompleteInCache /\ CompleteInHand

LEMMA CompleteInit == Init => AllComplete
BY DEF Init, AllComplete, Uncounted, CompleteInCache, CompleteInHand, NoRequest

(* Nothing gets older, no run is counted with an age, nobody comes unseen. *)
NobodyNew ==
    /\ counted \subseteq counted' /\ counted' \subseteq Runs /\ since' = since
    /\ settled' \in [Pupils -> Nat]
    /\ \A p \in Pupils : settled'[p] = 0 \/ (settled'[p] = settled[p] /\ home'[p] = home[p])

LEMMA StaysComplete ==
    ASSUME Types, Uncounted, NobodyNew
    PROVE  /\ \A visit, page : \A age \in Nat :
                 Complete(visit, page, age) => Complete(visit, page, age)'
           /\ \A visit, page : Listed(visit, page) => Listed(visit, page)'
<1>1. ASSUME NEW visit, NEW p \in InRoom(visit[3])', Teaches(visit[2], p)', settled'[p] # 0
      PROVE  p \in InRoom(visit[3]) /\ Teaches(visit[2], p) /\ settled'[p] = settled[p]
  BY <1>1 DEF NobodyNew, InRoom, Teaches
<1>2. ASSUME NEW age \in Nat, NEW r \in counted', since'[r] > age
      PROVE  r \in counted /\ since'[r] = since[r]
  <2>1. since[r] > age /\ since[r] # 0
    BY <1>2 DEF NobodyNew, Types, HistoryTypes, TableTypes
  <2> QED
    BY <2>1 DEF NobodyNew, Uncounted, Types, HistoryTypes
<1>3. ASSUME NEW visit, NEW page, NEW age \in Nat, Complete(visit, page, age)
      PROVE  Complete(visit, page, age)'
  <2> SUFFICES ASSUME NEW p \in InRoom(visit[3])', Teaches(visit[2], p)', settled'[p] > age
               PROVE  /\ p \in page.pupils
                      /\ {r \in counted' \intersect Of({p}) : since'[r] > age} \subseteq page.runs
    BY DEF Complete, Of
  <2>1. settled'[p] # 0
    OBVIOUS
  <2> QED
    BY <1>1, <1>2, <1>3, <2>1 DEF Complete
<1>4. ASSUME NEW visit, NEW page, Listed(visit, page) PROVE Listed(visit, page)'
  BY <1>1, <1>4 DEF Listed
<1> QED
  BY <1>3, <1>4

LEMMA OlderIsWeaker ==
    ASSUME Types, NEW visit, NEW page, NEW young \in Nat, NEW old \in Nat, young <= old,
           Complete(visit, page, young)
    PROVE  Complete(visit, page, old)
<1>1. \A p \in Pupils : settled[p] > old => settled[p] > young
  BY DEF Types, HistoryTypes
<1>2. \A r \in counted : since[r] > old => since[r] > young
  BY DEF Types, HistoryTypes, TableTypes
<1> QED
  BY <1>1, <1>2 DEF Complete, InRoom

LEMMA Ages ==
    ASSUME Types
    PROVE  /\ 0 \in Nat /\ Lifetime \in Nat /\ Lifetime - 1 \in Nat
           /\ \A k \in DOMAIN cache : /\ Lifetime - cache[k].left \in Nat
                                      /\ Lifetime - cache[k].left <= Lifetime - 1
BY DashboardAssumption DEF Types, CacheTypes, Entry, DashboardAssumption

(* Steps that leave the cache's pages and the requests alone.              *)
LEMMA CompleteAside ==
    ASSUME Types, AllComplete, Uncounted', NobodyNew,
           DOMAIN cache' \subseteq DOMAIN cache, \A k \in DOMAIN cache' : cache'[k] = cache[k],
           \A w \in Workers : /\ request'[w].asked = request[w].asked
                              /\ request'[w].page = request[w].page
                              /\ request'[w].stage = request[w].stage
    PROVE  AllComplete'
<1>1. CompleteInCache'
  BY Ages, StaysComplete DEF AllComplete, CompleteInCache
<1>2. ASSUME NEW w \in Workers, NEW visit, NEW page, HandComplete(w, visit, page)
      PROVE  HandComplete(w, visit, page)'
  BY <1>2, Ages, StaysComplete DEF AllComplete, HandComplete
<1>3. CompleteInHand'
  BY <1>2 DEF AllComplete, CompleteInHand
<1> QED
  BY <1>1, <1>3 DEF AllComplete

(* A step of one request that leaves the tables alone.                     *)
LEMMA CompleteRequest ==
    ASSUME AllComplete, UNCHANGED <<tables, since, settled>>, NEW w \in Workers,
           CompleteInCache', \A x \in Workers \ {w} : request'[x] = request[x],
           \A visit \in request'[w].asked, page \in request'[w].page :
              visit[1] = "dashboard" => HandComplete(w, visit, page)'
    PROVE  AllComplete'
<1>1. ASSUME NEW x \in Workers \ {w}, NEW visit \in request[x].asked,
             NEW page \in request[x].page, visit[1] = "dashboard"
      PROVE  HandComplete(x, visit, page)'
  BY <1>1 DEF AllComplete, CompleteInHand, HandComplete, Complete, Listed, InRoom, Teaches, Of, tables
<1>2. CompleteInHand'
  BY <1>1 DEF CompleteInHand
<1> QED
  BY <1>2 DEF AllComplete, Uncounted, tables

LEMMA CacheStaysComplete ==
    ASSUME AllComplete, UNCHANGED <<tables, since, settled, cache>>
    PROVE  CompleteInCache'
BY DEF AllComplete, CompleteInCache, Complete, InRoom, Teaches, Of, tables

LEMMA DayKeeps == ASSUME Types, AllComplete, Day PROVE AllComplete'
<1>1. Uncounted'
  BY DEF Day, Uncounted, tables, Types, TableTypes
<1>2. CompleteInHand'
  BY DEF Day, CompleteInHand, NoRequest
<1>3. ASSUME NEW k \in DOMAIN cache', k[1] = "dashboard"
      PROVE  Complete(k, cache[k].page, Lifetime - cache[k].left)'
  <2>1. /\ k \in DOMAIN cache /\ cache'[k].page = cache[k].page
        /\ cache[k].left \in Nat /\ cache'[k].left = cache[k].left - 1
    BY DEF Day, Aged, Types, CacheTypes, Entry
  <2>2. PICK page \in Pages, age \in Nat :
          page = cache[k].page /\ age = Lifetime - cache[k].left
    BY <2>1, Ages DEF Types, CacheTypes, Entry
  <2>3. Complete(k, page, age)
    BY <1>3, <2>1, <2>2 DEF AllComplete, CompleteInCache
  <2>4. \A p \in Pupils : settled'[p] > age + 1 => settled[p] > age
    BY <2>2, DashboardAssumption DEF Day, Older, Types, HistoryTypes, DashboardAssumption
  <2>5. \A r \in counted : since'[r] > age + 1 => since[r] > age
    BY <2>2, DashboardAssumption DEF Day, Older, Types, HistoryTypes, TableTypes, DashboardAssumption
  <2>6. UNCHANGED <<home, counted>>
    BY DEF Day, tables
  <2>7. Complete(k, page, age + 1)'
    <3>1. InRoom(k[3])' = InRoom(k[3]) /\ \A p : Teaches(k[2], p)' = Teaches(k[2], p)
      BY <2>6 DEF InRoom, Teaches
    <3> SUFFICES ASSUME NEW p \in InRoom(k[3]), Teaches(k[2], p), settled'[p] > age + 1
                 PROVE  /\ p \in page.pupils
                        /\ {r \in counted \intersect Of({p}) : since'[r] > age + 1}
                              \subseteq page.runs
      BY <2>6, <3>1 DEF Complete, Of
    <3> QED
      BY <2>3, <2>4, <2>5 DEF Complete, InRoom
  <2>8. cache'[k].page = page /\ Lifetime - cache'[k].left = age + 1
    BY <2>1, <2>2, DashboardAssumption DEF DashboardAssumption
  <2> QED
    BY <2>7, <2>8
<1> QED
  BY <1>1, <1>2, <1>3 DEF AllComplete, CompleteInCache

LEMMA CompleteStep == ASSUME Types, Types', Kinds, AllComplete, [Next]_vars PROVE AllComplete'
<1> USE DEF Types
<1>1. CASE Around
  <2>1. NobodyNew
    <3>1. since' = since /\ counted \subseteq counted'
      BY <1>1 DEF Around, Count, Move, NextWeek, StartCompaction, Slice, Finalize, DeleteSections,
                  DeleteDashboards, Interrupted, vars, tables, history
    <3>2. \/ UNCHANGED <<home, settled>>
          \/ \E p \in Pupils, room \in Rooms :
                home' = [home EXCEPT ![p] = room] /\ settled' = [settled EXCEPT ![p] = 0]
      BY <1>1 DEF Around, Count, Move, NextWeek, StartCompaction, Slice, Finalize, DeleteSections,
                  DeleteDashboards, Interrupted, vars, tables, history
    <3>3. \A p \in Pupils : settled'[p] = 0 \/ (settled'[p] = settled[p] /\ home'[p] = home[p])
      BY <3>2 DEF HistoryTypes, TableTypes
    <3> QED
      BY <3>1, <3>3, DashboardAssumption DEF NobodyNew, HistoryTypes, TableTypes, DashboardAssumption
  <2>2. Uncounted'
    BY <2>1 DEF AllComplete, Uncounted, NobodyNew
  <2> QED
    BY <1>1, <2>1, <2>2, AroundRequests, CompleteAside
<1>2. CASE Day
  BY <1>2, DayKeeps
<1>3. ASSUME NEW w \in Workers, Quiet, \A x \in Workers \ {w} : request'[x] = request[x],
             \A visit \in request'[w].asked, page \in request'[w].page :
                visit[1] = "dashboard" => HandComplete(w, visit, page)'
      PROVE  AllComplete'
  BY <1>3, CacheStaysComplete, CompleteRequest DEF Quiet, history
<1>4. ASSUME NEW w \in Workers, NEW visit \in Visits, Ask(w, visit) PROVE AllComplete'
  <2>1. Quiet /\ request'[w].asked = {visit}
    BY <1>4, PageIsAsked
  <2>2. ASSUME visit \in DOMAIN cache, visit[1] = "dashboard"
        PROVE  Complete(visit, cache[visit].page, Lifetime - 1)
    BY <2>2, Ages, OlderIsWeaker DEF AllComplete, CompleteInCache
  <2>3. \A page : Complete(visit, page, Lifetime - 1)' = Complete(visit, page, Lifetime - 1)
    BY <2>1 DEF Quiet, tables, history, Complete, InRoom, Teaches, Of
  <2>4. ASSUME NEW page \in request'[w].page, visit[1] = "dashboard"
        PROVE  HandComplete(w, visit, page)'
    BY <1>4, <2>2, <2>3, <2>4, PageIsAsked DEF HandComplete
  <2> QED
    BY <1>3, <1>4, <2>1, <2>4, PageIsAsked
<1>5. ASSUME NEW w \in Workers, ReadPupils(w) PROVE AllComplete'
  <2>1. PICK visit \in Visits, old \in Pages, page \in Pages :
          /\ Advances(w, visit, old, "pupils", page,
                      IF visit[1] = "dashboard" THEN "weekly" ELSE "turns")
          /\ page.pupils = {p \in Pupils : Teaches(visit[2], p)} \intersect InRoom(visit[3])
          /\ visit[1] = "dashboard" => page.compared = {p \in Pupils : Teaches(visit[2], p)}
    BY <1>5, PupilsAreRead
  <2>2. Quiet
    BY <1>5, PupilsAreRead
  <2>3. visit[1] = "dashboard" => Listed(visit, page)'
    BY <2>1, <2>2 DEF Quiet, tables, Listed, InRoom, Teaches
  <2>4. visit[1] = "dashboard" => HandComplete(w, visit, page)'
    BY <2>1, <2>3 DEF HandComplete, Advances
  <2> QED
    BY <1>3, <2>1, <2>2, <2>4 DEF Advances
<1>6. ASSUME NEW w \in Workers, ReadWeekly(w) PROVE AllComplete'
  <2>1. PICK visit \in Visits, old \in Pages, page \in Pages :
          /\ Advances(w, visit, old, "weekly", page, "buckets")
          /\ page.pupils = old.pupils /\ page.compared = old.compared
          /\ page.runs = counted \intersect Of(old.compared)
    BY <1>6, WeeksAreRead
  <2>2. Quiet
    BY <1>6, WeeksAreRead
  <2>3. visit[1] = "dashboard" => Listed(visit, old)
    BY <2>1 DEF Advances, AllComplete, CompleteInHand, HandComplete
  <2>4. visit[1] = "dashboard" => Complete(visit, page, 0)'
    BY <2>1, <2>2, <2>3 DEF Quiet, tables, history, Listed, Complete, InRoom, Teaches, Of
  <2>5. visit[1] = "dashboard" => HandComplete(w, visit, page)'
    BY <2>1, <2>4 DEF HandComplete, Advances
  <2> QED
    BY <1>3, <2>1, <2>2, <2>5 DEF Advances
<1>7. ASSUME NEW w \in Workers, ReadBuckets(w) PROVE AllComplete'
  <2>1. PICK visit \in Visits, old \in Pages, page \in Pages :
          /\ Advances(w, visit, old, "buckets", page, "store")
          /\ page.pupils = old.pupils /\ page.runs = old.runs
    BY <1>7, BucketsAreRead
  <2>2. Quiet
    BY <1>7, BucketsAreRead
  <2>3. visit[1] = "dashboard" => Complete(visit, old, 0)
    BY <2>1 DEF Advances, AllComplete, CompleteInHand, HandComplete
  <2>4. visit[1] = "dashboard" => Complete(visit, page, 0)'
    BY <2>1, <2>2, <2>3 DEF Quiet, tables, history, Complete, InRoom, Teaches, Of
  <2>5. visit[1] = "dashboard" => HandComplete(w, visit, page)'
    BY <2>1, <2>4 DEF HandComplete, Advances
  <2> QED
    BY <1>3, <2>1, <2>2, <2>5 DEF Advances
<1>8. ASSUME NEW w \in Workers, ReadTurns(w) PROVE AllComplete'
  <2>1. PICK visit \in Visits, old \in Pages, page \in Pages :
          Advances(w, visit, old, "turns", page, "store")
    BY <1>8, TurnsAreRead
  <2>2. Quiet /\ visit[1] # "dashboard"
    BY <1>8, <2>1, TurnsAreRead DEF Kinds, Advances
  <2> QED
    BY <1>3, <2>1, <2>2 DEF Advances
<1>9. ASSUME NEW w \in Workers, Store(w) PROVE AllComplete'
  <2>1. PICK visit \in Visits, page \in Pages :
          /\ Advances(w, visit, page, "store", page, "answer")
          /\ DOMAIN cache' = DOMAIN cache \union {visit}
          /\ cache'[visit] = [page |-> page, left |-> Lifetime, outdated |-> request[w].outdated]
          /\ \A k \in DOMAIN cache \ {visit} : cache'[k] = cache[k]
    BY <1>9, PageIsStored
  <2>2. UNCHANGED <<tables, since, settled>>
    BY <1>9, PageIsStored DEF history
  <2>3. visit[1] = "dashboard" => Complete(visit, page, 0)
    BY <2>1 DEF Advances, AllComplete, CompleteInHand, HandComplete
  <2>4. visit[1] = "dashboard" => Complete(visit, page, Lifetime - 1)
    BY <2>3, Ages, OlderIsWeaker, DashboardAssumption DEF DashboardAssumption
  <2>5. \A k, x, age : Complete(k, x, age)' = Complete(k, x, age)
    BY <2>2 DEF tables, Complete, InRoom, Teaches, Of
  <2>6. visit[1] = "dashboard" => HandComplete(w, visit, page)'
    BY <2>1, <2>4, <2>5 DEF HandComplete, Advances
  <2>7. ASSUME NEW k \in DOMAIN cache', k[1] = "dashboard"
        PROVE  Complete(k, cache[k].page, Lifetime - cache[k].left)'
    <3>1. CASE k = visit
      <4>1. cache'[k].page = page /\ Lifetime - cache'[k].left = 0
        BY <2>1, <3>1, DashboardAssumption DEF DashboardAssumption
      <4>2. Complete(k, page, 0)'
        BY <2>3, <2>5, <2>7, <3>1
      <4> QED
        BY <4>1, <4>2
    <3>2. CASE k # visit
      <4>1. k \in DOMAIN cache /\ cache'[k] = cache[k]
        BY <2>1, <3>2
      <4>2. Complete(k, cache[k].page, Lifetime - cache[k].left)
        BY <2>7, <4>1 DEF AllComplete, CompleteInCache
      <4> QED
        BY <2>2, <4>1, <4>2 DEF tables, Complete, InRoom, Teaches, Of
    <3> QED
      BY <3>1, <3>2
  <2>8. CompleteInCache'
    BY <2>7 DEF CompleteInCache
  <2> QED
    BY <2>1, <2>2, <2>6, <2>8, CompleteRequest DEF Advances
<1>10. ASSUME NEW w \in Workers, Answered(w) \/ RequestDies(w) PROVE AllComplete'
  <2>1. /\ UNCHANGED <<tables, since, settled, cache>> /\ request'[w] = NoRequest
        /\ \A x \in Workers \ {w} : request'[x] = request[x]
    BY <1>10, RequestEnds
  <2> QED
    BY <2>1, CacheStaysComplete, CompleteRequest DEF NoRequest
<1> QED
  BY <1>1, <1>2, <1>4, <1>5, <1>6, <1>7, <1>8, <1>9, <1>10 DEF Next, Serving, Around

\* A dashboard, cached or computed, lacks only pupils who came and runs that
\* were counted within a page's lifetime: the roster is read before the rows
\* of its pupils, in no transaction, and counting a run invalidates nothing
\* (teacher_dashboard, rollup_analytics.py).
THEOREM OnlyRecentRunsMissing == Spec => []PagesMissOnlyRecentRuns
<1>1. Types /\ AllComplete => PagesMissOnlyRecentRuns
  <2> SUFFICES ASSUME Types, AllComplete, NEW w \in Workers, NEW visit \in Visits,
                      NEW page \in request[w].page, Answer(w, visit, page),
                      visit[1] = "dashboard", NEW p \in InRoom(visit[3]),
                      Teaches(visit[2], p), settled[p] = Lifetime
               PROVE  /\ p \in page.pupils
                      /\ {r \in counted \intersect Of({p}) : since[r] = Lifetime}
                            \subseteq page.runs
    BY DEF PagesMissOnlyRecentRuns
  <2>1. Complete(visit, page, Lifetime - 1)
    BY DEF AllComplete, CompleteInHand, HandComplete, Answer
  <2>2. Lifetime > Lifetime - 1
    BY DashboardAssumption DEF DashboardAssumption
  <2>3. {r \in counted \intersect Of({p}) : since[r] > Lifetime - 1} \subseteq page.runs
        /\ p \in page.pupils
    BY <2>1, <2>2 DEF Complete
  <2> QED
    BY <2>2, <2>3
<1> QED
  BY <1>1, TypesInit, TypesStep, KindsInit, KindsStep, CompleteInit, CompleteStep, PTL DEF Spec
===============================================================================
