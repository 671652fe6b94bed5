------------------------- MODULE WeeklyDetailsProofs -------------------------
(***************************************************************************)
(* That the tables made of the turns have what the turns said, though the  *)
(* turns are deleted, and that the verifier, which counts for itself,      *)
(* finds no difference before they are: for any payloads, rooms and        *)
(* teachers, flushers, batches and weeks.                                  *)
(***************************************************************************)
EXTENDS WeeklyStatisticsProofs

(* The runs of a week whose slice has been made: all of them once it is    *)
(* done, of the week that is being compacted those of the teachers that    *)
(* had their turn.                                                         *)
Made(w) ==
    {r \in RunsIn(w) : \/ w \in done
                       \/ w = compaction.week /\ TeacherNow(r) \notin compaction.todo}

(* The detail rows of a week nobody moved in are those of its made runs,   *)
(* with all the turns they ever had ...                                    *)
DetailRows ==
    \A w \in Weeks \ disturbed : \A table \in DOMAIN details :
        OfWeek(details[table], w) = Details(Steps(Made(w)))[table]

(* ... and only they have lost their turns.                                *)
TurnsThere ==
    \A r \in AllRuns : r.id \in compacted /\ r.week \notin disturbed => r \in Made(r.week)

DetailsInv == SummariesInv /\ DetailRows /\ TurnsThere

-------------------------------------------------------------------------------
(* Tables of parts.                                                        *)

RootOf(s)      == <<s[1].student, s[1].week>>
RootedIn(S, P) == {s \in S : RootOf(s) \in P}
RowsIn(D, P)   == {k \in D : <<k[1], k[2]>> \in P}

(* One table is another one's part.                                        *)
IsPart(part, whole, P) ==
    /\ DOMAIN part = RowsIn(DOMAIN whole, P)
    /\ \A k \in DOMAIN part : part[k] = whole[k]

(* The turns of some pupils and weeks are counted in those rows of all     *)
(* turns that are theirs.                                                  *)
LEMMA DetailsOfRoots ==
    ASSUME NEW S, NEW P
    PROVE  \A table \in DOMAIN Details({}) :
               IsPart(Details(RootedIn(S, P))[table], Details(S)[table], P)
<1> DEFINE A == RootedIn(S, P)
           In(k) == <<k[1], k[2]>> \in P
<1>0. /\ \A s \in A : s \in S /\ \A x : In(At(s, x))
      /\ \A s \in S : \A x : In(At(s, x)) => s \in A
    BY DEF At, RootedIn, RootOf
<1> HIDE DEF A
<1>1. IsPart(Hotspots(A), Hotspots(S), P)
    <2> DEFINE rows(T)  == {At(s, Turn(s).from) : s \in Mistakes(T)}
               of(T, k) == {s \in Mistakes(T) : At(s, Turn(s).from) = k}
    <2>1. \A T : Hotspots(T) = [k \in rows(T) |-> Cardinality(of(T, k))]
        BY DEF Hotspots, Grouped
    <2>2. rows(A) = {k \in rows(S) : In(k)}
        BY <1>0 DEF Mistakes
    <2>3. \A k \in rows(A) : of(A, k) = of(S, k)
        BY <1>0 DEF Mistakes
    <2> HIDE DEF rows, of
    <2>4. QED
        BY <2>1, <2>2, <2>3 DEF IsPart, RowsIn
<1>2. IsPart(SpecialTiles(A), SpecialTiles(S), P)
    <2> DEFINE tiles(T) == Ofs(T, LAMBDA s : DOMAIN Turn(s).chain)
               key(e)   == At(e[1], Turn(e[1]).chain[e[2]])
               rows(T)  == {key(e) : e \in tiles(T)}
               of(T, k) == {e \in tiles(T) : key(e) = k}
    <2>1. \A T : SpecialTiles(T) = [k \in rows(T) |-> Cardinality(of(T, k))]
        BY DEF SpecialTiles, Grouped
    <2>2. /\ tiles(A) \subseteq tiles(S) /\ \A e \in tiles(A) : In(key(e))
          /\ \A e \in tiles(S) : In(key(e)) => e \in tiles(A)
        BY <1>0 DEF Ofs
    <2> HIDE DEF tiles, key
    <2>3. rows(A) = {k \in rows(S) : In(k)} /\ \A k \in rows(A) : of(A, k) = of(S, k)
        BY <2>2
    <2> HIDE DEF rows, of
    <2>4. QED
        BY <2>1, <2>3 DEF IsPart, RowsIn
<1>3. IsPart(ChainLengths(A), ChainLengths(S), P)
    <2> DEFINE key(s)   == At(s, Len(Turn(s).chain))
               rows(T)  == {key(s) : s \in T}
               of(T, k) == {s \in T : key(s) = k}
    <2>1. \A T : ChainLengths(T) = [k \in rows(T) |-> Cardinality(of(T, k))]
        BY DEF ChainLengths, Grouped
    <2>2. rows(A) = {k \in rows(S) : In(k)} /\ \A k \in rows(A) : of(A, k) = of(S, k)
        BY <1>0
    <2> HIDE DEF rows, of
    <2>3. QED
        BY <2>1, <2>2 DEF IsPart, RowsIn
<1>4. IsPart(CardFamilies(A), CardFamilies(S), P)
    <2> DEFINE offers(T)     == Ofs(T, LAMBDA s : DOMAIN Turn(s).offered)
               chosenKey(s)  == At(s, CardFamily(Turn(s)))
               offeredKey(e) == At(e[1], ParseCard(Turn(e[1]).offered[e[2]]).family)
               rows(T)       == {chosenKey(s) : s \in T} \union {offeredKey(e) : e \in offers(T)}
               chosen(T, k)  == {s \in T : chosenKey(s) = k}
               offered(T, k) == {e \in offers(T) : offeredKey(e) = k}
               row(C, O)     == [offered |-> Cardinality(O),
                                 chosen  |-> Cardinality(C),
                                 wrong   |-> Cardinality(Mistakes(C)),
                                 correct |-> Cardinality(C \ Mistakes(C)),
                                 time    |-> StatOf(C, Time)]
    <2>1. \A T : CardFamilies(T) = [k \in rows(T) |-> row(chosen(T, k), offered(T, k))]
        BY DEF CardFamilies
    <2>2. /\ offers(A) \subseteq offers(S) /\ \A e \in offers(A) : In(offeredKey(e))
          /\ \A e \in offers(S) : In(offeredKey(e)) => e \in offers(A)
        BY <1>0 DEF Ofs
    <2>3. /\ A \subseteq S /\ \A s \in A : In(chosenKey(s))
          /\ \A s \in S : In(chosenKey(s)) => s \in A
        BY <1>0
    <2> HIDE DEF offers, chosenKey, offeredKey
    <2>4. rows(A) = {k \in rows(S) : In(k)}
        BY <2>2, <2>3
    <2>5. \A k \in rows(A) : chosen(A, k) = chosen(S, k) /\ offered(A, k) = offered(S, k)
        BY <2>2, <2>3
    <2> HIDE DEF rows, chosen, offered, row
    <2>6. QED
        BY <2>1, <2>4, <2>5 DEF IsPart, RowsIn
<1>5. IsPart(CardTypes(A), CardTypes(S), P)
    <2> DEFINE key(s)   == At(s, CardType(Turn(s)))
               rows(T)  == {key(s) : s \in T}
               of(T, k) == {s \in T : key(s) = k}
               row(T)   == [chosen |-> Cardinality(T), time |-> StatOf(T, Time),
                            clipped |-> ClippedStatOf(T, Time)]
    <2>1. \A T : CardTypes(T) = [k \in rows(T) |-> row(of(T, k))]
        BY DEF CardTypes, Grouped
    <2>2. rows(A) = {k \in rows(S) : In(k)} /\ \A k \in rows(A) : of(A, k) = of(S, k)
        BY <1>0
    <2> HIDE DEF rows, of, row
    <2>3. QED
        BY <2>1, <2>2 DEF IsPart, RowsIn
<1>6. IsPart(Conditionals(A), Conditionals(S), P)
    <2> DEFINE tileKey(s) == At(s, <<"tile", CardTile(Turn(s))>>)
               bagKey(s)  == At(s, <<"bag", ComparatorByType[CardType(Turn(s))]>>)
               tileRows(T)  == {tileKey(s) : s \in TileConditionals(T)}
               bagRows(T)   == {bagKey(s) : s \in BagConditionals(T)}
               ofTile(T, k) == {s \in TileConditionals(T) : tileKey(s) = k}
               ofBag(T, k)  == {s \in BagConditionals(T) : bagKey(s) = k}
               counted(T, else) == [total |-> Cardinality(T), correct |-> Cardinality(T \ Mistakes(T)),
                                    else |-> Cardinality(else)]
               tileRow(T) == counted(T, {s \in T : Turn(s).fromType # CardTile(Turn(s))})
               bagRow(T)  == counted(T, {s \in T : ~ConditionMet(s)})
    <2>1. \A T : Conditionals(T) = [k \in tileRows(T) |-> tileRow(ofTile(T, k))]
                                   ++ [k \in bagRows(T) |-> bagRow(ofBag(T, k))]
        BY DEF Conditionals, Grouped
    <2>2. /\ \A s : s \in TileConditionals(A) <=> s \in TileConditionals(S) /\ s \in A
          /\ \A s : s \in BagConditionals(A) <=> s \in BagConditionals(S) /\ s \in A
          /\ TileConditionals(S) \subseteq S /\ BagConditionals(S) \subseteq S
        BY <1>0 DEF TileConditionals, BagConditionals
    <2>3. /\ \A s \in A : In(tileKey(s)) /\ In(bagKey(s))
          /\ \A s \in S : In(tileKey(s)) \/ In(bagKey(s)) => s \in A
        BY <1>0
    <2> HIDE DEF tileKey, bagKey
    <2>4. /\ tileRows(A) = {k \in tileRows(S) : In(k)}
          /\ bagRows(A) = {k \in bagRows(S) : In(k)}
        BY <2>2, <2>3
    <2>5. /\ \A k \in tileRows(A) : ofTile(A, k) = ofTile(S, k)
          /\ \A k \in bagRows(A) : ofBag(A, k) = ofBag(S, k)
        BY <2>2, <2>3
    <2> HIDE DEF tileRows, bagRows, ofTile, ofBag, counted, tileRow, bagRow
    <2>6. QED
        BY <2>1, <2>4, <2>5 DEF ++, IsPart, RowsIn
<1>7. IsPart(BackUsage(A), BackUsage(S), P)
    <2> DEFINE picked(T) == {s \in T : CardFamily(Turn(s)) = "back"}
               key(s)    == At(s, Turn(s).rank)
               rows(T)   == {key(s) : s \in picked(T)}
               of(T, k)  == {s \in picked(T) : key(s) = k}
    <2>1. \A T : BackUsage(T) = [k \in rows(T) |-> Cardinality(of(T, k))]
        BY DEF BackUsage, Grouped
    <2>2. rows(A) = {k \in rows(S) : In(k)} /\ \A k \in rows(A) : of(A, k) = of(S, k)
        BY <1>0
    <2> HIDE DEF rows, of
    <2>3. QED
        BY <2>1, <2>2 DEF IsPart, RowsIn
<1>8. IsPart(ForeachContext(A), ForeachContext(S), P)
    <2> DEFINE picked(T) == {s \in T : /\ CardFamily(Turn(s)) = "foreach_tile"
                                       /\ CardTile(Turn(s)) # None}
               key(s)    == At(s, "foreach")
               rows(T)   == {key(s) : s \in picked(T)}
               of(T, k)  == {s \in picked(T) : key(s) = k}
               met(T)    == {s \in T : OnTile(s[1], Turn(s), CardTile(Turn(s)))}
               row(T)    == [with |-> Cardinality(met(T)), without |-> Cardinality(T \ met(T))]
    <2>1. \A T : ForeachContext(T) = [k \in rows(T) |-> row(of(T, k))]
        BY DEF ForeachContext, Grouped
    <2>2. rows(A) = {k \in rows(S) : In(k)} /\ \A k \in rows(A) : of(A, k) = of(S, k)
        BY <1>0
    <2> HIDE DEF rows, of, met, row
    <2>3. QED
        BY <2>1, <2>2 DEF IsPart, RowsIn
<1>9. IsPart(NumberChoices(A), NumberChoices(S), P)
    <2> DEFINE picked(T) == {s \in T : Turn(s).number # None}
               key(s)    == At(s, Turn(s).number)
               rows(T)   == {key(s) : s \in picked(T)}
               of(T, k)  == {s \in picked(T) : key(s) = k}
               row(T)    == [count |-> Cardinality(T), time |-> StatOf(T, NumberTime)]
    <2>1. \A T : NumberChoices(T) = [k \in rows(T) |-> row(of(T, k))]
        BY DEF NumberChoices, Grouped
    <2>2. rows(A) = {k \in rows(S) : In(k)} /\ \A k \in rows(A) : of(A, k) = of(S, k)
        BY <1>0
    <2> HIDE DEF rows, of, row
    <2>3. QED
        BY <2>1, <2>2 DEF IsPart, RowsIn
<1>10. QED
    BY <1>1, <1>2, <1>3, <1>4, <1>5, <1>6, <1>7, <1>8, <1>9 DEF Details, A

(* A detail row is one of a pupil with turns.                              *)
LEMMA DetailsOfPupils ==
    ASSUME NEW S, NEW P, \A s \in S : <<s[1].student, s[1].week>> \in P
    PROVE  \A table \in DOMAIN Details(S) : \A k \in DOMAIN Details(S)[table] : <<k[1], k[2]>> \in P
<1>1. RootedIn(S, P) = S /\ DOMAIN Details(S) = DOMAIN Details({})
    BY DEF RootedIn, RootOf, Details
<1>2. \A table \in DOMAIN Details(S) : IsPart(Details(S)[table], Details(S)[table], P)
    BY <1>1, DetailsOfRoots
<1>3. QED
    BY <1>2 DEF IsPart, RowsIn

LEMMA TablesAreFunctions ==
    ASSUME NEW S, NEW table \in DOMAIN Details({})
    PROVE  Details(S)[table] = [k \in DOMAIN Details(S)[table] |-> Details(S)[table][k]]
<1> DEFINE Is(t) == t = [k \in DOMAIN t |-> t[k]]
<1>1. Is(Hotspots(S)) /\ Is(SpecialTiles(S)) /\ Is(ChainLengths(S))
    BY DEF Hotspots, SpecialTiles, ChainLengths, Grouped
<1>2. Is(CardFamilies(S)) /\ Is(CardTypes(S))
    BY DEF CardFamilies, CardTypes, Grouped
<1>3. Is(Conditionals(S))
    BY DEF Conditionals, ++
<1>4. Is(BackUsage(S)) /\ Is(ForeachContext(S)) /\ Is(NumberChoices(S))
    BY DEF BackUsage, ForeachContext, NumberChoices, Grouped
<1> HIDE DEF Is
<1>5. Is(Details(S)[table])
    BY <1>1, <1>2, <1>3, <1>4 DEF Details
<1>6. QED
    BY <1>5 DEF Is

(* Turns of different pupils are counted in different rows.                *)
LEMMA DetailsOfParts ==
    ASSUME NEW A, NEW B, \A s \in A, t \in B : s[1].student # t[1].student
    PROVE  \A table \in DOMAIN Details({}) :
               Details(A \union B)[table] = Details(A)[table] ++ Details(B)[table]
<1> DEFINE P == {RootOf(s) : s \in A}
           Q == {RootOf(s) : s \in B}
<1>1. A = RootedIn(A \union B, P) /\ B = RootedIn(A \union B, Q)
    <2>1. \A s \in A, t \in B : RootOf(s) # RootOf(t)
        BY DEF RootOf
    <2>2. QED
        BY <2>1 DEF RootedIn
<1>2. \A s \in A \union B : <<s[1].student, s[1].week>> \in P \union Q
    BY DEF RootOf
<1> HIDE DEF P, Q
<1>3. SUFFICES ASSUME NEW table \in DOMAIN Details({})
               PROVE  Details(A \union B)[table] = Details(A)[table] ++ Details(B)[table]
    OBVIOUS
<1> DEFINE all == Details(A \union B)[table]
           a   == Details(A)[table]
           b   == Details(B)[table]
<1>4. IsPart(a, all, P) /\ IsPart(b, all, Q)
    BY <1>1, DetailsOfRoots
<1>5. \A k \in DOMAIN all : <<k[1], k[2]>> \in P \union Q
    <2>1. table \in DOMAIN Details(A \union B)
        BY DEF Details
    <2>2. QED
        BY <1>2, <2>1, DetailsOfPupils
<1>6. all = [k \in DOMAIN all |-> all[k]]
    BY TablesAreFunctions
<1> HIDE DEF all, a, b
<1>7. DOMAIN all = DOMAIN a \union DOMAIN b
    BY <1>4, <1>5 DEF IsPart, RowsIn
<1>8. a ++ b = [k \in DOMAIN all |-> all[k]]
    BY <1>4, <1>7 DEF IsPart, ++
<1>9. QED
    BY <1>6, <1>8 DEF all, a, b

-------------------------------------------------------------------------------
(* The rows of a week nobody moved in.                                     *)

(* Made runs are runs of the week.                                         *)
LEMMA MadeIs ==
    ASSUME BaseInv, NEW w \in Weeks
    PROVE  /\ \A r : r \in Made(w) <=> /\ r \in AllRuns /\ r.week = w
                                       /\ \/ w \in done
                                          \/ /\ w = compaction.week
                                             /\ TeacherOf[home[r.student]] \notin compaction.todo
           /\ w # None
<1>1. w \in Int
    BY DEF Weeks
<1>2. QED
    BY <1>1, StatisticsAssumption DEF Made, RunsIn, TeacherNow

(* A step after which the same turns are counted in every such week.       *)
LEMMA DetailsStay ==
    ASSUME DetailsInv, details' = details, compacted' = compacted, disturbed \subseteq disturbed',
           \A w \in Weeks \ disturbed' : Made(w)' = Made(w),
           \A r \in AllRuns' \ AllRuns : r.id \notin compacted
    PROVE  (DetailRows /\ TurnsThere)'
<1>1. ASSUME NEW w \in Weeks \ disturbed', NEW table \in DOMAIN details
      PROVE  OfWeek(details[table], w)' = Details(Steps(Made(w)))[table]'
    <2>1. OfWeek(details[table], w) = Details(Steps(Made(w)))[table]
        BY DEF DetailsInv, DetailRows
    <2>2. OfWeek(details[table], w)' = OfWeek(details'[table], w)
        BY DEF OfWeek, Without
    <2>3. Details(Steps(Made(w)))' = Details(Steps(Made(w)'))
        OBVIOUS
    <2>4. QED
        BY <2>1, <2>2, <2>3
<1>2. ASSUME NEW r \in AllRuns', r.id \in compacted', r.week \notin disturbed'
      PROVE  r \in Made(r.week)'
    <2>1. r \in AllRuns /\ r.week \notin disturbed
        BY <1>2
    <2>2. r \in Made(r.week)
        BY <1>2, <2>1 DEF DetailsInv, TurnsThere
    <2>3. r.week \in Weeks
        <3>1. r.week \in 1 .. week /\ 1 .. week \subseteq Weeks
            BY <2>1, RunIs, StatisticsAssumption
               DEF AllRuns, DetailsInv, SummariesInv, BaseInv, Types, Weeks
        <3>2. QED
            BY <3>1
    <2>4. QED
        BY <1>2, <2>2, <2>3
<1>3. QED
    BY <1>1, <1>2 DEF DetailRows, TurnsThere

(* Steps that make no slice leave the made runs of such a week.            *)
LEMMA MadeStays ==
    ASSUME SummariesInv, Next, ~\E t \in Teachers : Slice(t), NEW w \in Weeks \ disturbed'
    PROVE  Made(w)' = Made(w)
<1>0. BaseInv
    BY DEF SummariesInv
<1>1. Made(w)' = {r \in AllRuns' : /\ r.week = w
                                   /\ \/ w \in done'
                                      \/ /\ w = compaction'.week
                                         /\ TeacherOf[home'[r.student]] \notin compaction'.todo}
    BY DEF Made, RunsIn, TeacherNow
<1>2. Made(w) = {r \in AllRuns : /\ r.week = w
                                 /\ \/ w \in done
                                    \/ /\ w = compaction.week
                                       /\ TeacherOf[home[r.student]] \notin compaction.todo}
    BY DEF Made, RunsIn, TeacherNow
<1>3. CASE UNCHANGED <<home, runs, compaction, done>>
    <2>1. AllRuns' = AllRuns
        BY <1>3 DEF AllRuns, RunOf
    <2>2. QED
        BY <1>1, <1>2, <1>3, <2>1
<1>4. ASSUME NEW f \in Flushers, Commit(f)
      PROVE  Made(w)' = Made(w)
    <2>1. UNCHANGED <<home, compaction, done>>
        BY <1>4 DEF Commit, people
    <2>2. AllRuns' = AllRuns \union New(f)
        BY <1>0, <1>4, RunsAfterCommit
    <2>3. \A r \in New(f) : w \in done \/ w = compaction.week => r.week # w
        <3>1. w \in done \/ w = compaction.week => Quiet(w)
            BY <1>0, MadeIs DEF BaseInv, Closed
        <3>2. QED
            BY <1>0, <3>1, NewIs DEF New, Quiet
    <2>4. QED
        BY <1>1, <1>2, <2>1, <2>2, <2>3
<1>5. ASSUME NEW p \in Pupils, NEW c \in Rooms, Move(p, c)
      PROVE  Made(w)' = Made(w)
    <2>1. UNCHANGED <<week, runs, compaction, done>> /\ disturbed' = disturbed \union (1 .. week \ done)
        BY <1>5 DEF Move, queue
    <2>2. AllRuns' = AllRuns
        BY <2>1 DEF AllRuns, RunOf
    <2>3. w \in done \/ \A r \in AllRuns : r.week # w
        BY <1>0, <2>1, RunIs DEF AllRuns
    <2>4. QED
        BY <1>1, <1>2, <2>1, <2>2, <2>3
<1>6. ASSUME NEW v \in Weeks, StartCompaction(v)
      PROVE  Made(w)' = Made(w)
    <2>1. /\ UNCHANGED <<home, runs, done>> /\ v \notin done /\ compaction.week = None
          /\ compaction' = [week |-> v, todo |-> {TeacherNow(r) : r \in RunsIn(v)}]
        BY <1>6 DEF StartCompaction, people, queue
    <2>2. AllRuns' = AllRuns
        BY <2>1 DEF AllRuns, RunOf
    <2>3. \A r \in AllRuns : r.week = v => TeacherOf[home[r.student]] \in compaction'.todo
        BY <2>1 DEF RunsIn, TeacherNow
    <2>4. w # None
        BY <1>0, MadeIs
    <2>5. QED
        BY <1>1, <1>2, <2>1, <2>2, <2>3, <2>4
<1>7. ASSUME NEW t \in Teachers, SliceFails(t)
      PROVE  Made(w)' = Made(w)
    <2>1. /\ UNCHANGED <<home, runs, done, disturbed>> /\ compaction'.week = None
          /\ t \in compaction.todo /\ Clashes(t)
        BY <1>7 DEF SliceFails, people, queue
    <2>2. AllRuns' = AllRuns /\ w # None
        BY <1>0, <2>1, MadeIs DEF AllRuns, RunOf
    <2>3. w # compaction.week
        <3> SUFFICES ASSUME w = compaction.week
                     PROVE  FALSE
            OBVIOUS
        <3>1. w \notin done \union disturbed
            BY <1>0, <2>1, <2>2 DEF BaseInv, Closed
        <3> DEFINE mine == RunsUnder(t, compaction.week)
        <3>2. \A r \in mine : r.week = w /\ TeacherOf[home[r.student]] = t
            BY DEF RunsUnder, RunsIn, TeacherNow
        <3> HIDE DEF mine
        <3>3. /\ \A k \in DOMAIN StudentWeeks(mine) : k[2] = w /\ TeacherOf[home[k[1]]] = t
              /\ \A k \in DOMAIN StudentLevels(mine) : k[2] = w /\ TeacherOf[home[k[1]]] = t
            <4>1. /\ DOMAIN StudentWeeks(mine) = {<<r.student, r.week>> : r \in mine}
                  /\ DOMAIN StudentLevels(mine) = {<<r.student, r.week, r.level>> : r \in mine}
                BY TablesAre
            <4>2. QED
                BY <3>2, <4>1
        <3>4. /\ \A k \in DOMAIN Rest(studentWeek, t) :
                    k \in DOMAIN studentWeek /\ ~(k[2] = w /\ studentWeek[k].teacher = t)
              /\ \A k \in DOMAIN Rest(studentLevel, t) :
                    k \in DOMAIN studentLevel /\ ~(k[2] = w /\ studentLevel[k].teacher = t)
            BY DEF Rest, Without, Theirs
        <3>5. /\ \A k \in DOMAIN studentWeek :
                    k[2] = w => studentWeek[k].teacher = TeacherOf[home[k[1]]]
              /\ \A k \in DOMAIN studentLevel :
                    k[2] = w => studentLevel[k].teacher = TeacherOf[home[k[1]]]
            BY <3>1 DEF SummariesInv, Summaries, InStep
        <3>6. ~Clashes(t)
            BY <3>3, <3>4, <3>5 DEF Clashes, mine
        <3>7. QED
            BY <2>1, <3>6
    <2>4. QED
        BY <1>1, <1>2, <2>1, <2>2, <2>3
<1>8. CASE Finalize
    <2>1. /\ UNCHANGED <<home, runs>> /\ done' = done \union {compaction.week}
          /\ compaction'.week = None /\ compaction.todo = {}
        BY <1>8 DEF Finalize, people, queue
    <2>2. AllRuns' = AllRuns /\ w # None
        BY <1>0, <2>1, MadeIs DEF AllRuns, RunOf
    <2>3. QED
        BY <1>1, <1>2, <2>1, <2>2
<1>9. (\E f \in Flushers, n \in 1 .. BatchSize : Insert(f, n)) \/ (\E f \in Flushers : Rollback(f))
          \/ NextWeek => UNCHANGED <<home, runs, compaction, done>>
    BY DEF Insert, Rollback, NextWeek, people, queue
<1>10. QED
    BY <1>3, <1>4, <1>5, <1>6, <1>7, <1>8, <1>9 DEF Next

(* A slice of a week nobody moved in makes its runs' rows and deletes no   *)
(* other teacher's.                                                        *)
LEMMA DetailsSlice ==
    ASSUME DetailsInv, NEW t \in Teachers, Slice(t)
    PROVE  (DetailRows /\ TurnsThere)'
<1>0. BaseInv
    BY DEF DetailsInv, SummariesInv
<1>8. PICK v \in Weeks : v = compaction.week
    BY <1>0 DEF Slice, BaseInv, Closed, Types
<1> DEFINE mine == RunsUnder(t, v)
<1>1. /\ UNCHANGED <<home, runs, done, disturbed>> /\ t \in compaction.todo
      /\ compaction' = [compaction EXCEPT !.todo = @ \ {t}] /\ compaction'.week = v
      /\ compaction'.todo = compaction.todo \ {t}
    BY <1>0, <1>8 DEF Slice, people, queue, BaseInv, Types
<1>2. AllRuns' = AllRuns /\ v \notin done /\ v \in Weeks
    BY <1>0, <1>1, <1>8 DEF AllRuns, RunOf, BaseInv, Closed, Types
<1>3. mine = {r \in AllRuns : r.week = v /\ TeacherOf[home[r.student]] = t}
    BY DEF RunsUnder, RunsIn, TeacherNow
<1>4. \A w \in Weeks : Made(w)' = IF w = v THEN Made(w) \union mine ELSE Made(w)
    <2> TAKE w \in Weeks
    <2>1. Made(w)' = {r \in AllRuns' : /\ r.week = w
                                       /\ \/ w \in done'
                                          \/ /\ w = compaction'.week
                                             /\ TeacherOf[home'[r.student]] \notin compaction'.todo}
        BY DEF Made, RunsIn, TeacherNow
    <2>2. Made(w) = {r \in AllRuns : /\ r.week = w
                                     /\ \/ w \in done
                                        \/ /\ w = compaction.week
                                           /\ TeacherOf[home[r.student]] \notin compaction.todo}
        BY DEF Made, RunsIn, TeacherNow
    <2>3. QED
        BY <1>1, <1>2, <1>3, <1>8, <2>1, <2>2
<1>5. CASE mine = {}
    <2>1. details' = details /\ compacted' = compacted
        BY <1>5, <1>8 DEF Slice, tables
    <2>2. \A w \in Weeks : Made(w)' = Made(w)
        BY <1>4, <1>5
    <2>3. disturbed' = disturbed /\ AllRuns' = AllRuns
        BY <1>1, <1>2
    <2>4. QED
        BY <2>1, <2>2, <2>3, DetailsStay
<1>6. CASE mine # {}
    <2> DEFINE new == Details(Steps({Left(r) : r \in mine}))
    <2>1. /\ DOMAIN details' = DOMAIN details
          /\ \A table \in DOMAIN details :
                details'[table] = Without(details[table], LAMBDA k : TheirDetail(k, t)) ++ new[table]
          /\ compacted' = compacted \union {r.id : r \in mine}
        BY <1>6, <1>8 DEF Slice, Remade
    <2>2. /\ DOMAIN details = DOMAIN Details({}) /\ \A S : DOMAIN Details(S) = DOMAIN Details({})
        BY <1>0 DEF BaseInv, Types, Details
    <2>3. ASSUME NEW w \in Weeks \ disturbed, NEW table \in DOMAIN details, w # v
          PROVE  OfWeek(details'[table], w) = Details(Steps(Made(w)'))[table]
        <3> DEFINE kept == Without(details[table], LAMBDA k : TheirDetail(k, t))
                   W    == {v}
        <3>1. \A k : k[2] = w => /\ k \in DOMAIN kept <=> k \in DOMAIN details[table]
                                 /\ k \in DOMAIN kept => kept[k] = details[table][k]
            BY <1>8, <2>3 DEF Without, TheirDetail, Theirs
        <3>2. \A s \in Steps({Left(r) : r \in mine}) : s[1].week \in W
            <4>1. \A r \in mine : Left(r).week = v
                BY <1>0, SliceWeek
            <4>2. QED
                BY <4>1 DEF Steps
        <3>3. w \notin W
            BY <2>3
        <3> HIDE DEF W
        <3>4. \A k \in DOMAIN new[table] : k[2] # w
            BY <2>2, <3>2, <3>3, DetailsOfWeeks
        <3>9. details'[table] = kept ++ new[table]
            BY <2>1
        <3> HIDE DEF kept, new
        <3>5. \A k : k[2] = w => /\ k \in DOMAIN details'[table] <=> k \in DOMAIN details[table]
                                 /\ k \in DOMAIN details'[table] =>
                                        details'[table][k] = details[table][k]
            BY <3>1, <3>4, <3>9 DEF ++
        <3>6. OfWeek(details'[table], w) = OfWeek(details[table], w)
            BY <3>5, SameOfWeek
        <3>7. Made(w)' = Made(w)
            BY <1>4, <2>3
        <3>8. QED
            BY <3>6, <3>7 DEF DetailsInv, DetailRows
    <2>4. ASSUME v \notin disturbed, NEW table \in DOMAIN details
          PROVE  OfWeek(details'[table], v) = Details(Steps(Made(v)'))[table]
        <3> DEFINE A == Steps(Made(v))
                   B == Steps(mine)
                   kept == Without(details[table], LAMBDA k : TheirDetail(k, t))
        <3>1. \A r \in mine : Left(r) = r
            <4>1. ASSUME NEW r \in mine
                  PROVE  r.id \notin compacted
                <5>1. r \in AllRuns /\ r.week = v /\ r \notin Made(v)
                    BY <1>0, <1>1, <1>2, <1>3, <1>8, MadeIs
                <5>2. QED
                    BY <2>4, <5>1 DEF DetailsInv, TurnsThere
            <4>2. QED
                BY <4>1 DEF Left
        <3>2. new = Details(B)
            <4>1. {Left(r) : r \in mine} = mine
                BY <3>1
            <4>2. QED
                BY <4>1
        <3>3. Steps(Made(v)') = A \union B
            <4>1. Made(v)' = Made(v) \union mine
                BY <1>2, <1>4
            <4>2. QED
                BY <4>1 DEF Steps
        <3>4. \A r \in Made(v) : r.week = v /\ TeacherOf[home[r.student]] # t
            BY <1>0, <1>1, <1>2, <1>8, MadeIs
        <3>5. \A s \in A, u \in B : s[1].student # u[1].student
            <4>1. (\A s \in A : s[1] \in Made(v)) /\ (\A u \in B : u[1] \in mine)
                BY DEF Steps
            <4>2. QED
                BY <1>3, <3>4, <4>1
        <3>6. OfWeek(details[table], v) = Details(A)[table]
            BY <1>2, <2>4 DEF DetailsInv, DetailRows
        <3>7. ASSUME NEW k \in DOMAIN details[table], k[2] = v
              PROVE  ~TheirDetail(k, t)
            <4> DEFINE P == {<<s[1].student, s[1].week>> : s \in A}
            <4>1. k \in DOMAIN Details(A)[table]
                <5> HIDE DEF A
                <5>1. k \in DOMAIN OfWeek(details[table], v)
                    BY <3>7 DEF OfWeek, Without
                <5>2. QED
                    BY <3>6, <5>1
            <4>2. \A s \in A : <<s[1].student, s[1].week>> \in P
                OBVIOUS
            <4> HIDE DEF A, P
            <4>3. <<k[1], k[2]>> \in P
                BY <2>2, <4>1, <4>2, DetailsOfPupils
            <4>4. PICK s \in A : <<k[1], k[2]>> = <<s[1].student, s[1].week>>
                BY <4>3 DEF P
            <4>5. s[1] \in Made(v)
                BY <4>4 DEF A, Steps
            <4>6. TeacherOf[home[k[1]]] # t /\ <<k[1], k[2]>> = <<s[1].student, v>>
                BY <3>4, <4>4, <4>5
            <4>7. <<k[1], k[2]>> \in DOMAIN StudentWeeks(AllRuns)
                <5>1. s[1] \in AllRuns /\ s[1].week = v
                    BY <1>0, <1>2, <4>5, MadeIs
                <5>2. DOMAIN StudentWeeks(AllRuns) = {<<r.student, r.week>> : r \in AllRuns}
                    BY TablesAre
                <5>3. QED
                    BY <4>4, <5>1, <5>2
            <4>8. InStep(studentWeek, StudentWeeks(AllRuns))
                BY DEF DetailsInv, SummariesInv, Summaries
            <4>9. studentWeek[<<k[1], k[2]>>].teacher = TeacherOf[home[k[1]]]
                BY <1>2, <2>4, <3>7, <4>7, <4>8 DEF InStep
            <4>10. QED
                BY <1>8, <4>6, <4>9 DEF TheirDetail, Theirs
        <3>8. \A k \in DOMAIN Details(B)[table] : k[2] = v
            <4> DEFINE W == {v}
            <4>1. \A s \in B : s[1].week \in W
                BY <1>3 DEF Steps
            <4> HIDE DEF W, B
            <4>2. \A k \in DOMAIN Details(B)[table] : k[2] \in W
                BY <2>2, <4>1, DetailsOfWeeks
            <4>3. QED
                BY <4>2 DEF W
        <3>9. Details(A \union B)[table] = Details(A)[table] ++ Details(B)[table]
            <4> HIDE DEF A, B
            <4>1. QED
                BY <2>2, <3>5, DetailsOfParts
        <3>10. OfWeek(details'[table], v) = OfWeek(details[table], v) ++ Details(B)[table]
            <4> DEFINE old == details[table]
                       add == Details(B)[table]
            <4>1. details'[table] = kept ++ add
                BY <2>1, <3>2
            <4>2. kept = [k \in {k \in DOMAIN old : ~TheirDetail(k, t)} |-> old[k]]
                BY DEF Without
            <4> HIDE DEF kept, add, old
            <4>3. /\ OfWeek(kept ++ add, v) =
                        [k \in {k \in DOMAIN kept \union DOMAIN add : k[2] = v} |->
                            IF k \in DOMAIN kept THEN kept[k] ELSE add[k]]
                  /\ OfWeek(old, v) = [k \in {k \in DOMAIN old : k[2] = v} |-> old[k]]
                BY DEF OfWeek, Without, ++
            <4>4. /\ \A k \in DOMAIN old : k[2] = v => ~TheirDetail(k, t)
                  /\ \A k \in DOMAIN add : k[2] = v
                BY <3>7, <3>8 DEF old, add
            <4>5. OfWeek(kept ++ add, v) = OfWeek(old, v) ++ add
                <5> DEFINE O == {k \in DOMAIN old : k[2] = v}
                <5>1. /\ {k \in DOMAIN kept \union DOMAIN add : k[2] = v} = O \union DOMAIN add
                      /\ \A k \in O : k \in DOMAIN kept /\ kept[k] = old[k]
                      /\ \A k \in DOMAIN add : k \in DOMAIN kept <=> k \in O
                    BY <4>2, <4>4
                <5>2. OfWeek(old, v) = [k \in O |-> old[k]]
                    BY <4>3
                <5> HIDE DEF O
                <5>3. QED
                    BY <4>3, <5>1, <5>2 DEF ++
            <4>6. QED
                BY <4>1, <4>5 DEF old, add
        <3>11. QED
            BY <3>3, <3>6, <3>9, <3>10
    <2>5. DetailRows'
        <3>1. ASSUME NEW w \in Weeks \ disturbed', NEW table \in DOMAIN details'
              PROVE  OfWeek(details[table], w)' = Details(Steps(Made(w)))[table]'
            <4>1. OfWeek(details'[table], w) = Details(Steps(Made(w)'))[table]
                BY <1>1, <2>1, <2>3, <2>4
            <4>2. OfWeek(details[table], w)' = OfWeek(details'[table], w)
                BY DEF OfWeek, Without
            <4>3. Details(Steps(Made(w)))' = Details(Steps(Made(w)'))
                OBVIOUS
            <4>4. QED
                BY <4>1, <4>2, <4>3
        <3>2. QED
            BY <3>1 DEF DetailRows
    <2>6. ASSUME NEW r \in AllRuns', r.id \in compacted', r.week \notin disturbed'
          PROVE  r \in Made(r.week)'
        <3>1. r \in AllRuns /\ r.week \notin disturbed /\ r.week \in Weeks
            <4>1. r \in AllRuns
                BY <1>2
            <4>2. r.week \in 1 .. week /\ 1 .. week \subseteq Weeks
                BY <1>0, <4>1, RunIs, StatisticsAssumption DEF AllRuns, BaseInv, Types, Weeks
            <4>3. QED
                BY <1>1, <2>6, <4>1, <4>2
        <3>2. CASE r.id \in compacted
            <4>1. r \in Made(r.week)
                BY <3>1, <3>2 DEF DetailsInv, TurnsThere
            <4>2. QED
                BY <1>4, <3>1, <4>1
        <3>3. CASE r.id \in {m.id : m \in mine}
            <4>1. PICK m \in mine : r.id = m.id
                BY <3>3
            <4>2. PICK i \in DOMAIN runs : r = RunOf(i)
                BY <3>1 DEF AllRuns
            <4>3. PICK j \in DOMAIN runs : m = RunOf(j)
                BY <1>3 DEF AllRuns
            <4>4. r = m
                BY <1>0, <4>1, <4>2, <4>3, RunIs
            <4>5. r.week = v /\ r \in mine
                BY <1>3, <4>4
            <4>6. QED
                BY <1>2, <1>4, <4>5
        <3>4. QED
            BY <2>1, <2>6, <3>2, <3>3
    <2>7. QED
        BY <2>5, <2>6 DEF TurnsThere
<1>7. QED
    BY <1>5, <1>6

IsTable(table) == table = [k \in DOMAIN table |-> table[k]]

LEMMA DetailsAreTables ==
    ASSUME NEW S
    PROVE  \A table \in DOMAIN Details(S) : IsTable(Details(S)[table])
<1>1. IsTable(Hotspots(S)) /\ IsTable(SpecialTiles(S)) /\ IsTable(ChainLengths(S))
    BY DEF IsTable, Hotspots, SpecialTiles, ChainLengths, Grouped
<1>2. IsTable(CardFamilies(S)) /\ IsTable(CardTypes(S))
    BY DEF IsTable, CardFamilies, CardTypes, Grouped
<1>3. IsTable(Conditionals(S))
    BY DEF IsTable, Conditionals, ++
<1>4. IsTable(BackUsage(S)) /\ IsTable(ForeachContext(S)) /\ IsTable(NumberChoices(S))
    BY DEF IsTable, BackUsage, ForeachContext, NumberChoices, Grouped
<1>5. QED
    BY <1>1, <1>2, <1>3, <1>4 DEF Details

LEMMA DetailsInitially == ASSUME Init PROVE DetailRows /\ TurnsThere
<1>1. AllRuns = {} /\ compacted = {} /\ details = Details({})
    BY DEF Init, AllRuns, Nothing
<1>2. \A w : Steps(Made(w)) = {}
    BY <1>1 DEF Made, RunsIn, Steps
<1>3. ASSUME NEW w, NEW table \in DOMAIN details
      PROVE  OfWeek(details[table], w) = Details({})[table]
    <2> DEFINE P == {}
               none == {}
    <2>1. \A s \in none : <<s[1].student, s[1].week>> \in P
        OBVIOUS
    <2> HIDE DEF P, none
    <2>2. \A t \in DOMAIN Details(none) : \A k \in DOMAIN Details(none)[t] : <<k[1], k[2]>> \in P
        BY <2>1, DetailsOfPupils
    <2>3. DOMAIN Details({})[table] = {}
        BY <1>1, <2>2 DEF P, none
    <2> DEFINE d == Details({})[table]
    <2>4. IsTable(d)
        BY <1>1, DetailsAreTables
    <2>5. DOMAIN d = {} /\ d = [k \in DOMAIN d |-> d[k]] /\ details[table] = d
        BY <1>1, <2>3, <2>4 DEF IsTable
    <2> HIDE DEF d
    <2>6. OfWeek(d, w) = d
        BY <2>5 DEF OfWeek, Without
    <2>7. QED
        BY <2>5, <2>6 DEF d
<1>4. QED
    BY <1>1, <1>2, <1>3 DEF DetailRows, TurnsThere

LEMMA DetailsStep == ASSUME DetailsInv, [Next]_vars PROVE DetailsInv'
<1>0. SummariesInv /\ BaseInv
    BY DEF DetailsInv, SummariesInv
<1>1. SummariesInv'
    BY <1>0, SummariesStep
<1>2. CASE \E t \in Teachers : Slice(t)
    BY <1>1, <1>2, DetailsSlice DEF DetailsInv
<1>3. CASE UNCHANGED vars
    <2>1. /\ UNCHANGED <<home, runs, compacted, details, compaction, done, disturbed>>
          /\ AllRuns' = AllRuns
        BY <1>3 DEF vars, people, tables, AllRuns, RunOf
    <2>2. \A w \in Weeks : Made(w)' = Made(w)
        BY <2>1 DEF Made, RunsIn, TeacherNow
    <2>3. QED
        BY <1>1, <2>1, <2>2, DetailsStay DEF DetailsInv
<1>4. CASE Next /\ ~\E t \in Teachers : Slice(t)
    <2>1. details' = details /\ compacted' = compacted /\ disturbed \subseteq disturbed'
        BY <1>4 DEF Next, Insert, Commit, Rollback, NextWeek, Move, StartCompaction, SliceFails,
                    Finalize, tables
    <2>2. \A w \in Weeks \ disturbed' : Made(w)' = Made(w)
        BY <1>0, <1>4, MadeStays
    <2>3. \A r \in AllRuns' \ AllRuns : r.id \notin compacted
        <3>1. CASE \E f \in Flushers : Commit(f)
            <4>1. PICK f \in Flushers : Commit(f)
                BY <3>1
            <4>2. AllRuns' = AllRuns \union New(f)
                BY <1>0, <4>1, RunsAfterCommit
            <4>3. \A r \in New(f) : r.id \notin DOMAIN runs
                BY <1>0, NewIs DEF New
            <4>4. QED
                BY <1>0, <4>2, <4>3 DEF BaseInv, Types
        <3>2. CASE ~\E f \in Flushers : Commit(f)
            <4>1. runs' = runs
                BY <1>4, <3>2 DEF Next, Insert, Rollback, NextWeek, Move, StartCompaction,
                                  SliceFails, Finalize, queue
            <4>2. QED
                BY <4>1 DEF AllRuns, RunOf
        <3>3. QED
            BY <3>1, <3>2
    <2>4. QED
        BY <1>1, <2>1, <2>2, <2>3, DetailsStay DEF DetailsInv
<1>5. QED
    BY <1>2, <1>3, <1>4

(* The turn-level tables of a week nobody moved in keep counting all turns *)
(* its made runs ever had, and only made runs lose their turns.            *)
THEOREM DetailsHold == Spec => []DetailsInv
<1>1. Init => DetailsInv
    BY BaseInitially, SummariesInitially, DetailsInitially DEF SummariesInv, DetailsInv
<1>2. DetailsInv /\ [Next]_vars => DetailsInv'
    BY DetailsStep
<1>3. QED
    BY <1>1, <1>2, PTL DEF Spec

-------------------------------------------------------------------------------
(* The turns of a run.                                                     *)

(* Turns in order are the turns sent, each of them once.                   *)
LEMMA InOrderIs ==
    ASSUME NEW turns, IsList(turns), Sequential(turns)
    PROVE  LET n == Len(turns)
           IN  /\ n \in Nat /\ DOMAIN turns = 1 .. n /\ DOMAIN InOrder(turns) = 1 .. n
               /\ \E place \in Bijection(1 .. n, 1 .. n) :
                     \A j \in 1 .. n : InOrder(turns)[place[j]] = StoredTurn(turns[j])
<1> DEFINE n     == Len(turns)
           from(i) == CHOOSE j \in DOMAIN turns : turns[j].index = i - 1
           place == [j \in 1 .. n |-> turns[j].index + 1]
<1>1. n \in Nat /\ DOMAIN turns = 1 .. n
    BY DEF IsList
<1>2. {turns[i].index : i \in 1 .. n} = 0 .. n - 1
    BY <1>1 DEF Sequential
<1>3. /\ DOMAIN InOrder(turns) = 1 .. n
      /\ \A i \in 1 .. n : InOrder(turns)[i] = StoredTurn(turns[from(i)])
    BY <1>1 DEF InOrder
<1>4. \A j \in 1 .. n : turns[j].index \in 0 .. n - 1
    BY <1>2
<1>5. place \in Surjection(1 .. n, 1 .. n)
    <2>1. place \in [1 .. n -> 1 .. n]
        BY <1>1, <1>4
    <2>2. ASSUME NEW i \in 1 .. n
          PROVE  \E j \in 1 .. n : place[j] = i
        <3>1. i - 1 \in 0 .. n - 1
            BY <1>1
        <3>2. PICK j \in 1 .. n : turns[j].index = i - 1
            BY <1>2, <3>1
        <3>3. QED
            BY <3>2
    <2> HIDE DEF place
    <2>3. QED
        BY <2>1, <2>2 DEF Surjection
<1>6. place \in Injection(1 .. n, 1 .. n)
    <2>1. IsFiniteSet(1 .. n)
        BY <1>1, FS_Interval
    <2> HIDE DEF place, n
    <2>2. QED
        BY <1>5, <2>1, FS_SurjSameCardinalityImpliesInj
<1>7. ASSUME NEW j \in 1 .. n
      PROVE  InOrder(turns)[place[j]] = StoredTurn(turns[j])
    <2>1. place[j] \in 1 .. n /\ place[j] - 1 = turns[j].index
        BY <1>1, <1>4
    <2>2. from(place[j]) \in 1 .. n /\ turns[from(place[j])].index = turns[j].index
        <3> DEFINE i == place[j]
        <3>1. i - 1 = turns[j].index /\ j \in DOMAIN turns
            BY <1>1, <2>1
        <3> HIDE DEF i, place
        <3>2. from(i) \in DOMAIN turns /\ turns[from(i)].index = turns[j].index
            BY <3>1
        <3>3. QED
            BY <1>1, <3>2 DEF i
    <2>3. place[from(place[j])] = place[j]
        BY <2>2
    <2> HIDE DEF place, n, from
    <2>4. from(place[j]) = j
        BY <1>6, <1>7, <2>2, <2>3 DEF Injection, IsInjective
    <2>5. QED
        BY <1>3, <2>1, <2>4
<1> HIDE DEF place
<1>8. place \in Bijection(1 .. n, 1 .. n)
    BY <1>5, <1>6 DEF Bijection
<1>9. QED
    BY <1>1, <1>3, <1>7, <1>8

(* A stored run's right and wrong moves are its turns', and the move over  *)
(* the finishing line.                                                     *)
LEMMA StoredMoves ==
    ASSUME NEW id \in Accepted, Insertable(Stored[id])
    PROVE  LET run   == Stored[id]
               wrong == {i \in DOMAIN run.turns : ~run.turns[i].correct}
               right == {i \in DOMAIN run.turns : run.turns[i].correct}
           IN  /\ \E n \in Nat : DOMAIN run.turns = 1 .. n
               /\ \A i \in DOMAIN run.turns : \E j \in DOMAIN Payloads[id].turns :
                     run.turns[i] = StoredTurn(Payloads[id].turns[j])
               /\ Cardinality(wrong) = run.wrong
               /\ Cardinality(right) + (IF run.place = 1 THEN 1 ELSE 0) = run.correct
<1> DEFINE p     == Payloads[id]
           turns == p.turns
           n     == Len(turns)
           run   == Stored[id]
           sent  == {j \in 1 .. n : turns[j].correct}
           right == {i \in 1 .. n : run.turns[i].correct}
           wrong == {i \in 1 .. n : ~run.turns[i].correct}
<1>1. WellFormed(p) /\ Valid(p)
    BY StatisticsAssumption DEF Accepted
<1>2. /\ run.turns = InOrder(turns) /\ run.place = p.place /\ run.place # None
      /\ run.correct = p.correct /\ run.wrong = p.wrong
    BY DEF Stored, StoredRun, Insertable
<1>3. IsList(turns) /\ p.correct \in Int /\ p.wrong \in Int
    BY <1>1 DEF WellFormed
<1>4. MovesMatch(p) /\ Sequential(turns)
    BY <1>1, <1>2 DEF Valid, UnityValid, CanonicalValid, IndicesMatch
<1>5. n \in Nat /\ DOMAIN turns = 1 .. n /\ DOMAIN run.turns = 1 .. n
    BY <1>2, <1>3, <1>4, InOrderIs
<1>6. PICK place \in Bijection(1 .. n, 1 .. n) :
          \A j \in 1 .. n : run.turns[place[j]] = StoredTurn(turns[j])
    BY <1>2, <1>3, <1>4, InOrderIs
<1>7. /\ p.wrong = n - Cardinality(sent)
      /\ Cardinality(sent) = IF p.place = 1 THEN p.correct - 1 ELSE p.correct
    BY <1>4, <1>5 DEF MovesMatch, Right, Wrong
<1> HIDE DEF p, turns, n, run
<1>8. \A i \in 1 .. n : \E j \in 1 .. n : place[j] = i
    BY <1>6 DEF Bijection, Surjection
<1>9. \A j \in 1 .. n : run.turns[place[j]].correct = turns[j].correct
    <2>1. \A turn : StoredTurn(turn).correct = turn.correct
        BY DEF StoredTurn
    <2>2. QED
        BY <1>6, <2>1
<1>10. Cardinality(sent) = Cardinality(right) /\ IsFiniteSet(right)
    <2> DEFINE b == [j \in sent |-> place[j]]
    <2>1. \A j \in 1 .. n : place[j] \in 1 .. n
        BY <1>6 DEF Bijection, Injection
    <2>2. \A j, k \in 1 .. n : place[j] = place[k] => j = k
        BY <1>6 DEF Bijection, Injection, IsInjective
    <2>3. b \in [sent -> right] /\ \A j, k \in sent : b[j] = b[k] => j = k
        BY <1>9, <2>1, <2>2
    <2>4. \A i \in right : \E j \in sent : b[j] = i
        BY <1>8, <1>9
    <2>5. IsFiniteSet(1 .. n)
        BY <1>5, FS_Interval
    <2>6. IsFiniteSet(sent)
        BY <2>5, FS_Subset
    <2> HIDE DEF b, sent, right
    <2>7. b \in Bijection(sent, right)
        BY <2>3, <2>4 DEF Bijection, Surjection, Injection, IsInjective
    <2>8. ExistsBijection(sent, right)
        BY <2>7 DEF ExistsBijection
    <2>9. QED
        BY <2>6, <2>8, FS_Bijection
<1>11. Cardinality(wrong) = n - Cardinality(right)
    <2> DEFINE N == 1 .. n
    <2>1. IsFiniteSet(N) /\ Cardinality(N) = n
        BY <1>5, FS_Interval
    <2>2. wrong = N \ right /\ N \intersect right = right
        OBVIOUS
    <2> HIDE DEF wrong, right, N
    <2>3. Cardinality(N \ right) = Cardinality(N) - Cardinality(N \intersect right)
        BY <2>1, FS_Difference
    <2>4. QED
        BY <2>1, <2>2, <2>3
<1>12. Cardinality(right) \in Nat
    BY <1>10, FS_CardinalityType
<1>13. /\ Cardinality(wrong) = run.wrong
       /\ Cardinality(right) + (IF run.place = 1 THEN 1 ELSE 0) = run.correct
    <2> HIDE DEF wrong, right, sent
    <2>1. QED
        BY <1>2, <1>3, <1>5, <1>7, <1>10, <1>11, <1>12
<1>14. \A i \in 1 .. n : \E j \in 1 .. n : run.turns[i] = StoredTurn(turns[j])
    BY <1>6, <1>8
<1>15. QED
    BY <1>5, <1>13, <1>14 DEF p, turns, run

-------------------------------------------------------------------------------
(* The moves of some runs.                                                 *)

(* Their steps can be counted.                                             *)
LEMMA StepsOfRuns ==
    ASSUME BaseInv, NEW R \in SUBSET AllRuns
    PROVE  /\ IsFiniteSet(R) /\ IsFiniteSet(Steps(R))
           /\ \A r \in R : IsFiniteSet(DOMAIN r.turns)
           /\ \A s \in Steps(R) : s[1] \in R /\ s[2] \in DOMAIN s[1].turns
<1>1. IsFiniteSet(R)
    BY RunsCountable, PartCountable DEF Countable
<1>2. ASSUME NEW r \in R
      PROVE  IsFiniteSet(DOMAIN r.turns)
    <2>1. PICK id \in DOMAIN runs : r = RunOf(id)
        BY DEF AllRuns
    <2>2. r.turns = Stored[id].turns /\ id \in Accepted /\ Insertable(Stored[id])
        BY <2>1, RunIs DEF BaseInv, Types, Stamped
    <2>3. PICK n \in Nat : DOMAIN r.turns = 1 .. n
        BY <2>2, StoredMoves
    <2>4. QED
        BY <2>3, FS_Interval
<1>3. \A r \in R : IsFiniteSet({r} \X DOMAIN r.turns)
    BY <1>2, CountOfPairs
<1> DEFINE of == [r \in R |-> {r} \X DOMAIN r.turns]
           U  == {of[r] : r \in R}
<1>4. Steps(R) = UNION U /\ of \in [R -> U] /\ \A T \in U : IsFiniteSet(T)
    BY <1>3 DEF Steps
<1>5. IsFiniteSet(U)
    <2> HIDE DEF of
    <2>1. of \in [R -> U]
        BY <1>4
    <2>2. IsFiniteSet(R)
        BY <1>1
    <2> HIDE DEF U
    <2>3. IsFiniteSet({of[r] : r \in R})
        BY <2>1, <2>2, ImageIsFinite, Zenon
    <2>4. QED
        BY <2>3 DEF U
<1>6. IsFiniteSet(Steps(R))
    <2> HIDE DEF U
    <2>1. QED
        BY <1>4, <1>5, FS_UNION
<1>7. QED
    BY <1>1, <1>2, <1>6 DEF Steps

(* The wrong moves of runs are their wrong turns, and the right ones the   *)
(* right turns and one for every run that was won.                         *)
LEMMA MovesOfRuns ==
    ASSUME BaseInv, NEW R \in SUBSET AllRuns
    PROVE  LET S == Steps(R)
           IN  /\ Cardinality(Mistakes(S)) = Column(R, "wrong")
               /\ Cardinality(S \ Mistakes(S)) + Cardinality({r \in R : r.place = 1}) =
                      Column(R, "correct")
<1> DEFINE S == Steps(R)
           M == Mistakes(S)
           N == S \ Mistakes(S)
           wrong(r) == {i \in DOMAIN r.turns : ~r.turns[i].correct}
           right(r) == {i \in DOMAIN r.turns : r.turns[i].correct}
           won == {r \in AllRuns : r.place = 1}
           w == [r \in R |-> r.wrong]
           c == [r \in R |-> r.correct]
           d == [r \in R |-> Cardinality(right(r))]
           e == [r \in R |-> IF r \in won THEN 1 ELSE 0]
           m == [s \in M |-> s[1]]
           n == [s \in N |-> s[1]]
<1>1. IsFiniteSet(R) /\ IsFiniteSet(S) /\ \A s \in S : s[1] \in R
    BY StepsOfRuns
<1>2. IsFiniteSet(M) /\ IsFiniteSet(N)
    BY <1>1, FS_Subset DEF Mistakes
<1>3. ASSUME NEW r \in R
      PROVE  /\ IsFiniteSet(wrong(r)) /\ IsFiniteSet(right(r))
             /\ r.wrong \in Int /\ r.correct \in Int
             /\ Cardinality(wrong(r)) = r.wrong
             /\ Cardinality(right(r)) + (IF r \in won THEN 1 ELSE 0) = r.correct
    <2>1. PICK id \in DOMAIN runs : r = RunOf(id)
        BY DEF AllRuns
    <2> DEFINE run == Stored[id]
    <2>2. /\ r.turns = run.turns /\ r.place = run.place
          /\ r.wrong \in Int /\ r.correct \in Int
          /\ r.wrong = run.wrong /\ r.correct = run.correct
        <3>1. /\ r.turns = run.turns /\ r.place = run.place
              /\ r.wrong \in Int /\ r.correct \in Int
            BY <2>1, RunIs
        <3>2. "wrong" \in DOMAIN run /\ "correct" \in DOMAIN run
            BY DEF BaseInv, Types, Stored, StoredRun
        <3>3. QED
            BY <2>1, <3>1, <3>2 DEF RunOf, ++
    <2>3. id \in Accepted /\ Insertable(run)
        BY DEF BaseInv, Types, Stamped
    <2>4. /\ Cardinality({i \in DOMAIN run.turns : ~run.turns[i].correct}) = run.wrong
          /\ Cardinality({i \in DOMAIN run.turns : run.turns[i].correct})
                 + (IF run.place = 1 THEN 1 ELSE 0) = run.correct
        BY <2>3, StoredMoves
    <2>5. IsFiniteSet(DOMAIN r.turns)
        BY StepsOfRuns
    <2>6. IsFiniteSet(wrong(r)) /\ IsFiniteSet(right(r))
        BY <2>5, FS_Subset
    <2> HIDE DEF run
    <2>7. QED
        BY <2>2, <2>4, <2>6
<1>4. ASSUME NEW r \in R
      PROVE  /\ Fibre(M, m, r) = {r} \X wrong(r)
             /\ Fibre(N, n, r) = {r} \X right(r)
    BY DEF Fibre, Mistakes, Steps, Turn
<1>5. \A r \in R : /\ Cardinality(Fibre(M, m, r)) = Cardinality(wrong(r))
                   /\ Cardinality(Fibre(N, n, r)) = Cardinality(right(r))
    <2>1. \A x, I : IsFiniteSet(I) => Cardinality({x} \X I) = Cardinality(I)
        BY CountOfPairs
    <2> HIDE DEF wrong, right, M, N, m, n
    <2>2. \A r \in R : IsFiniteSet(wrong(r)) /\ IsFiniteSet(right(r))
        BY <1>3
    <2>3. ASSUME NEW r \in R
          PROVE  /\ Cardinality(Fibre(M, m, r)) = Cardinality(wrong(r))
                 /\ Cardinality(Fibre(N, n, r)) = Cardinality(right(r))
        <3>1. Fibre(M, m, r) = {r} \X wrong(r) /\ Fibre(N, n, r) = {r} \X right(r)
            BY <1>4
        <3>2. /\ Cardinality({r} \X wrong(r)) = Cardinality(wrong(r))
              /\ Cardinality({r} \X right(r)) = Cardinality(right(r))
            BY <2>1, <2>2
        <3>3. QED
            BY <3>1, <3>2
    <2>4. QED
        BY <2>3
<1>6. Fibres(M, m, R) = M /\ Fibres(N, n, R) = N
    BY <1>1 DEF Fibres, Mistakes
<1>7. SumFunction(w) = Cardinality(M)
    <2>1. w = [r \in R |-> w[r]] /\ \A r \in R : w[r] = Cardinality(Fibre(M, m, r))
        BY <1>3, <1>5
    <2> HIDE DEF w, M, m
    <2>2. SumFunction([r \in R |-> w[r]]) = Cardinality(Fibres(M, m, R))
        BY <1>1, <1>2, <2>1, CountOfRows
    <2>3. QED
        BY <1>6, <2>1, <2>2
<1>8. SumFunction(d) = Cardinality(N)
    <2>1. d = [r \in R |-> d[r]] /\ \A r \in R : d[r] = Cardinality(Fibre(N, n, r))
        BY <1>5
    <2> HIDE DEF d, N, n
    <2>2. SumFunction([r \in R |-> d[r]]) = Cardinality(Fibres(N, n, R))
        BY <1>1, <1>2, <2>1, CountOfRows
    <2>3. QED
        BY <1>6, <2>1, <2>2
<1>9. SumFunction(c) = SumFunction(d) + SumFunction(e)
    <2>1. /\ c \in [R -> Int] /\ d \in [R -> Int] /\ e \in [R -> Int]
          /\ \A r \in R : c[r] = d[r] + e[r]
        <3>1. \A r \in R : Cardinality(right(r)) \in Int
            <4> HIDE DEF right
            <4>1. \A I : IsFiniteSet(I) => Cardinality(I) \in Int
                BY FS_CardinalityType
            <4>2. \A r \in R : IsFiniteSet(right(r))
                BY <1>3
            <4>3. QED
                BY <4>1, <4>2
        <3>2. \A r \in R : /\ r.correct \in Int
                            /\ Cardinality(right(r)) + (IF r \in won THEN 1 ELSE 0) = r.correct
            BY <1>3
        <3> HIDE DEF right, won
        <3>3. QED
            BY <3>1, <3>2
    <2>2. c = [r \in R |-> c[r]] /\ d = [r \in R |-> d[r]] /\ e = [r \in R |-> e[r]]
        OBVIOUS
    <2> HIDE DEF c, d, e
    <2>3. SumIn(c, R) = SumIn(d, R) + SumIn(e, R)
        BY <1>1, <2>1, SumOfTwo
    <2>4. QED
        BY <2>2, <2>3 DEF SumIn
<1>10. SumFunction(e) = Cardinality(R \intersect won)
    <2>1. e \in [R -> Int] /\ e = [r \in R |-> e[r]] /\ \A r \in R : e[r] = IF r \in won THEN 1 ELSE 0
        OBVIOUS
    <2> HIDE DEF e, won
    <2>2. SumIn(e, R) = Cardinality(R \intersect won)
        BY <1>1, <2>1, CountAsSum
    <2>3. QED
        BY <2>1, <2>2 DEF SumIn
<1>11. {r \in R : r.place = 1} = R \intersect won
    OBVIOUS
<1> HIDE DEF M, N, won
<1>12. QED
    BY <1>7, <1>8, <1>9, <1>10, <1>11 DEF Column, M, N

-------------------------------------------------------------------------------
(* What rows of one table add up to: what there is under their keys.       *)

LEMMA KeysAreFinite ==
    ASSUME NEW X, IsFiniteSet(X), NEW key, NEW D, D = {key[x] : x \in X}, NEW K \in SUBSET D,
           key = [x \in X |-> key[x]]
    PROVE  IsFiniteSet(K)
<1> DEFINE T == {key[x] : x \in X}
<1>1. key \in [X -> T] /\ D = T
    OBVIOUS
<1> HIDE DEF T
<1>2. key \in [X -> T]
    BY <1>1
<1>3. IsFiniteSet({key[x] : x \in X})
    BY ONLY <1>2, IsFiniteSet(X), ImageIsFinite, Zenon
<1>4. IsFiniteSet(D)
    BY <1>1, <1>3 DEF T
<1>5. QED
    BY <1>4, FS_Subset

LEMMA HotspotRows ==
    ASSUME NEW S, IsFiniteSet(S), NEW K \in SUBSET DOMAIN Hotspots(S)
    PROVE  SumFunction([k \in K |-> Hotspots(S)[k]]) =
               Cardinality({s \in Mistakes(S) : At(s, Turn(s).from) \in K})
<1> DEFINE X     == Mistakes(S)
           key   == [s \in X |-> At(s, Turn(s).from)]
           table == Hotspots(S)
<1>1. IsFiniteSet(X)
    BY FS_Subset DEF Mistakes
<1>2. /\ DOMAIN table = {key[x] : x \in X} /\ key = [x \in X |-> key[x]]
      /\ \A k \in DOMAIN table : table[k] = Cardinality(Fibre(X, key, k))
      /\ Fibres(X, key, K) = {s \in X : At(s, Turn(s).from) \in K}
    BY DEF Hotspots, Grouped, Fibre, Fibres
<1> HIDE DEF X, key, table
<1>3. K \in SUBSET DOMAIN table
    BY DEF table
<1>4. IsFiniteSet(K)
    BY <1>1, <1>2, <1>3, KeysAreFinite
<1>5. \A k \in K : table[k] = Cardinality(Fibre(X, key, k))
    BY <1>2, <1>3
<1>6. SumFunction([k \in K |-> table[k]]) = Cardinality(Fibres(X, key, K))
    BY <1>1, <1>4, <1>5, CountOfRows
<1>7. QED
    BY <1>2, <1>6 DEF X, table

LEMMA ChainRows ==
    ASSUME NEW S, IsFiniteSet(S), NEW K \in SUBSET DOMAIN ChainLengths(S)
    PROVE  SumFunction([k \in K |-> ChainLengths(S)[k]]) =
               Cardinality({s \in S : At(s, Len(Turn(s).chain)) \in K})
<1> DEFINE key   == [s \in S |-> At(s, Len(Turn(s).chain))]
           table == ChainLengths(S)
<1>1. /\ DOMAIN table = {key[x] : x \in S} /\ key = [x \in S |-> key[x]]
      /\ \A k \in DOMAIN table : table[k] = Cardinality(Fibre(S, key, k))
      /\ Fibres(S, key, K) = {s \in S : At(s, Len(Turn(s).chain)) \in K}
    BY DEF ChainLengths, Grouped, Fibre, Fibres
<1> HIDE DEF key, table
<1>2. K \in SUBSET DOMAIN table
    BY DEF table
<1>3. IsFiniteSet(K)
    BY <1>1, <1>2, KeysAreFinite
<1>4. \A k \in K : table[k] = Cardinality(Fibre(S, key, k))
    BY <1>1, <1>2
<1>5. SumFunction([k \in K |-> table[k]]) = Cardinality(Fibres(S, key, K))
    BY <1>3, <1>4, CountOfRows
<1>6. QED
    BY <1>1, <1>5 DEF table

(* What a card type's rows add up to.                                      *)
LEMMA TypeRows ==
    ASSUME NEW S, IsFiniteSet(S), NEW K \in SUBSET DOMAIN CardTypes(S)
    PROVE  SumFunction([k \in K |-> CardTypes(S)[k].chosen]) =
               Cardinality({s \in S : At(s, CardType(Turn(s))) \in K})
<1> DEFINE key   == [s \in S |-> At(s, CardType(Turn(s)))]
           D     == DOMAIN CardTypes(S)
           table == [k \in D |-> CardTypes(S)[k].chosen]
<1>1. /\ D = {key[x] : x \in S} /\ key = [x \in S |-> key[x]]
      /\ \A k \in D : CardTypes(S)[k].chosen = Cardinality(Fibre(S, key, k))
      /\ Fibres(S, key, K) = {s \in S : At(s, CardType(Turn(s))) \in K}
    BY DEF CardTypes, Grouped, Fibre, Fibres
<1>2. /\ [k \in K |-> table[k]] = [k \in K |-> CardTypes(S)[k].chosen]
      /\ \A k \in D : table[k] = CardTypes(S)[k].chosen
    OBVIOUS
<1>3. K \in SUBSET D
    OBVIOUS
<1> HIDE DEF key, D, table
<1>4. IsFiniteSet(K)
    BY <1>1, <1>3, KeysAreFinite
<1>5. \A k \in K : table[k] = Cardinality(Fibre(S, key, k))
    BY <1>1, <1>2, <1>3
<1>6. SumFunction([k \in K |-> table[k]]) = Cardinality(Fibres(S, key, K))
    BY <1>4, <1>5, CountOfRows
<1>7. QED
    BY <1>1, <1>2, <1>6

(* The offers of some turns.                                               *)
Offers(S)     == Ofs(S, LAMBDA s : DOMAIN Turn(s).offered)
OfferedKey(e) == At(e[1], ParseCard(Turn(e[1]).offered[e[2]]).family)
ChosenKey(s)  == At(s, CardFamily(Turn(s)))

(* What a family's rows add up to, of which some are of cards that were    *)
(* offered and never chosen.                                               *)
LEMMA FamilyRows ==
    ASSUME NEW S, IsFiniteSet(S), IsFiniteSet(Offers(S)), NEW K \in SUBSET DOMAIN CardFamilies(S)
    PROVE  /\ SumFunction([k \in K |-> CardFamilies(S)[k]["offered"]]) =
                  Cardinality({e \in Offers(S) : OfferedKey(e) \in K})
           /\ SumFunction([k \in K |-> CardFamilies(S)[k]["chosen"]]) =
                  Cardinality({s \in S : ChosenKey(s) \in K})
           /\ SumFunction([k \in K |-> CardFamilies(S)[k]["wrong"]]) =
                  Cardinality({s \in Mistakes(S) : ChosenKey(s) \in K})
           /\ SumFunction([k \in K |-> CardFamilies(S)[k]["correct"]]) =
                  Cardinality({s \in S \ Mistakes(S) : ChosenKey(s) \in K})
<1> DEFINE M == Mistakes(S)
           N == S \ Mistakes(S)
           O == Offers(S)
           D == DOMAIN CardFamilies(S)
           o == [e \in O |-> OfferedKey(e)]
           c == [s \in S |-> ChosenKey(s)]
           m == [s \in M |-> ChosenKey(s)]
           n == [s \in N |-> ChosenKey(s)]
           row(k) == CardFamilies(S)[k]
<1>1. /\ IsFiniteSet(M) /\ IsFiniteSet(N)
    BY FS_Subset DEF Mistakes
<1>2. D = {c[s] : s \in S} \union {o[e] : e \in O}
    BY DEF CardFamilies, Offers, OfferedKey, ChosenKey
<1>3. \A k \in D :
          /\ row(k).offered = Cardinality({e \in O : OfferedKey(e) = k})
          /\ row(k).chosen = Cardinality({s \in S : ChosenKey(s) = k})
          /\ row(k).wrong = Cardinality(Mistakes({s \in S : ChosenKey(s) = k}))
          /\ row(k).correct = Cardinality({s \in S : ChosenKey(s) = k}
                                              \ Mistakes({s \in S : ChosenKey(s) = k}))
    BY DEF CardFamilies, Offers, OfferedKey, ChosenKey
<1>4. \A k : /\ {e \in O : OfferedKey(e) = k} = Fibre(O, o, k)
             /\ {s \in S : ChosenKey(s) = k} = Fibre(S, c, k)
             /\ Mistakes({s \in S : ChosenKey(s) = k}) = Fibre(M, m, k)
             /\ {s \in S : ChosenKey(s) = k} \ Mistakes({s \in S : ChosenKey(s) = k}) =
                    Fibre(N, n, k)
    BY DEF Fibre, Mistakes
<1>5. /\ {e \in O : OfferedKey(e) \in K} = Fibres(O, o, K)
      /\ {s \in S : ChosenKey(s) \in K} = Fibres(S, c, K)
      /\ {s \in M : ChosenKey(s) \in K} = Fibres(M, m, K)
      /\ {s \in N : ChosenKey(s) \in K} = Fibres(N, n, K)
    BY DEF Fibres
<1>6. c = [s \in S |-> c[s]] /\ o = [e \in O |-> o[e]]
    OBVIOUS
<1> DEFINE table(f) == [k \in K |-> CardFamilies(S)[k][f]]
<1>7. IsFiniteSet(K)
    <2> DEFINE A == {c[s] : s \in S}
               B == {o[e] : e \in O}
    <2>1. c \in [S -> A] /\ o \in [O -> B]
        BY <1>6
    <2>2. IsFiniteSet(O)
        OBVIOUS
    <2> HIDE DEF c, o, O
    <2>3. IsFiniteSet({c[s] : s \in S})
        <3> HIDE DEF A
        <3>1. c \in [S -> A]
            BY <2>1
        <3>2. QED
            BY <3>1, ImageIsFinite, Zenon
    <2>4. IsFiniteSet({o[e] : e \in O})
        <3> HIDE DEF B
        <3>1. o \in [O -> B]
            BY <2>1
        <3>2. QED
            BY <2>2, <3>1, ImageIsFinite, Zenon
    <2>5. IsFiniteSet(D)
        BY <1>2, <2>3, <2>4, FS_Union
    <2>6. K \in SUBSET D
        OBVIOUS
    <2> HIDE DEF D
    <2>7. QED
        BY <2>5, <2>6, FS_Subset
<1>8. \A k \in K : /\ table("offered")[k] = Cardinality(Fibre(O, o, k))
                   /\ table("chosen")[k] = Cardinality(Fibre(S, c, k))
                   /\ table("wrong")[k] = Cardinality(Fibre(M, m, k))
                   /\ table("correct")[k] = Cardinality(Fibre(N, n, k))
    <2>1. K \subseteq D /\ \A f, k : k \in K => table(f)[k] = row(k)[f]
        OBVIOUS
    <2>2. \A k \in D : /\ row(k).offered = Cardinality(Fibre(O, o, k))
                       /\ row(k).chosen = Cardinality(Fibre(S, c, k))
                       /\ row(k).wrong = Cardinality(Fibre(M, m, k))
                       /\ row(k).correct = Cardinality(Fibre(N, n, k))
        <3> HIDE DEF row, D, O, M, N, o, c, m, n
        <3>1. QED
            BY <1>3, <1>4
    <2> HIDE DEF table, row, D, O, M, N, o, c, m, n
    <2>3. QED
        BY <2>1, <2>2
<1>9. \A f : table(f) = [k \in K |-> table(f)[k]]
    OBVIOUS
<1>10. IsFiniteSet(O)
    OBVIOUS
<1> HIDE DEF O, M, N, o, c, m, n, table
<1>11. /\ SumFunction([k \in K |-> table("offered")[k]]) = Cardinality(Fibres(O, o, K))
       /\ SumFunction([k \in K |-> table("chosen")[k]]) = Cardinality(Fibres(S, c, K))
       /\ SumFunction([k \in K |-> table("wrong")[k]]) = Cardinality(Fibres(M, m, K))
       /\ SumFunction([k \in K |-> table("correct")[k]]) = Cardinality(Fibres(N, n, K))
    BY <1>1, <1>7, <1>8, <1>10, CountOfRows
<1>12. /\ SumFunction(table("offered")) = Cardinality(Fibres(O, o, K))
       /\ SumFunction(table("chosen")) = Cardinality(Fibres(S, c, K))
       /\ SumFunction(table("wrong")) = Cardinality(Fibres(M, m, K))
       /\ SumFunction(table("correct")) = Cardinality(Fibres(N, n, K))
    BY <1>9, <1>11
<1>13. QED
    BY <1>5, <1>12 DEF table, O, M, N

-------------------------------------------------------------------------------
(* The tables of a closed week.                                            *)

(* A turn in the database was sent.                                        *)
LEMMA TurnIs ==
    ASSUME BaseInv, NEW s \in Steps(AllRuns)
    PROVE  \E sent : WellFormedTurn(sent) /\ Turn(s) = StoredTurn(sent)
<1>1. s[1] \in AllRuns /\ s[2] \in DOMAIN s[1].turns
    BY DEF Steps
<1>2. PICK id \in DOMAIN runs : s[1] = RunOf(id)
    BY <1>1 DEF AllRuns
<1>3. s[1].turns = Stored[id].turns /\ id \in Accepted /\ Insertable(Stored[id])
    BY <1>2, RunIs DEF BaseInv, Types, Stamped
<1>4. PICK j \in DOMAIN Payloads[id].turns : Turn(s) = StoredTurn(Payloads[id].turns[j])
    BY <1>1, <1>3, StoredMoves DEF Turn
<1>5. WellFormedTurn(Payloads[id].turns[j])
    BY <1>3, StatisticsAssumption DEF Accepted, WellFormed
<1>6. QED
    BY <1>4, <1>5

(* Its lists and numbers.                                                  *)
LEMMA TurnParts ==
    ASSUME BaseInv, NEW s \in Steps(AllRuns)
    PROVE  /\ Len(Turn(s).chain) \in Nat /\ DOMAIN Turn(s).chain = 1 .. Len(Turn(s).chain)
           /\ IsFiniteSet(DOMAIN Turn(s).offered)
           /\ Time(s) \in Int /\ NumberTime(s) \in Int
<1>1. PICK sent : WellFormedTurn(sent) /\ Turn(s) = StoredTurn(sent)
    BY TurnIs
<1>2. /\ Turn(s).chain = [i \in DOMAIN sent.chain |-> sent.chain[i].kind]
      /\ DOMAIN Turn(s).offered = DOMAIN sent.offered
      /\ Turn(s).time = sent.time /\ Turn(s).numberTime = Sentinel(sent.numberTime)
    BY <1>1 DEF StoredTurn
<1>3. /\ sent.chain \in Seq({sent.chain[i] : i \in DOMAIN sent.chain})
      /\ sent.offered \in Seq({sent.offered[i] : i \in DOMAIN sent.offered})
      /\ sent.time \in Int /\ sent.numberTime \in Int \union {None}
    BY <1>1 DEF WellFormedTurn, IsList
<1>4. Len(Turn(s).chain) \in Nat /\ DOMAIN Turn(s).chain = 1 .. Len(Turn(s).chain)
    <2>1. Len(sent.chain) \in Nat /\ DOMAIN sent.chain = 1 .. Len(sent.chain)
        BY <1>3
    <2> DEFINE c == [i \in 1 .. Len(sent.chain) |-> sent.chain[i].kind]
               K == {sent.chain[i].kind : i \in 1 .. Len(sent.chain)}
    <2>2. c \in Seq(K) /\ Turn(s).chain = c
        BY <1>2, <2>1
    <2> HIDE DEF c
    <2>3. QED
        BY <2>2
<1>5. IsFiniteSet(DOMAIN Turn(s).offered)
    <2>1. Len(sent.offered) \in Nat /\ DOMAIN sent.offered = 1 .. Len(sent.offered)
        BY <1>3
    <2>2. QED
        BY <1>2, <2>1, FS_Interval
<1>6. Time(s) \in Int /\ NumberTime(s) \in Int
    BY <1>2, <1>3 DEF Time, NumberTime, Sentinel
<1>7. QED
    BY <1>4, <1>5, <1>6

(* The offers of some runs are finitely many.                              *)
LEMMA OffersAreFinite ==
    ASSUME BaseInv, NEW S, S \subseteq Steps(AllRuns)
    PROVE  IsFiniteSet(Offers(S))
<1>1. IsFiniteSet(S)
    <2>1. IsFiniteSet(Steps(AllRuns))
        BY StepsOfRuns
    <2>2. QED
        BY <2>1, FS_Subset
<1> DEFINE of == [s \in S |-> {s} \X DOMAIN Turn(s).offered]
           U  == {of[s] : s \in S}
<1>2. Offers(S) = UNION U /\ of \in [S -> U]
    BY DEF Offers, Ofs
<1>3. \A T \in U : IsFiniteSet(T)
    <2>1. \A s \in S : IsFiniteSet(DOMAIN Turn(s).offered)
        BY TurnParts
    <2>2. \A s \in S : IsFiniteSet({s} \X DOMAIN Turn(s).offered)
        BY <2>1, CountOfPairs
    <2>3. QED
        BY <2>2
<1>4. IsFiniteSet(U)
    <2> HIDE DEF of
    <2>1. of \in [S -> U]
        BY <1>2
    <2> HIDE DEF U
    <2>2. IsFiniteSet({of[s] : s \in S})
        BY <1>1, <2>1, ImageIsFinite, Zenon
    <2>3. QED
        BY <2>2 DEF U
<1> HIDE DEF U
<1>5. QED
    BY <1>2, <1>3, <1>4, FS_UNION

(* The tables of a closed week agree with each other, for any payloads,    *)
(* flushers, rooms and weeks: a level's mistakes by tile are its wrong     *)
(* moves, the cards chosen and the chains its turns, and a won run has a   *)
(* correct move more than its turns say, the one over the line.            *)
(* (weekly_aggregation.py against ingest_schemas.py)                       *)
THEOREM TablesAgreeTheorem == Spec => []TablesAgree
<1>1. ASSUME DetailsInv
      PROVE  TablesAgree
    <2>1. ASSUME NEW k \in DOMAIN studentLevel, k[2] \in done \ disturbed
          PROVE  LET of(table) == {j \in DOMAIN table : <<j[1], j[2], j[3]>> = k}
                     sum(table, f(_)) == SumRows(table, of(table), f)
                     firsts == Cardinality({r \in AllRuns : /\ <<r.student, r.week, r.level>> = k
                                                            /\ r.place = 1})
                     turns == sum(details.types, LAMBDA v : v.chosen)
                 IN  /\ sum(details.hotspots, LAMBDA v : v) = studentLevel[k].wrong
                     /\ sum(details.families, LAMBDA v : v.correct) + firsts =
                            studentLevel[k].correct
                     /\ sum(details.families, LAMBDA v : v.chosen) = turns
                     /\ sum(details.chains, LAMBDA v : v) = turns
        <3>0. BaseInv
            BY <1>1 DEF DetailsInv, SummariesInv
        <3> DEFINE of(table) == {j \in DOMAIN table : <<j[1], j[2], j[3]>> = k}
                   w == k[2]
                   S == Steps(RunsIn(w))
                   L == LevelRuns(AllRuns, k)
                   T == Steps(L)
                   D == Details(S)
        <3>1. w \in Weeks \ disturbed /\ Made(w) = RunsIn(w)
            BY <2>1, <3>0 DEF BaseInv, Types, Made
        <3>2. \A table \in DOMAIN details : OfWeek(details[table], w) = D[table]
            BY <1>1, <3>1 DEF DetailsInv, DetailRows
        <3>3. /\ DOMAIN D = DOMAIN details
              /\ {"hotspots", "families", "types", "chains"} \subseteq DOMAIN details
            BY <3>0 DEF BaseInv, Types, Details
        <3>4. ASSUME NEW table \in DOMAIN details
              PROVE  /\ of(details[table]) = of(D[table])
                     /\ \A j \in of(D[table]) : /\ j \in DOMAIN D[table]
                                                /\ details[table][j] = D[table][j]
            <4>1. \A j : <<j[1], j[2], j[3]>> = k => j[2] = w
                OBVIOUS
            <4> DEFINE d == details[table]
            <4>2. OfWeek(d, w) = D[table]
                BY <3>2
            <4> HIDE DEF d, w, D
            <4>3. /\ DOMAIN OfWeek(d, w) = {j \in DOMAIN d : j[2] = w}
                  /\ \A j \in DOMAIN OfWeek(d, w) : OfWeek(d, w)[j] = d[j]
                BY DEF OfWeek, Without
            <4>4. QED
                BY <4>1, <4>2, <4>3 DEF d
        <3>5. /\ D.hotspots = Hotspots(S) /\ D.families = CardFamilies(S)
              /\ D.types = CardTypes(S) /\ D.chains = ChainLengths(S)
            BY DEF Details
        <3>6. /\ RunsIn(w) \subseteq AllRuns /\ L \subseteq RunsIn(w) /\ L \subseteq AllRuns
              /\ \A r \in RunsIn(w) : r \in L <=> <<r.student, r.week, r.level>> = k
            BY DEF RunsIn, LevelRuns
        <3>7. /\ S \subseteq Steps(AllRuns) /\ IsFiniteSet(S)
            <4>1. S \subseteq Steps(AllRuns)
                BY <3>6 DEF Steps
            <4>2. IsFiniteSet(S)
                BY <3>0, <3>6, StepsOfRuns
            <4>3. QED
                BY <4>1, <4>2
        <3>8. IsFiniteSet(Offers(S))
            <4> HIDE DEF S
            <4>1. QED
                BY <3>0, <3>7, OffersAreFinite
        <3>9. \A s \in S : /\ s \in T <=> <<s[1].student, s[1].week, s[1].level>> = k
                           /\ \A x : <<At(s, x)[1], At(s, x)[2], At(s, x)[3]>> =
                                         <<s[1].student, s[1].week, s[1].level>>
            BY <3>6 DEF Steps, At
        <3>10. T \subseteq S
            BY <3>6 DEF Steps
        <3>11. studentLevel[k].wrong = Column(L, "wrong") /\ studentLevel[k].correct = Column(L, "correct")
            <4>1. /\ k \in DOMAIN StudentLevels(AllRuns)
                  /\ Matches(studentLevel[k], StudentLevels(AllRuns)[k])
                BY <1>1, <2>1 DEF DetailsInv, SummariesInv, Summaries, InStep
            <4>2. StudentLevels(AllRuns)[k] = LevelRow(L)
                BY <4>1, TablesAre
            <4>3. /\ {"wrong", "correct"} \subseteq DOMAIN LevelRow(L)
                  /\ LevelRow(L).wrong = Counters(L).wrong /\ LevelRow(L).correct = Counters(L).correct
                <5>1. DOMAIN Counters(L) = {"runs", "wins", "correct", "wrong", "score", "elapsed"}
                    BY RowParts
                <5>2. QED
                    BY <5>1 DEF LevelRow, ++
            <4>4. QED
                BY <4>1, <4>2, <4>3, CountersAre DEF Matches
        <3>12. /\ Cardinality(Mistakes(T)) = Column(L, "wrong")
               /\ Cardinality(T \ Mistakes(T)) + Cardinality({r \in L : r.place = 1}) =
                      Column(L, "correct")
            BY <3>0, <3>6, MovesOfRuns
        <3>13. {r \in L : r.place = 1} = {r \in AllRuns : /\ <<r.student, r.week, r.level>> = k
                                                          /\ r.place = 1}
            BY DEF LevelRuns
        <3> HIDE DEF S, L, T, D, w
        <3>14. SumRows(details.hotspots, of(details.hotspots), LAMBDA v : v) = Cardinality(Mistakes(T))
            <4> DEFINE K == of(Hotspots(S))
            <4>1. of(details.hotspots) = K /\ \A j \in K : details.hotspots[j] = Hotspots(S)[j]
                BY <3>3, <3>4, <3>5
            <4>2. {s \in Mistakes(S) : At(s, Turn(s).from) \in K} = Mistakes(T)
                <5>1. \A s \in Mistakes(S) : At(s, Turn(s).from) \in DOMAIN Hotspots(S)
                    BY DEF Hotspots, Grouped
                <5>2. QED
                    BY <3>9, <3>10, <5>1 DEF Mistakes
            <4>3. K \in SUBSET DOMAIN Hotspots(S)
                OBVIOUS
            <4> HIDE DEF K, of
            <4>4. SumRows(details.hotspots, K, LAMBDA v : v) =
                      SumFunction([j \in K |-> Hotspots(S)[j]])
                BY <4>1 DEF SumRows, SumOf
            <4>5. QED
                BY <3>7, <4>1, <4>2, <4>3, <4>4, HotspotRows
        <3>15. SumRows(details.chains, of(details.chains), LAMBDA v : v) = Cardinality(T)
            <4> DEFINE K == of(ChainLengths(S))
            <4>1. of(details.chains) = K /\ \A j \in K : details.chains[j] = ChainLengths(S)[j]
                BY <3>3, <3>4, <3>5
            <4>2. {s \in S : At(s, Len(Turn(s).chain)) \in K} = T
                <5>1. \A s \in S : At(s, Len(Turn(s).chain)) \in DOMAIN ChainLengths(S)
                    BY DEF ChainLengths, Grouped
                <5>2. QED
                    BY <3>9, <3>10, <5>1
            <4>3. K \in SUBSET DOMAIN ChainLengths(S)
                OBVIOUS
            <4> HIDE DEF K, of
            <4>4. SumRows(details.chains, K, LAMBDA v : v) =
                      SumFunction([j \in K |-> ChainLengths(S)[j]])
                BY <4>1 DEF SumRows, SumOf
            <4>5. QED
                BY <3>7, <4>1, <4>2, <4>3, <4>4, ChainRows
        <3>16. SumRows(details.types, of(details.types), LAMBDA v : v.chosen) = Cardinality(T)
            <4> DEFINE K == of(CardTypes(S))
            <4>1. of(details.types) = K /\ \A j \in K : details.types[j] = CardTypes(S)[j]
                BY <3>3, <3>4, <3>5
            <4>2. {s \in S : At(s, CardType(Turn(s))) \in K} = T
                <5>1. \A s \in S : At(s, CardType(Turn(s))) \in DOMAIN CardTypes(S)
                    BY DEF CardTypes, Grouped
                <5>2. QED
                    BY <3>9, <3>10, <5>1
            <4>3. K \in SUBSET DOMAIN CardTypes(S)
                OBVIOUS
            <4> HIDE DEF K, of
            <4>4. SumRows(details.types, K, LAMBDA v : v.chosen) =
                      SumFunction([j \in K |-> CardTypes(S)[j].chosen])
                BY <4>1 DEF SumRows, SumOf
            <4>5. QED
                BY <3>7, <4>1, <4>2, <4>3, <4>4, TypeRows
        <3>17. /\ SumRows(details.families, of(details.families), LAMBDA v : v.chosen) = Cardinality(T)
               /\ SumRows(details.families, of(details.families), LAMBDA v : v.correct) =
                      Cardinality(T \ Mistakes(T))
            <4> DEFINE K == of(CardFamilies(S))
            <4>1. of(details.families) = K /\ \A j \in K : details.families[j] = CardFamilies(S)[j]
                BY <3>3, <3>4, <3>5
            <4>2. /\ {s \in S : ChosenKey(s) \in K} = T
                  /\ {s \in S \ Mistakes(S) : ChosenKey(s) \in K} = T \ Mistakes(T)
                <5>1. \A s \in S : ChosenKey(s) \in DOMAIN CardFamilies(S)
                    BY DEF CardFamilies, ChosenKey
                <5>2. {s \in S : ChosenKey(s) \in K} = T
                    BY <3>9, <3>10, <5>1 DEF ChosenKey
                <5>3. QED
                    BY <5>2 DEF Mistakes
            <4>3. K \in SUBSET DOMAIN CardFamilies(S)
                OBVIOUS
            <4> HIDE DEF K, of
            <4>4. /\ SumRows(details.families, K, LAMBDA v : v.chosen) =
                         SumFunction([j \in K |-> CardFamilies(S)[j]["chosen"]])
                  /\ SumRows(details.families, K, LAMBDA v : v.correct) =
                         SumFunction([j \in K |-> CardFamilies(S)[j]["correct"]])
                BY <4>1 DEF SumRows, SumOf
            <4>5. /\ SumFunction([j \in K |-> CardFamilies(S)[j]["chosen"]]) =
                         Cardinality({s \in S : ChosenKey(s) \in K})
                  /\ SumFunction([j \in K |-> CardFamilies(S)[j]["correct"]]) =
                         Cardinality({s \in S \ Mistakes(S) : ChosenKey(s) \in K})
                BY <3>7, <3>8, <4>3, FamilyRows
            <4>6. QED
                BY <4>1, <4>2, <4>4, <4>5
        <3> HIDE DEF of
        <3>18. QED
            BY <3>11, <3>12, <3>13, <3>14, <3>15, <3>16, <3>17 DEF of
    <2>2. QED
        BY <2>1 DEF TablesAgree
<1>2. QED
    BY <1>1, DetailsHold, PTL

-------------------------------------------------------------------------------
(* The verification of a slice: its counts against the rows.               *)

(* The rows that the verifier adds up for a level and one of its things.   *)
Joined(D, j) == {k \in D : LevelAnd(k) = j}

(* Tables that are alike have the same counts.                             *)
LEMMA AlikeIsSame ==
    ASSUME NEW a, NEW b, NEW zero, DOMAIN a = DOMAIN b, \A j \in DOMAIN a : a[j] = b[j]
    PROVE  SameCounts(a, b, zero)
BY DEF SameCounts

LEMMA FamiliesPass ==
    ASSUME NEW S, IsFiniteSet(S), IsFiniteSet(Offers(S))
    PROVE  FamiliesVerified(S, CardFamilies(S))
<1> DEFINE D == DOMAIN CardFamilies(S)
           O == Offers(S)
           chosenKey(s)  == <<s[1].level, CardFamily(Turn(s))>>
           offeredKey(e) == <<e[1][1].level, ParseCard(Turn(e[1]).offered[e[2]]).family>>
           J == {chosenKey(s) : s \in S} \union {offeredKey(e) : e \in O}
           raw == [k \in J |->
                   LET chosen == {s \in S : chosenKey(s) = k}
                   IN  [offered |-> Cardinality({e \in O : offeredKey(e) = k}),
                        chosen  |-> Cardinality(chosen),
                        correct |-> Cardinality({s \in chosen : Turn(s).correct}),
                        wrong   |-> Cardinality({s \in chosen : ~Turn(s).correct})]]
           added(K) == [offered |-> SumFunction([k \in K |-> CardFamilies(S)[k]["offered"]]),
                        chosen  |-> SumFunction([k \in K |-> CardFamilies(S)[k]["chosen"]]),
                        correct |-> SumFunction([k \in K |-> CardFamilies(S)[k]["correct"]]),
                        wrong   |-> SumFunction([k \in K |-> CardFamilies(S)[k]["wrong"]])]
           rollup == [j \in {LevelAnd(k) : k \in D} |-> added(Joined(D, j))]
           zero == [offered |-> 0, chosen |-> 0, correct |-> 0, wrong |-> 0]
<1>1. FamiliesVerified(S, CardFamilies(S)) <=> SameCounts(raw, rollup, zero)
    BY DEF FamiliesVerified, ByLevel, Grouped, SumRows, SumOf, Joined, Offers
<1>2. D = {ChosenKey(s) : s \in S} \union {OfferedKey(e) : e \in O}
    BY DEF CardFamilies, Offers, OfferedKey, ChosenKey
<1>3. /\ \A s \in S : LevelAnd(ChosenKey(s)) = chosenKey(s)
      /\ \A e \in O : LevelAnd(OfferedKey(e)) = offeredKey(e)
    BY DEF LevelAnd, ChosenKey, OfferedKey, At
<1>4. DOMAIN raw = DOMAIN rollup
    BY <1>2, <1>3
<1>5. ASSUME NEW j \in J
      PROVE  raw[j] = rollup[j]
    <2> DEFINE K == Joined(D, j)
    <2>1. K \in SUBSET D
        BY DEF Joined
    <2>2. /\ {e \in O : OfferedKey(e) \in K} = {e \in O : offeredKey(e) = j}
          /\ {s \in S : ChosenKey(s) \in K} = {s \in S : chosenKey(s) = j}
        BY <1>2, <1>3 DEF Joined
    <2>3. /\ {s \in Mistakes(S) : ChosenKey(s) \in K} =
                 {s \in {s \in S : chosenKey(s) = j} : ~Turn(s).correct}
          /\ {s \in S \ Mistakes(S) : ChosenKey(s) \in K} =
                 {s \in {s \in S : chosenKey(s) = j} : Turn(s).correct}
        BY <2>2 DEF Mistakes
    <2>4. /\ raw[j].offered = Cardinality({e \in O : offeredKey(e) = j})
          /\ raw[j].chosen = Cardinality({s \in S : chosenKey(s) = j})
          /\ raw[j].correct = Cardinality({s \in {s \in S : chosenKey(s) = j} : Turn(s).correct})
          /\ raw[j].wrong = Cardinality({s \in {s \in S : chosenKey(s) = j} : ~Turn(s).correct})
          /\ raw[j] = [offered |-> raw[j].offered, chosen |-> raw[j].chosen,
                       correct |-> raw[j].correct, wrong |-> raw[j].wrong]
        OBVIOUS
    <2>5. rollup[j] = added(K)
        BY <1>4
    <2> HIDE DEF K, D, raw, rollup, J, chosenKey, offeredKey
    <2>6. /\ SumFunction([k \in K |-> CardFamilies(S)[k]["offered"]]) =
                 Cardinality({e \in O : OfferedKey(e) \in K})
          /\ SumFunction([k \in K |-> CardFamilies(S)[k]["chosen"]]) =
                  Cardinality({s \in S : ChosenKey(s) \in K})
          /\ SumFunction([k \in K |-> CardFamilies(S)[k]["wrong"]]) =
                  Cardinality({s \in Mistakes(S) : ChosenKey(s) \in K})
          /\ SumFunction([k \in K |-> CardFamilies(S)[k]["correct"]]) =
                  Cardinality({s \in S \ Mistakes(S) : ChosenKey(s) \in K})
        BY <2>1, FamilyRows DEF D
    <2>7. QED
        BY <2>2, <2>3, <2>4, <2>5, <2>6
<1> HIDE DEF rollup, zero, raw
<1>6. QED
    BY <1>1, <1>4, <1>5, AlikeIsSame DEF raw

(* A time above the ceiling is one that clipping changes.                  *)
LEMMA ClippedIs ==
    ASSUME NEW time \in Int
    PROVE  Clipped(time) \in Int /\ (Clipped(time) # time <=> time > ClipCeiling)
BY ExtremesOfPair, StatisticsAssumption DEF Clipped

(* What a card type's rows add up to.                                      *)
Timed(S)      == \A s \in S : Time(s) \in Int
OfTypes(S, K) == {s \in S : At(s, CardType(Turn(s))) \in K}

LEMMA TypeSums ==
    ASSUME NEW S, IsFiniteSet(S), Timed(S), NEW K \in SUBSET DOMAIN CardTypes(S)
    PROVE  /\ SumFunction([k \in K |-> CardTypes(S)[k].chosen]) = Cardinality(OfTypes(S, K))
           /\ SumFunction([k \in K |-> CardTypes(S)[k].time.sum]) =
                  SumFunction([s \in OfTypes(S, K) |-> Time(s)])
           /\ SumFunction([k \in K |-> CardTypes(S)[k].clipped.sum]) =
                  SumFunction([s \in OfTypes(S, K) |-> Clipped(Time(s))])
           /\ SumFunction([k \in K |-> CardTypes(S)[k].clipped.outliers]) =
                  Cardinality({s \in OfTypes(S, K) : Clipped(Time(s)) # Time(s)})
<1> DEFINE T    == OfTypes(S, K)
           key  == [s \in S |-> At(s, CardType(Turn(s)))]
           D    == DOMAIN CardTypes(S)
           P    == {s \in S : Time(s) > ClipCeiling}
           f    == [s \in S |-> Time(s)]
           g    == [s \in S |-> Clipped(Time(s))]
           of(k) == {s \in S : At(s, CardType(Turn(s))) = k}
           time == [k \in D |-> CardTypes(S)[k].time.sum]
           clip == [k \in D |-> CardTypes(S)[k].clipped.sum]
           outs == [k \in D |-> CardTypes(S)[k].clipped.outliers]
<1>1. D = {key[x] : x \in S} /\ key = [x \in S |-> key[x]] /\ T = Fibres(S, key, K)
    BY DEF CardTypes, Grouped, Fibres, OfTypes
<1>2. \A k \in D : /\ time[k] = SumFunction([s \in of(k) |-> Time(s)])
                   /\ clip[k] = SumFunction([s \in of(k) |-> Clipped(Time(s))])
                   /\ outs[k] = Cardinality({s \in of(k) : Time(s) > ClipCeiling})
    BY DEF CardTypes, Grouped, StatOf, ClippedStatOf, SumOf
<1>3. \A k : /\ [s \in of(k) |-> Time(s)] = [s \in Fibre(S, key, k) |-> f[s]]
             /\ [s \in of(k) |-> Clipped(Time(s))] = [s \in Fibre(S, key, k) |-> g[s]]
             /\ {s \in of(k) : Time(s) > ClipCeiling} = Fibre(P, key, k)
    BY DEF Fibre
<1>4. /\ [s \in T |-> Time(s)] = [s \in Fibres(S, key, K) |-> f[s]]
      /\ [s \in T |-> Clipped(Time(s))] = [s \in Fibres(S, key, K) |-> g[s]]
    BY DEF Fibres, OfTypes
<1>5. {s \in T : Clipped(Time(s)) # Time(s)} = Fibres(P, key, K)
    BY ClippedIs DEF Fibres, OfTypes, Timed
<1>6. f \in [S -> Int] /\ g \in [S -> Int] /\ P \in SUBSET S
    BY ClippedIs DEF Timed
<1>7. /\ [k \in K |-> time[k]] = [k \in K |-> CardTypes(S)[k].time.sum]
      /\ [k \in K |-> clip[k]] = [k \in K |-> CardTypes(S)[k].clipped.sum]
      /\ [k \in K |-> outs[k]] = [k \in K |-> CardTypes(S)[k].clipped.outliers]
    OBVIOUS
<1>8. K \in SUBSET D
    OBVIOUS
<1> HIDE DEF key, D, P, f, g, of, time, clip, outs
<1>9. \A k \in D : /\ time[k] = SumIn(f, Fibre(S, key, k))
                   /\ clip[k] = SumIn(g, Fibre(S, key, k))
                   /\ outs[k] = Cardinality(Fibre(P, key, k))
    BY <1>2, <1>3 DEF SumIn
<1>10. IsFiniteSet(K) /\ IsFiniteSet(P)
    <2>1. IsFiniteSet(K)
        BY <1>1, <1>8, KeysAreFinite
    <2>2. IsFiniteSet(P)
        BY <1>6, FS_Subset
    <2>3. QED
        BY <2>1, <2>2
<1> HIDE DEF SumIn
<1>11. /\ SumFunction([k \in K |-> time[k]]) = SumIn(f, Fibres(S, key, K))
       /\ SumFunction([k \in K |-> clip[k]]) = SumIn(g, Fibres(S, key, K))
    <2>1. /\ \A k \in K : time[k] = SumIn(f, Fibre(S, key, k))
          /\ \A k \in K : clip[k] = SumIn(g, Fibre(S, key, k))
        BY <1>8, <1>9
    <2>2. QED
        BY <1>6, <1>10, <2>1, SumOfRows
<1>12. SumFunction([k \in K |-> outs[k]]) = Cardinality(Fibres(P, key, K))
    <2>1. \A k \in K : outs[k] = Cardinality(Fibre(P, key, k))
        BY <1>8, <1>9
    <2>2. QED
        BY <1>10, <2>1, CountOfRows
<1>13. SumFunction([k \in K |-> CardTypes(S)[k].chosen]) = Cardinality(T)
    BY TypeRows DEF OfTypes
<1>14. QED
    BY <1>4, <1>5, <1>7, <1>11, <1>12, <1>13 DEF SumIn

LEMMA TypesPass ==
    ASSUME NEW S, IsFiniteSet(S), Timed(S)
    PROVE  TypesVerified(S, CardTypes(S))
<1> DEFINE D == DOMAIN CardTypes(S)
           key(s) == <<s[1].level, CardType(Turn(s))>>
           J == {key(s) : s \in S}
           counted(T) == [chosen |-> Cardinality(T), time |-> SumFunction([s \in T |-> Time(s)]),
                          clipped |-> SumFunction([s \in T |-> Clipped(Time(s))]),
                          outliers |-> Cardinality({s \in T : Clipped(Time(s)) # Time(s)})]
           raw == [j \in J |-> counted({s \in S : key(s) = j})]
           added(K) == [chosen |-> SumFunction([k \in K |-> CardTypes(S)[k].chosen]),
                        time   |-> SumFunction([k \in K |-> CardTypes(S)[k].time.sum]),
                        clipped |-> SumFunction([k \in K |-> CardTypes(S)[k].clipped.sum]),
                        outliers |-> SumFunction([k \in K |-> CardTypes(S)[k].clipped.outliers])]
           rollup == [j \in {LevelAnd(k) : k \in D} |-> added(Joined(D, j))]
           zero == [chosen |-> 0, time |-> 0, clipped |-> 0, outliers |-> 0]
<1>1. TypesVerified(S, CardTypes(S)) <=>
          /\ SameCounts(raw, rollup, zero)
          /\ \A k \in D : CardTypes(S)[k].time.count = CardTypes(S)[k].chosen
    BY DEF TypesVerified, ByLevel, Grouped, SumRows, SumOf, Joined
<1>2. D = {At(s, CardType(Turn(s))) : s \in S}
    BY DEF CardTypes, Grouped
<1>3. \A s \in S : LevelAnd(At(s, CardType(Turn(s)))) = key(s)
    BY DEF LevelAnd, At
<1>4. DOMAIN raw = DOMAIN rollup
    BY <1>2, <1>3
<1>5. ASSUME NEW j \in J
      PROVE  raw[j] = rollup[j]
    <2> DEFINE K == Joined(D, j)
               T == {s \in S : key(s) = j}
    <2>1. K \in SUBSET D
        BY DEF Joined
    <2>2. T = OfTypes(S, K)
        BY <1>2, <1>3 DEF Joined, OfTypes
    <2>3. raw[j] = counted(T) /\ rollup[j] = added(K)
        BY <1>4
    <2> HIDE DEF K, D, raw, rollup, J, key, T
    <2>4. /\ SumFunction([k \in K |-> CardTypes(S)[k].chosen]) = Cardinality(T)
          /\ SumFunction([k \in K |-> CardTypes(S)[k].time.sum]) = SumFunction([s \in T |-> Time(s)])
          /\ SumFunction([k \in K |-> CardTypes(S)[k].clipped.sum]) =
                 SumFunction([s \in T |-> Clipped(Time(s))])
          /\ SumFunction([k \in K |-> CardTypes(S)[k].clipped.outliers]) =
                 Cardinality({s \in T : Clipped(Time(s)) # Time(s)})
        BY <2>1, <2>2, TypeSums DEF D
    <2>5. QED
        BY <2>3, <2>4
<1>6. \A k \in D : CardTypes(S)[k].time.count = CardTypes(S)[k].chosen
    BY DEF CardTypes, Grouped, StatOf
<1> HIDE DEF rollup, zero, raw
<1>7. QED
    BY <1>1, <1>4, <1>5, <1>6, AlikeIsSame DEF raw

(* What a number's rows add up to.                                         *)
WithNumber(S)     == {s \in S : Turn(s).number # None}
NumbersTimed(S) == \A s \in S : NumberTime(s) \in Int
OfNumbers(S, K) == {s \in WithNumber(S) : At(s, Turn(s).number) \in K}

LEMMA NumberSums ==
    ASSUME NEW S, IsFiniteSet(S), NumbersTimed(S), NEW K \in SUBSET DOMAIN NumberChoices(S)
    PROVE  /\ SumFunction([k \in K |-> NumberChoices(S)[k].count]) = Cardinality(OfNumbers(S, K))
           /\ SumFunction([k \in K |-> NumberChoices(S)[k].time.sum]) =
                  SumFunction([s \in OfNumbers(S, K) |-> NumberTime(s)])
<1> DEFINE X    == WithNumber(S)
           key  == [s \in X |-> At(s, Turn(s).number)]
           D    == DOMAIN NumberChoices(S)
           f    == [s \in X |-> NumberTime(s)]
           of(k) == {s \in X : At(s, Turn(s).number) = k}
           time == [k \in D |-> NumberChoices(S)[k].time.sum]
           count == [k \in D |-> NumberChoices(S)[k].count]
<1>1. D = {key[x] : x \in X} /\ key = [x \in X |-> key[x]] /\ OfNumbers(S, K) = Fibres(X, key, K)
    BY DEF NumberChoices, Grouped, Fibres, OfNumbers, WithNumber
<1>2. \A k \in D : /\ time[k] = SumFunction([s \in of(k) |-> NumberTime(s)])
                   /\ count[k] = Cardinality(of(k))
    BY DEF NumberChoices, Grouped, StatOf, SumOf, WithNumber
<1>3. \A k : /\ [s \in of(k) |-> NumberTime(s)] = [s \in Fibre(X, key, k) |-> f[s]]
             /\ of(k) = Fibre(X, key, k)
    BY DEF Fibre
<1>4. [s \in OfNumbers(S, K) |-> NumberTime(s)] = [s \in Fibres(X, key, K) |-> f[s]]
    BY DEF Fibres, OfNumbers
<1>5. f \in [X -> Int] /\ X \in SUBSET S
    BY DEF NumbersTimed, WithNumber
<1>6. /\ [k \in K |-> time[k]] = [k \in K |-> NumberChoices(S)[k].time.sum]
      /\ [k \in K |-> count[k]] = [k \in K |-> NumberChoices(S)[k].count]
    OBVIOUS
<1>7. K \in SUBSET D
    OBVIOUS
<1> HIDE DEF key, D, X, f, of, time, count
<1>8. IsFiniteSet(X)
    BY <1>5, FS_Subset
<1>9. IsFiniteSet(K)
    BY <1>1, <1>7, <1>8, KeysAreFinite
<1>10. \A k \in K : time[k] = SumIn(f, Fibre(X, key, k))
    BY <1>2, <1>3, <1>7 DEF SumIn
<1>11. \A k \in K : count[k] = Cardinality(Fibre(X, key, k))
    BY <1>2, <1>3, <1>7
<1>12. SumFunction([k \in K |-> time[k]]) = SumIn(f, Fibres(X, key, K))
    BY <1>5, <1>8, <1>9, <1>10, SumOfRows
<1>13. SumFunction([k \in K |-> count[k]]) = Cardinality(Fibres(X, key, K))
    BY <1>8, <1>9, <1>11, CountOfRows
<1>14. QED
    BY <1>1, <1>4, <1>6, <1>12, <1>13 DEF SumIn

LEMMA NumbersPass ==
    ASSUME NEW S, IsFiniteSet(S), NumbersTimed(S)
    PROVE  NumbersVerified(S, NumberChoices(S))
<1> DEFINE D == DOMAIN NumberChoices(S)
           key(s) == <<s[1].level, Turn(s).number>>
           X == {s \in S : Turn(s).number # None}
           J == {key(s) : s \in X}
           counted(T) == [count |-> Cardinality(T), time |-> SumFunction([s \in T |-> NumberTime(s)])]
           raw == [j \in J |-> counted({s \in X : key(s) = j})]
           added(K) == [count |-> SumFunction([k \in K |-> NumberChoices(S)[k].count]),
                        time  |-> SumFunction([k \in K |-> NumberChoices(S)[k].time.sum])]
           rollup == [j \in {LevelAnd(k) : k \in D} |-> added(Joined(D, j))]
           zero == [count |-> 0, time |-> 0]
<1>1. NumbersVerified(S, NumberChoices(S)) <=> SameCounts(raw, rollup, zero)
    BY DEF NumbersVerified, ByLevel, Grouped, SumRows, SumOf, Joined
<1>2. D = {At(s, Turn(s).number) : s \in X} /\ X = WithNumber(S)
    BY DEF NumberChoices, Grouped, WithNumber
<1>3. \A s \in X : LevelAnd(At(s, Turn(s).number)) = key(s)
    BY DEF LevelAnd, At
<1>4. DOMAIN raw = DOMAIN rollup
    BY <1>2, <1>3
<1>5. ASSUME NEW j \in J
      PROVE  raw[j] = rollup[j]
    <2> DEFINE K == Joined(D, j)
               T == {s \in X : key(s) = j}
    <2>1. K \in SUBSET D
        BY DEF Joined
    <2>2. T = OfNumbers(S, K)
        BY <1>2, <1>3 DEF Joined, OfNumbers
    <2>3. raw[j] = counted(T) /\ rollup[j] = added(K)
        BY <1>4
    <2> HIDE DEF K, D, raw, rollup, J, key, T, X
    <2>4. /\ SumFunction([k \in K |-> NumberChoices(S)[k].count]) = Cardinality(T)
          /\ SumFunction([k \in K |-> NumberChoices(S)[k].time.sum]) =
                 SumFunction([s \in T |-> NumberTime(s)])
        BY <2>1, <2>2, NumberSums DEF D
    <2>5. QED
        BY <2>3, <2>4
<1> HIDE DEF rollup, zero, raw
<1>6. QED
    BY <1>1, <1>4, <1>5, AlikeIsSame DEF raw

-------------------------------------------------------------------------------
(* Conditionals.                                                           *)

(* The verifier keeps a bag while it goes through a run, the aggregation   *)
(* looks back for the last number.                                         *)
LEMMA BagsAre ==
    ASSUME NEW run, NEW n \in Nat, DOMAIN run.turns = 1 .. n
    PROVE  \A i \in 1 .. n : BagsBefore(run.turns)[i] = Bag(<<run, i>>)
<1> DEFINE turns == run.turns
           chosen(i) == {j \in 1 .. i - 1 : turns[j].number # None}
           c == [i \in 1 .. n |-> IF chosen(i) = {} THEN 1 ELSE turns[Max(chosen(i))].number]
           next(b) == [i \in 1 .. n |->
                          IF i = 1 THEN 1
                          ELSE IF turns[i - 1].number # None THEN turns[i - 1].number ELSE b[i - 1]]
           bag == CHOOSE b : b = next(b)
<1>1. BagsBefore(turns) = bag
    BY DEF BagsBefore
<1>2. \A i \in 1 .. n : Bag(<<run, i>>) = c[i]
    BY DEF Bag
<1>3. ASSUME NEW i \in 1 .. n
      PROVE  c[i] = next(c)[i]
    <2>1. CASE i = 1
        <3>1. chosen(i) = {}
            BY <2>1
        <3>2. QED
            BY <2>1, <3>1
    <2>2. CASE i # 1 /\ turns[i - 1].number # None
        <3>1. i - 1 \in chosen(i) /\ chosen(i) \subseteq 1 .. i - 1
            BY <2>2
        <3>2. IsFiniteSet(chosen(i)) /\ chosen(i) \subseteq Int
            <4>1. IsFiniteSet(1 .. i - 1)
                BY FS_Interval
            <4>2. QED
                BY <4>1, FS_Subset
        <3> HIDE DEF chosen
        <3>3. Max(chosen(i)) = i - 1
            <4>1. Max(chosen(i)) \in chosen(i) /\ \A x \in chosen(i) : x <= Max(chosen(i))
                BY <3>1, <3>2, Extremes
            <4>2. QED
                BY <3>1, <4>1
        <3>4. QED
            BY <2>2, <3>1, <3>3
    <2>3. CASE i # 1 /\ turns[i - 1].number = None
        <3>1. i - 1 \in 1 .. n /\ chosen(i) = chosen(i - 1)
            BY <2>3
        <3> HIDE DEF chosen
        <3>2. QED
            BY <2>3, <3>1
    <2>4. QED
        BY <2>1, <2>2, <2>3
<1>4. c = next(c)
    <2> HIDE DEF chosen
    <2>1. QED
        BY <1>3
<1>5. bag = next(bag)
    <2> HIDE DEF c, next
    <2>1. QED
        BY <1>4
<1> DEFINE T == {i \in 0 .. n : i = 0 \/ bag[i] = c[i]}
<1>6. \A i \in 0 .. n : i \in T
    <2>1. 0 \in T
        OBVIOUS
    <2>2. ASSUME NEW i \in 0 .. n, i < n, i \in T
          PROVE  i + 1 \in T
        <3>1. i + 1 \in 1 .. n /\ (i + 1) - 1 = i /\ (i = 0 \/ bag[i] = c[i])
            BY <2>2
        <3>2. /\ bag[i + 1] = IF i = 0 THEN 1
                              ELSE IF turns[i].number # None THEN turns[i].number ELSE bag[i]
              /\ c[i + 1] = IF i = 0 THEN 1
                            ELSE IF turns[i].number # None THEN turns[i].number ELSE c[i]
            <4> HIDE DEF c, bag
            <4>1. bag[i + 1] = next(bag)[i + 1] /\ c[i + 1] = next(c)[i + 1]
                BY <1>4, <1>5
            <4>2. QED
                BY <3>1, <4>1
        <3> HIDE DEF c, bag
        <3>3. QED
            BY <3>1, <3>2
    <2> HIDE DEF T
    <2>3. QED
        BY <2>1, <2>2, IntervalInduction
<1> HIDE DEF c, bag
<1>7. QED
    BY <1>1, <1>2, <1>6

(* Turns as they are stored, of runs with all their turns in order.        *)
Stepped(S) ==
    \A s \in S : /\ \E sent : Turn(s) = StoredTurn(sent)
                 /\ \E n \in Nat : DOMAIN s[1].turns = 1 .. n /\ s[2] \in 1 .. n
                 /\ s = <<s[1], s[2]>>

(* The columns of a stored turn are what is read from its card.            *)
LEMMA ColumnsAre ==
    ASSUME NEW S, Stepped(S), NEW s \in S
    PROVE  /\ CardTile(Turn(s)) = ParseCard(Turn(s).card).tile /\ Turn(s).tile = CardTile(Turn(s))
           /\ Turn(s).type = CardType(Turn(s)) /\ Turn(s).family = CardFamily(Turn(s))
           /\ CardType(Turn(s)) \in DOMAIN ComparatorByType => Turn(s).family \in BagColumns
<1> DEFINE turn == Turn(s)
           read == ParseCard(turn.card)
<1>1. PICK sent : turn = StoredTurn(sent)
    BY DEF Stepped
<1> HIDE DEF turn
<1>2. /\ turn.type = read.type /\ turn.family = read.family /\ turn.tile = read.tile
      /\ read.family = FamilyOf(read.type)
    <2>1. <<turn.type, turn.family, turn.tile>> = <<read.type, read.family, read.tile>>
        BY <1>1, StoredTurnReadsAlike
    <2>2. QED
        BY <2>1 DEF ParseCard
<1>3. /\ CardType(turn) = turn.type /\ CardFamily(turn) = turn.family /\ CardTile(turn) = turn.tile
    BY <1>2 DEF CardType, CardFamily, CardTile
<1>4. read.type \in DOMAIN ComparatorByType => FamilyOf(read.type) \in BagColumns
    BY DEF ComparatorByType, FamilyOf, FamilyByType, BagColumns
<1>5. QED
    BY <1>2, <1>3, <1>4 DEF turn

(* The turns with a condition, in the verifier's words.                    *)
LEMMA ConditionsAre ==
    ASSUME NEW S, Stepped(S)
    PROVE  LET value(s)  == ParseCard(Turn(s).card).value
               sign(s)   == ComparatorByType[Turn(s).type]
               before(s) == BagsBefore(s[1].turns)[s[2]]
           IN  /\ TileConditionals(S) =
                      {s \in S : Turn(s).family = "conditional_tile" /\ CardTile(Turn(s)) # None}
               /\ BagConditionals(S) =
                      {s \in S : /\ Turn(s).family \in BagColumns
                                 /\ Turn(s).type \in DOMAIN ComparatorByType /\ value(s) # None}
               /\ \A s \in BagConditionals(S) :
                     /\ sign(s) = ComparatorByType[CardType(Turn(s))]
                     /\ \/ sign(s) = "eq" /\ before(s) = value(s)
                        \/ sign(s) = "lt" /\ before(s) < value(s)
                        \/ sign(s) = "gt" /\ before(s) > value(s)
                        <=> ConditionMet(s)
<1>1. \A s \in S : /\ Turn(s).type = CardType(Turn(s)) /\ Turn(s).family = CardFamily(Turn(s))
                   /\ CardType(Turn(s)) \in DOMAIN ComparatorByType => Turn(s).family \in BagColumns
    BY ColumnsAre
<1>2. \A s \in S : BagsBefore(s[1].turns)[s[2]] = Bag(s)
    BY BagsAre DEF Stepped
<1>3. TileConditionals(S) = {s \in S : Turn(s).family = "conditional_tile" /\ CardTile(Turn(s)) # None}
    BY <1>1 DEF TileConditionals
<1>4. BagConditionals(S) =
          {s \in S : /\ Turn(s).family \in BagColumns
                     /\ Turn(s).type \in DOMAIN ComparatorByType
                     /\ ParseCard(Turn(s).card).value # None}
    BY <1>1 DEF BagConditionals
<1>5. ASSUME NEW s \in BagConditionals(S)
      PROVE  LET value  == ParseCard(Turn(s).card).value
                 sign   == ComparatorByType[Turn(s).type]
                 before == BagsBefore(s[1].turns)[s[2]]
             IN  /\ sign = ComparatorByType[CardType(Turn(s))]
                 /\ \/ sign = "eq" /\ before = value
                    \/ sign = "lt" /\ before < value
                    \/ sign = "gt" /\ before > value
                    <=> ConditionMet(s)
    <2>1. s \in S /\ CardType(Turn(s)) \in DOMAIN ComparatorByType
        BY DEF BagConditionals
    <2>2. BagsBefore(s[1].turns)[s[2]] = Bag(s) /\ Turn(s).type = CardType(Turn(s))
        BY <1>1, <1>2, <2>1
    <2>3. ComparatorByType[CardType(Turn(s))] \in {"eq", "lt", "gt"}
        BY <2>1 DEF ComparatorByType
    <2>4. QED
        BY <2>2, <2>3 DEF ConditionMet
<1>6. QED
    BY <1>3, <1>4, <1>5

(* A row of the conditionals under a key, and what such rows add up to.    *)
Branches(T, else) ==
    [total |-> Cardinality(T), correct |-> Cardinality(T \ Mistakes(T)), else |-> Cardinality(else)]

LEMMA BranchSums ==
    ASSUME NEW X, IsFiniteSet(X), NEW E \in SUBSET X, NEW key, NEW K, IsFiniteSet(K), NEW table,
           \A k \in K : table[k] = Branches(Fibre(X, key, k), Fibre(E, key, k))
    PROVE  [total   |-> SumFunction([k \in K |-> table[k].total]),
            correct |-> SumFunction([k \in K |-> table[k].correct]),
            else    |-> SumFunction([k \in K |-> table[k].else])]
               = Branches(Fibres(X, key, K), Fibres(E, key, K))
<1> DEFINE N == X \ Mistakes(X)
           total   == [k \in K |-> table[k].total]
           correct == [k \in K |-> table[k].correct]
           else    == [k \in K |-> table[k].else]
<1>1. IsFiniteSet(N) /\ IsFiniteSet(E)
    <2>1. N \subseteq X /\ E \subseteq X
        OBVIOUS
    <2> HIDE DEF N
    <2>2. QED
        BY <2>1, FS_Subset
<1>2. \A k : Fibre(X, key, k) \ Mistakes(Fibre(X, key, k)) = Fibre(N, key, k)
    BY DEF Fibre, Mistakes
<1>3. Fibres(X, key, K) \ Mistakes(Fibres(X, key, K)) = Fibres(N, key, K)
    BY DEF Fibres, Mistakes
<1>4. \A k \in K : /\ total[k] = Cardinality(Fibre(X, key, k))
                   /\ correct[k] = Cardinality(Fibre(N, key, k))
                   /\ else[k] = Cardinality(Fibre(E, key, k))
    <2>1. \A A, B : /\ Branches(A, B).total = Cardinality(A)
                    /\ Branches(A, B).correct = Cardinality(A \ Mistakes(A))
                    /\ Branches(A, B).else = Cardinality(B)
        BY DEF Branches
    <2>2. \A k \in K : /\ total[k] = table[k].total /\ correct[k] = table[k].correct
                       /\ else[k] = table[k].else
        OBVIOUS
    <2> HIDE DEF N, total, correct, else
    <2>3. QED
        BY <1>2, <2>1, <2>2
<1>5. /\ total = [k \in K |-> total[k]] /\ correct = [k \in K |-> correct[k]]
      /\ else = [k \in K |-> else[k]]
    OBVIOUS
<1> HIDE DEF N, total, correct, else
<1>6. SumFunction([k \in K |-> total[k]]) = Cardinality(Fibres(X, key, K))
    <2>1. \A k \in K : total[k] = Cardinality(Fibre(X, key, k))
        BY <1>4
    <2>2. QED
        BY <2>1, CountOfRows
<1>7. SumFunction([k \in K |-> correct[k]]) = Cardinality(Fibres(N, key, K))
    <2>1. \A k \in K : correct[k] = Cardinality(Fibre(N, key, k))
        BY <1>4
    <2>2. QED
        BY <1>1, <2>1, CountOfRows
<1>8. SumFunction([k \in K |-> else[k]]) = Cardinality(Fibres(E, key, K))
    <2>1. \A k \in K : else[k] = Cardinality(Fibre(E, key, k))
        BY <1>4
    <2>2. QED
        BY <1>1, <2>1, CountOfRows
<1>9. /\ SumFunction(total) = Cardinality(Fibres(X, key, K))
      /\ SumFunction(correct) = Cardinality(Fibres(N, key, K))
      /\ SumFunction(else) = Cardinality(Fibres(E, key, K))
    BY <1>5, <1>6, <1>7, <1>8
<1>10. QED
    BY <1>3, <1>9 DEF Branches, total, correct, else

(* The rows of conditionals are by tile or by comparator.                  *)
TileKey(s)   == At(s, <<"tile", CardTile(Turn(s))>>)
BagKey(s)    == At(s, <<"bag", ComparatorByType[CardType(Turn(s))]>>)
OffTile(S)   == {s \in TileConditionals(S) : Turn(s).fromType # CardTile(Turn(s))}
BagUnmet(S)  == {s \in BagConditionals(S) : ~ConditionMet(s)}
TileKeys(S)  == [s \in TileConditionals(S) |-> TileKey(s)]
BagKeys(S)   == [s \in BagConditionals(S) |-> BagKey(s)]

LEMMA ConditionalsAre ==
    ASSUME NEW S
    PROVE  LET D == {TileKey(s) : s \in TileConditionals(S)}
               E == {BagKey(s) : s \in BagConditionals(S)}
           IN  /\ DOMAIN Conditionals(S) = D \union E
               /\ (\A k \in D : k[4][1] = "tile") /\ (\A k \in E : k[4][1] = "bag")
               /\ \A k \in D : Conditionals(S)[k] =
                      Branches(Fibre(TileConditionals(S), TileKeys(S), k),
                               Fibre(OffTile(S), TileKeys(S), k))
               /\ \A k \in E : Conditionals(S)[k] =
                      Branches(Fibre(BagConditionals(S), BagKeys(S), k),
                               Fibre(BagUnmet(S), BagKeys(S), k))
<1> DEFINE D == {TileKey(s) : s \in TileConditionals(S)}
           E == {BagKey(s) : s \in BagConditionals(S)}
           tiles(k) == {s \in TileConditionals(S) : TileKey(s) = k}
           bags(k)  == {s \in BagConditionals(S) : BagKey(s) = k}
           a == [k \in D |-> Branches(tiles(k), {s \in tiles(k) : Turn(s).fromType # CardTile(Turn(s))})]
           b == [k \in E |-> Branches(bags(k), {s \in bags(k) : ~ConditionMet(s)})]
<1>1. Conditionals(S) = a ++ b
    BY DEF Conditionals, Grouped, TileKey, BagKey, Branches
<1>2. (\A k \in D : k[4][1] = "tile") /\ (\A k \in E : k[4][1] = "bag")
    BY DEF TileKey, BagKey, At
<1>3. \A k : /\ tiles(k) = Fibre(TileConditionals(S), TileKeys(S), k)
             /\ {s \in tiles(k) : Turn(s).fromType # CardTile(Turn(s))} = Fibre(OffTile(S), TileKeys(S), k)
    BY DEF Fibre, TileKeys, OffTile
<1>4. \A k : /\ bags(k) = Fibre(BagConditionals(S), BagKeys(S), k)
             /\ {s \in bags(k) : ~ConditionMet(s)} = Fibre(BagUnmet(S), BagKeys(S), k)
    BY DEF Fibre, BagKeys, BagUnmet
<1>5. /\ DOMAIN Conditionals(S) = D \union E
      /\ \A k \in D : Conditionals(S)[k] = a[k]
      /\ \A k \in E : Conditionals(S)[k] = b[k]
    <2>1. D \intersect E = {}
        BY <1>2
    <2> HIDE DEF D, E
    <2>2. QED
        BY <1>1, <2>1 DEF ++
<1>6. \A k \in D : a[k] = Branches(Fibre(TileConditionals(S), TileKeys(S), k),
                                   Fibre(OffTile(S), TileKeys(S), k))
    BY <1>3
<1>7. \A k \in E : b[k] = Branches(Fibre(BagConditionals(S), BagKeys(S), k),
                                   Fibre(BagUnmet(S), BagKeys(S), k))
    BY <1>4
<1> HIDE DEF D, E, a, b
<1>8. QED
    BY <1>2, <1>5, <1>6, <1>7 DEF D, E

(* What the rows of a level and a tile, or a comparator, add up to.        *)
LEMMA ConditionalSums ==
    ASSUME NEW S, IsFiniteSet(S), NEW K \in SUBSET DOMAIN Conditionals(S)
    PROVE  LET sums == [total   |-> SumFunction([k \in K |-> Conditionals(S)[k].total]),
                        correct |-> SumFunction([k \in K |-> Conditionals(S)[k].correct]),
                        else    |-> SumFunction([k \in K |-> Conditionals(S)[k].else])]
           IN  /\ (\A k \in K : k[4][1] = "tile") =>
                     sums = Branches(Fibres(TileConditionals(S), TileKeys(S), K),
                                     Fibres(OffTile(S), TileKeys(S), K))
               /\ (\A k \in K : k[4][1] = "bag") =>
                     sums = Branches(Fibres(BagConditionals(S), BagKeys(S), K),
                                     Fibres(BagUnmet(S), BagKeys(S), K))
<1> DEFINE D == {TileKey(s) : s \in TileConditionals(S)}
           E == {BagKey(s) : s \in BagConditionals(S)}
           X == TileConditionals(S)
           Y == BagConditionals(S)
           table == Conditionals(S)
<1>1. /\ DOMAIN table = D \union E
      /\ (\A k \in D : k[4][1] = "tile") /\ (\A k \in E : k[4][1] = "bag")
      /\ \A k \in D : table[k] = Branches(Fibre(X, TileKeys(S), k), Fibre(OffTile(S), TileKeys(S), k))
      /\ \A k \in E : table[k] = Branches(Fibre(Y, BagKeys(S), k), Fibre(BagUnmet(S), BagKeys(S), k))
    BY ConditionalsAre
<1>2. /\ D = {TileKeys(S)[s] : s \in X} /\ TileKeys(S) = [s \in X |-> TileKeys(S)[s]]
      /\ E = {BagKeys(S)[s] : s \in Y} /\ BagKeys(S) = [s \in Y |-> BagKeys(S)[s]]
    BY DEF TileKeys, BagKeys
<1>3. /\ X \subseteq S /\ Y \subseteq S /\ OffTile(S) \in SUBSET X /\ BagUnmet(S) \in SUBSET Y
    BY DEF TileConditionals, BagConditionals, OffTile, BagUnmet
<1> HIDE DEF D, E, X, Y, table
<1>4. IsFiniteSet(X) /\ IsFiniteSet(Y)
    BY <1>3, FS_Subset
<1> DEFINE sums == [total   |-> SumFunction([k \in K |-> table[k].total]),
                    correct |-> SumFunction([k \in K |-> table[k].correct]),
                    else    |-> SumFunction([k \in K |-> table[k].else])]
<1>5. ASSUME \A k \in K : k[4][1] = "tile"
      PROVE  sums = Branches(Fibres(X, TileKeys(S), K), Fibres(OffTile(S), TileKeys(S), K))
    <2>1. K \in SUBSET D
        BY <1>1, <1>5 DEF table
    <2>2. IsFiniteSet(K)
        BY <1>2, <1>4, <2>1, KeysAreFinite
    <2>3. \A k \in K : table[k] = Branches(Fibre(X, TileKeys(S), k), Fibre(OffTile(S), TileKeys(S), k))
        BY <1>1, <2>1
    <2>4. QED
        BY ONLY <1>3, <1>4, <2>2, <2>3, BranchSums
<1>6. ASSUME \A k \in K : k[4][1] = "bag"
      PROVE  sums = Branches(Fibres(Y, BagKeys(S), K), Fibres(BagUnmet(S), BagKeys(S), K))
    <2>1. K \in SUBSET E
        BY <1>1, <1>6 DEF table
    <2>2. IsFiniteSet(K)
        BY <1>2, <1>4, <2>1, KeysAreFinite
    <2>3. \A k \in K : table[k] = Branches(Fibre(Y, BagKeys(S), k), Fibre(BagUnmet(S), BagKeys(S), k))
        BY <1>1, <2>1
    <2>4. QED
        BY ONLY <1>3, <1>4, <2>2, <2>3, BranchSums
<1>7. QED
    BY <1>5, <1>6 DEF X, Y, table

LEMMA ConditionalsPass ==
    ASSUME NEW S, IsFiniteSet(S), Stepped(S)
    PROVE  ConditionalsVerified(S, Conditionals(S))
<1> DEFINE D == DOMAIN Conditionals(S)
           tile(s)  == CardTile(Turn(s))
           value(s) == ParseCard(Turn(s).card).value
           sign(s)  == ComparatorByType[Turn(s).type]
           before(s) == BagsBefore(s[1].turns)[s[2]]
           met(s)   == \/ sign(s) = "eq" /\ before(s) = value(s)
                       \/ sign(s) = "lt" /\ before(s) < value(s)
                       \/ sign(s) = "gt" /\ before(s) > value(s)
           tiles == {s \in S : Turn(s).family = "conditional_tile" /\ tile(s) # None}
           bags  == {s \in S : /\ Turn(s).family \in BagColumns
                               /\ Turn(s).type \in DOMAIN ComparatorByType /\ value(s) # None}
           tileKey(s) == <<s[1].level, <<"tile", tile(s)>>>>
           bagKey(s)  == <<s[1].level, <<"bag", sign(s)>>>>
           tilesOf(j) == {s \in tiles : tileKey(s) = j}
           bagsOf(j)  == {s \in bags : bagKey(s) = j}
           counted(T, else) == [total |-> Cardinality(T),
                                correct |-> Cardinality({s \in T : Turn(s).correct}),
                                else |-> Cardinality(else)]
           J == {tileKey(s) : s \in tiles}
           L == {bagKey(s) : s \in bags}
           a == [j \in J |-> counted(tilesOf(j), {s \in tilesOf(j) : Turn(s).fromType # tile(s)})]
           b == [j \in L |-> counted(bagsOf(j), {s \in bagsOf(j) : ~met(s)})]
           added(K) == [total   |-> SumFunction([k \in K |-> Conditionals(S)[k].total]),
                        correct |-> SumFunction([k \in K |-> Conditionals(S)[k].correct]),
                        else    |-> SumFunction([k \in K |-> Conditionals(S)[k].else])]
           rollup == [j \in {LevelAnd(k) : k \in D} |-> added(Joined(D, j))]
           zero == [total |-> 0, correct |-> 0, else |-> 0]
<1>1. ConditionalsVerified(S, Conditionals(S)) <=> SameCounts(a ++ b, rollup, zero)
    BY DEF ConditionalsVerified, ByLevel, Grouped, SumRows, SumOf, Joined
<1>2. /\ tiles = TileConditionals(S) /\ bags = BagConditionals(S)
      /\ \A s \in bags : sign(s) = ComparatorByType[CardType(Turn(s))] /\ (met(s) <=> ConditionMet(s))
    BY ConditionsAre
<1>3. \A T, E : counted(T, E) = Branches(T, E)
    <2>1. \A T : {s \in T : Turn(s).correct} = T \ Mistakes(T)
        BY DEF Mistakes
    <2>2. QED
        BY <2>1 DEF Branches
<1> HIDE DEF met, counted, sign, value, tiles, bags
<1>4. /\ \A s \in tiles : LevelAnd(TileKey(s)) = tileKey(s)
      /\ \A s \in bags : LevelAnd(BagKey(s)) = bagKey(s)
      /\ \A s \in tiles : tileKey(s)[2][1] = "tile"
      /\ \A s \in bags : bagKey(s)[2][1] = "bag"
    BY <1>2 DEF LevelAnd, TileKey, BagKey, At
<1>5. D = {TileKey(s) : s \in tiles} \union {BagKey(s) : s \in bags}
    BY <1>2, ConditionalsAre
<1>6. DOMAIN (a ++ b) = DOMAIN rollup /\ DOMAIN (a ++ b) = J \union L
    <2> HIDE DEF tileKey, bagKey, D
    <2>1. DOMAIN rollup = J \union L
        BY <1>4, <1>5
    <2>2. QED
        BY <2>1 DEF ++
<1>7. /\ \A j \in J : (a ++ b)[j] = a[j]
      /\ \A j \in L : (a ++ b)[j] = b[j]
    <2>1. J \intersect L = {}
        <3> HIDE DEF tileKey, bagKey
        <3>1. QED
            BY <1>4
    <2> HIDE DEF J, L
    <2>2. QED
        BY <2>1 DEF ++
<1>8. ASSUME NEW j \in J \union L
      PROVE  (a ++ b)[j] = rollup[j]
    <2> DEFINE K == Joined(D, j)
    <2>1. K \in SUBSET D
        BY DEF Joined
    <2>2. rollup[j] = added(K)
        BY <1>6
    <2>3. \A k \in K : k[4] = j[2]
        BY DEF Joined, LevelAnd
    <2>4. CASE j \in J
        <3>1. a[j] = Branches(tilesOf(j), {s \in tilesOf(j) : Turn(s).fromType # tile(s)})
            BY <1>3, <2>4
        <3>2. \A k \in K : k[4][1] = "tile"
            BY <1>4, <2>3, <2>4
        <3>3. tilesOf(j) = Fibres(TileConditionals(S), TileKeys(S), K)
            <4> HIDE DEF tileKey
            <4>1. \A s \in tiles : TileKeys(S)[s] \in K <=> tileKey(s) = j
                BY <1>2, <1>4, <1>5 DEF Joined, TileKeys
            <4>2. QED
                BY <1>2, <4>1 DEF Fibres
        <3>4. {s \in tilesOf(j) : Turn(s).fromType # tile(s)} = Fibres(OffTile(S), TileKeys(S), K)
            BY <3>3 DEF Fibres, OffTile
        <3> HIDE DEF tilesOf, tile, K, D, J, L, a, b, rollup
        <3>5. added(K) = Branches(Fibres(TileConditionals(S), TileKeys(S), K),
                                  Fibres(OffTile(S), TileKeys(S), K))
            BY <2>1, <3>2, ConditionalSums DEF D
        <3>6. QED
            BY <1>7, <2>2, <2>4, <3>1, <3>3, <3>4, <3>5
    <2>5. CASE j \in L
        <3>1. b[j] = Branches(bagsOf(j), {s \in bagsOf(j) : ~met(s)})
            BY <1>3, <2>5
        <3>2. \A k \in K : k[4][1] = "bag"
            BY <1>4, <2>3, <2>5
        <3>3. bagsOf(j) = Fibres(BagConditionals(S), BagKeys(S), K)
            <4> HIDE DEF bagKey
            <4>1. \A s \in bags : BagKeys(S)[s] \in K <=> bagKey(s) = j
                BY <1>2, <1>4, <1>5 DEF Joined, BagKeys
            <4>2. QED
                BY <1>2, <4>1 DEF Fibres
        <3>4. {s \in bagsOf(j) : ~met(s)} = Fibres(BagUnmet(S), BagKeys(S), K)
            BY <1>2, <3>3 DEF Fibres, BagUnmet
        <3> HIDE DEF bagsOf, K, D, J, L, a, b, rollup
        <3>5. added(K) = Branches(Fibres(BagConditionals(S), BagKeys(S), K),
                                  Fibres(BagUnmet(S), BagKeys(S), K))
            BY <2>1, <3>2, ConditionalSums DEF D
        <3>6. QED
            BY <1>7, <2>2, <2>5, <3>1, <3>3, <3>4, <3>5
    <2>6. QED
        BY <2>4, <2>5
<1> HIDE DEF rollup, zero, a, b, J, L
<1>9. QED
    BY <1>1, <1>6, <1>8, AlikeIsSame

-------------------------------------------------------------------------------
(* A slice's runs with the turns that are left.                            *)

(* What is left of runs is as many runs with the same results ...          *)
Remaining(A) == {Left(r) : r \in A}

LEMMA LeftIs ==
    ASSUME BaseInv, NEW r \in AllRuns
    PROVE  /\ \A c \in {"id", "student", "week", "level", "won", "correct", "wrong"} : Left(r)[c] = r[c]
           /\ Left(r).turns = IF r.id \in compacted THEN <<>> ELSE r.turns
           /\ r.id \in compacted \/ Left(r) = r
           /\ \A q \in AllRuns : Left(q) = Left(r) => q = r
<1>1. ASSUME NEW q \in AllRuns
      PROVE  /\ \A c \in {"id", "student", "week", "level", "won", "correct", "wrong"} : Left(q)[c] = q[c]
             /\ Left(q).turns = IF q.id \in compacted THEN <<>> ELSE q.turns
             /\ q = RunOf(q.id)
    <2>1. PICK id \in DOMAIN runs : q = RunOf(id)
        BY DEF AllRuns
    <2>2. DOMAIN Stored[id] \subseteq DOMAIN q /\ "week" \in DOMAIN q /\ q.id = id /\ id \in Accepted
        BY <2>1, RunIs DEF BaseInv, Types
    <2>3. {"id", "student", "level", "won", "correct", "wrong", "turns"} \subseteq DOMAIN Stored[id]
        BY <2>2 DEF Stored, StoredRun
    <2>4. QED
        BY <2>1, <2>2, <2>3 DEF Left
<1>2. \A q \in AllRuns : Left(q) = Left(r) => q = r
    BY <1>1
<1>3. QED
    BY <1>1, <1>2 DEF Left

LEMMA RemainingCounts ==
    ASSUME BaseInv, NEW A \in SUBSET AllRuns
    PROVE  IsFiniteSet(A) /\ Cardinality(Remaining(A)) = Cardinality(A)
<1> DEFINE f == [r \in A |-> Left(r)]
<1>1. IsFiniteSet(A)
    BY StepsOfRuns
<1>2. f \in Bijection(A, Remaining(A))
    BY LeftIs DEF Remaining, Bijection, Injection, Surjection, IsInjective
<1>3. ExistsBijection(A, Remaining(A))
    BY <1>2 DEF ExistsBijection
<1>4. QED
    BY <1>1, <1>3, FS_Bijection

LEMMA RemainingAddUp ==
    ASSUME BaseInv, NEW A \in SUBSET AllRuns, NEW c \in {"correct", "wrong"}
    PROVE  Column(Remaining(A), c) = Column(A, c)
<1> DEFINE R == Remaining(A)
           key == [r \in A |-> Left(r)]
           g == [r \in A |-> r[c]]
           t == [x \in R |-> x[c]]
<1>1. IsFiniteSet(A) /\ Countable(AllRuns)
    BY StepsOfRuns, RunsCountable
<1>2. g \in [A -> Int]
    BY <1>1 DEF Countable, Measured
<1>3. t \in [R -> Int] /\ \A r \in A : t[Left(r)] = g[r]
    BY <1>2, LeftIs DEF Remaining
<1>4. \A r \in A : Fibre(A, key, Left(r)) = {r}
    BY LeftIs DEF Fibre
<1>5. \A r \in A : SumIn(g, {r}) = g[r]
    <2>1. /\ SumIn(g, {}) = 0
          /\ \A B \in SUBSET A : \A a \in B : SumIn(g, B) = g[a] + SumIn(g, B \ {a})
        <3> HIDE DEF g
        <3>1. QED
            BY <1>1, <1>2, SumWithout
    <2>2. \A r \in A : {r} \in SUBSET A /\ {r} \ {r} = {} /\ g[r] \in Int
        BY <1>2
    <2> HIDE DEF g
    <2>3. QED
        BY <2>1, <2>2
<1>6. \A x \in R : t[x] = SumIn(g, Fibre(A, key, x))
    <2>1. \A x \in R : \E r \in A : x = Left(r)
        BY DEF Remaining
    <2> HIDE DEF t, g, key, R
    <2>2. QED
        BY <1>3, <1>4, <1>5, <2>1
<1>7. Fibres(A, key, R) = A
    BY DEF Fibres, Remaining
<1>8. IsFiniteSet(R)
    <2>1. R = {key[r] : r \in A} /\ key = [r \in A |-> key[r]] /\ R \in SUBSET R
        BY DEF Remaining
    <2> HIDE DEF R, key
    <2>2. QED
        BY <1>1, <2>1, KeysAreFinite
<1>9. g = [r \in A |-> g[r]] /\ t = [x \in R |-> t[x]]
    OBVIOUS
<1> HIDE DEF R, key, g, t
<1>10. SumIn(t, R) = SumIn(g, Fibres(A, key, R))
    BY <1>1, <1>2, <1>3, <1>6, <1>8, SumOfFibres
<1>11. SumFunction(t) = SumFunction(g)
    BY <1>7, <1>9, <1>10 DEF SumIn
<1>12. QED
    BY <1>11 DEF Column, t, g, R

(* ... and their turns are the runs' that still have them.                 *)
WithTurns(A) == {r \in A : r.id \notin compacted}

LEMMA RemainingSteps ==
    ASSUME BaseInv, NEW A \in SUBSET AllRuns
    PROVE  Steps(Remaining(A)) = Steps(WithTurns(A)) /\ WithTurns(A) \in SUBSET AllRuns
<1>1. \A r \in A : Left(r).turns = IF r.id \in compacted THEN <<>> ELSE r.turns
    BY LeftIs
<1>2. \A r \in A : r.id \in compacted \/ Left(r) = r
    BY LeftIs
<1>3. DOMAIN <<>> = {}
    OBVIOUS
<1>4. Steps(Remaining(A)) \subseteq Steps(WithTurns(A))
    <2>1. ASSUME NEW s \in Steps(Remaining(A))
          PROVE  s \in Steps(WithTurns(A))
        <3>1. PICK r \in A : s \in {Left(r)} \X DOMAIN Left(r).turns
            BY DEF Steps, Remaining
        <3>2. r.id \notin compacted
            BY <1>1, <1>3, <3>1
        <3>3. QED
            BY <1>2, <3>1, <3>2 DEF Steps, WithTurns
    <2>2. QED
        BY <2>1
<1>5. Steps(WithTurns(A)) \subseteq Steps(Remaining(A))
    BY <1>2 DEF Steps, WithTurns, Remaining
<1>6. QED
    BY <1>4, <1>5 DEF WithTurns

LEMMA StepsAreStepped ==
    ASSUME BaseInv, NEW S, S \subseteq Steps(AllRuns)
    PROVE  IsFiniteSet(S) /\ IsFiniteSet(Offers(S)) /\ Stepped(S) /\ Timed(S) /\ NumbersTimed(S)
<1>1. IsFiniteSet(S)
    <2>1. IsFiniteSet(Steps(AllRuns))
        BY StepsOfRuns
    <2>2. QED
        BY <2>1, FS_Subset
<1>2. IsFiniteSet(Offers(S))
    BY OffersAreFinite
<1>3. Timed(S) /\ NumbersTimed(S)
    BY TurnParts DEF Timed, NumbersTimed
<1>4. ASSUME NEW s \in S
      PROVE  /\ \E sent : Turn(s) = StoredTurn(sent)
             /\ \E n \in Nat : DOMAIN s[1].turns = 1 .. n /\ s[2] \in 1 .. n
             /\ s = <<s[1], s[2]>>
    <2>1. s[1] \in AllRuns /\ s[2] \in DOMAIN s[1].turns /\ s = <<s[1], s[2]>>
        BY DEF Steps
    <2>2. PICK id \in DOMAIN runs : s[1] = RunOf(id)
        BY <2>1 DEF AllRuns
    <2>3. s[1].turns = Stored[id].turns /\ id \in Accepted /\ Insertable(Stored[id])
        BY <2>2, RunIs DEF BaseInv, Types, Stamped
    <2>4. \E n \in Nat : DOMAIN Stored[id].turns = 1 .. n
        BY <2>3, StoredMoves
    <2>5. \E sent : Turn(s) = StoredTurn(sent)
        BY TurnIs
    <2>6. QED
        BY <2>1, <2>3, <2>4, <2>5
<1>5. QED
    BY <1>1, <1>2, <1>3, <1>4 DEF Stepped

(* The rows of triggered tiles add up to the lengths of the chains.        *)
LEMMA AllTileRows ==
    ASSUME NEW S, IsFiniteSet(S),
           \A s \in S : Len(Turn(s).chain) \in Nat /\ DOMAIN Turn(s).chain = 1 .. Len(Turn(s).chain)
    PROVE  SumFunction([k \in DOMAIN SpecialTiles(S) |-> SpecialTiles(S)[k]]) =
               SumFunction([s \in S |-> Len(Turn(s).chain)])
<1> DEFINE X == Ofs(S, LAMBDA s : DOMAIN Turn(s).chain)
           key == [e \in X |-> At(e[1], Turn(e[1]).chain[e[2]])]
           first == [e \in X |-> e[1]]
           length == [s \in S |-> Len(Turn(s).chain)]
           of == [s \in S |-> {s} \X DOMAIN Turn(s).chain]
           U == {of[s] : s \in S}
           table == SpecialTiles(S)
<1>1. \A s \in S : IsFiniteSet(of[s]) /\ Cardinality(of[s]) = Len(Turn(s).chain)
    <2>1. \A n \in Nat : IsFiniteSet(1 .. n) /\ Cardinality(1 .. n) = n
        BY FS_Interval
    <2>2. \A s \in S : /\ IsFiniteSet(DOMAIN Turn(s).chain)
                       /\ Cardinality(DOMAIN Turn(s).chain) = Len(Turn(s).chain)
        BY <2>1
    <2>3. \A s \in S : /\ IsFiniteSet({s} \X DOMAIN Turn(s).chain)
                       /\ Cardinality({s} \X DOMAIN Turn(s).chain) = Len(Turn(s).chain)
        BY <2>2, CountOfPairs
    <2>4. QED
        BY <2>3
<1>2. X = UNION U /\ of = [s \in S |-> of[s]]
    BY DEF Ofs
<1>3. /\ DOMAIN table = {key[e] : e \in X} /\ key = [e \in X |-> key[e]]
      /\ \A k \in DOMAIN table : table[k] = Cardinality(Fibre(X, key, k))
      /\ Fibres(X, key, DOMAIN table) = X
    BY DEF SpecialTiles, Grouped, Fibre, Fibres
<1>4. /\ \A s \in S : Fibre(X, first, s) = of[s]
      /\ Fibres(X, first, S) = X
    BY DEF Fibre, Fibres, Ofs
<1>5. length = [s \in S |-> length[s]] /\ \A s \in S : length[s] = Len(Turn(s).chain)
    OBVIOUS
<1>6. U = {of[s] : s \in S} /\ U \in SUBSET U
    OBVIOUS
<1> HIDE DEF X, key, first, length, of, U, table
<1>7. IsFiniteSet(X)
    <2>1. IsFiniteSet(U)
        BY <1>2, <1>6, KeysAreFinite
    <2>2. \A T \in U : IsFiniteSet(T)
        BY <1>1, <1>6
    <2>3. QED
        BY <1>2, <2>1, <2>2, FS_UNION
<1>8. SumFunction([k \in DOMAIN table |-> table[k]]) = Cardinality(X)
    <2>1. IsFiniteSet(DOMAIN table)
        BY <1>3, <1>7, KeysAreFinite
    <2>2. SumFunction([k \in DOMAIN table |-> table[k]]) = Cardinality(Fibres(X, key, DOMAIN table))
        BY <1>3, <1>7, <2>1, CountOfRows
    <2>3. QED
        BY <1>3, <2>2
<1>9. SumFunction([s \in S |-> length[s]]) = Cardinality(X)
    <2>1. \A s \in S : length[s] = Cardinality(Fibre(X, first, s))
        BY <1>1, <1>4, <1>5
    <2>2. SumFunction([s \in S |-> length[s]]) = Cardinality(Fibres(X, first, S))
        BY <1>7, <2>1, CountOfRows
    <2>3. QED
        BY <1>4, <2>2
<1>10. QED
    BY <1>5, <1>8, <1>9 DEF table, length

(* The rows of the three run-level tables that count some runs.            *)
LEMMA SummaryPass ==
    ASSUME BaseInv, NEW A \in SUBSET AllRuns, NEW rows,
           DOMAIN rows.weeks = DOMAIN StudentWeeks(A),
           \A k \in DOMAIN rows.weeks : Matches(rows.weeks[k], WeekRow(WeekRuns(A, k))),
           DOMAIN rows.levels = DOMAIN StudentLevels(A),
           \A k \in DOMAIN rows.levels : Matches(rows.levels[k], LevelRow(LevelRuns(A, k))),
           DOMAIN rows.rooms = DOMAIN RoomWeeks(A),
           \A k \in DOMAIN rows.rooms : Matches(rows.rooms[k], RoomCounters(Here(A, k))),
           rows.details.chains = ChainLengths(Steps(WithTurns(A))),
           rows.details.tiles = SpecialTiles(Steps(WithTurns(A)))
    PROVE  SummaryVerified(Remaining(A), rows)
<1> DEFINE S == Steps(WithTurns(A))
           R == Remaining(A)
           n == Cardinality(A)
           W == DOMAIN rows.weeks
           L == DOMAIN rows.levels
           C == DOMAIN rows.rooms
           toWeek  == [r \in A |-> <<r.student, r.week>>]
           toLevel == [r \in A |-> <<r.student, r.week, r.level>>]
           toRoom  == [r \in A |-> <<home[r.student], r.week>>]
<1>1. /\ IsFiniteSet(A) /\ Cardinality(R) = n
      /\ Column(R, "correct") = Column(A, "correct") /\ Column(R, "wrong") = Column(A, "wrong")
    BY RemainingCounts, RemainingAddUp
<1>2. Cardinality({r \in R : r.won}) = Cardinality({r \in A : r.won})
    <2> DEFINE B == {r \in A : r.won}
    <2>1. {r \in R : r.won} = Remaining(B)
        BY LeftIs DEF Remaining
    <2>2. B \in SUBSET AllRuns
        OBVIOUS
    <2> HIDE DEF B
    <2>3. Cardinality(Remaining(B)) = Cardinality(B)
        BY <2>2, RemainingCounts
    <2>4. QED
        BY <2>1, <2>3 DEF B
<1>3. Steps(R) = S /\ S \subseteq Steps(AllRuns)
    <2>1. Steps(R) = S /\ WithTurns(A) \in SUBSET AllRuns
        BY RemainingSteps
    <2>2. QED
        BY <2>1 DEF Steps
<1>4. Countable(A)
    BY RunsCountable, PartCountable
<1>15. /\ W = {toWeek[r] : r \in A}
       /\ L = {toLevel[r] : r \in A}
       /\ C = {toRoom[r] : r \in A}
    <2>1. W = {<<r.student, r.week>> : r \in A}
        BY TablesAre
    <2>2. L = {<<r.student, r.week, r.level>> : r \in A}
        BY TablesAre
    <2>3. C = {<<home[r.student], r.week>> : r \in A}
        BY RoomRowsAre
    <2> HIDE DEF W, L, C
    <2>4. QED
        BY <2>1, <2>2, <2>3
<1>16. /\ toWeek = [r \in A |-> toWeek[r]]
       /\ toLevel = [r \in A |-> toLevel[r]]
       /\ toRoom = [r \in A |-> toRoom[r]]
    OBVIOUS
<1>6. /\ \A k : WeekRuns(A, k) = Fibre(A, toWeek, k)
      /\ \A k : LevelRuns(A, k) = Fibre(A, toLevel, k)
      /\ \A k : Here(A, k) = Fibre(A, toRoom, k)
    BY DEF WeekRuns, LevelRuns, Here, Fibre
<1> HIDE DEF toWeek, toLevel, toRoom, W, L, C
<1>5. /\ Fibres(A, toWeek, W) = A
      /\ Fibres(A, toLevel, L) = A
      /\ Fibres(A, toRoom, C) = A
    BY <1>15 DEF Fibres
<1>7. IsFiniteSet(W) /\ IsFiniteSet(L) /\ IsFiniteSet(C)
    <2>1. IsFiniteSet(W)
        <3>1. W \in SUBSET W /\ IsFiniteSet(A)
            BY <1>1
        <3>2. W = {toWeek[r] : r \in A}
            BY <1>15
        <3>3. toWeek = [r \in A |-> toWeek[r]]
            BY <1>16
        <3>4. QED
            BY ONLY <3>1, <3>2, <3>3, KeysAreFinite
    <2>2. IsFiniteSet(L)
        <3>1. L \in SUBSET L /\ IsFiniteSet(A)
            BY <1>1
        <3>2. L = {toLevel[r] : r \in A}
            BY <1>15
        <3>3. toLevel = [r \in A |-> toLevel[r]]
            BY <1>16
        <3>4. QED
            BY ONLY <3>1, <3>2, <3>3, KeysAreFinite
    <2>3. IsFiniteSet(C)
        <3>1. C \in SUBSET C /\ IsFiniteSet(A)
            BY <1>1
        <3>2. C = {toRoom[r] : r \in A}
            BY <1>15
        <3>3. toRoom = [r \in A |-> toRoom[r]]
            BY <1>16
        <3>4. QED
            BY ONLY <3>1, <3>2, <3>3, KeysAreFinite
    <2>4. QED
        BY <2>1, <2>2, <2>3
<1>8. Totals(rows.weeks, W) = InTotal(A)
    <2>1. \A k \in W : Matches(rows.weeks[k], Counters(Fibre(A, toWeek, k)))
        BY <1>6, PartsMatch DEF W
    <2>2. QED
        BY <1>4, <1>5, <1>7, <2>1, RowsAddUp
<1>9. Totals(rows.levels, L) = InTotal(A)
    <2>1. \A k \in L : Matches(rows.levels[k], Counters(Fibre(A, toLevel, k)))
        BY <1>6, PartsMatch DEF L
    <2>2. QED
        BY <1>4, <1>5, <1>7, <2>1, RowsAddUp
<1>10. SumFunction([k \in C |-> rows.rooms[k].runs]) = n
    <2> DEFINE counts == [k \in C |-> rows.rooms[k].runs]
    <2>1. \A k \in C : counts[k] = Cardinality(Fibre(A, toRoom, k))
        BY <1>6, RoomCountersAre DEF Matches, C
    <2>2. counts = [k \in C |-> counts[k]]
        OBVIOUS
    <2> HIDE DEF counts
    <2>3. SumFunction([k \in C |-> counts[k]]) = Cardinality(Fibres(A, toRoom, C))
        BY <1>1, <1>7, <2>1, CountOfRows
    <2>4. QED
        BY <1>5, <2>2, <2>3 DEF counts
<1>11. SumFunction([k \in DOMAIN rows.details.chains |-> rows.details.chains[k]]) = Cardinality(S)
    <2> DEFINE K == DOMAIN ChainLengths(S)
    <2>1. K \in SUBSET DOMAIN ChainLengths(S) /\ IsFiniteSet(S)
        BY <1>3, StepsAreStepped
    <2>2. {s \in S : At(s, Len(Turn(s).chain)) \in K} = S
        BY DEF ChainLengths, Grouped
    <2> HIDE DEF K
    <2>3. SumFunction([k \in K |-> ChainLengths(S)[k]]) = Cardinality(S)
        BY <2>1, <2>2, ChainRows
    <2>4. QED
        BY <2>3 DEF K
<1>12. SumFunction([k \in DOMAIN rows.details.tiles |-> rows.details.tiles[k]]) =
           SumFunction([s \in S |-> Len(Turn(s).chain)])
    <2>1. IsFiniteSet(S)
        BY <1>3, StepsAreStepped
    <2>2. \A s \in S : Len(Turn(s).chain) \in Nat /\ DOMAIN Turn(s).chain = 1 .. Len(Turn(s).chain)
        BY <1>3, TurnParts
    <2> HIDE DEF S
    <2>3. QED
        BY <2>1, <2>2, AllTileRows DEF S
<1>13. /\ SumFunction([k \in W |-> rows.weeks[k].runs]) = n
       /\ SumFunction([k \in W |-> rows.weeks[k].wins]) = Cardinality({r \in A : r.won})
       /\ SumFunction([k \in W |-> rows.weeks[k].correct]) = Column(A, "correct")
       /\ SumFunction([k \in W |-> rows.weeks[k].wrong]) = Column(A, "wrong")
       /\ SumFunction([k \in L |-> rows.levels[k].runs]) = n
    BY <1>8, <1>9 DEF Totals, InTotal
<1> HIDE DEF S, R, n
<1>14. QED
    BY <1>1, <1>2, <1>3, <1>10, <1>11, <1>12, <1>13
       DEF SummaryVerified, Counts, SumRows, SumOf, Column, W, L, C, R, n

(* A detail row hangs on its pupil's row of the week.                      *)
Rooted ==
    \A table \in DOMAIN details : \A k \in DOMAIN details[table] :
        <<k[1], k[2]>> \in DOMAIN studentWeek

LEMMA SliceRoots ==
    ASSUME BaseInv, NEW A \in SUBSET AllRuns
    PROVE  \A table \in DOMAIN Details({}) : \A k \in DOMAIN Details(Steps(Remaining(A)))[table] :
               <<k[1], k[2]>> \in DOMAIN StudentWeeks(A)
<1> DEFINE S == Steps(Remaining(A))
           P == DOMAIN StudentWeeks(A)
<1>1. \A s \in S : <<s[1].student, s[1].week>> \in P
    <2>1. P = {<<r.student, r.week>> : r \in A}
        BY TablesAre
    <2>2. \A s \in S : s[1] \in A
        BY RemainingSteps DEF Steps, WithTurns
    <2>3. QED
        BY <2>1, <2>2
<1> HIDE DEF S, P
<1>2. \A table \in DOMAIN Details(S) : \A k \in DOMAIN Details(S)[table] : <<k[1], k[2]>> \in P
    BY <1>1, DetailsOfPupils
<1>3. DOMAIN Details(S) = DOMAIN Details({})
    BY DEF Details
<1>4. QED
    BY <1>2, <1>3 DEF S, P

(* The runs of a slice.                                                    *)
LEMMA SliceIs ==
    ASSUME BaseInv, NEW t
    PROVE  LET mine == RunsUnder(t, compaction.week)
           IN  /\ mine \in SUBSET AllRuns
               /\ \A r \in mine : r.week = compaction.week /\ TeacherOf[home[r.student]] = t
               /\ DOMAIN details = DOMAIN Details({})
BY DEF RunsUnder, RunsIn, TeacherNow, BaseInv, Types, Details

LEMMA RootedStep == ASSUME BaseInv, Rooted, [Next]_vars PROVE Rooted'
<1>1. CASE details' = details /\ DOMAIN studentWeek \subseteq DOMAIN studentWeek'
    BY <1>1 DEF Rooted
<1>2. ASSUME NEW f \in Flushers, Commit(f)
      PROVE  details' = details /\ DOMAIN studentWeek \subseteq DOMAIN studentWeek'
    BY <1>2 DEF Commit, Upserted
<1>3. ASSUME NEW t \in Teachers, Slice(t), RunsUnder(t, compaction.week) # {}
      PROVE  Rooted'
    <2> DEFINE mine == RunsUnder(t, compaction.week)
               new  == Details(Steps(Remaining(mine)))
    <2>1. mine \in SUBSET AllRuns /\ DOMAIN details = DOMAIN Details({})
        BY SliceIs
    <2>2. /\ studentWeek' = Rest(studentWeek, t) ++ OfPupil(StudentWeeks(mine))
          /\ DOMAIN details' = DOMAIN details
          /\ \A table \in DOMAIN details :
                details'[table] = Without(details[table], LAMBDA k : TheirDetail(k, t)) ++ new[table]
        BY <1>3 DEF Slice, Remade, Remaining
    <2>3. DOMAIN OfPupil(StudentWeeks(mine)) = DOMAIN StudentWeeks(mine)
        BY OfPupilIs
    <2>4. \A table \in DOMAIN details : \A k \in DOMAIN new[table] :
              <<k[1], k[2]>> \in DOMAIN StudentWeeks(mine)
        BY <2>1, SliceRoots
    <2> DEFINE kept == [table \in DOMAIN details |->
                          Without(details[table], LAMBDA k : TheirDetail(k, t))]
    <2>8. \A table \in DOMAIN details : details'[table] = kept[table] ++ new[table]
        BY <2>2
    <2>9. \A table \in DOMAIN details : \A k \in DOMAIN kept[table] :
              k \in DOMAIN details[table] /\ ~TheirDetail(k, t)
        BY DEF Without
    <2> HIDE DEF mine, new, kept
    <2>5. /\ DOMAIN StudentWeeks(mine) \subseteq DOMAIN studentWeek'
          /\ \A k \in DOMAIN studentWeek : Theirs(studentWeek, k, t) \/ k \in DOMAIN studentWeek'
        BY <2>2, <2>3 DEF Rest, Without, ++
    <2>6. ASSUME NEW table \in DOMAIN details, NEW k \in DOMAIN details'[table]
          PROVE  <<k[1], k[2]>> \in DOMAIN studentWeek'
        <3>1. \/ k \in DOMAIN details[table] /\ ~TheirDetail(k, t)
              \/ k \in DOMAIN new[table]
            <4>1. details'[table] = kept[table] ++ new[table]
                BY <2>8
            <4>2. DOMAIN details'[table] = DOMAIN kept[table] \union DOMAIN new[table]
                BY <4>1 DEF ++
            <4>3. QED
                BY <2>6, <2>9, <4>2
        <3>2. CASE k \in DOMAIN new[table]
            BY <2>4, <2>5, <3>2
        <3>3. CASE k \in DOMAIN details[table] /\ ~TheirDetail(k, t)
            BY <2>5, <3>3 DEF Rooted, TheirDetail
        <3>4. QED
            BY <3>1, <3>2, <3>3
    <2>7. QED
        BY <2>2, <2>6 DEF Rooted
<1>4. ASSUME NEW t \in Teachers, Slice(t), RunsUnder(t, compaction.week) = {}
      PROVE  details' = details /\ DOMAIN studentWeek \subseteq DOMAIN studentWeek'
    BY <1>4 DEF Slice, tables
<1>5. ASSUME NEW f \in Flushers, (\E n \in 1 .. BatchSize : Insert(f, n)) \/ Rollback(f)
      PROVE  details' = details /\ DOMAIN studentWeek \subseteq DOMAIN studentWeek'
    BY <1>5 DEF Insert, Rollback, tables
<1>6. ASSUME \/ UNCHANGED vars \/ NextWeek \/ Finalize
             \/ \E p \in Pupils, c \in Rooms : Move(p, c)
             \/ \E w \in Weeks : StartCompaction(w)
             \/ \E t \in Teachers : SliceFails(t)
      PROVE  details' = details /\ DOMAIN studentWeek \subseteq DOMAIN studentWeek'
    BY <1>6 DEF vars, tables, NextWeek, Finalize, Move, StartCompaction, SliceFails
<1>7. QED
    BY <1>1, <1>2, <1>3, <1>4, <1>5, <1>6 DEF Next

LEMMA RootedInitially == ASSUME Init PROVE Rooted
<1> DEFINE P == {}
           none == {}
<1>1. \A s \in none : <<s[1].student, s[1].week>> \in P
    OBVIOUS
<1> HIDE DEF P, none
<1>2. \A t \in DOMAIN Details(none) : \A k \in DOMAIN Details(none)[t] : <<k[1], k[2]>> \in P
    BY <1>1, DetailsOfPupils
<1>3. QED
    BY <1>2 DEF P, none, Init, Rooted

(* The rows a slice has made of its own week and teacher, as the verifier  *)
(* takes them: those it was to make, and no row that was there before.     *)
SliceRows(table, t) == Without(table, LAMBDA k : k[2] # compaction.week \/ table[k].teacher # t)

LEMMA OnlyNewRows ==
    ASSUME NEW table, NEW new, NEW t, DOMAIN Rest(table, t) \intersect DOMAIN new = {},
           \A k \in DOMAIN new : k[2] = compaction.week /\ new[k].teacher = t
    PROVE  LET rows == SliceRows(Rest(table, t) ++ new, t)
           IN  /\ DOMAIN rows = DOMAIN new
               /\ \A k \in DOMAIN rows : rows[k] = new[k]
<1> DEFINE rest == Rest(table, t)
           all  == rest ++ new
           rows == SliceRows(all, t)
<1>1. \A k \in DOMAIN rest : ~(k[2] = compaction.week /\ rest[k].teacher = t)
    BY DEF Rest, Without, Theirs
<1>2. /\ DOMAIN all = DOMAIN rest \union DOMAIN new
      /\ \A k \in DOMAIN rest : all[k] = rest[k]
      /\ \A k \in DOMAIN new : all[k] = new[k]
    BY DEF ++
<1>3. /\ DOMAIN rows = {k \in DOMAIN all : k[2] = compaction.week /\ all[k].teacher = t}
      /\ \A k \in DOMAIN rows : rows[k] = all[k]
    BY DEF SliceRows, Without
<1> HIDE DEF rest, all, rows
<1>4. DOMAIN rows = DOMAIN new
    BY <1>1, <1>2, <1>3
<1>5. \A k \in DOMAIN rows : rows[k] = new[k]
    BY <1>2, <1>3, <1>4
<1>6. QED
    BY <1>4, <1>5 DEF rows, all, rest

LEMMA SliceSummaries ==
    ASSUME BaseInv, RoomRows, NEW t, ~Clashes(t)
    PROVE  LET mine   == RunsUnder(t, compaction.week)
               all    == Remade(t)
               weeks  == SliceRows(all.weeks, t)
               levels == SliceRows(all.levels, t)
               rooms  == SliceRows(all.rooms, t)
           IN  /\ DOMAIN weeks = DOMAIN StudentWeeks(mine)
               /\ \A k \in DOMAIN weeks : Matches(weeks[k], WeekRow(WeekRuns(mine, k)))
               /\ DOMAIN levels = DOMAIN StudentLevels(mine)
               /\ \A k \in DOMAIN levels : Matches(levels[k], LevelRow(LevelRuns(mine, k)))
               /\ DOMAIN rooms = DOMAIN RoomWeeks(mine)
               /\ \A k \in DOMAIN rooms : Matches(rooms[k], RoomCounters(Here(mine, k)))
<1> DEFINE mine == RunsUnder(t, compaction.week)
           newWeeks  == OfPupil(StudentWeeks(mine))
           newLevels == OfPupil(StudentLevels(mine))
           newRooms  == RoomWeeks(mine)
<1>1. \A r \in mine : r.week = compaction.week /\ TeacherOf[home[r.student]] = t
    BY SliceIs
<1>2. /\ Remade(t).weeks = Rest(studentWeek, t) ++ newWeeks
      /\ Remade(t).levels = Rest(studentLevel, t) ++ newLevels
      /\ Remade(t).rooms = Rest(roomWeek, t) ++ newRooms
    BY DEF Remade
<1>3. DOMAIN newWeeks = DOMAIN StudentWeeks(mine) /\ DOMAIN newLevels = DOMAIN StudentLevels(mine)
    BY OfPupilIs
<1>4. /\ DOMAIN newWeeks = {<<r.student, r.week>> : r \in mine}
      /\ DOMAIN newLevels = {<<r.student, r.week, r.level>> : r \in mine}
    BY <1>3, TablesAre
<1>5. DOMAIN newRooms = {<<home[r.student], r.week>> : r \in mine}
    BY RoomRowsAre
<1>6. \A k \in DOMAIN newWeeks : /\ newWeeks[k].teacher = TeacherOf[home[k[1]]]
                                 /\ Matches(newWeeks[k], WeekRow(WeekRuns(mine, k)))
    BY <1>3, FreshRows
<1>7. \A k \in DOMAIN newLevels : /\ newLevels[k].teacher = TeacherOf[home[k[1]]]
                                  /\ Matches(newLevels[k], LevelRow(LevelRuns(mine, k)))
    BY <1>3, FreshRows
<1>8. \A k \in DOMAIN newRooms : /\ newRooms[k].teacher = TeacherOf[k[1]]
                                 /\ Matches(newRooms[k], RoomCounters(Here(mine, k)))
    BY RoomRowsAre
<1>9. /\ DOMAIN Rest(studentWeek, t) \intersect DOMAIN newWeeks = {}
      /\ DOMAIN Rest(studentLevel, t) \intersect DOMAIN newLevels = {}
    BY <1>3 DEF Clashes
<1> HIDE DEF mine, newWeeks, newLevels, newRooms
<1>10. DOMAIN Rest(roomWeek, t) \intersect DOMAIN newRooms = {}
    <2>1. \A k \in DOMAIN newRooms : k[2] = compaction.week /\ TeacherOf[k[1]] = t
        BY <1>1, <1>5
    <2>2. \A k \in DOMAIN Rest(roomWeek, t) :
              /\ roomWeek[k].teacher = TeacherOf[k[1]]
              /\ ~(k[2] = compaction.week /\ roomWeek[k].teacher = t)
        BY DEF Rest, Without, Theirs, RoomRows
    <2>3. QED
        BY <2>1, <2>2
<1>11. LET rows == SliceRows(Rest(studentWeek, t) ++ newWeeks, t)
       IN  DOMAIN rows = DOMAIN newWeeks /\ \A k \in DOMAIN rows : rows[k] = newWeeks[k]
    <2>1. \A k \in DOMAIN newWeeks : k[2] = compaction.week /\ newWeeks[k].teacher = t
        BY <1>1, <1>4, <1>6
    <2>2. QED
        BY <1>9, <2>1, OnlyNewRows
<1>12. LET rows == SliceRows(Rest(studentLevel, t) ++ newLevels, t)
       IN  DOMAIN rows = DOMAIN newLevels /\ \A k \in DOMAIN rows : rows[k] = newLevels[k]
    <2>1. \A k \in DOMAIN newLevels : k[2] = compaction.week /\ newLevels[k].teacher = t
        BY <1>1, <1>4, <1>7
    <2>2. QED
        BY <1>9, <2>1, OnlyNewRows
<1>13. LET rows == SliceRows(Rest(roomWeek, t) ++ newRooms, t)
       IN  DOMAIN rows = DOMAIN newRooms /\ \A k \in DOMAIN rows : rows[k] = newRooms[k]
    <2>1. \A k \in DOMAIN newRooms : k[2] = compaction.week /\ newRooms[k].teacher = t
        BY <1>1, <1>5, <1>8
    <2>2. QED
        BY <1>10, <2>1, OnlyNewRows
<1>14. /\ DOMAIN SliceRows(Remade(t).weeks, t) = DOMAIN newWeeks
       /\ \A k \in DOMAIN newWeeks : SliceRows(Remade(t).weeks, t)[k] = newWeeks[k]
    BY <1>2, <1>11
<1>15. /\ DOMAIN SliceRows(Remade(t).levels, t) = DOMAIN newLevels
       /\ \A k \in DOMAIN newLevels : SliceRows(Remade(t).levels, t)[k] = newLevels[k]
    BY <1>2, <1>12
<1>16. /\ DOMAIN SliceRows(Remade(t).rooms, t) = DOMAIN newRooms
       /\ \A k \in DOMAIN newRooms : SliceRows(Remade(t).rooms, t)[k] = newRooms[k]
    BY <1>2, <1>13
<1>17. DOMAIN newRooms = DOMAIN RoomWeeks(mine)
    BY DEF newRooms
<1>18. QED
    BY <1>3, <1>6, <1>7, <1>8, <1>14, <1>15, <1>16, <1>17 DEF mine

TheirRows(table, pupils) ==
    Without(table, LAMBDA k : k[1] \notin pupils \/ k[2] # compaction.week)

(* A detail row of one of the slice's pupils that stayed would carry the   *)
(* name of another teacher, and the pupil's row of that teacher would have *)
(* been in the way.                                                        *)
LEMMA SliceDetails ==
    ASSUME BaseInv, Rooted, NEW t, ~Clashes(t), NEW table \in DOMAIN details
    PROVE  LET mine   == RunsUnder(t, compaction.week)
               pupils == {k[1] : k \in DOMAIN StudentWeeks(mine)}
               made   == Remade(t).details[table]
           IN  TheirRows(made, pupils) = Details(Steps(Remaining(mine)))[table]
<1> DEFINE mine   == RunsUnder(t, compaction.week)
           pupils == {k[1] : k \in DOMAIN StudentWeeks(mine)}
           kept   == Without(details[table], LAMBDA k : TheirDetail(k, t))
           new    == Details(Steps(Remaining(mine)))[table]
           made   == Remade(t).details[table]
<1>1. /\ mine \in SUBSET AllRuns /\ DOMAIN details = DOMAIN Details({})
      /\ \A r \in mine : r.week = compaction.week
    BY SliceIs
<1>2. made = kept ++ new
    BY DEF Remade, Remaining
<1>3. \A k \in DOMAIN new : <<k[1], k[2]>> \in DOMAIN StudentWeeks(mine)
    BY <1>1, SliceRoots
<1>4. DOMAIN StudentWeeks(mine) = {<<r.student, r.week>> : r \in mine}
    BY TablesAre
<1>5. DOMAIN StudentWeeks(mine) \intersect DOMAIN Rest(studentWeek, t) = {}
    BY DEF Clashes
<1>6. IsTable(new)
    <2>1. DOMAIN Details(Steps(Remaining(mine))) = DOMAIN Details({})
        BY DEF Details
    <2>2. QED
        BY <1>1, <2>1, DetailsAreTables
<1>7. \A k \in DOMAIN kept : /\ <<k[1], k[2]>> \in DOMAIN studentWeek
                             /\ ~Theirs(studentWeek, <<k[1], k[2]>>, t)
    BY DEF Without, TheirDetail, Rooted
<1> HIDE DEF mine, new, kept, made
<1>8. \A k \in DOMAIN new : k[1] \in pupils /\ k[2] = compaction.week
    <2>1. SUFFICES ASSUME NEW k \in DOMAIN new
                   PROVE  k[1] \in pupils /\ k[2] = compaction.week
        OBVIOUS
    <2>2. <<k[1], k[2]>> \in DOMAIN StudentWeeks(mine)
        BY <1>3
    <2>3. PICK r \in mine : <<k[1], k[2]>> = <<r.student, r.week>>
        BY <1>4, <2>2
    <2>4. <<k[1], k[2]>>[1] \in pupils
        BY <2>2
    <2>5. QED
        BY <1>1, <2>3, <2>4
<1>9. \A k \in DOMAIN kept : ~(k[1] \in pupils /\ k[2] = compaction.week)
    <2>1. SUFFICES ASSUME NEW k \in DOMAIN kept, k[1] \in pupils, k[2] = compaction.week
                   PROVE  FALSE
        OBVIOUS
    <2>2. PICK r \in mine : k[1] = r.student
        BY <1>4, <2>1
    <2>3. <<k[1], k[2]>> \in DOMAIN StudentWeeks(mine)
        BY <1>1, <1>4, <2>1, <2>2
    <2>4. <<k[1], k[2]>> \in DOMAIN Rest(studentWeek, t)
        BY <1>7, <2>1 DEF Rest, Without
    <2>5. QED
        BY <1>5, <2>3, <2>4
<1> HIDE DEF pupils
<1>10. /\ DOMAIN made = DOMAIN kept \union DOMAIN new
       /\ \A k \in DOMAIN new : k \notin DOMAIN kept => made[k] = new[k]
    BY <1>2 DEF ++
<1>11. {k \in DOMAIN made : ~(k[1] \notin pupils \/ k[2] # compaction.week)} = DOMAIN new
    BY <1>8, <1>9, <1>10
<1>12. \A k \in DOMAIN new : made[k] = new[k]
    BY <1>8, <1>9, <1>10
<1>13. new = [k \in DOMAIN new |-> new[k]]
    BY <1>6 DEF IsTable
<1>14. TheirRows(made, pupils) = [k \in DOMAIN new |-> made[k]]
    BY <1>11 DEF TheirRows, Without
<1>15. [k \in DOMAIN new |-> made[k]] = [k \in DOMAIN new |-> new[k]]
    BY <1>12
<1>16. QED
    BY <1>13, <1>14, <1>15 DEF mine, new, made, pupils

RootedInv == RoomsInv /\ Rooted

LEMMA RootedHolds == Spec => []RootedInv
<1>1. Init => RootedInv
    BY BaseInitially, SummariesInitially, RoomsInitially, RootedInitially
       DEF SummariesInv, RoomsInv, RootedInv
<1>2. RootedInv /\ [Next]_vars => RootedInv'
    BY RoomsStep, RootedStep DEF RootedInv, RoomsInv, SummariesInv
<1>3. QED
    BY <1>1, <1>2, PTL DEF Spec

(* A slice that nothing stands in the way of is verified, whatever was     *)
(* tried before and whoever moved: verify_weekly_rollups, counting the raw *)
(* runs and turns by level, finds in the rows that weekly_aggregation made *)
(* of them what it counts itself.                                          *)
THEOREM VerificationPassesTheorem == Spec => []VerificationPasses
<1>1. ASSUME RootedInv
      PROVE  VerificationPasses
    <2>1. BaseInv /\ RoomRows /\ Rooted
        BY <1>1 DEF RootedInv, RoomsInv, SummariesInv
    <2>2. ASSUME NEW t \in compaction.todo, ~Clashes(t)
          PROVE  LET mine == RunsUnder(t, compaction.week)
                     all  == Remade(t)
                     rows == SliceRows(all.weeks, t)
                     pupils == {k[1] : k \in DOMAIN rows}
                 IN  Verified(Remaining(mine),
                              [weeks |-> rows, levels |-> SliceRows(all.levels, t),
                               rooms |-> SliceRows(all.rooms, t),
                               details |-> [table \in DOMAIN details |->
                                               TheirRows(all.details[table], pupils)]])
        <3> DEFINE mine == RunsUnder(t, compaction.week)
                   all  == Remade(t)
                   weeks  == SliceRows(all.weeks, t)
                   levels == SliceRows(all.levels, t)
                   rooms  == SliceRows(all.rooms, t)
                   pupils == {k[1] : k \in DOMAIN weeks}
                   made == [table \in DOMAIN details |-> TheirRows(all.details[table], pupils)]
                   rows == [weeks |-> weeks, levels |-> levels, rooms |-> rooms, details |-> made]
                   S == Steps(Remaining(mine))
        <3>1. mine \in SUBSET AllRuns /\ DOMAIN details = DOMAIN Details({})
            BY <2>1, SliceIs
        <3>2. /\ DOMAIN weeks = DOMAIN StudentWeeks(mine)
              /\ \A k \in DOMAIN weeks : Matches(weeks[k], WeekRow(WeekRuns(mine, k)))
              /\ DOMAIN levels = DOMAIN StudentLevels(mine)
              /\ \A k \in DOMAIN levels : Matches(levels[k], LevelRow(LevelRuns(mine, k)))
              /\ DOMAIN rooms = DOMAIN RoomWeeks(mine)
              /\ \A k \in DOMAIN rooms : Matches(rooms[k], RoomCounters(Here(mine, k)))
            BY <2>1, <2>2, SliceSummaries
        <3>3. \A table \in DOMAIN details : made[table] = Details(S)[table]
            <4>1. SUFFICES ASSUME NEW table \in DOMAIN details
                           PROVE  made[table] = Details(S)[table]
                OBVIOUS
            <4>2. pupils = {k[1] : k \in DOMAIN StudentWeeks(mine)}
                BY <3>2
            <4>3. TheirRows(all.details[table], {k[1] : k \in DOMAIN StudentWeeks(mine)}) =
                      Details(S)[table]
                BY <2>1, <2>2, SliceDetails
            <4>4. QED
                BY <4>2, <4>3
        <3>4. /\ made.chains = ChainLengths(S) /\ made.tiles = SpecialTiles(S)
              /\ made.families = CardFamilies(S) /\ made.types = CardTypes(S)
              /\ made.conditionals = Conditionals(S) /\ made.numbers = NumberChoices(S)
            <4>1. {"chains", "tiles", "families", "types", "conditionals", "numbers"}
                      \subseteq DOMAIN details
                BY <3>1 DEF Details
            <4> HIDE DEF made, S
            <4>2. QED
                BY <3>3, <4>1 DEF Details
        <3>5. S = Steps(WithTurns(mine)) /\ S \subseteq Steps(AllRuns)
            <4>1. S = Steps(WithTurns(mine)) /\ WithTurns(mine) \in SUBSET AllRuns
                BY <2>1, <3>1, RemainingSteps
            <4>2. QED
                BY <4>1 DEF Steps
        <3>6. /\ rows.weeks = weeks /\ rows.levels = levels /\ rows.rooms = rooms
              /\ rows.details = made
            OBVIOUS
        <3> HIDE DEF mine, weeks, levels, rooms, made, rows, S
        <3>7. IsFiniteSet(S) /\ IsFiniteSet(Offers(S)) /\ Stepped(S) /\ Timed(S) /\ NumbersTimed(S)
            BY <2>1, <3>5, StepsAreStepped
        <3>8. SummaryVerified(Remaining(mine), rows)
            BY <2>1, <3>1, <3>2, <3>4, <3>5, <3>6, SummaryPass
        <3>9. /\ FamiliesVerified(S, made.families) /\ TypesVerified(S, made.types)
              /\ ConditionalsVerified(S, made.conditionals) /\ NumbersVerified(S, made.numbers)
            BY <3>4, <3>7, FamiliesPass, TypesPass, ConditionalsPass, NumbersPass
        <3>10. Verified(Remaining(mine), rows)
            BY <3>6, <3>8, <3>9 DEF Verified, S
        <3>11. QED
            BY <3>10 DEF rows, weeks, levels, rooms, made, mine
    <2>3. QED
        BY <2>2 DEF VerificationPasses, SliceRows, TheirRows, Remaining
<1>2. QED
    BY <1>1, RootedHolds, PTL

-------------------------------------------------------------------------------
(* What the rollups answer.                                                *)

(* The weeks whose answers are settled, their rows, and the runs in them.  *)
Settled            == done \ disturbed
OfSettled(table)   == Without(table, LAMBDA k : k[2] \notin done \ disturbed)
ClosedRuns(pupils) == {r \in RunsOf(pupils) : r.week \in done \ disturbed}

(* What a query finds of a table is what was made of some turns.           *)
Finds(table, pupils, made) ==
    /\ InScope(table, pupils) = DOMAIN made
    /\ \A k \in DOMAIN made : table[k] = made[k]

LEMMA StepsOfPart ==
    ASSUME NEW A, NEW B \in SUBSET A, NEW P,
           \A r \in A : r \in B <=> <<r.student, r.week>> \in P
    PROVE  Steps(B) = RootedIn(Steps(A), P)
<1>1. \A R : \A s : s \in Steps(R) <=> \E r \in R : s \in {r} \X DOMAIN r.turns
    BY DEF Steps
<1>2. \A r : \A s \in {r} \X DOMAIN r.turns : s[1] = r
    OBVIOUS
<1>3. QED
    BY <1>1, <1>2 DEF RootedIn, RootOf

LEMMA AnswersFind ==
    ASSUME DetailsInv, NEW pupils, NEW table \in DOMAIN details
    PROVE  Finds(OfSettled(details[table]), pupils, Details(Steps(ClosedRuns(pupils)))[table])
<1> DEFINE all    == Details(Steps(AllRuns))[table]
           there  == details[table]
           closed == ClosedRuns(pupils)
           made   == Details(Steps(closed))[table]
           Q      == {<<r.student, r.week>> : r \in AllRuns}
           P      == {<<r.student, r.week>> : r \in closed}
<1>0. BaseInv /\ DOMAIN details = DOMAIN Details({}) /\ done \subseteq Weeks
    BY DEF DetailsInv, SummariesInv, BaseInv, Types, Details
<1>1. \A S : DOMAIN Details(S) = DOMAIN Details({})
    BY DEF Details
<1>2. \A k \in DOMAIN all : <<k[1], k[2]>> \in Q
    <2>1. \A s \in Steps(AllRuns) : <<s[1].student, s[1].week>> \in Q
        BY DEF Steps
    <2> HIDE DEF Q
    <2>2. QED
        BY <1>0, <1>1, <2>1, DetailsOfPupils
<1>3. ASSUME NEW w \in Settled
      PROVE  \A k : k[2] = w => /\ k \in DOMAIN there <=> k \in DOMAIN all
                                /\ k \in DOMAIN there => there[k] = all[k]
    <2> DEFINE R == {<<r.student, r.week>> : r \in Made(w)}
    <2>1. \A r : r \in Made(w) <=> r \in AllRuns /\ r.week = w
        BY <1>0, <1>3, MadeIs DEF Settled
    <2>2. Steps(Made(w)) = RootedIn(Steps(AllRuns), R)
        <3>1. Made(w) \in SUBSET AllRuns
            BY <2>1
        <3>2. \A r \in AllRuns : r \in Made(w) <=> <<r.student, r.week>> \in R
            BY <2>1
        <3> HIDE DEF R
        <3>3. QED
            BY <3>1, <3>2, StepsOfPart
    <2>3. OfWeek(there, w) = Details(Steps(Made(w)))[table]
        BY <1>0, <1>3 DEF DetailsInv, DetailRows, Settled
    <2>4. IsPart(OfWeek(there, w), all, R)
        BY <1>0, <2>2, <2>3, DetailsOfRoots
    <2>5. /\ DOMAIN OfWeek(there, w) = {k \in DOMAIN there : k[2] = w}
          /\ \A k \in DOMAIN OfWeek(there, w) : OfWeek(there, w)[k] = there[k]
        BY DEF OfWeek, Without
    <2>6. \A k \in DOMAIN all : <<k[1], k[2]>> \in R <=> k[2] = w
        <3>1. \A k : <<k[1], k[2]>> \in R => k[2] = w
            BY <2>1
        <3>2. \A k : <<k[1], k[2]>> \in Q /\ k[2] = w => <<k[1], k[2]>> \in R
            BY <2>1
        <3>3. QED
            BY <1>2, <3>1, <3>2
    <2> HIDE DEF all, there, R
    <2>7. QED
        BY <2>4, <2>5, <2>6 DEF IsPart, RowsIn
<1>4. closed \in SUBSET AllRuns /\ \A r \in AllRuns : r \in closed <=> r.student \in pupils /\ r.week \in Settled
    BY DEF ClosedRuns, RunsOf, Settled
<1>5. IsPart(made, all, P)
    <2>1. \A r \in AllRuns : r \in closed <=> <<r.student, r.week>> \in P
        BY <1>4
    <2> HIDE DEF P, closed
    <2>2. Steps(closed) = RootedIn(Steps(AllRuns), P)
        BY <1>4, <2>1, StepsOfPart
    <2>3. QED
        BY <1>0, <2>2, DetailsOfRoots
<1>6. \A k \in DOMAIN all : <<k[1], k[2]>> \in P <=> k[1] \in pupils /\ k[2] \in Settled
    <2>1. \A k : <<k[1], k[2]>> \in P => k[1] \in pupils /\ k[2] \in Settled
        BY <1>4
    <2>2. \A k : <<k[1], k[2]>> \in Q /\ k[1] \in pupils /\ k[2] \in Settled => <<k[1], k[2]>> \in P
        BY <1>4
    <2>3. QED
        BY <1>2, <2>1, <2>2
<1>7. /\ InScope(OfSettled(there), pupils) = {k \in DOMAIN there : k[1] \in pupils /\ k[2] \in Settled}
      /\ \A k \in InScope(OfSettled(there), pupils) : OfSettled(there)[k] = there[k]
    BY DEF OfSettled, Without, InScope, Settled
<1> HIDE DEF all, there, made, P
<1>8. QED
    BY <1>3, <1>5, <1>6, <1>7 DEF Finds, IsPart, RowsIn, there, made

-------------------------------------------------------------------------------
(* Extremes of rows are those of what the rows were made of.               *)
Image(g, A)   == {g[x] : x \in A}
LeastIn(g, A)  == IF A = {} THEN None ELSE Min(Image(g, A))
GreatestIn(g, A) == IF A = {} THEN None ELSE Max(Image(g, A))

LEMMA ImageExtremes ==
    ASSUME NEW X, IsFiniteSet(X), NEW g \in [X -> Int], NEW A \in SUBSET X, A # {}
    PROVE  /\ IsFiniteSet(Image(g, A)) /\ Image(g, A) # {} /\ Image(g, A) \subseteq Int
           /\ Min(Image(g, A)) \in Image(g, A) /\ \A x \in A : Min(Image(g, A)) <= g[x]
           /\ Max(Image(g, A)) \in Image(g, A) /\ \A x \in A : g[x] <= Max(Image(g, A))
<1> DEFINE V == Image(g, A)
<1>1. IsFiniteSet(A)
    BY FS_Subset
<1>2. IsFiniteSet({g[x] : x \in A})
    <2> DEFINE h == [x \in A |-> g[x]]
    <2>1. h \in [A -> Int]
        OBVIOUS
    <2>4. {g[x] : x \in A} = {h[x] : x \in A}
        OBVIOUS
    <2> HIDE DEF h
    <2>2. IsFiniteSet({h[x] : x \in A})
        BY <1>1, <2>1, ImageIsFinite, Zenon
    <2>3. QED
        BY <2>2, <2>4
<1>3. IsFiniteSet(V) /\ V # {} /\ V \subseteq Int /\ \A x \in A : g[x] \in V
    BY <1>2 DEF Image
<1> HIDE DEF V
<1>4. /\ Min(V) \in V /\ \A y \in V : Min(V) <= y
      /\ Max(V) \in V /\ \A y \in V : y <= Max(V)
    BY <1>3, Extremes
<1>5. QED
    BY <1>3, <1>4 DEF V

LEMMA ExtremesOfRows ==
    ASSUME NEW X, IsFiniteSet(X), NEW g \in [X -> Int], NEW key, NEW K, NEW least, NEW most,
           \A k \in K : /\ least[k] = LeastIn(g, Fibre(X, key, k))
                        /\ most[k] = GreatestIn(g, Fibre(X, key, k))
    PROVE  /\ LeastOf(Image(least, K)) = LeastIn(g, Fibres(X, key, K))
           /\ GreatestOf(Image(most, K)) = GreatestIn(g, Fibres(X, key, K))
<1> DEFINE A == Fibres(X, key, K)
           F(k) == Fibre(X, key, k)
           U == {least[k] : k \in K} \ {None}
           V == {most[k] : k \in K} \ {None}
<1>1. /\ A \in SUBSET X /\ \A k : F(k) \in SUBSET X
      /\ \A k \in K : \A x \in F(k) : x \in A
      /\ \A x \in A : \E k \in K : x \in F(k)
    BY DEF Fibre, Fibres
<1>2. /\ LeastOf(Image(least, K)) = IF U = {} THEN None ELSE Min(U)
      /\ GreatestOf(Image(most, K)) = IF V = {} THEN None ELSE Max(V)
    BY DEF LeastOf, GreatestOf, Image
<1>3. \A k \in K : F(k) # {} =>
          /\ least[k] \in Image(g, F(k)) /\ most[k] \in Image(g, F(k))
          /\ \A x \in F(k) : least[k] <= g[x] /\ g[x] <= most[k]
    BY <1>1, ImageExtremes DEF LeastIn, GreatestIn
<1>4. \A k \in K : F(k) = {} => least[k] = None /\ most[k] = None
    BY DEF LeastIn, GreatestIn
<1>5. None \notin Int /\ \A B \in SUBSET X : Image(g, B) \subseteq Int
    BY StatisticsAssumption DEF Image
<1>6. \A k \in K : least[k] \in U \/ F(k) = {}
    BY <1>1, <1>3, <1>5
<1>7. \A k \in K : most[k] \in V \/ F(k) = {}
    BY <1>1, <1>3, <1>5
<1>8. /\ \A y \in U : \E k \in K : F(k) # {} /\ y = least[k]
      /\ \A y \in V : \E k \in K : F(k) # {} /\ y = most[k]
    BY <1>4
<1> HIDE DEF U, V, F, A
<1>9. CASE A = {}
    <2>1. U = {} /\ V = {}
        BY <1>1, <1>8, <1>9
    <2>2. QED
        BY <1>2, <1>9, <2>1 DEF LeastIn, GreatestIn, A
<1>10. CASE A # {}
    <2> DEFINE I == Image(g, A)
    <2>1. /\ IsFiniteSet(I) /\ I \subseteq Int
          /\ Min(I) \in I /\ \A x \in A : Min(I) <= g[x]
          /\ Max(I) \in I /\ \A x \in A : g[x] <= Max(I)
        BY <1>1, <1>10, ImageExtremes
    <2>2. \A k \in K : \A y \in Image(g, F(k)) : y \in I
        BY <1>1 DEF Image
    <2>3. U \subseteq I /\ V \subseteq I
        BY <1>3, <1>8, <2>2
    <2>4. PICK k0 \in K : F(k0) # {}
        BY <1>1, <1>10
    <2>5. U # {} /\ V # {}
        BY <1>6, <1>7, <2>4
    <2>6. IsFiniteSet(U) /\ IsFiniteSet(V) /\ U \subseteq Int /\ V \subseteq Int
        BY <2>1, <2>3, FS_Subset
    <2>7. /\ Min(U) \in U /\ \A y \in U : Min(U) <= y
          /\ Max(V) \in V /\ \A y \in V : y <= Max(V)
        BY <2>5, <2>6, Extremes
    <2>8. PICK x \in A : Min(I) = g[x]
        BY <2>1 DEF Image
    <2>9. PICK z \in A : Max(I) = g[z]
        BY <2>1 DEF Image
    <2>10. \A y \in I : Min(I) <= y /\ y <= Max(I)
        BY <2>1 DEF Image
    <2> HIDE DEF I
    <2>11. Min(U) = Min(I)
        <3>1. PICK k \in K : x \in F(k)
            BY <1>1, <2>8
        <3>2. least[k] \in U /\ least[k] <= g[x]
            BY <1>3, <1>6, <3>1
        <3>3. /\ Min(U) <= least[k] /\ Min(I) <= Min(U) /\ least[k] \in Int /\ Min(U) \in Int
              /\ Min(I) \in Int
            BY <2>1, <2>3, <2>6, <2>7, <2>10, <3>2
        <3>4. QED
            BY <2>8, <3>2, <3>3
    <2>12. Max(V) = Max(I)
        <3>1. PICK k \in K : z \in F(k)
            BY <1>1, <2>9
        <3>2. most[k] \in V /\ g[z] <= most[k]
            BY <1>3, <1>7, <3>1
        <3>3. /\ most[k] <= Max(V) /\ Max(V) <= Max(I) /\ most[k] \in Int /\ Max(V) \in Int
              /\ Max(I) \in Int
            BY <2>1, <2>3, <2>6, <2>7, <2>10, <3>2
        <3>4. QED
            BY <2>9, <3>2, <3>3
    <2>13. QED
        BY <1>2, <1>10, <2>5, <2>11, <2>12 DEF LeastIn, GreatestIn, A, I
<1>11. QED
    BY <1>9, <1>10

-------------------------------------------------------------------------------
(* The answers from the rows by level.                                     *)

LEMMA LevelsFind ==
    ASSUME SummariesInv, NEW pupils
    PROVE  LET closed == ClosedRuns(pupils)
               levels == OfSettled(studentLevel)
           IN  /\ InScope(levels, pupils) = {<<r.student, r.week, r.level>> : r \in closed}
               /\ \A k \in InScope(levels, pupils) :
                     Matches(levels[k], Counters(LevelRuns(closed, k)))
<1> DEFINE closed == ClosedRuns(pupils)
           levels == OfSettled(studentLevel)
           fresh  == StudentLevels(AllRuns)
<1>1. \A r : r \in closed <=> r \in AllRuns /\ r.student \in pupils /\ r.week \in Settled
    BY DEF ClosedRuns, RunsOf, Settled
<1>2. /\ InScope(levels, pupils) = {k \in DOMAIN studentLevel : k[1] \in pupils /\ k[2] \in Settled}
      /\ \A k \in InScope(levels, pupils) : levels[k] = studentLevel[k]
    BY DEF OfSettled, Without, InScope, Settled
<1>3. /\ \A k \in DOMAIN studentLevel : k \in DOMAIN fresh /\ Matches(studentLevel[k], fresh[k])
      /\ \A k \in DOMAIN fresh \ DOMAIN studentLevel : k[2] \in disturbed
    BY DEF SummariesInv, Summaries, InStep
<1>4. DOMAIN fresh = {<<r.student, r.week, r.level>> : r \in AllRuns}
    BY TablesAre
<1>5. \A k \in DOMAIN fresh : fresh[k] = LevelRow(LevelRuns(AllRuns, k))
    BY TablesAre
<1> HIDE DEF closed, levels, fresh
<1>6. InScope(levels, pupils) = {<<r.student, r.week, r.level>> : r \in closed}
    BY <1>1, <1>2, <1>3, <1>4 DEF Settled
<1>7. \A k \in InScope(levels, pupils) : LevelRuns(AllRuns, k) = LevelRuns(closed, k)
    BY <1>1, <1>6 DEF LevelRuns
<1>8. \A k \in InScope(levels, pupils) : Matches(levels[k], LevelRow(LevelRuns(closed, k)))
    BY <1>2, <1>3, <1>5, <1>7
<1>9. \A k \in InScope(levels, pupils) : Matches(levels[k], Counters(LevelRuns(closed, k)))
    BY <1>8, PartsMatch
<1>10. QED
    BY <1>6, <1>9 DEF closed, levels

(* What the rows of a level come to together.                              *)
OfLevel(D, l)       == {k \in D : Level(k) = l}
RunsAt(A, l)        == {r \in A : r.level = l}
LevelKeys(A)        == {<<r.student, r.week, r.level>> : r \in A}
Shortest(levels, K) == LeastOf({levels[k].elapsed.min : k \in K})
Longest(levels, K)  == GreatestOf({levels[k].elapsed.max : k \in K})

LEMMA LevelSums ==
    ASSUME NEW closed, Countable(closed), NEW levels,
           \A k \in LevelKeys(closed) : Matches(levels[k], Counters(LevelRuns(closed, k))), NEW l
    PROVE  LET K == OfLevel(LevelKeys(closed), l)
               R == RunsAt(closed, l)
           IN  /\ Totals(levels, K) = InTotal(R)
               /\ R # {} => /\ Shortest(levels, K) = Min(Values(R, "elapsed"))
                            /\ Longest(levels, K) = Max(Values(R, "elapsed"))
<1> DEFINE D == LevelKeys(closed)
           K == OfLevel(D, l)
           R == RunsAt(closed, l)
           key == [r \in closed |-> <<r.student, r.week, r.level>>]
           g == [r \in closed |-> r.elapsed]
           least == [k \in K |-> levels[k].elapsed.min]
           most  == [k \in K |-> levels[k].elapsed.max]
<1>1. \A k : LevelRuns(closed, k) = Fibre(closed, key, k)
    BY DEF LevelRuns, Fibre
<1>2. D = {key[r] : r \in closed} /\ key = [r \in closed |-> key[r]] /\ K \in SUBSET D
    BY DEF OfLevel, LevelKeys
<1>3. R = Fibres(closed, key, K)
    BY DEF Fibres, OfLevel, Level, LevelKeys, RunsAt
<1>4. IsFiniteSet(closed) /\ g \in [closed -> Int]
    BY DEF Countable, Measured
<1>5. \A A \in SUBSET closed : Values(A, "elapsed") = Image(g, A)
    BY DEF Values, Image
<1>6. /\ {levels[k].elapsed.min : k \in K} = {least[k] : k \in K}
      /\ {levels[k].elapsed.max : k \in K} = {most[k] : k \in K}
    OBVIOUS
<1>7. \A k \in K : least[k] = levels[k].elapsed.min /\ most[k] = levels[k].elapsed.max
    OBVIOUS
<1> HIDE DEF K, R, key, g, least, most
<1>8. IsFiniteSet(K)
    BY <1>2, <1>4, KeysAreFinite
<1>9. \A k \in K : Matches(levels[k], Counters(Fibre(closed, key, k)))
    BY <1>1, <1>2
<1>10. Totals(levels, K) = InTotal(R)
    BY <1>3, <1>8, <1>9, RowsAddUp
<1>11. \A k : Fibre(closed, key, k) \in SUBSET closed
    BY DEF Fibre
<1>12. \A k \in K : levels[k].elapsed = Stat(Fibre(closed, key, k), "elapsed")
    BY <1>9, CountersAre DEF Matches
<1>13. \A k \in K : /\ least[k] = LeastIn(g, Fibre(closed, key, k))
                    /\ most[k] = GreatestIn(g, Fibre(closed, key, k))
    <2>1. \A A \in SUBSET closed : /\ Stat(A, "elapsed").min = LeastIn(g, A)
                                   /\ Stat(A, "elapsed").max = GreatestIn(g, A)
        BY <1>5 DEF Stat, LeastIn, GreatestIn
    <2>2. QED
        BY <1>7, <1>11, <1>12, <2>1
<1>14. /\ LeastOf(Image(least, K)) = LeastIn(g, R)
       /\ GreatestOf(Image(most, K)) = GreatestIn(g, R)
    BY <1>3, <1>4, <1>13, ExtremesOfRows
<1>15. R \in SUBSET closed
    BY <1>3 DEF Fibres
<1>16. QED
    BY <1>5, <1>6, <1>10, <1>14, <1>15 DEF LeastIn, GreatestIn, Shortest, Longest, Image, K, R, D

LEMMA LevelAnswers ==
    ASSUME SummariesInv, NEW pupils
    PROVE  LET closed == ClosedRuns(pupils)
               levels == OfSettled(studentLevel)
               moved  == RollupWrongMovesRateByLevel(levels, pupils)
               times  == RollupTimeDistributionByLevel(levels, pupils)
           IN  /\ RollupWinRateByLevel(levels, pupils) = WinRateByLevel(closed)
               /\ DOMAIN moved = DOMAIN WrongMovesRateByLevel(closed)
               /\ \A l \in DOMAIN moved : LET a == moved[l]
                                              b == WrongMovesRateByLevel(closed)[l]
                                          IN  <<a.correct, a.wrong, a.moves>> = <<b.correct, b.wrong, b.moves>>
               /\ DOMAIN times = DOMAIN TimeDistributionByLevel(closed)
               /\ \A l \in DOMAIN times : LET a == times[l]
                                              b == TimeDistributionByLevel(closed)[l]
                                          IN  <<a.avg, a.min, a.max, a.runs>> = <<b.avg, b.min, b.max, b.runs>>
<1> DEFINE closed == ClosedRuns(pupils)
           levels == OfSettled(studentLevel)
           D      == InScope(levels, pupils)
           R(l)   == RunsAt(closed, l)
           K(l)   == OfLevel(D, l)
           L      == {r.level : r \in closed}
           played(l)    == SumFunction([k \in K(l) |-> levels[k].runs])
           wins(l)    == SumFunction([k \in K(l) |-> levels[k].wins])
           correct(l) == SumFunction([k \in K(l) |-> levels[k].correct])
           wrong(l)   == SumFunction([k \in K(l) |-> levels[k].wrong])
           sum(l)     == SumFunction([k \in K(l) |-> levels[k].elapsed.sum])
           count(l)   == SumFunction([k \in K(l) |-> levels[k].elapsed.count])
           least(l)   == Shortest(levels, K(l))
           most(l)    == Longest(levels, K(l))
           moved  == RollupWrongMovesRateByLevel(levels, pupils)
           times  == RollupTimeDistributionByLevel(levels, pupils)
<1>1. Countable(closed)
    <2>1. closed \in SUBSET AllRuns /\ Countable(AllRuns)
        BY RunsCountable DEF SummariesInv, ClosedRuns, RunsOf
    <2>2. QED
        BY <2>1, PartCountable
<1>2. /\ D = {<<r.student, r.week, r.level>> : r \in closed}
      /\ \A k \in D : Matches(levels[k], Counters(LevelRuns(closed, k)))
    BY LevelsFind
<1>3. {Level(k) : k \in D} = L
    <2>1. D = LevelKeys(closed)
        BY <1>2 DEF LevelKeys
    <2> HIDE DEF D, closed
    <2>2. ASSUME NEW r \in closed
          PROVE  \E k \in D : Level(k) = r.level
        <3>1. <<r.student, r.week, r.level>> \in D
            BY <2>1 DEF LevelKeys
        <3>2. QED
            BY <3>1 DEF Level
    <2>3. ASSUME NEW k \in D
          PROVE  \E r \in closed : Level(k) = r.level
        BY <2>1 DEF Level, LevelKeys
    <2>4. QED
        BY <2>2, <2>3
<1>4. /\ \A l : Totals(levels, K(l)) = InTotal(R(l))
      /\ \A l \in L : least(l) = Min(Values(R(l), "elapsed")) /\ most(l) = Max(Values(R(l), "elapsed"))
    <2>1. \A l \in L : R(l) # {}
        BY DEF RunsAt
    <2>2. D = LevelKeys(closed)
        BY <1>2 DEF LevelKeys
    <2>3. \A k \in D : Matches(levels[k], Counters(LevelRuns(closed, k)))
        BY <1>2
    <2> HIDE DEF D, closed, levels, L
    <2>4. ASSUME NEW l
          PROVE  /\ Totals(levels, K(l)) = InTotal(R(l))
                 /\ R(l) # {} => /\ least(l) = Min(Values(R(l), "elapsed"))
                                 /\ most(l) = Max(Values(R(l), "elapsed"))
        BY <1>1, <2>2, <2>3, LevelSums
    <2> HIDE DEF K, R, least, most
    <2>5. QED
        BY <2>1, <2>4
<1>5. \A l : /\ played(l) = Cardinality(R(l)) /\ wins(l) = Cardinality({r \in R(l) : r.won})
             /\ correct(l) = Column(R(l), "correct") /\ wrong(l) = Column(R(l), "wrong")
             /\ sum(l) = Column(R(l), "elapsed") /\ count(l) = Cardinality(R(l))
    <2> HIDE DEF D, closed, levels, R, K
    <2>1. QED
        BY <1>4 DEF Totals, InTotal
<1>6. RollupWinRateByLevel(levels, pupils) = WinRateByLevel(closed)
    <2>1. RollupWinRateByLevel(levels, pupils) =
              [l \in {Level(k) : k \in D} |-> [runs |-> played(l), wins |-> wins(l),
                                               rate |-> Percent(wins(l), played(l))]]
        BY DEF RollupWinRateByLevel, Grouped, SumRows, SumOf, OfLevel
    <2>2. WinRateByLevel(closed) =
              [l \in L |-> [runs |-> Cardinality(R(l)), wins |-> Cardinality({r \in R(l) : r.won}),
                            rate |-> Percent(Cardinality({r \in R(l) : r.won}), Cardinality(R(l)))]]
        BY DEF WinRateByLevel, Grouped, RunLevel, RunsAt
    <2> HIDE DEF played, wins, R, L, D
    <2>3. QED
        BY <1>3, <1>5, <2>1, <2>2
<1>7. /\ DOMAIN moved = DOMAIN WrongMovesRateByLevel(closed)
      /\ \A l \in DOMAIN moved : LET a == moved[l]
                                     b == WrongMovesRateByLevel(closed)[l]
                                 IN  <<a.correct, a.wrong, a.moves>> = <<b.correct, b.wrong, b.moves>>
    <2>1. moved = [l \in {Level(k) : k \in D} |->
                      [correct |-> correct(l), wrong |-> wrong(l), moves |-> correct(l) + wrong(l),
                       rate |-> Percent(wrong(l), correct(l) + wrong(l))]]
        BY DEF RollupWrongMovesRateByLevel, Grouped, SumRows, SumOf, OfLevel
    <2> DEFINE c(l) == Column(R(l), "correct")
               w(l) == Column(R(l), "wrong")
    <2>2. WrongMovesRateByLevel(closed) =
              [l \in L |-> [correct |-> c(l), wrong |-> w(l), moves |-> c(l) + w(l),
                            rate |-> IF c(l) + w(l) = 0 THEN None ELSE Percent(w(l), c(l) + w(l))]]
        BY DEF WrongMovesRateByLevel, Grouped, RunLevel, SumOf, Column, RunsAt
    <2>3. \A l : correct(l) = c(l) /\ wrong(l) = w(l)
        BY <1>5
    <2> HIDE DEF correct, wrong, c, w, L, D, moved
    <2>4. QED
        BY <1>3, <2>1, <2>2, <2>3
<1>8. /\ DOMAIN times = DOMAIN TimeDistributionByLevel(closed)
      /\ \A l \in DOMAIN times : LET a == times[l]
                                     b == TimeDistributionByLevel(closed)[l]
                                 IN  <<a.avg, a.min, a.max, a.runs>> = <<b.avg, b.min, b.max, b.runs>>
    <2> DEFINE squares(l) == SumFunction([k \in K(l) |-> levels[k].elapsed.squares])
               rolled(l) == [sum |-> sum(l), count |-> count(l), squares |-> squares(l),
                             min |-> least(l), max |-> most(l)]
               raw(l) == Stat(R(l), "elapsed")
               variance(l) == <<raw(l).count * raw(l).squares - raw(l).sum * raw(l).sum,
                                raw(l).count * raw(l).count>>
    <2>1. times = [l \in {Level(k) : k \in D} |->
                      [avg |-> Average(rolled(l)), min |-> least(l), max |-> most(l),
                       variance |-> Variance(rolled(l)), runs |-> count(l)]]
        BY DEF RollupTimeDistributionByLevel, Grouped, SumStats, SumRows, SumOf, OfLevel,
               Shortest, Longest
    <2>2. TimeDistributionByLevel(closed) =
              [l \in L |-> [avg |-> Average(raw(l)), min |-> raw(l).min, max |-> raw(l).max,
                            variance |-> variance(l), runs |-> raw(l).count]]
        BY DEF TimeDistributionByLevel, Grouped, RunLevel, SumOf, Column, StatOf, Stat, Squares,
               Values, RunsAt
    <2>3. \A l \in L : /\ raw(l).sum = sum(l) /\ raw(l).count = count(l)
                       /\ raw(l).min = least(l) /\ raw(l).max = most(l)
        <3>1. \A l \in L : R(l) # {}
            BY DEF RunsAt
        <3> HIDE DEF R, L, sum, count, least, most
        <3>2. QED
            BY <1>4, <1>5, <3>1 DEF Stat
    <2>4. \A l : rolled(l).sum = sum(l) /\ rolled(l).count = count(l)
        OBVIOUS
    <2> HIDE DEF sum, count, least, most, raw, rolled, variance, L, D, times
    <2>5. \A l \in L : Average(rolled(l)) = Average(raw(l))
        BY <2>3, <2>4 DEF Average
    <2>6. QED
        BY <1>3, <2>1, <2>2, <2>3, <2>5
<1>9. QED
    BY <1>6, <1>7, <1>8

-------------------------------------------------------------------------------
(* Rows that a query joins: those whose keys agree in what it asks for add *)
(* up to what there is under what it asks for.                             *)
Through(key, by) == [x \in DOMAIN key |-> by[key[x]]]

LEMMA RowsThrough ==
    ASSUME NEW key, NEW D, IsFiniteSet(D), \A x \in DOMAIN key : key[x] \in D, NEW by, NEW j
    PROVE  /\ Fibre(D, by, j) \in SUBSET D /\ IsFiniteSet(Fibre(D, by, j))
           /\ Fibres(DOMAIN key, key, Fibre(D, by, j)) = Fibre(DOMAIN key, Through(key, by), j)
<1>1. Fibre(D, by, j) \in SUBSET D
    BY DEF Fibre
<1>2. IsFiniteSet(Fibre(D, by, j))
    BY <1>1, FS_Subset
<1>3. Fibres(DOMAIN key, key, Fibre(D, by, j)) = Fibre(DOMAIN key, Through(key, by), j)
    BY DEF Fibre, Fibres, Through
<1>4. QED
    BY <1>1, <1>2, <1>3

LEMMA CountsThrough ==
    ASSUME NEW key, IsFiniteSet(DOMAIN key), NEW D, IsFiniteSet(D),
           \A x \in DOMAIN key : key[x] \in D, NEW by, NEW row,
           \A k \in D : row[k] = Cardinality(Fibre(DOMAIN key, key, k)), NEW j
    PROVE  SumFunction([k \in Fibre(D, by, j) |-> row[k]]) =
               Cardinality(Fibre(DOMAIN key, Through(key, by), j))
<1> DEFINE K == Fibre(D, by, j)
           X == DOMAIN key
<1>1. K \in SUBSET D /\ IsFiniteSet(K) /\ Fibres(X, key, K) = Fibre(X, Through(key, by), j)
    BY RowsThrough
<1>2. IsFiniteSet(X) /\ \A k \in D : row[k] = Cardinality(Fibre(X, key, k))
    OBVIOUS
<1> HIDE DEF K, X
<1>3. \A k \in K : row[k] = Cardinality(Fibre(X, key, k))
    BY <1>1, <1>2
<1>4. SumFunction([k \in K |-> row[k]]) = Cardinality(Fibres(X, key, K))
    BY <1>1, <1>2, <1>3, CountOfRows
<1>5. QED
    BY <1>1, <1>4 DEF K, X

LEMMA SumsThrough ==
    ASSUME NEW key, IsFiniteSet(DOMAIN key), NEW g \in [DOMAIN key -> Int], NEW D, IsFiniteSet(D),
           \A x \in DOMAIN key : key[x] \in D, NEW by, NEW row,
           \A k \in D : row[k] = SumIn(g, Fibre(DOMAIN key, key, k)), NEW j
    PROVE  SumFunction([k \in Fibre(D, by, j) |-> row[k]]) =
               SumIn(g, Fibre(DOMAIN key, Through(key, by), j))
<1> DEFINE K == Fibre(D, by, j)
           X == DOMAIN key
<1>1. K \in SUBSET D /\ IsFiniteSet(K) /\ Fibres(X, key, K) = Fibre(X, Through(key, by), j)
    BY RowsThrough
<1>2. IsFiniteSet(X) /\ g \in [X -> Int] /\ \A k \in D : row[k] = SumIn(g, Fibre(X, key, k))
    OBVIOUS
<1> HIDE DEF K, X
<1>3. \A k \in K : row[k] = SumIn(g, Fibre(X, key, k))
    BY <1>1, <1>2
<1>4. SumFunction([k \in K |-> row[k]]) = SumIn(g, Fibres(X, key, K))
    BY <1>1, <1>2, <1>3, SumOfRows
<1>5. QED
    BY <1>1, <1>4 DEF K, X

LEMMA ExtremesThrough ==
    ASSUME NEW key, IsFiniteSet(DOMAIN key), NEW g \in [DOMAIN key -> Int], NEW D, IsFiniteSet(D),
           \A x \in DOMAIN key : key[x] \in D, NEW by, NEW least, NEW most,
           \A k \in D : /\ least[k] = LeastIn(g, Fibre(DOMAIN key, key, k))
                        /\ most[k] = GreatestIn(g, Fibre(DOMAIN key, key, k)),
           NEW j
    PROVE  /\ LeastOf(Image(least, Fibre(D, by, j))) =
                  LeastIn(g, Fibre(DOMAIN key, Through(key, by), j))
           /\ GreatestOf(Image(most, Fibre(D, by, j))) =
                  GreatestIn(g, Fibre(DOMAIN key, Through(key, by), j))
<1> DEFINE K == Fibre(D, by, j)
           X == DOMAIN key
<1>1. K \in SUBSET D /\ Fibres(X, key, K) = Fibre(X, Through(key, by), j)
    BY RowsThrough
<1>2. /\ IsFiniteSet(X) /\ g \in [X -> Int]
      /\ \A k \in D : /\ least[k] = LeastIn(g, Fibre(X, key, k))
                      /\ most[k] = GreatestIn(g, Fibre(X, key, k))
    OBVIOUS
<1> HIDE DEF K, X
<1>3. \A k \in K : /\ least[k] = LeastIn(g, Fibre(X, key, k))
                   /\ most[k] = GreatestIn(g, Fibre(X, key, k))
    BY <1>1, <1>2
<1>4. /\ LeastOf(Image(least, K)) = LeastIn(g, Fibres(X, key, K))
      /\ GreatestOf(Image(most, K)) = GreatestIn(g, Fibres(X, key, K))
    BY ONLY <1>2, <1>3, ExtremesOfRows
<1>5. QED
    BY <1>1, <1>4 DEF K, X

(* Counts by a key, and by the level and the thing that the key names.     *)
Keys(key)     == {key[x] : x \in DOMAIN key}
CountBy(key)  == [k \in Keys(key) |-> Cardinality(Fibre(DOMAIN key, key, k))]
LevelsOf(key) == [x \in DOMAIN key |-> LevelAnd(key[x])]

LEMMA KeysFinite ==
    ASSUME NEW key, key = [x \in DOMAIN key |-> key[x]], IsFiniteSet(DOMAIN key)
    PROVE  IsFiniteSet(Keys(key)) /\ \A x \in DOMAIN key : key[x] \in Keys(key)
<1>1. Keys(key) = {key[x] : x \in DOMAIN key} /\ Keys(key) \in SUBSET Keys(key)
    BY DEF Keys
<1>2. IsFiniteSet(Keys(key))
    BY <1>1, KeysAreFinite
<1>3. QED
    BY <1>2 DEF Keys

LEMMA CountsAnswer ==
    ASSUME NEW key, key = [x \in DOMAIN key |-> key[x]], IsFiniteSet(DOMAIN key),
           NEW table, NEW pupils, Finds(table, pupils, CountBy(key))
    PROVE  RollupCounts(table, pupils) = CountBy(LevelsOf(key))
<1> DEFINE D  == InScope(table, pupils)
           by == [k \in D |-> LevelAnd(k)]
           rows(j) == SumFunction([k \in Fibre(D, by, j) |-> table[k]])
<1>1. D = Keys(key) /\ \A k \in D : table[k] = Cardinality(Fibre(DOMAIN key, key, k))
    BY DEF Finds, CountBy
<1>2. IsFiniteSet(D) /\ \A x \in DOMAIN key : key[x] \in D
    BY <1>1, KeysFinite
<1>3. RollupCounts(table, pupils) = [j \in {LevelAnd(k) : k \in D} |-> rows(j)]
    <2>1. \A j : Fibre(D, by, j) = {k \in D : LevelAnd(k) = j}
        BY DEF Fibre
    <2>2. RollupCounts(table, pupils) =
              [j \in {LevelAnd(k) : k \in D} |-> SumFunction([k \in {k \in D : LevelAnd(k) = j} |-> table[k]])]
        BY DEF RollupCounts, Grouped, SumRows, SumOf
    <2> HIDE DEF D, by
    <2>3. QED
        BY <2>1, <2>2
<1>4. Through(key, by) = LevelsOf(key)
    BY <1>2 DEF Through, LevelsOf
<1>5. {LevelAnd(k) : k \in D} = Keys(LevelsOf(key))
    BY <1>1 DEF Keys, LevelsOf
<1> HIDE DEF D, by
<1>6. \A j : rows(j) = Cardinality(Fibre(DOMAIN key, LevelsOf(key), j))
    BY <1>1, <1>2, <1>4, CountsThrough
<1>7. DOMAIN LevelsOf(key) = DOMAIN key
    BY DEF LevelsOf
<1> HIDE DEF rows
<1>8. QED
    BY <1>3, <1>5, <1>6, <1>7 DEF CountBy

-------------------------------------------------------------------------------
(* The answers that are counts.                                            *)

LEMMA HotspotsAnswer ==
    ASSUME NEW S, IsFiniteSet(S), NEW table, NEW pupils, Finds(table, pupils, Hotspots(S))
    PROVE  RollupCounts(table, pupils) = MistakeHotspotsByLevel(S)
<1> DEFINE key == [s \in Mistakes(S) |-> At(s, Turn(s).from)]
           byLevel == [s \in Mistakes(S) |-> <<StepLevel(s), Turn(s).from>>]
<1>1. Hotspots(S) = CountBy(key)
    BY DEF Hotspots, Grouped, CountBy, Keys, Fibre
<1>2. LevelsOf(key) = byLevel
    BY DEF LevelsOf, LevelAnd, At, StepLevel
<1>3. MistakeHotspotsByLevel(S) = CountBy(byLevel)
    BY DEF MistakeHotspotsByLevel, Grouped, CountBy, Keys, Fibre
<1>4. key = [s \in DOMAIN key |-> key[s]] /\ IsFiniteSet(DOMAIN key)
    BY FS_Subset DEF Mistakes
<1> HIDE DEF key, byLevel
<1>5. QED
    BY <1>1, <1>2, <1>3, <1>4, CountsAnswer

(* What each of finitely many has, if it is finitely much, is finite.      *)
LEMMA OfsAreFinite ==
    ASSUME NEW S, IsFiniteSet(S), NEW of, \A s \in S : IsFiniteSet(of[s])
    PROVE  IsFiniteSet(UNION {{s} \X of[s] : s \in S})
<1> DEFINE pairs == [s \in S |-> {s} \X of[s]]
           U == {pairs[s] : s \in S}
<1>1. \A s \in S : IsFiniteSet({s} \X of[s])
    BY CountOfPairs
<1>2. \A T \in U : IsFiniteSet(T)
    BY <1>1
<1>3. pairs \in [S -> U]
    OBVIOUS
<1> HIDE DEF pairs
<1>4. IsFiniteSet({pairs[s] : s \in S})
    <2> HIDE DEF U
    <2>1. QED
        BY <1>3, ImageIsFinite, Zenon
<1>5. IsFiniteSet(UNION U)
    BY <1>2, <1>4, FS_UNION
<1>6. QED
    BY <1>5 DEF pairs

LEMMA ChainIs ==
    ASSUME BaseInv, NEW s \in Steps(AllRuns)
    PROVE  /\ Len(Turn(s).chain) \in Nat /\ IsFiniteSet(DOMAIN Turn(s).chain)
           /\ Turn(s).chain = <<>> <=> Len(Turn(s).chain) = 0
<1>1. PICK sent : WellFormedTurn(sent) /\ Turn(s) = StoredTurn(sent)
    BY TurnIs
<1>2. Turn(s).chain = [i \in DOMAIN sent.chain |-> sent.chain[i].kind]
    BY <1>1 DEF StoredTurn
<1>3. Len(sent.chain) \in Nat /\ DOMAIN sent.chain = 1 .. Len(sent.chain)
    BY <1>1 DEF WellFormedTurn, IsList
<1> DEFINE c == [i \in 1 .. Len(sent.chain) |-> sent.chain[i].kind]
           K == {sent.chain[i].kind : i \in 1 .. Len(sent.chain)}
<1>4. c \in Seq(K) /\ Turn(s).chain = c
    BY <1>2, <1>3
<1> HIDE DEF c
<1>5. \A seq \in Seq(K) : /\ Len(seq) \in Nat /\ DOMAIN seq = 1 .. Len(seq)
                          /\ seq = <<>> <=> Len(seq) = 0
    OBVIOUS
<1>6. IsFiniteSet(1 .. Len(Turn(s).chain))
    BY <1>4, <1>5, FS_Interval
<1>7. QED
    BY <1>4, <1>5, <1>6

LEMMA TilesAnswer ==
    ASSUME BaseInv, NEW S, S \subseteq Steps(AllRuns),
           NEW table, NEW pupils, Finds(table, pupils, SpecialTiles(S))
    PROVE  RollupCounts(table, pupils) = SpecialTileBreakdown(S)
<1> DEFINE X   == Ofs(S, LAMBDA s : DOMAIN Turn(s).chain)
           of  == [s \in S |-> DOMAIN Turn(s).chain]
           key == [e \in X |-> At(e[1], Turn(e[1]).chain[e[2]])]
           byLevel == [e \in X |-> <<StepLevel(e[1]), Turn(e[1]).chain[e[2]]>>]
<1>1. SpecialTiles(S) = CountBy(key)
    BY DEF SpecialTiles, Grouped, CountBy, Keys, Fibre
<1>2. LevelsOf(key) = byLevel
    BY DEF LevelsOf, LevelAnd, At, StepLevel
<1>3. SpecialTileBreakdown(S) = CountBy(byLevel)
    BY DEF SpecialTileBreakdown, Grouped, CountBy, Keys, Fibre
<1>4. IsFiniteSet(X)
    <2>1. X = UNION {{s} \X of[s] : s \in S}
        BY DEF Ofs
    <2>2. \A s \in S : IsFiniteSet(of[s])
        BY ChainIs
    <2>3. IsFiniteSet(S)
        BY StepsAreStepped
    <2> HIDE DEF of, X
    <2>4. QED
        BY <2>1, <2>2, <2>3, OfsAreFinite
<1>5. key = [e \in DOMAIN key |-> key[e]] /\ DOMAIN key = X
    OBVIOUS
<1> HIDE DEF key, byLevel, X
<1>6. QED
    BY <1>1, <1>2, <1>3, <1>4, <1>5, CountsAnswer

LEMMA BacksAnswer ==
    ASSUME NEW S, IsFiniteSet(S), Stepped(S),
           NEW table, NEW pupils, Finds(table, pupils, BackUsage(S))
    PROVE  RollupCounts(table, pupils) = BackCardUsageByPlace(S)
<1> DEFINE X   == {s \in S : CardFamily(Turn(s)) = "back"}
           key == [s \in X |-> At(s, Turn(s).rank)]
           byLevel == [s \in X |-> <<StepLevel(s), Turn(s).rank>>]
<1>1. BackUsage(S) = CountBy(key)
    BY DEF BackUsage, Grouped, CountBy, Keys, Fibre
<1>2. LevelsOf(key) = byLevel
    BY DEF LevelsOf, LevelAnd, At, StepLevel
<1>3. {s \in S : Turn(s).family = "back"} = X
    BY ColumnsAre
<1>4. BackCardUsageByPlace(S) = CountBy(byLevel)
    <2> HIDE DEF X
    <2>1. QED
        BY <1>3 DEF BackCardUsageByPlace, Grouped, CountBy, Keys, Fibre
<1>5. key = [s \in DOMAIN key |-> key[s]] /\ DOMAIN key = X /\ IsFiniteSet(X)
    BY FS_Subset
<1> HIDE DEF key, byLevel, X
<1>6. QED
    BY <1>1, <1>2, <1>4, <1>5, CountsAnswer

LEMMA NumbersAnswer ==
    ASSUME NEW S, IsFiniteSet(S), NEW found, NEW pupils,
           Finds(found.numbers, pupils, NumberChoices(S))
    PROVE  RollupNumberChoices(found, pupils) = NumberChoicesByLevel(S)
<1> DEFINE X    == WithNumber(S)
           key  == [s \in X |-> At(s, Turn(s).number)]
           byLevel == [s \in X |-> <<StepLevel(s), Turn(s).number>>]
           D    == InScope(found.numbers, pupils)
           counts == [k \in D |-> found.numbers[k].count]
<1>1. /\ DOMAIN NumberChoices(S) = Keys(key)
      /\ \A k \in Keys(key) : NumberChoices(S)[k].count = Cardinality(Fibre(X, key, k))
    BY DEF NumberChoices, Grouped, Keys, Fibre, WithNumber
<1>2. LevelsOf(key) = byLevel
    BY DEF LevelsOf, LevelAnd, At, StepLevel
<1>3. NumberChoicesByLevel(S) = CountBy(byLevel)
    BY DEF NumberChoicesByLevel, Numbered, WithNumber, Grouped, CountBy, Keys, Fibre
<1>4. key = [s \in DOMAIN key |-> key[s]] /\ DOMAIN key = X /\ IsFiniteSet(X)
    BY FS_Subset DEF WithNumber
<1>5. InScope(counts, pupils) = D
    BY DEF InScope
<1>6. RollupNumberChoices(found, pupils) = RollupCounts(counts, pupils)
    <2> DEFINE part(j) == {k \in D : LevelAnd(k) = j}
    <2>1. RollupNumberChoices(found, pupils) =
              [j \in {LevelAnd(k) : k \in D} |-> SumFunction([k \in part(j) |-> found.numbers[k].count])]
        BY DEF RollupNumberChoices, Grouped, SumRows, SumOf
    <2>2. RollupCounts(counts, pupils) =
              [j \in {LevelAnd(k) : k \in D} |-> SumFunction([k \in part(j) |-> counts[k]])]
        <3> HIDE DEF D, counts
        <3>1. QED
            BY <1>5 DEF RollupCounts, Grouped, SumRows, SumOf
    <2>3. \A j : [k \in part(j) |-> found.numbers[k].count] = [k \in part(j) |-> counts[k]]
        OBVIOUS
    <2> HIDE DEF D, counts, part
    <2>4. QED
        BY <2>1, <2>2, <2>3
<1>7. Finds(counts, pupils, CountBy(key))
    <2>1. D = Keys(key) /\ \A k \in D : found.numbers[k] = NumberChoices(S)[k]
        BY <1>1 DEF Finds
    <2>2. \A k \in D : counts[k] = found.numbers[k].count
        OBVIOUS
    <2> HIDE DEF D, counts, key
    <2>3. QED
        BY <1>1, <1>4, <1>5, <2>1, <2>2 DEF Finds, CountBy
<1> HIDE DEF key, byLevel, X, counts
<1>8. QED
    BY <1>2, <1>3, <1>4, <1>6, <1>7, CountsAnswer

(* The turns of a level that triggered nothing are those that are left     *)
(* when the others are taken away.                                         *)
LEMMA ChainsAnswer ==
    ASSUME BaseInv, NEW S, S \subseteq Steps(AllRuns),
           NEW table, NEW pupils, Finds(table, pupils, ChainLengths(S))
    PROVE  RollupCounts(table, pupils) = ChainLengthsByLevel(S)
<1> DEFINE key     == [s \in S |-> At(s, Len(Turn(s).chain))]
           byLevel == [s \in S |-> <<StepLevel(s), Len(Turn(s).chain)>>]
           T == {s \in S : Turn(s).chain # <<>>}
           of(j) == {s \in T : <<StepLevel(s), Len(Turn(s).chain)>> = j}
           J == {<<StepLevel(s), Len(Turn(s).chain)>> : s \in T}
           all(l)  == {s \in S : StepLevel(s) = l}
           some(l) == {s \in S : StepLevel(s) = l /\ Turn(s).chain # <<>>}
           left(l) == Cardinality(all(l)) - Cardinality(some(l))
           L == {l \in {StepLevel(s) : s \in S} : left(l) > 0}
           Z == {<<l, 0>> : l \in L}
           a == [j \in J |-> Cardinality(of(j))]
           b == [j \in Z |-> left(j[1])]
<1>1. ChainLengths(S) = CountBy(key)
    BY DEF ChainLengths, Grouped, CountBy, Keys, Fibre
<1>2. LevelsOf(key) = byLevel
    BY DEF LevelsOf, LevelAnd, At, StepLevel
<1>3. ChainLengthsByLevel(S) = a ++ b
    BY DEF ChainLengthsByLevel, Grouped
<1>4. IsFiniteSet(S)
    BY StepsAreStepped
<1>5. \A s \in S : Len(Turn(s).chain) \in Nat /\ (s \in T <=> Len(Turn(s).chain) # 0)
    BY ChainIs
<1>6. \A l : /\ left(l) = Cardinality(all(l) \ some(l))
             /\ left(l) > 0 <=> \E s \in S : StepLevel(s) = l /\ s \notin T
    <2> SUFFICES ASSUME NEW l
                 PROVE  /\ left(l) = Cardinality(all(l) \ some(l))
                        /\ left(l) > 0 <=> \E s \in S : StepLevel(s) = l /\ s \notin T
        OBVIOUS
    <2>1. all(l) \in SUBSET S /\ some(l) \in SUBSET all(l) /\ all(l) \intersect some(l) = some(l)
        OBVIOUS
    <2>2. \A s : s \in all(l) \ some(l) <=> s \in S /\ StepLevel(s) = l /\ s \notin T
        OBVIOUS
    <2> DEFINE A == all(l)
               B == some(l)
    <2> HIDE DEF all, some, T
    <2>3. IsFiniteSet(A)
        BY <1>4, <2>1, FS_Subset
    <2>4. IsFiniteSet(B)
        BY <2>1, <2>3, FS_Subset
    <2> HIDE DEF A, B
    <2>5. IsFiniteSet(A \ B) /\ Cardinality(A \ B) = Cardinality(A) - Cardinality(A \intersect B)
        BY <2>3, FS_Difference
    <2>6. Cardinality(A \ B) \in Nat /\ (Cardinality(A \ B) = 0 <=> A \ B = {})
        BY <2>5, FS_CardinalityType, FS_EmptySet
    <2>7. QED
        BY <2>1, <2>2, <2>5, <2>6 DEF A, B
<1>7. \A j \in J : j[2] # 0
    BY <1>5
<1>8. \A j \in Z : j = <<j[1], 0>>
    <2> HIDE DEF L
    <2>1. QED
        OBVIOUS
<1>9. DOMAIN (a ++ b) = Keys(byLevel)
    <2>1. Keys(byLevel) = {<<StepLevel(s), Len(Turn(s).chain)>> : s \in S}
        BY DEF Keys
    <2>2. ASSUME NEW s \in S
          PROVE  <<StepLevel(s), Len(Turn(s).chain)>> \in J \union Z
        <3>1. CASE s \in T
            BY <3>1
        <3>2. CASE s \notin T
            <4>1. Len(Turn(s).chain) = 0
                BY <1>5, <3>2
            <4>2. StepLevel(s) \in L
                BY <1>6, <3>2
            <4> HIDE DEF L
            <4>3. QED
                BY <4>1, <4>2
        <3>3. QED
            BY <3>1, <3>2
    <2>3. ASSUME NEW j \in J
          PROVE  \E s \in S : j = <<StepLevel(s), Len(Turn(s).chain)>>
        OBVIOUS
    <2>4. ASSUME NEW j \in Z
          PROVE  \E s \in S : j = <<StepLevel(s), Len(Turn(s).chain)>>
        <3>1. PICK l \in L : j = <<l, 0>>
            OBVIOUS
        <3>2. PICK s \in S : StepLevel(s) = l /\ s \notin T
            BY <1>6
        <3>3. QED
            BY <1>5, <3>1, <3>2
    <2>5. DOMAIN (a ++ b) = J \union Z
        BY DEF ++
    <2> HIDE DEF J, Z, a, b
    <2>6. QED
        BY <2>1, <2>2, <2>3, <2>4, <2>5
<1>10. ASSUME NEW j \in Keys(byLevel)
       PROVE  (a ++ b)[j] = Cardinality(Fibre(S, byLevel, j))
    <2>1. j \in J \union Z
        BY <1>9 DEF ++
    <2>2. CASE j \in J
        <3>1. (a ++ b)[j] = Cardinality(of(j))
            BY <2>2 DEF ++
        <3>2. \A s \in S : byLevel[s] = j => Len(Turn(s).chain) # 0
            BY <1>7, <2>2
        <3>3. of(j) = Fibre(S, byLevel, j)
            BY <1>5, <3>2 DEF Fibre
        <3>4. QED
            BY <3>1, <3>3
    <2>3. CASE j \in Z
        <3>1. j \notin J /\ j = <<j[1], 0>>
            BY <1>7, <1>8, <2>3
        <3>2. (a ++ b)[j] = left(j[1])
            <4> HIDE DEF J, Z, left, of
            <4>1. QED
                BY <2>3, <3>1 DEF ++
        <3>3. all(j[1]) \ some(j[1]) = Fibre(S, byLevel, j)
            BY <1>5, <3>1 DEF Fibre
        <3>4. QED
            BY <1>6, <3>2, <3>3
    <2>4. QED
        BY <2>1, <2>2, <2>3
<1>11. ChainLengthsByLevel(S) = CountBy(byLevel)
    <2>1. DOMAIN byLevel = S
        OBVIOUS
    <2>2. a ++ b = [j \in DOMAIN (a ++ b) |-> (a ++ b)[j]]
        BY DEF ++
    <2> HIDE DEF a, b, byLevel
    <2>3. QED
        BY <1>3, <1>9, <1>10, <2>1, <2>2 DEF CountBy
<1>12. key = [s \in DOMAIN key |-> key[s]] /\ DOMAIN key = S
    OBVIOUS
<1> HIDE DEF key, byLevel
<1>13. QED
    BY <1>1, <1>2, <1>4, <1>11, <1>12, CountsAnswer

-------------------------------------------------------------------------------
(* The answers about times.                                                *)

(* What a row says of some times.                                          *)
StatIs(stat, g, A) ==
    /\ stat.sum = SumIn(g, A) /\ stat.count = Cardinality(A)
    /\ stat.min = LeastIn(g, A) /\ stat.max = GreatestIn(g, A)

JoinedStat(stat, K) ==
    [sum |-> SumFunction([k \in K |-> stat[k].sum]), count |-> SumFunction([k \in K |-> stat[k].count]),
     min |-> LeastOf({stat[k].min : k \in K}), max |-> GreatestOf({stat[k].max : k \in K})]

LEMMA StatsThrough ==
    ASSUME NEW key, IsFiniteSet(DOMAIN key), NEW g \in [DOMAIN key -> Int], NEW D, IsFiniteSet(D),
           \A x \in DOMAIN key : key[x] \in D, NEW by, NEW stat,
           \A k \in D : StatIs(stat[k], g, Fibre(DOMAIN key, key, k)), NEW j
    PROVE  StatIs(JoinedStat(stat, Fibre(D, by, j)), g, Fibre(DOMAIN key, Through(key, by), j))
<1> DEFINE K == Fibre(D, by, j)
           A == Fibre(DOMAIN key, Through(key, by), j)
           sum   == [k \in D |-> stat[k].sum]
           count == [k \in D |-> stat[k].count]
           least == [k \in D |-> stat[k].min]
           most  == [k \in D |-> stat[k].max]
<1>1. K \in SUBSET D
    BY DEF Fibre
<1>2. /\ [k \in K |-> sum[k]] = [k \in K |-> stat[k].sum]
      /\ [k \in K |-> count[k]] = [k \in K |-> stat[k].count]
      /\ Image(least, K) = {stat[k].min : k \in K} /\ Image(most, K) = {stat[k].max : k \in K}
    <2> HIDE DEF K
    <2>1. QED
        BY <1>1 DEF Image
<1>3. \A k \in D : sum[k] = SumIn(g, Fibre(DOMAIN key, key, k))
    BY DEF StatIs
<1>4. \A k \in D : count[k] = Cardinality(Fibre(DOMAIN key, key, k))
    BY DEF StatIs
<1>5. \A k \in D : /\ least[k] = LeastIn(g, Fibre(DOMAIN key, key, k))
                   /\ most[k] = GreatestIn(g, Fibre(DOMAIN key, key, k))
    BY DEF StatIs
<1> HIDE DEF sum, count, least, most
<1>6. SumFunction([k \in K |-> sum[k]]) = SumIn(g, A)
    BY <1>3, SumsThrough
<1>7. SumFunction([k \in K |-> count[k]]) = Cardinality(A)
    BY <1>4, CountsThrough
<1>8. LeastOf(Image(least, K)) = LeastIn(g, A) /\ GreatestOf(Image(most, K)) = GreatestIn(g, A)
    BY <1>5, ExtremesThrough
<1> HIDE DEF K, A
<1>9. StatIs(JoinedStat(stat, K), g, A)
    BY <1>2, <1>6, <1>7, <1>8 DEF StatIs, JoinedStat
<1>10. QED
    BY <1>9 DEF K, A

(* The same times have the same average.                                   *)
LEMMA SameAverage ==
    ASSUME NEW a, NEW b, NEW g, NEW A, StatIs(a, g, A), StatIs(b, g, A)
    PROVE  Average(a) = Average(b)
BY DEF StatIs, Average

TimesOf(X)       == [s \in X |-> Time(s)]
NumberTimesOf(X) == [s \in X |-> NumberTime(s)]

LEMMA TimeStats ==
    ASSUME NEW X, NEW A \in SUBSET X
    PROVE  /\ StatIs(StatOf(A, Time), TimesOf(X), A)
           /\ StatIs(StatOf(A, NumberTime), NumberTimesOf(X), A)
<1>1. /\ [s \in A |-> TimesOf(X)[s]] = [s \in A |-> Time(s)]
      /\ [s \in A |-> NumberTimesOf(X)[s]] = [s \in A |-> NumberTime(s)]
      /\ Image(TimesOf(X), A) = {Time(s) : s \in A}
      /\ Image(NumberTimesOf(X), A) = {NumberTime(s) : s \in A}
    BY DEF TimesOf, NumberTimesOf, Image
<1>2. StatIs(StatOf(A, Time), TimesOf(X), A)
    BY <1>1 DEF StatIs, StatOf, SumOf, SumIn, LeastIn, GreatestIn
<1>3. StatIs(StatOf(A, NumberTime), NumberTimesOf(X), A)
    BY <1>1 DEF StatIs, StatOf, SumOf, SumIn, LeastIn, GreatestIn
<1>4. QED
    BY <1>2, <1>3

(* The average of the times to choose a number, wherever all are known.    *)
LEMMA NumberTimesAnswer ==
    ASSUME NEW S, IsFiniteSet(S), NumbersTimed(S), NEW found, NEW pupils,
           Finds(found.numbers, pupils, NumberChoices(S))
    PROVE  LET rolled == RollupNumberDecisionTime(found, pupils)
               raw    == NumberDecisionTime(S)
           IN  /\ DOMAIN rolled = DOMAIN raw
               /\ \A j \in DOMAIN raw :
                     /\ rolled[j].count = raw[j].count
                     /\ raw[j].timed = raw[j].count => raw[j].avg = rolled[j].avg
<1> DEFINE X    == WithNumber(S)
           key  == [s \in X |-> At(s, Turn(s).number)]
           byLevel == [s \in X |-> <<StepLevel(s), Turn(s).number>>]
           g    == NumberTimesOf(X)
           D    == InScope(found.numbers, pupils)
           by   == [k \in D |-> LevelAnd(k)]
           stat == [k \in D |-> found.numbers[k].time]
           all(j) == JoinedStat(stat, Fibre(D, by, j))
           A(j) == Fibre(X, byLevel, j)
           timed(j) == {s \in A(j) : Turn(s).numberTime # None}
           rolled == RollupNumberDecisionTime(found, pupils)
           raw    == NumberDecisionTime(S)
<1>1. /\ DOMAIN NumberChoices(S) = Keys(key)
      /\ \A k \in Keys(key) : NumberChoices(S)[k].time = StatOf(Fibre(X, key, k), NumberTime)
    BY DEF NumberChoices, Grouped, Keys, Fibre, WithNumber
<1>2. D = Keys(key) /\ \A k \in D : stat[k] = StatOf(Fibre(X, key, k), NumberTime)
    <2>1. D = Keys(key) /\ \A k \in D : found.numbers[k] = NumberChoices(S)[k]
        BY <1>1 DEF Finds
    <2>2. \A k \in D : stat[k] = found.numbers[k].time
        OBVIOUS
    <2> HIDE DEF key, X, D, stat
    <2>3. QED
        BY <1>1, <2>1, <2>2
<1>3. key = [s \in DOMAIN key |-> key[s]] /\ DOMAIN key = X /\ IsFiniteSet(X)
    BY FS_Subset DEF WithNumber
<1>4. g \in [X -> Int]
    BY DEF NumbersTimed, NumberTimesOf, WithNumber
<1>5. /\ DOMAIN rolled = {LevelAnd(k) : k \in D}
      /\ \A j \in DOMAIN rolled : rolled[j].count = all(j).count /\ rolled[j].avg = Average(all(j))
    <2> DEFINE K(j) == {k \in D : LevelAnd(k) = j}
               sums(j) == SumStats(found.numbers, K(j), LAMBDA v : v.time)
    <2>1. \A j : Fibre(D, by, j) = K(j) /\ K(j) \subseteq D
        BY DEF Fibre
    <2>2. /\ DOMAIN rolled = {LevelAnd(k) : k \in D}
          /\ \A j \in DOMAIN rolled : rolled[j].count = sums(j).count /\ rolled[j].avg = Average(sums(j))
        BY DEF RollupNumberDecisionTime, Grouped
    <2>3. \A j : /\ sums(j).sum = SumFunction([k \in K(j) |-> found.numbers[k].time.sum])
                 /\ sums(j).count = SumFunction([k \in K(j) |-> found.numbers[k].time.count])
        BY DEF SumStats, SumRows, SumOf
    <2>4. \A j : /\ [k \in K(j) |-> found.numbers[k].time.sum] = [k \in K(j) |-> stat[k].sum]
                 /\ [k \in K(j) |-> found.numbers[k].time.count] = [k \in K(j) |-> stat[k].count]
        OBVIOUS
    <2> HIDE DEF K, D, sums, by, stat, rolled
    <2>5. \A j : sums(j).sum = all(j).sum /\ sums(j).count = all(j).count
        BY <2>1, <2>3, <2>4 DEF JoinedStat
    <2>6. QED
        BY <2>2, <2>5 DEF Average
<1>6. /\ DOMAIN raw = Keys(byLevel)
      /\ \A j \in DOMAIN raw : /\ raw[j].count = Cardinality(A(j))
                               /\ raw[j].timed = Cardinality(timed(j))
                               /\ raw[j].avg = Average(StatOf(timed(j), NumberTime))
    BY DEF NumberDecisionTime, Numbered, WithNumber, Grouped, Keys, Fibre
<1>7. Through(key, by) = byLevel /\ {LevelAnd(k) : k \in D} = Keys(byLevel)
    <2>1. byLevel = [s \in X |-> LevelAnd(key[s])]
        BY DEF LevelAnd, At, StepLevel
    <2>2. \A s \in X : key[s] \in D
        BY <1>2, <1>3, KeysFinite
    <2>3. {LevelAnd(k) : k \in Keys(key)} = Keys(byLevel)
        <3> HIDE DEF X
        <3>1. QED
            BY <2>1 DEF Keys
    <2> HIDE DEF D
    <2>4. QED
        BY <1>2, <2>1, <2>2, <2>3 DEF Through
<1>8. \A j : A(j) \in SUBSET X /\ timed(j) \in SUBSET A(j)
    BY DEF Fibre
<1> HIDE DEF X, key, byLevel, D, by, stat, g, timed, rolled, raw
<1>9. IsFiniteSet(D) /\ \A s \in X : key[s] \in D
    BY <1>2, <1>3, KeysFinite
<1>10. \A k \in D : StatIs(stat[k], g, Fibre(X, key, k))
    <2>1. \A k : Fibre(X, key, k) \in SUBSET X
        BY DEF Fibre
    <2>2. QED
        BY <1>2, <2>1, TimeStats DEF g
<1>11. \A j : StatIs(all(j), g, A(j))
    BY <1>3, <1>4, <1>7, <1>9, <1>10, StatsThrough
<1> HIDE DEF all, A
<1>12. \A j : timed(j) = A(j) => StatIs(StatOf(timed(j), NumberTime), g, A(j))
    BY <1>8, TimeStats DEF g
<1>13. \A j : Cardinality(timed(j)) = Cardinality(A(j)) => timed(j) = A(j)
    <2>1. \A j : IsFiniteSet(A(j))
        BY <1>3, <1>8, FS_Subset
    <2>2. QED
        BY <1>8, <2>1, FS_Subset
<1>14. \A j : timed(j) = A(j) => Average(StatOf(timed(j), NumberTime)) = Average(all(j))
    BY <1>11, <1>12, SameAverage
<1>15. \A j : all(j).count = Cardinality(A(j))
    BY <1>11 DEF StatIs
<1>16. QED
    BY <1>5, <1>6, <1>7, <1>13, <1>14, <1>15 DEF rolled, raw

(* What the analytics read of a stored turn's card are its columns.        *)
LEMMA CardIs ==
    ASSUME NEW S, Stepped(S), NEW s \in S
    PROVE  /\ Card(s).type = CardType(Turn(s)) /\ Card(s).family = CardFamily(Turn(s))
           /\ Card(s).tile = CardTile(Turn(s))
<1>1. PICK sent : Turn(s) = StoredTurn(sent)
    BY DEF Stepped
<1>2. <<CardType(Turn(s)), CardFamily(Turn(s)), CardTile(Turn(s))>> =
          <<Card(s).type, Card(s).family, Card(s).tile>>
    BY <1>1, StoredTurnReadsAlike DEF Card
<1>3. QED
    BY <1>2

LEMMA TypesAnswer ==
    ASSUME NEW S, IsFiniteSet(S), Stepped(S), Timed(S), NEW found, NEW pupils,
           Finds(found.types, pupils, CardTypes(S))
    PROVE  LET rolled == RollupDecisionTimeByCardType(found, pupils).summary
               raw    == DecisionTimeByCardType(S)
           IN  /\ DOMAIN rolled = DOMAIN raw
               /\ \A j \in DOMAIN rolled : LET a == rolled[j]
                                               b == raw[j]
                                           IN  <<a.total, a.min, a.max>> = <<b.total, b.min, b.max>>
<1> DEFINE key  == [s \in S |-> At(s, CardType(Turn(s)))]
           type == [s \in S |-> CardType(Turn(s))]
           g    == TimesOf(S)
           D    == InScope(found.types, pupils)
           by   == [k \in D |-> OnlyThird(k)]
           stat == [k \in D |-> found.types[k].time]
           all(j) == JoinedStat(stat, Fibre(D, by, j))
           A(j) == Fibre(S, type, j)
           rolled == RollupDecisionTimeByCardType(found, pupils).summary
           raw    == DecisionTimeByCardType(S)
<1>1. /\ DOMAIN CardTypes(S) = Keys(key)
      /\ \A k \in Keys(key) : CardTypes(S)[k].time = StatOf(Fibre(S, key, k), Time)
    BY DEF CardTypes, Grouped, Keys, Fibre
<1>2. D = Keys(key) /\ \A k \in D : stat[k] = StatOf(Fibre(S, key, k), Time)
    <2>1. D = Keys(key) /\ \A k \in D : found.types[k] = CardTypes(S)[k]
        BY <1>1 DEF Finds
    <2>2. \A k \in D : stat[k] = found.types[k].time
        OBVIOUS
    <2> HIDE DEF key, D, stat
    <2>3. QED
        BY <1>1, <2>1, <2>2
<1>3. key = [s \in DOMAIN key |-> key[s]] /\ DOMAIN key = S
    OBVIOUS
<1>4. g \in [S -> Int]
    BY DEF Timed, TimesOf
<1>5. /\ DOMAIN rolled = {OnlyThird(k) : k \in D}
      /\ \A j \in DOMAIN rolled : /\ rolled[j].total = all(j).count
                                  /\ rolled[j].min = all(j).min /\ rolled[j].max = all(j).max
    <2> DEFINE K(j) == {k \in D : OnlyThird(k) = j}
               sums(j) == SumStats(found.types, K(j), LAMBDA v : v.time)
    <2>1. \A j : Fibre(D, by, j) = K(j) /\ K(j) \subseteq D
        BY DEF Fibre
    <2>2. rolled = [j \in {OnlyThird(k) : k \in D} |-> SerializedDecisionTime(found.types, K(j))]
        BY DEF RollupDecisionTimeByCardType, Grouped
    <2>3. \A j : /\ SerializedDecisionTime(found.types, K(j)).total = sums(j).count
                 /\ SerializedDecisionTime(found.types, K(j)).min = sums(j).min
                 /\ SerializedDecisionTime(found.types, K(j)).max = sums(j).max
        BY DEF SerializedDecisionTime
    <2>4. \A j : /\ sums(j).count = SumFunction([k \in K(j) |-> found.types[k].time.count])
                 /\ sums(j).min = LeastOf({found.types[k].time.min : k \in K(j)})
                 /\ sums(j).max = GreatestOf({found.types[k].time.max : k \in K(j)})
        BY DEF SumStats, SumRows, SumOf
    <2>5. \A j : /\ [k \in K(j) |-> found.types[k].time.count] = [k \in K(j) |-> stat[k].count]
                 /\ {found.types[k].time.min : k \in K(j)} = {stat[k].min : k \in K(j)}
                 /\ {found.types[k].time.max : k \in K(j)} = {stat[k].max : k \in K(j)}
        OBVIOUS
    <2> HIDE DEF K, D, sums, by, stat, rolled
    <2>6. \A j : all(j) = JoinedStat(stat, K(j))
        BY ONLY <2>1
    <2>7. \A j : /\ JoinedStat(stat, K(j)).count = SumFunction([k \in K(j) |-> stat[k].count])
                 /\ JoinedStat(stat, K(j)).min = LeastOf({stat[k].min : k \in K(j)})
                 /\ JoinedStat(stat, K(j)).max = GreatestOf({stat[k].max : k \in K(j)})
        BY ONLY DEF JoinedStat
    <2> HIDE DEF all
    <2>8. ASSUME NEW j
          PROVE  sums(j).count = all(j).count /\ sums(j).min = all(j).min /\ sums(j).max = all(j).max
        <3>1. sums(j).count = all(j).count
            BY <2>4, <2>5, <2>6, <2>7
        <3>2. sums(j).min = all(j).min
            BY <2>4, <2>5, <2>6, <2>7
        <3>3. sums(j).max = all(j).max
            BY <2>4, <2>5, <2>6, <2>7
        <3>4. QED
            BY <3>1, <3>2, <3>3
    <2>9. QED
        BY <2>2, <2>3, <2>8
<1>6. /\ DOMAIN raw = Keys(type)
      /\ \A j \in DOMAIN raw : /\ raw[j].total = Cardinality(A(j))
                               /\ raw[j].min = StatOf(A(j), Time).min
                               /\ raw[j].max = StatOf(A(j), Time).max
    <2>1. \A s \in S : Card(s).type = CardType(Turn(s))
        BY CardIs
    <2>2. /\ DOMAIN raw = {Card(s).type : s \in S}
          /\ \A j \in DOMAIN raw : raw[j] = SummaryStats({s \in S : Card(s).type = j})
        BY DEF DecisionTimeByCardType, Grouped
    <2>3. {Card(s).type : s \in S} = Keys(type) /\ \A j : {s \in S : Card(s).type = j} = A(j)
        BY <2>1 DEF Keys, Fibre
    <2>4. \A T : /\ SummaryStats(T).total = Cardinality(T) /\ SummaryStats(T).min = StatOf(T, Time).min
                 /\ SummaryStats(T).max = StatOf(T, Time).max
        BY DEF SummaryStats
    <2> HIDE DEF raw, A, type
    <2>5. QED
        BY <2>2, <2>3, <2>4
<1>7. Through(key, by) = type /\ {OnlyThird(k) : k \in D} = Keys(type)
    <2>1. type = [s \in S |-> OnlyThird(key[s])]
        BY DEF OnlyThird, At
    <2>2. \A s \in S : key[s] \in D
        BY <1>2, <1>3, KeysFinite
    <2>3. {OnlyThird(k) : k \in Keys(key)} = Keys(type)
        BY <2>1 DEF Keys
    <2> HIDE DEF D
    <2>4. QED
        BY <1>2, <2>1, <2>2, <2>3 DEF Through
<1>8. \A j : A(j) \in SUBSET S
    BY DEF Fibre
<1> HIDE DEF key, type, D, by, stat, g, rolled, raw
<1>9. IsFiniteSet(D) /\ \A s \in S : key[s] \in D
    BY <1>2, <1>3, KeysFinite
<1>10. \A k \in D : StatIs(stat[k], g, Fibre(S, key, k))
    <2>1. \A k : Fibre(S, key, k) \in SUBSET S
        BY DEF Fibre
    <2>2. QED
        BY <1>2, <2>1, TimeStats DEF g
<1>11. \A j : StatIs(all(j), g, A(j))
    BY <1>3, <1>4, <1>7, <1>9, <1>10, StatsThrough
<1> HIDE DEF all, A
<1>12. \A j : StatIs(StatOf(A(j), Time), g, A(j))
    BY <1>8, TimeStats DEF g
<1>13. \A j : /\ all(j).count = Cardinality(A(j))
              /\ all(j).min = StatOf(A(j), Time).min /\ all(j).max = StatOf(A(j), Time).max
    BY <1>11, <1>12 DEF StatIs
<1>14. QED
    BY <1>5, <1>6, <1>7, <1>13 DEF rolled, raw

-------------------------------------------------------------------------------
(* The answers from the rows by family: some are of families that were     *)
(* offered and never chosen.                                               *)
ChosenKeys(A)  == [s \in A |-> ChosenKey(s)]
OfferedKeys(O) == [e \in O |-> OfferedKey(e)]
Rights(S)      == S \ Mistakes(S)

SumColumn(table, c, K) == SumFunction([k \in K |-> table[k][c]])
TimeColumn(table, D)   == [k \in D |-> table[k].time]

LEMMA FamilyRowsAre ==
    ASSUME NEW S, IsFiniteSet(S), IsFiniteSet(Offers(S)), Timed(S)
    PROVE  LET D == DOMAIN CardFamilies(S)
               O == Offers(S)
               row(k) == CardFamilies(S)[k]
           IN  /\ IsFiniteSet(D) /\ (\A s \in S : ChosenKey(s) \in D) /\ (\A e \in O : OfferedKey(e) \in D)
               /\ \A k \in D : \/ \E s \in S : k = ChosenKey(s)
                               \/ \E e \in O : k = OfferedKey(e)
               /\ \A k \in D :
                     /\ row(k)["offered"] = Cardinality(Fibre(O, OfferedKeys(O), k))
                     /\ row(k)["chosen"] = Cardinality(Fibre(S, ChosenKeys(S), k))
                     /\ row(k)["wrong"] = Cardinality(Fibre(Mistakes(S), ChosenKeys(Mistakes(S)), k))
                     /\ row(k)["correct"] = Cardinality(Fibre(Rights(S), ChosenKeys(Rights(S)), k))
                     /\ StatIs(row(k).time, TimesOf(S), Fibre(S, ChosenKeys(S), k))
<1> DEFINE D == DOMAIN CardFamilies(S)
           O == Offers(S)
           row(k) == CardFamilies(S)[k]
           of(k) == {s \in S : ChosenKey(s) = k}
<1>1. D = {ChosenKey(s) : s \in S} \union {OfferedKey(e) : e \in O}
    BY DEF CardFamilies, Offers, OfferedKey, ChosenKey
<1>2. \A k \in D :
          /\ row(k)["offered"] = Cardinality({e \in O : OfferedKey(e) = k})
          /\ row(k)["chosen"] = Cardinality(of(k))
          /\ row(k)["wrong"] = Cardinality(Mistakes(of(k)))
          /\ row(k)["correct"] = Cardinality(of(k) \ Mistakes(of(k)))
          /\ row(k).time = StatOf(of(k), Time)
    BY DEF CardFamilies, Offers, OfferedKey, ChosenKey
<1>3. \A k : /\ {e \in O : OfferedKey(e) = k} = Fibre(O, OfferedKeys(O), k)
             /\ of(k) = Fibre(S, ChosenKeys(S), k)
             /\ Mistakes(of(k)) = Fibre(Mistakes(S), ChosenKeys(Mistakes(S)), k)
             /\ of(k) \ Mistakes(of(k)) = Fibre(Rights(S), ChosenKeys(Rights(S)), k)
    BY DEF Fibre, Mistakes, ChosenKeys, OfferedKeys, Rights
<1>4. \A k : StatIs(StatOf(of(k), Time), TimesOf(S), of(k))
    BY TimeStats
<1>5. IsFiniteSet(D)
    <2>1. /\ ChosenKeys(S) = [s \in DOMAIN ChosenKeys(S) |-> ChosenKeys(S)[s]]
          /\ DOMAIN ChosenKeys(S) = S /\ Keys(ChosenKeys(S)) = {ChosenKey(s) : s \in S}
        BY DEF ChosenKeys, Keys
    <2>2. /\ OfferedKeys(O) = [e \in DOMAIN OfferedKeys(O) |-> OfferedKeys(O)[e]]
          /\ DOMAIN OfferedKeys(O) = O /\ Keys(OfferedKeys(O)) = {OfferedKey(e) : e \in O}
        BY DEF OfferedKeys, Keys
    <2>3. D = Keys(ChosenKeys(S)) \union Keys(OfferedKeys(O))
        BY <1>1, <2>1, <2>2
    <2>4. IsFiniteSet(Keys(ChosenKeys(S)))
        BY <2>1, KeysFinite
    <2>5. IsFiniteSet(Keys(OfferedKeys(O)))
        BY <2>2, KeysFinite
    <2>6. QED
        BY <2>3, <2>4, <2>5, FS_Union
<1> HIDE DEF D, O, row, of
<1>6. QED
    BY <1>1, <1>2, <1>3, <1>4, <1>5 DEF D, O, row

(* What the rows that agree in something add up to.                        *)
LEMMA FamiliesJoined ==
    ASSUME NEW S, IsFiniteSet(S), IsFiniteSet(Offers(S)), Timed(S), NEW table, NEW D,
           D = DOMAIN CardFamilies(S), \A k \in D : table[k] = CardFamilies(S)[k], NEW by, NEW j
    PROVE  LET K == Fibre(D, by, j)
               M == Mistakes(S)
               N == Rights(S)
               O == Offers(S)
           IN  /\ SumColumn(table, "offered", K) = Cardinality(Fibre(O, Through(OfferedKeys(O), by), j))
               /\ SumColumn(table, "chosen", K) = Cardinality(Fibre(S, Through(ChosenKeys(S), by), j))
               /\ SumColumn(table, "wrong", K) = Cardinality(Fibre(M, Through(ChosenKeys(M), by), j))
               /\ SumColumn(table, "correct", K) = Cardinality(Fibre(N, Through(ChosenKeys(N), by), j))
               /\ StatIs(JoinedStat(TimeColumn(table, D), K), TimesOf(S),
                         Fibre(S, Through(ChosenKeys(S), by), j))
<1> DEFINE K == Fibre(D, by, j)
           M == Mistakes(S)
           N == Rights(S)
           O == Offers(S)
           o == [k \in D |-> table[k]["offered"]]
           c == [k \in D |-> table[k]["chosen"]]
           w == [k \in D |-> table[k]["wrong"]]
           r == [k \in D |-> table[k]["correct"]]
           t == TimeColumn(table, D)
<1>1. IsFiniteSet(D) /\ (\A s \in S : ChosenKey(s) \in D) /\ (\A e \in O : OfferedKey(e) \in D)
    BY FamilyRowsAre
<1>2. \A k \in D : /\ o[k] = Cardinality(Fibre(O, OfferedKeys(O), k))
                   /\ c[k] = Cardinality(Fibre(S, ChosenKeys(S), k))
                   /\ w[k] = Cardinality(Fibre(M, ChosenKeys(M), k))
                   /\ r[k] = Cardinality(Fibre(N, ChosenKeys(N), k))
                   /\ StatIs(t[k], TimesOf(S), Fibre(S, ChosenKeys(S), k))
    BY FamilyRowsAre DEF TimeColumn
<1>3. K \subseteq D
    BY DEF Fibre
<1>4. /\ SumColumn(table, "offered", K) = SumFunction([k \in K |-> o[k]])
      /\ SumColumn(table, "chosen", K) = SumFunction([k \in K |-> c[k]])
      /\ SumColumn(table, "wrong", K) = SumFunction([k \in K |-> w[k]])
      /\ SumColumn(table, "correct", K) = SumFunction([k \in K |-> r[k]])
    <2>1. /\ [k \in K |-> table[k]["offered"]] = [k \in K |-> o[k]]
          /\ [k \in K |-> table[k]["chosen"]] = [k \in K |-> c[k]]
          /\ [k \in K |-> table[k]["wrong"]] = [k \in K |-> w[k]]
          /\ [k \in K |-> table[k]["correct"]] = [k \in K |-> r[k]]
        <3> HIDE DEF K
        <3>1. QED
            BY <1>3
    <2>2. QED
        BY <2>1 DEF SumColumn
<1>5. /\ M \subseteq S /\ N \subseteq S /\ DOMAIN OfferedKeys(O) = O
      /\ \A e \in O : OfferedKeys(O)[e] = OfferedKey(e)
      /\ \A A : DOMAIN ChosenKeys(A) = A /\ \A s \in A : ChosenKeys(A)[s] = ChosenKey(s)
    BY DEF Mistakes, Rights, OfferedKeys, ChosenKeys
<1>6. IsFiniteSet(O)
    OBVIOUS
<1> HIDE DEF M, N, O, o, c, w, r, t
<1>7. IsFiniteSet(M) /\ IsFiniteSet(N)
    BY <1>5, FS_Subset
<1>8. SumFunction([k \in K |-> o[k]]) = Cardinality(Fibre(O, Through(OfferedKeys(O), by), j))
    <2>1. \A k \in D : o[k] = Cardinality(Fibre(O, OfferedKeys(O), k))
        BY <1>2
    <2>2. QED
        BY <1>1, <1>5, <1>6, <2>1, CountsThrough
<1>9. \A A \in SUBSET S : IsFiniteSet(A) /\ \A s \in A : ChosenKeys(A)[s] \in D
    BY <1>1, <1>5, FS_Subset
<1>10. SumFunction([k \in K |-> c[k]]) = Cardinality(Fibre(S, Through(ChosenKeys(S), by), j))
    <2>1. \A k \in D : c[k] = Cardinality(Fibre(S, ChosenKeys(S), k))
        BY <1>2
    <2>2. QED
        BY <1>1, <1>5, <1>9, <2>1, CountsThrough
<1>11. SumFunction([k \in K |-> w[k]]) = Cardinality(Fibre(M, Through(ChosenKeys(M), by), j))
    <2>1. \A k \in D : w[k] = Cardinality(Fibre(M, ChosenKeys(M), k))
        BY <1>2
    <2>2. QED
        BY <1>1, <1>5, <1>7, <1>9, <2>1, CountsThrough
<1>12. SumFunction([k \in K |-> r[k]]) = Cardinality(Fibre(N, Through(ChosenKeys(N), by), j))
    <2>1. \A k \in D : r[k] = Cardinality(Fibre(N, ChosenKeys(N), k))
        BY <1>2
    <2>2. QED
        BY <1>1, <1>5, <1>7, <1>9, <2>1, CountsThrough
<1>13. StatIs(JoinedStat(t, K), TimesOf(S), Fibre(S, Through(ChosenKeys(S), by), j))
    <2>1. \A k \in D : StatIs(t[k], TimesOf(S), Fibre(S, ChosenKeys(S), k))
        BY <1>2
    <2>2. TimesOf(S) \in [S -> Int]
        BY DEF Timed, TimesOf
    <2>3. QED
        BY <1>1, <1>5, <1>9, <2>1, <2>2, StatsThrough
<1>14. QED
    BY <1>4, <1>8, <1>10, <1>11, <1>12, <1>13 DEF M, N, O, t

(* By level and family, as the analytics group the turns and the offers.   *)
Taken(S, j)   == {s \in S : <<StepLevel(s), Card(s).family>> = j}
Given(O, j)   == {e \in O : <<StepLevel(e[1]), ParseCard(Turn(e[1]).offered[e[2]]).family>> = j}
TakenAt(S, l) == {s \in S : StepLevel(s) = l}
GivenAt(O, l) == {e \in O : StepLevel(e[1]) = l}
RowsOf(D, j)  == Fibre(D, [k \in D |-> LevelAnd(k)], j)
Peers(D, l)   == Fibre(D, [k \in D |-> Level(k)], l)

LEMMA FamilyGroups ==
    ASSUME NEW S, IsFiniteSet(S), IsFiniteSet(Offers(S)), Timed(S), Stepped(S), NEW table, NEW D,
           D = DOMAIN CardFamilies(S), \A k \in D : table[k] = CardFamilies(S)[k]
    PROVE  /\ \A j : LET K == RowsOf(D, j)
                         T == Taken(S, j)
                     IN  /\ SumColumn(table, "offered", K) = Cardinality(Given(Offers(S), j))
                         /\ SumColumn(table, "chosen", K) = Cardinality(T)
                         /\ SumColumn(table, "wrong", K) = Cardinality(Mistakes(T))
                         /\ SumColumn(table, "correct", K) = Cardinality(T \ Mistakes(T))
                         /\ StatIs(JoinedStat(TimeColumn(table, D), K), TimesOf(S), T)
           /\ \A l : /\ SumColumn(table, "offered", Peers(D, l)) = Cardinality(GivenAt(Offers(S), l))
                     /\ SumColumn(table, "chosen", Peers(D, l)) = Cardinality(TakenAt(S, l))
<1> DEFINE by == [k \in D |-> LevelAnd(k)]
           at == [k \in D |-> Level(k)]
           M == Mistakes(S)
           N == Rights(S)
           O == Offers(S)
<1>1. /\ M \subseteq S /\ N \subseteq S
      /\ (\A s \in S : ChosenKey(s) \in D) /\ (\A e \in O : OfferedKey(e) \in D)
    BY FamilyRowsAre DEF Mistakes, Rights
<1>2. /\ \A s \in S : LevelAnd(ChosenKey(s)) = <<StepLevel(s), Card(s).family>>
      /\ \A s \in S : Level(ChosenKey(s)) = StepLevel(s)
      /\ \A e \in O : LevelAnd(OfferedKey(e)) =
                          <<StepLevel(e[1]), ParseCard(Turn(e[1]).offered[e[2]]).family>>
      /\ \A e \in O : Level(OfferedKey(e)) = StepLevel(e[1])
    BY CardIs DEF LevelAnd, Level, ChosenKey, OfferedKey, At, StepLevel
<1>3. ASSUME NEW A \in SUBSET S
      PROVE  /\ Through(ChosenKeys(A), by) = [s \in A |-> <<StepLevel(s), Card(s).family>>]
             /\ Through(ChosenKeys(A), at) = [s \in A |-> StepLevel(s)]
    <2>1. \A s \in A : /\ by[ChosenKeys(A)[s]] = <<StepLevel(s), Card(s).family>>
                       /\ at[ChosenKeys(A)[s]] = StepLevel(s)
        BY <1>1, <1>2 DEF ChosenKeys
    <2> HIDE DEF by, at
    <2>2. QED
        BY <2>1 DEF Through, ChosenKeys
<1>4. /\ Through(OfferedKeys(O), by) =
             [e \in O |-> <<StepLevel(e[1]), ParseCard(Turn(e[1]).offered[e[2]]).family>>]
      /\ Through(OfferedKeys(O), at) = [e \in O |-> StepLevel(e[1])]
    <2>1. \A e \in O : /\ by[OfferedKeys(O)[e]] =
                              <<StepLevel(e[1]), ParseCard(Turn(e[1]).offered[e[2]]).family>>
                       /\ at[OfferedKeys(O)[e]] = StepLevel(e[1])
        BY <1>1, <1>2 DEF OfferedKeys
    <2> HIDE DEF by, at, O
    <2>2. QED
        BY <2>1 DEF Through, OfferedKeys
<1>5. ASSUME NEW j
      PROVE  LET T == Taken(S, j)
             IN  /\ Fibre(S, Through(ChosenKeys(S), by), j) = T
                 /\ Fibre(M, Through(ChosenKeys(M), by), j) = Mistakes(T)
                 /\ Fibre(N, Through(ChosenKeys(N), by), j) = T \ Mistakes(T)
                 /\ Fibre(O, Through(OfferedKeys(O), by), j) = Given(O, j)
    <2> HIDE DEF by, O
    <2>1. Fibre(O, Through(OfferedKeys(O), by), j) = Given(O, j)
        BY <1>4 DEF Fibre, Given
    <2>2. \A A \in SUBSET S : Fibre(A, Through(ChosenKeys(A), by), j) = Taken(A, j)
        BY <1>3 DEF Fibre, Taken
    <2>3. Taken(M, j) = Mistakes(Taken(S, j)) /\ Taken(N, j) = Taken(S, j) \ Mistakes(Taken(S, j))
        BY DEF Taken, Mistakes, Rights
    <2>4. QED
        BY <1>1, <2>1, <2>2, <2>3
<1>6. ASSUME NEW l
      PROVE  /\ Fibre(S, Through(ChosenKeys(S), at), l) = TakenAt(S, l)
             /\ Fibre(O, Through(OfferedKeys(O), at), l) = GivenAt(O, l)
    <2> HIDE DEF at, O
    <2>1. Fibre(S, Through(ChosenKeys(S), at), l) = TakenAt(S, l)
        <3>1. Through(ChosenKeys(S), at) = [s \in S |-> StepLevel(s)]
            BY <1>3
        <3>2. QED
            BY <3>1 DEF Fibre, TakenAt
    <2>2. Fibre(O, Through(OfferedKeys(O), at), l) = GivenAt(O, l)
        BY <1>4 DEF Fibre, GivenAt
    <2>3. QED
        BY <2>1, <2>2
<1>7. \A j : RowsOf(D, j) = Fibre(D, by, j) /\ Peers(D, j) = Fibre(D, at, j)
    BY DEF RowsOf, Peers
<1> HIDE DEF by, at, M, N, O
<1>8. ASSUME NEW j
      PROVE  LET K == RowsOf(D, j)
                 T == Taken(S, j)
             IN  /\ SumColumn(table, "offered", K) = Cardinality(Given(O, j))
                 /\ SumColumn(table, "chosen", K) = Cardinality(T)
                 /\ SumColumn(table, "wrong", K) = Cardinality(Mistakes(T))
                 /\ SumColumn(table, "correct", K) = Cardinality(T \ Mistakes(T))
                 /\ StatIs(JoinedStat(TimeColumn(table, D), K), TimesOf(S), T)
    BY <1>5, <1>7, FamiliesJoined DEF M, N, O
<1>9. ASSUME NEW l
      PROVE  /\ SumColumn(table, "offered", Peers(D, l)) = Cardinality(GivenAt(O, l))
             /\ SumColumn(table, "chosen", Peers(D, l)) = Cardinality(TakenAt(S, l))
    BY <1>6, <1>7, FamiliesJoined DEF O
<1>10. QED
    BY <1>8, <1>9 DEF O

(* Leaving out the families that nobody chose.                             *)
Chosen(answer) == Without(answer, LAMBDA k : answer[k].total = 0)

LEMMA FamilyAnswers ==
    ASSUME NEW S, IsFiniteSet(S), IsFiniteSet(Offers(S)), Timed(S), Stepped(S), NEW found, NEW pupils,
           Finds(found.families, pupils, CardFamilies(S))
    PROVE  LET times == Chosen(RollupDecisionTimeByFamilyByLevel(found, pupils))
               raw   == DecisionTimeByFamilyByLevel(S)
           IN  /\ Chosen(RollupCardAccuracyByFamilyByLevel(found, pupils)) =
                      CardAccuracyByFamilyByLevel(S)
               /\ DOMAIN times = DOMAIN raw
               /\ \A j \in DOMAIN times : LET a == times[j]
                                              b == raw[j]
                                          IN  <<a.total, a.avg, a.min, a.max>> =
                                                  <<b.total, b.avg, b.min, b.max>>
<1> DEFINE table == found.families
           D == InScope(table, pupils)
           K(j) == RowsOf(D, j)
           T(j) == Taken(S, j)
           J == {LevelAnd(k) : k \in D}
           L == {<<StepLevel(s), Card(s).family>> : s \in S}
           right(j) == SumColumn(table, "correct", K(j))
           wrong(j) == SumColumn(table, "wrong", K(j))
           all(j) == JoinedStat(TimeColumn(table, D), K(j))
           accuracy == RollupCardAccuracyByFamilyByLevel(found, pupils)
           times == RollupDecisionTimeByFamilyByLevel(found, pupils)
           raw == DecisionTimeByFamilyByLevel(S)
<1>1. D = DOMAIN CardFamilies(S) /\ \A k \in D : table[k] = CardFamilies(S)[k]
    BY DEF Finds
<1>2. \A j : K(j) = {k \in D : LevelAnd(k) = j} /\ K(j) \subseteq D
    BY DEF RowsOf, Fibre
<1>3. accuracy = [j \in J |-> [total |-> right(j) + wrong(j), correct |-> right(j), wrong |-> wrong(j),
                               accuracy |-> Percent(right(j), right(j) + wrong(j))]]
    <2> HIDE DEF K, D
    <2>1. QED
        BY <1>2 DEF RollupCardAccuracyByFamilyByLevel, Grouped, SumRows, SumOf, SumColumn, D
<1>4. /\ DOMAIN times = J
      /\ \A j \in J : /\ times[j].total = all(j).count /\ times[j].avg = Average(all(j))
                      /\ times[j].min = all(j).min /\ times[j].max = all(j).max
    <2> DEFINE part(j) == {k \in D : LevelAnd(k) = j}
               sums(j) == SumStats(table, part(j), LAMBDA v : v.time)
    <2>1. /\ DOMAIN times = J
          /\ \A j \in J : /\ times[j].total = sums(j).count /\ times[j].avg = Average(sums(j))
                          /\ times[j].min = sums(j).min /\ times[j].max = sums(j).max
        BY DEF RollupDecisionTimeByFamilyByLevel, Grouped
    <2>2. \A j : /\ sums(j).sum = SumFunction([k \in part(j) |-> table[k].time.sum])
                 /\ sums(j).count = SumFunction([k \in part(j) |-> table[k].time.count])
                 /\ sums(j).min = LeastOf({table[k].time.min : k \in part(j)})
                 /\ sums(j).max = GreatestOf({table[k].time.max : k \in part(j)})
        BY DEF SumStats, SumRows, SumOf
    <2> DEFINE stat == TimeColumn(table, D)
    <2>3. \A k \in D : stat[k] = table[k].time
        BY DEF TimeColumn
    <2>4. \A j : /\ [k \in part(j) |-> table[k].time.sum] = [k \in part(j) |-> stat[k].sum]
                 /\ [k \in part(j) |-> table[k].time.count] = [k \in part(j) |-> stat[k].count]
                 /\ {table[k].time.min : k \in part(j)} = {stat[k].min : k \in part(j)}
                 /\ {table[k].time.max : k \in part(j)} = {stat[k].max : k \in part(j)}
        <3> HIDE DEF stat, D, table
        <3>1. QED
            BY <2>3
    <2>5. \A j : K(j) = part(j)
        BY <1>2
    <2> HIDE DEF K, D, part, sums, stat, times, J
    <2>6. \A j : /\ sums(j).sum = all(j).sum /\ sums(j).count = all(j).count
                 /\ sums(j).min = all(j).min /\ sums(j).max = all(j).max
        BY <2>2, <2>4, <2>5 DEF JoinedStat, stat
    <2>7. \A j : Average(sums(j)) = Average(all(j))
        BY <2>6 DEF Average
    <2>8. QED
        BY <2>1, <2>6, <2>7
<1>5. /\ CardAccuracyByFamilyByLevel(S) =
             [j \in L |-> [total |-> Cardinality(T(j)),
                           correct |-> Cardinality(T(j)) - Cardinality(Mistakes(T(j))),
                           wrong |-> Cardinality(Mistakes(T(j))),
                           accuracy |-> Percent(Cardinality(T(j)) - Cardinality(Mistakes(T(j))),
                                                Cardinality(T(j)))]]
      /\ DOMAIN raw = L
      /\ \A j \in L : LET stat == StatOf(T(j), Time)
                      IN  /\ raw[j].total = Cardinality(T(j)) /\ raw[j].avg = Average(stat)
                          /\ raw[j].min = stat.min /\ raw[j].max = stat.max
    <2>1. CardAccuracyByFamilyByLevel(S) =
             [j \in L |-> [total |-> Cardinality(T(j)),
                           correct |-> Cardinality(T(j)) - Cardinality(Mistakes(T(j))),
                           wrong |-> Cardinality(Mistakes(T(j))),
                           accuracy |-> Percent(Cardinality(T(j)) - Cardinality(Mistakes(T(j))),
                                                Cardinality(T(j)))]]
        BY DEF CardAccuracyByFamilyByLevel, Grouped, Taken
    <2>2. raw = [j \in L |-> SummaryStats(T(j))]
        BY DEF DecisionTimeByFamilyByLevel, Grouped, Taken
    <2>3. \A A : LET stat == StatOf(A, Time)
                 IN  /\ SummaryStats(A).total = Cardinality(A) /\ SummaryStats(A).avg = Average(stat)
                     /\ SummaryStats(A).min = stat.min /\ SummaryStats(A).max = stat.max
        BY DEF SummaryStats
    <2> HIDE DEF raw, T, L
    <2>4. QED
        BY <2>1, <2>2, <2>3
<1>6. L \subseteq J
    <2>1. \A s \in S : LevelAnd(ChosenKey(s)) = <<StepLevel(s), Card(s).family>>
        BY CardIs DEF LevelAnd, ChosenKey, At, StepLevel
    <2>2. \A s \in S : ChosenKey(s) \in D
        BY <1>1, FamilyRowsAre
    <2> HIDE DEF D
    <2>3. QED
        BY <2>1, <2>2
<1>7. \A j : T(j) \in SUBSET S /\ (T(j) # {} <=> j \in L) /\ Mistakes(T(j)) \in SUBSET T(j)
    BY DEF Taken, Mistakes
<1> HIDE DEF table, D, J, L, K, T, right, wrong, all, accuracy, times, raw
<1>8. \A j : /\ right(j) = Cardinality(T(j) \ Mistakes(T(j))) /\ wrong(j) = Cardinality(Mistakes(T(j)))
             /\ StatIs(all(j), TimesOf(S), T(j))
    BY <1>1, FamilyGroups DEF right, wrong, all, K, T
<1>9. \A j : /\ right(j) = Cardinality(T(j)) - Cardinality(Mistakes(T(j)))
             /\ right(j) + wrong(j) = Cardinality(T(j))
             /\ Cardinality(T(j)) = 0 <=> j \notin L
    <2> SUFFICES ASSUME NEW j
                 PROVE  /\ right(j) = Cardinality(T(j)) - Cardinality(Mistakes(T(j)))
                        /\ right(j) + wrong(j) = Cardinality(T(j))
                        /\ Cardinality(T(j)) = 0 <=> j \notin L
        OBVIOUS
    <2> DEFINE A == T(j)
               B == Mistakes(T(j))
    <2>1. A \in SUBSET S /\ B \in SUBSET A /\ A \intersect B = B /\ (A # {} <=> j \in L)
        BY <1>7
    <2>2. right(j) = Cardinality(A \ B) /\ wrong(j) = Cardinality(B)
        BY <1>8
    <2> HIDE DEF A, B
    <2>3. IsFiniteSet(A)
        BY <2>1, FS_Subset
    <2>4. IsFiniteSet(B)
        BY <2>1, <2>3, FS_Subset
    <2>5. Cardinality(A \ B) = Cardinality(A) - Cardinality(A \intersect B)
        BY <2>3, FS_Difference
    <2>6. /\ Cardinality(A) \in Nat /\ Cardinality(B) \in Nat
          /\ Cardinality(A) = 0 <=> A = {}
        BY <2>3, <2>4, FS_CardinalityType, FS_EmptySet
    <2>7. right(j) = Cardinality(A) - Cardinality(B)
        BY <2>1, <2>2, <2>5
    <2>8. right(j) + wrong(j) = Cardinality(A)
        BY <2>2, <2>6, <2>7
    <2>9. Cardinality(A) = 0 <=> j \notin L
        BY <2>1, <2>6
    <2>10. QED
        BY <2>7, <2>8, <2>9 DEF A, B
<1>10. Chosen(accuracy) = CardAccuracyByFamilyByLevel(S)
    <2>1. \A j \in J : accuracy[j] =
              [total |-> Cardinality(T(j)),
               correct |-> Cardinality(T(j)) - Cardinality(Mistakes(T(j))),
               wrong |-> Cardinality(Mistakes(T(j))),
               accuracy |-> Percent(Cardinality(T(j)) - Cardinality(Mistakes(T(j))), Cardinality(T(j)))]
        BY <1>3, <1>8, <1>9
    <2>2. DOMAIN accuracy = J /\ \A j \in J : accuracy[j].total = 0 <=> j \notin L
        BY <1>3, <1>9, <2>1
    <2>3. Chosen(accuracy) = [j \in L |-> accuracy[j]]
        BY <1>6, <2>2 DEF Chosen, Without
    <2>4. QED
        BY <1>5, <1>6, <2>1, <2>3
<1>11. \A j : StatIs(StatOf(T(j), Time), TimesOf(S), T(j))
    BY <1>7, TimeStats
<1>12. \A j : /\ all(j).count = Cardinality(T(j)) /\ Average(all(j)) = Average(StatOf(T(j), Time))
              /\ all(j).min = StatOf(T(j), Time).min /\ all(j).max = StatOf(T(j), Time).max
    <2>1. \A j : Average(all(j)) = Average(StatOf(T(j), Time))
        BY <1>8, <1>11, SameAverage
    <2>2. QED
        BY <1>8, <1>11, <2>1 DEF StatIs
<1>13. Chosen(times) = [j \in L |-> times[j]]
    <2>1. \A j \in J : times[j].total = 0 <=> j \notin L
        BY <1>4, <1>9, <1>12
    <2>2. QED
        BY <1>4, <1>6, <2>1 DEF Chosen, Without
<1>14. QED
    BY <1>4, <1>5, <1>6, <1>10, <1>12, <1>13 DEF accuracy, times, raw

(* The shares of a family among what was offered and chosen on its level.  *)
LEMMA SharesAnswer ==
    ASSUME NEW S, IsFiniteSet(S), IsFiniteSet(Offers(S)), Timed(S), Stepped(S), NEW found, NEW pupils,
           Finds(found.families, pupils, CardFamilies(S))
    PROVE  LET rolled == RollupOfferChoiceShareByFamily(found, pupils)
               raw    == OfferChoiceShareByFamily(S)
           IN  \A j \in DOMAIN raw :
                   IF j \in DOMAIN rolled THEN raw[j] = rolled[j]
                   ELSE raw[j].offered = 0 /\ raw[j].chosen = 0
<1> DEFINE table == found.families
           D == InScope(table, pupils)
           O == Offers(S)
           K(j) == RowsOf(D, j)
           P(l) == Peers(D, l)
           J == {LevelAnd(k) : k \in D}
           offered(R) == SumColumn(table, "offered", R)
           chosen(R)  == SumColumn(table, "chosen", R)
           rolled == RollupOfferChoiceShareByFamily(found, pupils)
           raw    == OfferChoiceShareByFamily(S)
           share(a, b, c, d) == [offered |-> a, chosen |-> b, offeredShare |-> Percent(a, c),
                                 chosenShare |-> Percent(b, d), choiceRate |-> Percent(b, a)]
<1>1. D = DOMAIN CardFamilies(S) /\ \A k \in D : table[k] = CardFamilies(S)[k]
    BY DEF Finds
<1>2. /\ \A j : K(j) = {k \in D : LevelAnd(k) = j}
      /\ \A l : P(l) = {k \in D : Level(k) = l}
    BY DEF RowsOf, Peers, Fibre
<1>3. \A j \in J : rolled[j] = share(offered(K(j)), chosen(K(j)), offered(P(j[1])), chosen(P(j[1])))
    <2> DEFINE part(j) == {k \in D : LevelAnd(k) = j}
               peers(j) == {k \in D : \E i \in part(j) : Level(i) = Level(k)}
    <2>1. rolled = [j \in J |-> share(offered(part(j)), chosen(part(j)),
                                      offered(peers(j)), chosen(peers(j)))]
        BY DEF RollupOfferChoiceShareByFamily, Grouped, SumRows, SumOf, SumColumn
    <2>2. \A j \in J : peers(j) = P(j[1])
        <3> SUFFICES ASSUME NEW j \in J
                     PROVE  peers(j) = P(j[1])
            OBVIOUS
        <3>1. \A k : LevelAnd(k)[1] = Level(k)
            BY DEF LevelAnd, Level
        <3>2. \A i \in part(j) : Level(i) = j[1]
            BY <3>1
        <3>3. \E i : i \in part(j)
            OBVIOUS
        <3> HIDE DEF part, D, P
        <3>4. QED
            BY <1>2, <3>2, <3>3
    <2>3. \A j : part(j) = K(j)
        BY <1>2
    <2> HIDE DEF J, part, peers, K, P, offered, chosen, share, rolled
    <2>4. QED
        BY <2>1, <2>2, <2>3
<1>4. DOMAIN rolled = J
    BY DEF RollupOfferChoiceShareByFamily, Grouped
<1>5. \A j \in DOMAIN raw :
          raw[j] = share(Cardinality(Given(O, j)), Cardinality(Taken(S, j)),
                         Cardinality(GivenAt(O, j[1])), Cardinality(TakenAt(S, j[1])))
    <2> DEFINE family(e) == ParseCard(Turn(e[1]).offered[e[2]]).family
               families == {Card(s).family : s \in S} \union {family(e) : e \in O}
               given(l) == {e \in O : StepLevel(e[1]) = l}
               taken(l) == {s \in S : StepLevel(s) = l}
    <2>1. raw = [j \in {StepLevel(s) : s \in S} \X families |->
                     share(Cardinality({e \in given(j[1]) : family(e) = j[2]}),
                           Cardinality({s \in taken(j[1]) : Card(s).family = j[2]}),
                           Cardinality(given(j[1])), Cardinality(taken(j[1])))]
        BY DEF OfferChoiceShareByFamily, Offers
    <2>2. \A l : given(l) = GivenAt(O, l) /\ taken(l) = TakenAt(S, l)
        BY DEF GivenAt, TakenAt
    <2>3. ASSUME NEW j \in {StepLevel(s) : s \in S} \X families
          PROVE  /\ {e \in given(j[1]) : family(e) = j[2]} = Given(O, j)
                 /\ {s \in taken(j[1]) : Card(s).family = j[2]} = Taken(S, j)
        <3>1. j = <<j[1], j[2]>>
            OBVIOUS
        <3> HIDE DEF O, families
        <3>2. \A x, y : <<x, y>> = j <=> x = j[1] /\ y = j[2]
            BY <3>1
        <3>3. QED
            BY <3>2 DEF Given, Taken
    <2> HIDE DEF family, families, given, taken, share, raw
    <2>4. QED
        BY <2>1, <2>2, <2>3
<1>6. /\ \A s \in S : LevelAnd(ChosenKey(s)) = <<StepLevel(s), Card(s).family>>
      /\ \A e \in O : LevelAnd(OfferedKey(e)) =
                          <<StepLevel(e[1]), ParseCard(Turn(e[1]).offered[e[2]]).family>>
      /\ (\A s \in S : ChosenKey(s) \in D) /\ (\A e \in O : OfferedKey(e) \in D)
    <2>1. /\ \A s \in S : LevelAnd(ChosenKey(s)) = <<StepLevel(s), Card(s).family>>
          /\ \A e \in O : LevelAnd(OfferedKey(e)) =
                          <<StepLevel(e[1]), ParseCard(Turn(e[1]).offered[e[2]]).family>>
        BY CardIs DEF LevelAnd, ChosenKey, OfferedKey, At, StepLevel
    <2>2. (\A s \in S : ChosenKey(s) \in D) /\ (\A e \in O : OfferedKey(e) \in D)
        BY <1>1, FamilyRowsAre
    <2>3. QED
        BY <2>1, <2>2
<1>7. \A j : j \notin J => Given(O, j) = {} /\ Taken(S, j) = {}
    <2> HIDE DEF D, O
    <2>1. QED
        BY <1>6 DEF Given, Taken
<1> HIDE DEF table, D, O, K, P, J, offered, chosen, rolled, raw
<1>8. /\ \A j : offered(K(j)) = Cardinality(Given(O, j)) /\ chosen(K(j)) = Cardinality(Taken(S, j))
      /\ \A l : offered(P(l)) = Cardinality(GivenAt(O, l)) /\ chosen(P(l)) = Cardinality(TakenAt(S, l))
    <2>1. \A j : offered(K(j)) = Cardinality(Given(O, j)) /\ chosen(K(j)) = Cardinality(Taken(S, j))
        <3> SUFFICES ASSUME NEW j
                     PROVE  /\ offered(K(j)) = Cardinality(Given(O, j))
                            /\ chosen(K(j)) = Cardinality(Taken(S, j))
            OBVIOUS
        <3>1. LET K2 == RowsOf(D, j)
                  T == Taken(S, j)
              IN  /\ SumColumn(table, "offered", K2) = Cardinality(Given(Offers(S), j))
                  /\ SumColumn(table, "chosen", K2) = Cardinality(T)
                  /\ SumColumn(table, "wrong", K2) = Cardinality(Mistakes(T))
                  /\ SumColumn(table, "correct", K2) = Cardinality(T \ Mistakes(T))
                  /\ StatIs(JoinedStat(TimeColumn(table, D), K2), TimesOf(S), T)
            BY <1>1, FamilyGroups
        <3>2. QED
            BY <3>1 DEF offered, chosen, K, O
    <2>2. \A l : offered(P(l)) = Cardinality(GivenAt(O, l)) /\ chosen(P(l)) = Cardinality(TakenAt(S, l))
        BY <1>1, FamilyGroups DEF offered, chosen, P, O
    <2>3. QED
        BY <2>1, <2>2
<1>9. \A j \in DOMAIN raw : j \in J => raw[j] = rolled[j]
    <2> HIDE DEF share
    <2>1. QED
        BY <1>3, <1>5, <1>8
<1>10. \A j \in DOMAIN raw : j \notin J => raw[j].offered = 0 /\ raw[j].chosen = 0
    <2>1. Cardinality({}) = 0
        BY FS_EmptySet
    <2>2. \A a, b, c, d : share(a, b, c, d).offered = a /\ share(a, b, c, d).chosen = b
        OBVIOUS
    <2> SUFFICES ASSUME NEW j \in DOMAIN raw, j \notin J
                 PROVE  raw[j].offered = 0 /\ raw[j].chosen = 0
        OBVIOUS
    <2>3. Given(O, j) = {} /\ Taken(S, j) = {}
        BY <1>7
    <2> DEFINE c == Cardinality(GivenAt(O, j[1]))
               d == Cardinality(TakenAt(S, j[1]))
    <2> HIDE DEF share
    <2>4. raw[j] = share(Cardinality(Given(O, j)), Cardinality(Taken(S, j)), c, d)
        BY <1>5
    <2>5. raw[j] = share(0, 0, c, d)
        BY <2>1, <2>3, <2>4
    <2> HIDE DEF c, d
    <2>6. QED
        BY <2>2, <2>5
<1>11. QED
    BY <1>4, <1>9, <1>10 DEF rolled, raw

-------------------------------------------------------------------------------
(* The answers about conditions.                                           *)
AccuracyOf(row) ==
    [total |-> row.total, correct |-> row.correct, accuracy |-> Percent(row.correct, row.total),
     else |-> Percent(row.else, row.total)]
ElseOf(row)    == Percent(row.else, row.total)
AddedUp(table, K) ==
    [total   |-> SumFunction([k \in K |-> table[k].total]),
     correct |-> SumFunction([k \in K |-> table[k].correct]),
     else    |-> SumFunction([k \in K |-> table[k].else])]
BranchesBy(X, E, by, j) == Branches(Fibre(X, by, j), Fibre(E, by, j))
BucketOf(k)    == <<k[3], k[4][2]>>

(* Rows of one kind, joined by what they name, add up to its branches.     *)
LEMMA BranchesThrough ==
    ASSUME NEW X, IsFiniteSet(X), NEW E \in SUBSET X, NEW key, DOMAIN key = X,
           key = [x \in DOMAIN key |-> key[x]], NEW table,
           \A k \in Keys(key) : table[k] = BranchesBy(X, E, key, k), NEW by, NEW j
    PROVE  AddedUp(table, Fibre(Keys(key), by, j)) = BranchesBy(X, E, Through(key, by), j)
<1> DEFINE K == Fibre(Keys(key), by, j)
<1>1. Keys(key) = {key[x] : x \in X} /\ \A x \in X : key[x] \in Keys(key)
    BY DEF Keys
<1>2. K \in SUBSET Keys(key)
    BY DEF Fibre
<1>3. IsFiniteSet(K)
    <2>1. IsFiniteSet(Keys(key))
        BY KeysFinite
    <2>2. QED
        BY <1>2, <2>1, FS_Subset
<1>4. /\ Fibres(X, key, K) = Fibre(X, Through(key, by), j)
      /\ Fibres(E, key, K) = Fibre(E, Through(key, by), j)
    BY <1>1 DEF Fibre, Fibres, Through
<1> HIDE DEF K
<1>5. \A k \in K : table[k] = Branches(Fibre(X, key, k), Fibre(E, key, k))
    BY <1>2 DEF BranchesBy
<1>6. AddedUp(table, K) = Branches(Fibres(X, key, K), Fibres(E, key, K))
    BY <1>3, <1>5, BranchSums DEF AddedUp
<1>7. QED
    BY <1>4, <1>6 DEF BranchesBy, K

KindKeys(X, kind, value)      == [s \in X |-> At(s, <<kind, value[s]>>)]
RowsOfKind(table, pupils, kind) == {k \in InScope(table, pupils) : k[4][1] = kind}
LevelAndWhat(X, value)        == [s \in X |-> <<StepLevel(s), value[s]>>]
LevelIn(X)                    == [s \in X |-> StepLevel(s)]
ConditionAnswer(X, E, bucket, level) ==
    [buckets |-> [j \in Keys(bucket) |-> AccuracyOf(BranchesBy(X, E, bucket, j))],
     levels  |-> [l \in Keys(level) |-> ElseOf(BranchesBy(X, E, level, l))]]

LEMMA ConditionalRows ==
    ASSUME NEW X, IsFiniteSet(X), NEW E \in SUBSET X, NEW kind, NEW value,
           NEW found, NEW pupils, NEW key, key = KindKeys(X, kind, value),
           Keys(key) = RowsOfKind(found.conditionals, pupils, kind),
           \A k \in Keys(key) : found.conditionals[k] = BranchesBy(X, E, key, k)
    PROVE  RollupConditionals(found, kind, pupils) =
               ConditionAnswer(X, E, LevelAndWhat(X, value), LevelIn(X))
<1> DEFINE R == Keys(key)
           table  == found.conditionals
           bucket == LevelAndWhat(X, value)
           level  == LevelIn(X)
           byBucket == [k \in R |-> BucketOf(k)]
           byLevel  == [k \in R |-> Level(k)]
<1>1. RollupConditionals(found, kind, pupils) =
          [buckets |-> [j \in {BucketOf(k) : k \in R} |->
                           AccuracyOf(AddedUp(table, {k \in R : BucketOf(k) = j}))],
           levels  |-> [l \in {Level(k) : k \in R} |->
                           ElseOf(AddedUp(table, {k \in R : Level(k) = l}))]]
    <2>1. R = {k \in InScope(table, pupils) : k[4][1] = kind}
        BY DEF RowsOfKind
    <2> HIDE DEF R
    <2>2. QED
        BY <2>1 DEF RollupConditionals, Grouped, SumRows, SumOf, AccuracyOf, ElseOf, AddedUp, BucketOf
<1>2. /\ \A j : {k \in R : BucketOf(k) = j} = Fibre(R, byBucket, j)
      /\ \A l : {k \in R : Level(k) = l} = Fibre(R, byLevel, l)
    BY DEF Fibre
<1>3. /\ DOMAIN key = X /\ key = [x \in DOMAIN key |-> key[x]]
      /\ R = {key[s] : s \in X}
    BY DEF Keys, KindKeys
<1>4. \A s \in X : BucketOf(key[s]) = bucket[s] /\ Level(key[s]) = level[s]
    BY DEF BucketOf, Level, At, StepLevel, KindKeys, LevelAndWhat, LevelIn
<1>5. Through(key, byBucket) = bucket /\ Through(key, byLevel) = level
    BY <1>3, <1>4 DEF Through, LevelAndWhat, LevelIn
<1>6. {BucketOf(k) : k \in R} = Keys(bucket) /\ {Level(k) : k \in R} = Keys(level)
    <2>1. DOMAIN bucket = X /\ DOMAIN level = X
        BY DEF LevelAndWhat, LevelIn
    <2>2. QED
        BY ONLY <1>3, <1>4, <2>1 DEF Keys
<1> HIDE DEF R, byBucket, byLevel
<1>7. /\ \A j : AddedUp(table, Fibre(R, byBucket, j)) = BranchesBy(X, E, bucket, j)
      /\ \A l : AddedUp(table, Fibre(R, byLevel, l)) = BranchesBy(X, E, level, l)
    <2>1. \A by, j : AddedUp(table, Fibre(R, by, j)) = BranchesBy(X, E, Through(key, by), j)
        BY ONLY IsFiniteSet(X), E \in SUBSET X, <1>3, BranchesThrough,
                \A k \in R : table[k] = BranchesBy(X, E, key, k) DEF R
    <2>2. QED
        BY ONLY <1>5, <2>1
<1>8. QED
    BY ONLY <1>1, <1>2, <1>6, <1>7 DEF ConditionAnswer

(* The rows of a kind are the rows of its conditions.                      *)
LEMMA KindsAre ==
    ASSUME NEW S, IsFiniteSet(S), NEW table, NEW pupils, Finds(table, pupils, Conditionals(S))
    PROVE  /\ Keys(TileKeys(S)) = RowsOfKind(table, pupils, "tile")
           /\ \A k \in Keys(TileKeys(S)) :
                  table[k] = BranchesBy(TileConditionals(S), OffTile(S), TileKeys(S), k)
           /\ Keys(BagKeys(S)) = RowsOfKind(table, pupils, "bag")
           /\ \A k \in Keys(BagKeys(S)) :
                  table[k] = BranchesBy(BagConditionals(S), BagUnmet(S), BagKeys(S), k)
           /\ IsFiniteSet(TileConditionals(S)) /\ IsFiniteSet(BagConditionals(S))
           /\ OffTile(S) \in SUBSET TileConditionals(S) /\ BagUnmet(S) \in SUBSET BagConditionals(S)
<1> DEFINE D == {TileKey(s) : s \in TileConditionals(S)}
           E == {BagKey(s) : s \in BagConditionals(S)}
<1>1. /\ DOMAIN Conditionals(S) = D \union E
      /\ (\A k \in D : k[4][1] = "tile") /\ (\A k \in E : k[4][1] = "bag")
      /\ \A k \in D : Conditionals(S)[k] =
             BranchesBy(TileConditionals(S), OffTile(S), TileKeys(S), k)
      /\ \A k \in E : Conditionals(S)[k] =
             BranchesBy(BagConditionals(S), BagUnmet(S), BagKeys(S), k)
    BY ConditionalsAre DEF BranchesBy
<1>2. D = Keys(TileKeys(S)) /\ E = Keys(BagKeys(S))
    BY DEF Keys, TileKeys, BagKeys
<1>3. InScope(table, pupils) = D \union E /\ \A k \in D \union E : table[k] = Conditionals(S)[k]
    BY <1>1 DEF Finds
<1>4. /\ TileConditionals(S) \subseteq S /\ BagConditionals(S) \subseteq S
      /\ OffTile(S) \in SUBSET TileConditionals(S) /\ BagUnmet(S) \in SUBSET BagConditionals(S)
    BY DEF TileConditionals, BagConditionals, OffTile, BagUnmet
<1>5. IsFiniteSet(TileConditionals(S)) /\ IsFiniteSet(BagConditionals(S))
    BY <1>4, FS_Subset
<1> HIDE DEF D, E
<1>6. /\ D = {k \in InScope(table, pupils) : k[4][1] = "tile"}
      /\ E = {k \in InScope(table, pupils) : k[4][1] = "bag"}
    <2>1. "tile" # "bag"
        OBVIOUS
    <2>2. QED
        BY <1>1, <1>3, <2>1
<1>7. QED
    BY <1>1, <1>2, <1>3, <1>4, <1>5, <1>6 DEF RowsOfKind

LEMMA TileConditionsAnswer ==
    ASSUME NEW S, IsFiniteSet(S), Stepped(S), NEW found, NEW pupils,
           Finds(found.conditionals, pupils, Conditionals(S))
    PROVE  RollupTileConditionalAccuracy(found, pupils) = TileConditionalAccuracy(S)
<1> DEFINE X == TileConditionals(S)
           E == OffTile(S)
           key    == TileKeys(S)
           value  == [s \in X |-> CardTile(Turn(s))]
           bucket == LevelAndWhat(X, value)
           level  == LevelIn(X)
<1>1. /\ IsFiniteSet(X) /\ E \in SUBSET X
      /\ Keys(key) = RowsOfKind(found.conditionals, pupils, "tile")
      /\ \A k \in Keys(key) : found.conditionals[k] = BranchesBy(X, E, key, k)
    BY KindsAre
<1>2. key = KindKeys(X, "tile", value)
    BY DEF TileKeys, TileKey, KindKeys
<1>3. RollupTileConditionalAccuracy(found, pupils) = ConditionAnswer(X, E, bucket, level)
    <2> HIDE DEF X, E, key, value
    <2>1. RollupConditionals(found, "tile", pupils) = ConditionAnswer(X, E, bucket, level)
        BY ONLY <1>1, <1>2, ConditionalRows
    <2>2. QED
        BY <2>1 DEF RollupTileConditionalAccuracy
<1>4. \A s \in S : Card(s).tile = CardTile(Turn(s)) /\ Turn(s).family = CardFamily(Turn(s))
    BY CardIs, ColumnsAre
<1>5. {s \in S : Turn(s).family = "conditional_tile" /\ Card(s).tile # None} = X
    BY <1>4 DEF TileConditionals
<1> DEFINE isElse(s) == Turn(s).fromType # Card(s).tile
           bucketOf(s) == <<StepLevel(s), Card(s).tile>>
           branches(T) == Branches(T, {s \in T : isElse(s)})
<1>6. TileConditionalAccuracy(S) =
          [buckets |-> [j \in {bucketOf(s) : s \in X} |->
                            AccuracyOf(branches({s \in X : bucketOf(s) = j}))],
           levels  |-> [l \in {StepLevel(s) : s \in X} |->
                            ElseOf(branches({s \in X : StepLevel(s) = l}))]]
    <2> HIDE DEF X
    <2>1. QED
        BY <1>5 DEF TileConditionalAccuracy, Accuracies, Grouped, AccuracyOf, ElseOf, Branches
<1>7. /\ \A s \in X : bucketOf(s) = bucket[s] /\ StepLevel(s) = level[s]
      /\ \A s \in X : isElse(s) <=> s \in E
    BY <1>4 DEF TileConditionals, OffTile, LevelAndWhat, LevelIn
<1>8. DOMAIN bucket = X /\ DOMAIN level = X
    BY DEF LevelAndWhat, LevelIn
<1> HIDE DEF X, E, value, bucket, level, bucketOf, isElse, branches
<1>9. /\ {bucketOf(s) : s \in X} = Keys(bucket)
      /\ {StepLevel(s) : s \in X} = Keys(level)
    BY <1>7, <1>8 DEF Keys
<1>10. /\ \A j : branches({s \in X : bucketOf(s) = j}) = BranchesBy(X, E, bucket, j)
       /\ \A l : branches({s \in X : StepLevel(s) = l}) = BranchesBy(X, E, level, l)
    <2>1. /\ \A j : /\ {s \in X : bucketOf(s) = j} = Fibre(X, bucket, j)
                    /\ {s \in Fibre(X, bucket, j) : isElse(s)} = Fibre(E, bucket, j)
          /\ \A l : /\ {s \in X : StepLevel(s) = l} = Fibre(X, level, l)
                    /\ {s \in Fibre(X, level, l) : isElse(s)} = Fibre(E, level, l)
        BY <1>1, <1>7 DEF Fibre
    <2>2. QED
        BY <2>1 DEF branches, BranchesBy
<1>11. QED
    BY <1>3, <1>6, <1>9, <1>10 DEF ConditionAnswer

(* A card of a bag's family compares, and its columns say so.              *)
LEMMA ComparingCards ==
    ASSUME NEW S, Stepped(S), NEW s \in S
    PROVE  Turn(s).family \in BagFamilies <=> CardType(Turn(s)) \in DOMAIN ComparatorByType
<1>1. PICK sent : Turn(s) = StoredTurn(sent)
    BY DEF Stepped
<1>2. Turn(s).family = FamilyOf(Turn(s).type)
    <2> DEFINE turn == Turn(s)
               read == ParseCard(turn.card)
    <2> HIDE DEF turn
    <2>1. <<turn.type, turn.family, turn.tile>> = <<read.type, read.family, read.tile>>
        BY <1>1, StoredTurnReadsAlike DEF turn
    <2>2. turn.family = FamilyOf(turn.type)
        BY <2>1 DEF ParseCard
    <2>3. QED
        BY <2>2 DEF turn
<1>3. Turn(s).type = CardType(Turn(s))
    BY ColumnsAre
<1>4. \A type : FamilyOf(type) \in BagFamilies <=> type \in DOMAIN ComparatorByType
    BY DEF FamilyOf, FamilyByType, BagFamilies, ComparatorByType
<1>5. QED
    BY <1>2, <1>3, <1>4

(* The bag differs from one query to the other, not what was played.       *)
LEMMA BagConditionsAnswer ==
    ASSUME NEW S, IsFiniteSet(S), Stepped(S), NEW found, NEW pupils,
           Finds(found.conditionals, pupils, Conditionals(S))
    PROVE  LET rolled == RollupBagConditionalAccuracy(found, pupils).buckets
               raw    == BagConditionalAccuracy(S).buckets
           IN  /\ DOMAIN rolled = DOMAIN raw
               /\ \A j \in DOMAIN rolled : <<rolled[j].total, rolled[j].correct>> =
                                               <<raw[j].total, raw[j].correct>>
<1> DEFINE X == BagConditionals(S)
           E == BagUnmet(S)
           key    == BagKeys(S)
           value  == [s \in X |-> ComparatorByType[CardType(Turn(s))]]
           bucket == LevelAndWhat(X, value)
           rolled == RollupBagConditionalAccuracy(found, pupils).buckets
           raw    == BagConditionalAccuracy(S).buckets
<1>1. /\ IsFiniteSet(X) /\ E \in SUBSET X
      /\ Keys(key) = RowsOfKind(found.conditionals, pupils, "bag")
      /\ \A k \in Keys(key) : found.conditionals[k] = BranchesBy(X, E, key, k)
    BY KindsAre
<1>2. key = KindKeys(X, "bag", value)
    BY DEF BagKeys, BagKey, KindKeys
<1>3. rolled = [j \in Keys(bucket) |-> AccuracyOf(BranchesBy(X, E, bucket, j))]
    <2> HIDE DEF X, E, key, value
    <2>1. RollupConditionals(found, "bag", pupils) = ConditionAnswer(X, E, bucket, LevelIn(X))
        BY ONLY <1>1, <1>2, ConditionalRows
    <2>2. QED
        BY <2>1 DEF RollupBagConditionalAccuracy, ConditionAnswer
<1>4. \A s \in S : /\ Card(s).type = CardType(Turn(s))
                   /\ Turn(s).family \in BagFamilies <=> CardType(Turn(s)) \in DOMAIN ComparatorByType
    BY CardIs, ComparingCards
<1>5. {s \in S : Turn(s).family \in BagFamilies /\ ParseCard(Turn(s).card).value # None} = X
    BY <1>4 DEF BagConditionals
<1> DEFINE what(s)     == ComparatorByType[Card(s).type]
           bucketOf(s) == <<StepLevel(s), what(s)>>
           value2(s)   == ParseCard(Turn(s).card).value
           met(s)      == CASE what(s) = "eq" -> BagOfBagTurns(s) = value2(s)
                            [] what(s) = "lt" -> BagOfBagTurns(s) < value2(s)
                            [] what(s) = "gt" -> BagOfBagTurns(s) > value2(s)
           of(j)       == {s \in X : bucketOf(s) = j}
           right(j)    == Cardinality(of(j) \ Mistakes(of(j)))
           all(j)      == Cardinality(of(j))
           else(j)     == Percent(Cardinality({s \in of(j) : ~met(s)}), all(j))
<1>6. raw = [j \in {bucketOf(s) : s \in X} |->
                 [total |-> all(j), correct |-> right(j),
                  accuracy |-> Percent(right(j), all(j)), else |-> else(j)]]
    <2> HIDE DEF X
    <2>1. QED
        BY <1>5 DEF BagConditionalAccuracy, Accuracies, Grouped
<1>7. \A s \in X : bucketOf(s) = bucket[s]
    BY <1>4 DEF BagConditionals, LevelAndWhat
<1>8. DOMAIN bucket = X
    BY DEF LevelAndWhat
<1> HIDE DEF X, E, value, bucket, bucketOf, met, raw, rolled
<1>9. {bucketOf(s) : s \in X} = Keys(bucket)
    BY <1>7, <1>8 DEF Keys
<1>10. \A j : of(j) = Fibre(X, bucket, j)
    BY <1>7 DEF Fibre
<1> HIDE DEF else, of
<1>11. \A j \in Keys(bucket) : raw[j].total = all(j) /\ raw[j].correct = right(j)
    BY <1>6, <1>9
<1>12. \A j \in Keys(bucket) : rolled[j].total = all(j) /\ rolled[j].correct = right(j)
    BY <1>3, <1>10 DEF AccuracyOf, BranchesBy, Branches
<1>13. DOMAIN rolled = Keys(bucket) /\ DOMAIN raw = Keys(bucket)
    BY <1>3, <1>6, <1>9
<1>14. QED
    BY <1>11, <1>12, <1>13 DEF raw, rolled

(* The turns of a card for each tile, on such a tile and off it.           *)
LEMMA ForeachAnswer ==
    ASSUME NEW S, IsFiniteSet(S), Stepped(S), NEW found, NEW pupils,
           Finds(found.foreach, pupils, ForeachContext(S))
    PROVE  RollupForeachTileContextUsage(found, pupils) = ForeachTileContextUsage(S)
<1> DEFINE X == {s \in S : CardFamily(Turn(s)) = "foreach_tile" /\ CardTile(Turn(s)) # None}
           on(s) == OnTile(s[1], Turn(s), CardTile(Turn(s)))
           W == {s \in X : on(s)}
           N == X \ W
           key(A) == [s \in A |-> At(s, "foreach")]
           table  == found.foreach
           D  == InScope(table, pupils)
           by == [k \in D |-> Level(k)]
           with    == [k \in D |-> table[k].with]
           without == [k \in D |-> table[k].without]
           under(k) == {s \in X : At(s, "foreach") = k}
           level(l) == {s \in X : StepLevel(s) = l}
           counted(T) == [with |-> Cardinality({s \in T : on(s)}),
                          without |-> Cardinality(T \ {s \in T : on(s)})]
<1>1. ForeachContext(S) = [k \in Keys(key(X)) |-> counted(under(k))]
    BY DEF ForeachContext, Grouped, Keys
<1>2. ForeachTileContextUsage(S) = [l \in {StepLevel(s) : s \in X} |-> counted(level(l))]
    <2> DEFINE tile(s) == Card(s).tile
               met(T)  == {s \in T : OnTile(s[1], Turn(s), tile(s))}
    <2>1. \A s \in S : tile(s) = CardTile(Turn(s)) /\ Turn(s).family = CardFamily(Turn(s))
        BY CardIs, ColumnsAre
    <2>2. {s \in S : Turn(s).family = "foreach_tile" /\ tile(s) # None} = X
        BY <2>1
    <2>3. \A l : met(level(l)) = {s \in level(l) : on(s)}
        BY <2>1
    <2>4. ForeachTileContextUsage(S) =
              [l \in {StepLevel(s) : s \in X} |->
                  [with |-> Cardinality(met(level(l))),
                   without |-> Cardinality(level(l) \ met(level(l)))]]
        <3> HIDE DEF X
        <3>1. QED
            BY <2>2 DEF ForeachTileContextUsage, Grouped
    <2> HIDE DEF X, met, on, level
    <2>5. QED
        BY <2>3, <2>4
<1>3. D = Keys(key(X)) /\ \A k \in D : table[k] = counted(under(k))
    BY <1>1 DEF Finds
<1>4. /\ W \subseteq X /\ N \subseteq X /\ X \subseteq S
      /\ \A T \in SUBSET X : /\ {s \in T : on(s)} = T \intersect W
                             /\ T \ {s \in T : on(s)} = T \intersect N
    OBVIOUS
<1>5. IsFiniteSet(X) /\ IsFiniteSet(W) /\ IsFiniteSet(N)
    BY <1>4, FS_Subset
<1>6. \A A : DOMAIN key(A) = A /\ key(A) = [s \in DOMAIN key(A) |-> key(A)[s]]
    OBVIOUS
<1>7. \A A, k : Fibre(A, key(A), k) = {s \in A : At(s, "foreach") = k}
    BY DEF Fibre
<1>8. \A A, l : Fibre(A, LevelIn(A), l) = {s \in A : StepLevel(s) = l}
    BY DEF Fibre, LevelIn
<1>9. \A k : /\ Cardinality({s \in under(k) : on(s)}) = Cardinality(Fibre(W, key(W), k))
             /\ Cardinality(under(k) \ {s \in under(k) : on(s)}) = Cardinality(Fibre(N, key(N), k))
    <2>1. \A k : /\ {s \in under(k) : on(s)} = {s \in W : At(s, "foreach") = k}
                 /\ under(k) \ {s \in under(k) : on(s)} = {s \in N : At(s, "foreach") = k}
        OBVIOUS
    <2> HIDE DEF W, N, key
    <2>2. /\ \A k : {s \in W : At(s, "foreach") = k} = Fibre(W, key(W), k)
          /\ \A k : {s \in N : At(s, "foreach") = k} = Fibre(N, key(N), k)
        BY <1>7
    <2>3. QED
        BY ONLY <2>1, <2>2
<1>10. \A l : counted(level(l)) = [with    |-> Cardinality(Fibre(W, LevelIn(W), l)),
                                   without |-> Cardinality(Fibre(N, LevelIn(N), l))]
    <2>1. \A l : /\ {s \in level(l) : on(s)} = {s \in W : StepLevel(s) = l}
                 /\ level(l) \ {s \in level(l) : on(s)} = {s \in N : StepLevel(s) = l}
        OBVIOUS
    <2> HIDE DEF W, N
    <2>2. /\ \A l : {s \in W : StepLevel(s) = l} = Fibre(W, LevelIn(W), l)
          /\ \A l : {s \in N : StepLevel(s) = l} = Fibre(N, LevelIn(N), l)
        BY <1>8
    <2> DEFINE met(l)   == {s \in level(l) : on(s)}
               unmet(l) == level(l) \ met(l)
    <2>3. \A l : met(l) = Fibre(W, LevelIn(W), l) /\ unmet(l) = Fibre(N, LevelIn(N), l)
        BY ONLY <2>1, <2>2
    <2>4. \A l : counted(level(l)) = [with |-> Cardinality(met(l)), without |-> Cardinality(unmet(l))]
        OBVIOUS
    <2> HIDE DEF met, unmet, counted
    <2>5. QED
        BY ONLY <2>3, <2>4
<1>11. \A k \in D : /\ with[k] = Cardinality(Fibre(W, key(W), k))
                    /\ without[k] = Cardinality(Fibre(N, key(N), k))
    <2>1. \A k \in D : with[k] = counted(under(k)).with /\ without[k] = counted(under(k)).without
        BY <1>3
    <2> HIDE DEF under, on, W, N, X, key, D, with, without
    <2>2. QED
        BY <1>9, <2>1
<1>12. IsFiniteSet(D) /\ \A A \in SUBSET X : \A s \in A : key(A)[s] \in D
    <2>1. IsFiniteSet(Keys(key(X))) /\ \A s \in X : key(X)[s] \in Keys(key(X))
        <3> HIDE DEF key, X
        <3>1. QED
            BY <1>5, <1>6, KeysFinite
    <2>2. \A A \in SUBSET X : \A s \in A : key(A)[s] = key(X)[s]
        OBVIOUS
    <2> HIDE DEF key, X, D
    <2>3. QED
        BY <1>3, <2>1, <2>2
<1>13. \A A \in SUBSET X : Through(key(A), by) = LevelIn(A)
    BY <1>12 DEF Through, LevelIn, Level, At, StepLevel
<1>14. RollupForeachTileContextUsage(found, pupils) =
           [l \in {Level(k) : k \in D} |->
               [with    |-> SumFunction([k \in Fibre(D, by, l) |-> with[k]]),
                without |-> SumFunction([k \in Fibre(D, by, l) |-> without[k]])]]
    <2> DEFINE part(l) == {k \in D : Level(k) = l}
    <2>1. RollupForeachTileContextUsage(found, pupils) =
              [l \in {Level(k) : k \in D} |->
                  [with    |-> SumFunction([k \in part(l) |-> table[k].with]),
                   without |-> SumFunction([k \in part(l) |-> table[k].without])]]
        BY DEF RollupForeachTileContextUsage, Grouped, SumRows, SumOf
    <2>2. \A l : part(l) = Fibre(D, by, l)
        BY DEF Fibre
    <2>3. \A l : /\ [k \in part(l) |-> table[k].with] = [k \in part(l) |-> with[k]]
                 /\ [k \in part(l) |-> table[k].without] = [k \in part(l) |-> without[k]]
        OBVIOUS
    <2> HIDE DEF part, D, by, with, without, table
    <2>4. QED
        BY <2>1, <2>2, <2>3
<1>15. {Level(k) : k \in D} = {StepLevel(s) : s \in X}
    <2>1. \A s : Level(At(s, "foreach")) = StepLevel(s)
        BY DEF Level, At, StepLevel
    <2>2. D = {At(s, "foreach") : s \in X}
        BY <1>3 DEF Keys
    <2> HIDE DEF D, X
    <2>3. QED
        BY ONLY <2>1, <2>2
<1> HIDE DEF X, on, W, N, key, table, D, by, with, without, under, level, counted
<1>16. \A l : /\ SumFunction([k \in Fibre(D, by, l) |-> with[k]]) =
                     Cardinality(Fibre(W, LevelIn(W), l))
              /\ SumFunction([k \in Fibre(D, by, l) |-> without[k]]) =
                     Cardinality(Fibre(N, LevelIn(N), l))
    <2>1. /\ DOMAIN key(W) = W /\ DOMAIN key(N) = N
          /\ (\A s \in W : key(W)[s] \in D) /\ (\A s \in N : key(N)[s] \in D)
          /\ Through(key(W), by) = LevelIn(W) /\ Through(key(N), by) = LevelIn(N)
        BY <1>4, <1>6, <1>12, <1>13
    <2>2. \A l : SumFunction([k \in Fibre(D, by, l) |-> with[k]]) =
                     Cardinality(Fibre(W, LevelIn(W), l))
        BY <1>5, <1>11, <1>12, <2>1, CountsThrough
    <2>3. \A l : SumFunction([k \in Fibre(D, by, l) |-> without[k]]) =
                     Cardinality(Fibre(N, LevelIn(N), l))
        BY <1>5, <1>11, <1>12, <2>1, CountsThrough
    <2>4. QED
        BY <2>2, <2>3
<1>17. QED
    BY <1>2, <1>10, <1>14, <1>15, <1>16

-------------------------------------------------------------------------------
(* Every answer about the closed weeks nobody moved in, of any pupils, is  *)
(* from the rollups what the legacy queries made of the raw turns, though  *)
(* the rows were counted week by week and the turns are deleted.           *)
(* (rollup_analytics.py against analytics.py)                              *)
THEOREM AnswersAgreeTheorem == Spec => []AnswersAgree
<1>1. ASSUME DetailsInv, NEW pupils
      PROVE  LET closed  == {r \in RunsOf(pupils) : r.week \in done \ disturbed}
                 S       == Steps(closed)
                 weeksOf(table) == Without(table, LAMBDA k : k[2] \notin done \ disturbed)
                 levels  == weeksOf(studentLevel)
                 rollups == [t \in DOMAIN details |-> weeksOf(details[t])]
                 same(a, b, part(_)) == /\ DOMAIN a = DOMAIN b
                                        /\ \A k \in DOMAIN a : part(a[k]) = part(b[k])
                 chosen(table) == Without(table, LAMBDA k : table[k].total = 0)
             IN  /\ RollupWinRateByLevel(levels, pupils) = WinRateByLevel(closed)
                 /\ same(RollupWrongMovesRateByLevel(levels, pupils), WrongMovesRateByLevel(closed),
                         LAMBDA v : <<v.correct, v.wrong, v.moves>>)
                 /\ same(RollupTimeDistributionByLevel(levels, pupils), TimeDistributionByLevel(closed),
                         LAMBDA v : <<v.avg, v.min, v.max, v.runs>>)
                 /\ RollupMistakeHotspotsByLevel(rollups, pupils) = MistakeHotspotsByLevel(S)
                 /\ RollupSpecialTileBreakdown(rollups, pupils) = SpecialTileBreakdown(S)
                 /\ RollupChainLengthsByLevel(rollups, pupils) = ChainLengthsByLevel(S)
                 /\ RollupBackCardUsageByPlace(rollups, pupils) = BackCardUsageByPlace(S)
                 /\ RollupForeachTileContextUsage(rollups, pupils) = ForeachTileContextUsage(S)
                 /\ RollupNumberChoices(rollups, pupils) = NumberChoicesByLevel(S)
                 /\ RollupTileConditionalAccuracy(rollups, pupils) = TileConditionalAccuracy(S)
                 /\ same(RollupBagConditionalAccuracy(rollups, pupils).buckets,
                         BagConditionalAccuracy(S).buckets, LAMBDA v : <<v.total, v.correct>>)
                 /\ chosen(RollupCardAccuracyByFamilyByLevel(rollups, pupils)) =
                        CardAccuracyByFamilyByLevel(S)
                 /\ same(RollupDecisionTimeByCardType(rollups, pupils).summary,
                         DecisionTimeByCardType(S), LAMBDA v : <<v.total, v.min, v.max>>)
                 /\ same(chosen(RollupDecisionTimeByFamilyByLevel(rollups, pupils)),
                         DecisionTimeByFamilyByLevel(S), LAMBDA v : <<v.total, v.avg, v.min, v.max>>)
                 /\ LET rolled == RollupNumberDecisionTime(rollups, pupils)
                        raw    == NumberDecisionTime(S)
                    IN  /\ same(rolled, raw, LAMBDA v : v.count)
                        /\ \A k \in DOMAIN raw :
                               raw[k].timed = raw[k].count => raw[k].avg = rolled[k].avg
                 /\ LET rolled == RollupOfferChoiceShareByFamily(rollups, pupils)
                        raw    == OfferChoiceShareByFamily(S)
                    IN  \A k \in DOMAIN raw :
                            IF k \in DOMAIN rolled THEN raw[k] = rolled[k]
                            ELSE raw[k].offered = 0 /\ raw[k].chosen = 0
    <2> DEFINE closed  == ClosedRuns(pupils)
               S       == Steps(closed)
               levels  == OfSettled(studentLevel)
               rollups == [t \in DOMAIN details |-> OfSettled(details[t])]
    <2>1. BaseInv /\ SummariesInv /\ DOMAIN details = DOMAIN Details({})
        BY <1>1 DEF DetailsInv, SummariesInv, BaseInv, Types, Details
    <2>2. S \subseteq Steps(AllRuns)
        BY DEF ClosedRuns, RunsOf, Steps
    <2>3. IsFiniteSet(S) /\ IsFiniteSet(Offers(S)) /\ Stepped(S) /\ Timed(S) /\ NumbersTimed(S)
        BY <2>1, <2>2, StepsAreStepped
    <2>4. \A t \in DOMAIN details : Finds(rollups[t], pupils, Details(S)[t])
        BY <1>1, AnswersFind
    <2> HIDE DEF closed, S, rollups, levels
    <2>5. /\ Finds(rollups.hotspots, pupils, Hotspots(S))
          /\ Finds(rollups.tiles, pupils, SpecialTiles(S))
          /\ Finds(rollups.chains, pupils, ChainLengths(S))
          /\ Finds(rollups.families, pupils, CardFamilies(S))
          /\ Finds(rollups.types, pupils, CardTypes(S))
          /\ Finds(rollups.conditionals, pupils, Conditionals(S))
          /\ Finds(rollups.backs, pupils, BackUsage(S))
          /\ Finds(rollups.foreach, pupils, ForeachContext(S))
          /\ Finds(rollups.numbers, pupils, NumberChoices(S))
        BY <2>1, <2>4 DEF Details
    <2>6. RollupMistakeHotspotsByLevel(rollups, pupils) = MistakeHotspotsByLevel(S)
        BY <2>3, <2>5, HotspotsAnswer DEF RollupMistakeHotspotsByLevel
    <2>7. RollupSpecialTileBreakdown(rollups, pupils) = SpecialTileBreakdown(S)
        BY <2>1, <2>2, <2>5, TilesAnswer DEF RollupSpecialTileBreakdown
    <2>8. RollupChainLengthsByLevel(rollups, pupils) = ChainLengthsByLevel(S)
        BY <2>1, <2>2, <2>5, ChainsAnswer DEF RollupChainLengthsByLevel
    <2>9. RollupBackCardUsageByPlace(rollups, pupils) = BackCardUsageByPlace(S)
        BY <2>3, <2>5, BacksAnswer DEF RollupBackCardUsageByPlace
    <2>10. RollupForeachTileContextUsage(rollups, pupils) = ForeachTileContextUsage(S)
        BY <2>3, <2>5, ForeachAnswer
    <2>11. RollupNumberChoices(rollups, pupils) = NumberChoicesByLevel(S)
        BY <2>3, <2>5, NumbersAnswer
    <2>12. RollupTileConditionalAccuracy(rollups, pupils) = TileConditionalAccuracy(S)
        BY <2>3, <2>5, TileConditionsAnswer
    <2>13. LET a == RollupBagConditionalAccuracy(rollups, pupils).buckets
               b == BagConditionalAccuracy(S).buckets
           IN  /\ DOMAIN a = DOMAIN b
               /\ \A k \in DOMAIN a : <<a[k].total, a[k].correct>> = <<b[k].total, b[k].correct>>
        BY <2>3, <2>5, BagConditionsAnswer
    <2>14. LET times == Chosen(RollupDecisionTimeByFamilyByLevel(rollups, pupils))
               raw   == DecisionTimeByFamilyByLevel(S)
           IN  /\ Chosen(RollupCardAccuracyByFamilyByLevel(rollups, pupils)) =
                      CardAccuracyByFamilyByLevel(S)
               /\ DOMAIN times = DOMAIN raw
               /\ \A j \in DOMAIN times : LET a == times[j]
                                              b == raw[j]
                                          IN  <<a.total, a.avg, a.min, a.max>> =
                                                  <<b.total, b.avg, b.min, b.max>>
        BY <2>3, <2>5, FamilyAnswers
    <2>15. LET a == RollupDecisionTimeByCardType(rollups, pupils).summary
               b == DecisionTimeByCardType(S)
           IN  /\ DOMAIN a = DOMAIN b
               /\ \A k \in DOMAIN a : <<a[k].total, a[k].min, a[k].max>> = <<b[k].total, b[k].min, b[k].max>>
        BY <2>3, <2>5, TypesAnswer
    <2>16. LET rolled == RollupNumberDecisionTime(rollups, pupils)
               raw    == NumberDecisionTime(S)
           IN  /\ DOMAIN rolled = DOMAIN raw
               /\ \A k \in DOMAIN raw : /\ rolled[k].count = raw[k].count
                                        /\ raw[k].timed = raw[k].count => raw[k].avg = rolled[k].avg
        BY <2>3, <2>5, NumberTimesAnswer
    <2>17. LET rolled == RollupOfferChoiceShareByFamily(rollups, pupils)
               raw    == OfferChoiceShareByFamily(S)
           IN  \A k \in DOMAIN raw :
                   IF k \in DOMAIN rolled THEN raw[k] = rolled[k]
                   ELSE raw[k].offered = 0 /\ raw[k].chosen = 0
        BY <2>3, <2>5, SharesAnswer
    <2>18. LET moved == RollupWrongMovesRateByLevel(levels, pupils)
               times == RollupTimeDistributionByLevel(levels, pupils)
           IN  /\ RollupWinRateByLevel(levels, pupils) = WinRateByLevel(closed)
               /\ DOMAIN moved = DOMAIN WrongMovesRateByLevel(closed)
               /\ \A l \in DOMAIN moved : LET a == moved[l]
                                              b == WrongMovesRateByLevel(closed)[l]
                                          IN  <<a.correct, a.wrong, a.moves>> = <<b.correct, b.wrong, b.moves>>
               /\ DOMAIN times = DOMAIN TimeDistributionByLevel(closed)
               /\ \A l \in DOMAIN times : LET a == times[l]
                                              b == TimeDistributionByLevel(closed)[l]
                                          IN  <<a.avg, a.min, a.max, a.runs>> = <<b.avg, b.min, b.max, b.runs>>
        BY <2>1, LevelAnswers DEF levels, closed
    <2>19. QED
        BY <2>6, <2>7, <2>8, <2>9, <2>10, <2>11, <2>12, <2>13, <2>14, <2>15, <2>16, <2>17, <2>18
           DEF S, closed, levels, rollups, ClosedRuns, OfSettled, Chosen
<1>2. DetailsInv => AnswersAgree
    BY <1>1 DEF AnswersAgree
<1>3. QED
    BY <1>2, DetailsHold, PTL

-------------------------------------------------------------------------------
(* Closed weeks: the tables implement ClosedBooks.                         *)

(* The columns of a row made anew.                                         *)
LEMMA ColumnsOf ==
    ASSUME NEW R
    PROVE  /\ WeekRow(R) = [c \in WeekColumns |-> WeekRow(R)[c]]
           /\ LevelRow(R) = [c \in LevelColumns |-> LevelRow(R)[c]]
<1>1. /\ DOMAIN Counters(R) = {"runs", "wins", "correct", "wrong", "score", "elapsed"}
      /\ DOMAIN LatestRun(R) = {"latest"} /\ DOMAIN FirstRun(R) = {"first"}
    BY DEF Counters, LatestRun, FirstRun
<1>2. DOMAIN WeekRow(R) = WeekColumns /\ DOMAIN LevelRow(R) = LevelColumns
    BY <1>1 DEF WeekRow, LevelRow, WeekColumns, LevelColumns, ++
<1>3. /\ WeekRow(R) = [c \in DOMAIN WeekRow(R) |-> WeekRow(R)[c]]
      /\ LevelRow(R) = [c \in DOMAIN LevelRow(R) |-> LevelRow(R)[c]]
    BY DEF WeekRow, LevelRow, ++
<1>4. QED
    BY <1>2, <1>3

(* Rows of a week nobody moved in are the rows of its runs.                *)
LEMMA RowsRecorded ==
    ASSUME SummariesInv, NEW w \in done \ disturbed
    PROVE  /\ [k \in DOMAIN OfWeek(studentWeek, w) |-> [c \in WeekColumns |-> studentWeek[k][c]]]
                  = StudentWeeks(RunsIn(w))
           /\ [k \in DOMAIN OfWeek(studentLevel, w) |-> [c \in LevelColumns |-> studentLevel[k][c]]]
                  = StudentLevels(RunsIn(w))
<1> DEFINE A == AllRuns
           R == RunsIn(w)
           weeks == StudentWeeks(R)
           levels == StudentLevels(R)
<1>1. InStep(studentWeek, StudentWeeks(A)) /\ InStep(studentLevel, StudentLevels(A))
    BY DEF SummariesInv, Summaries
<1>2. /\ DOMAIN OfWeek(studentWeek, w) = {k \in DOMAIN studentWeek : k[2] = w}
      /\ DOMAIN OfWeek(studentLevel, w) = {k \in DOMAIN studentLevel : k[2] = w}
    BY DEF OfWeek, Without
<1>3. /\ \A k : k[2] = w => (k \in DOMAIN studentWeek <=> k \in DOMAIN StudentWeeks(A))
      /\ \A k : k[2] = w => (k \in DOMAIN studentLevel <=> k \in DOMAIN StudentLevels(A))
    BY <1>1 DEF InStep
<1>4. R = {r \in A : r.week = w}
    BY DEF RunsIn
<1>5. /\ DOMAIN weeks = DOMAIN OfWeek(studentWeek, w)
      /\ DOMAIN levels = DOMAIN OfWeek(studentLevel, w)
    <2>1. /\ DOMAIN weeks = {<<r.student, r.week>> : r \in R}
          /\ DOMAIN levels = {<<r.student, r.week, r.level>> : r \in R}
          /\ DOMAIN StudentWeeks(A) = {<<r.student, r.week>> : r \in A}
          /\ DOMAIN StudentLevels(A) = {<<r.student, r.week, r.level>> : r \in A}
        BY TablesAre
    <2> HIDE DEF A, R, weeks, levels
    <2>2. /\ \A k : k \in DOMAIN weeks <=> k \in DOMAIN StudentWeeks(A) /\ k[2] = w
          /\ \A k : k \in DOMAIN levels <=> k \in DOMAIN StudentLevels(A) /\ k[2] = w
        BY <1>4, <2>1
    <2>3. QED
        BY <1>2, <1>3, <2>2
<1>6. ASSUME NEW k \in DOMAIN weeks
      PROVE  [c \in WeekColumns |-> studentWeek[k][c]] = weeks[k]
    <2>1. k \in DOMAIN studentWeek /\ k[2] = w
        BY <1>2, <1>5
    <2>2. k \in DOMAIN StudentWeeks(A) /\ Matches(studentWeek[k], StudentWeeks(A)[k])
        BY <1>1, <2>1 DEF InStep
    <2>3. k \in {<<r.student, r.week>> : r \in A}
        BY <2>2, TablesAre
    <2>4. WeekRuns(R, k) = WeekRuns(A, k)
        BY <1>4, <2>1, <2>3 DEF WeekRuns
    <2>5. weeks[k] = StudentWeeks(A)[k] /\ weeks[k] = WeekRow(WeekRuns(R, k))
        <3>1. weeks[k] = WeekRow(WeekRuns(R, k)) /\ StudentWeeks(A)[k] = WeekRow(WeekRuns(A, k))
            BY <2>2, TablesAre
        <3>2. QED
            BY <2>4, <3>1
    <2> DEFINE row == weeks[k]
    <2>6. row = [c \in WeekColumns |-> row[c]] /\ Matches(studentWeek[k], row)
        <3>1. row = [c \in WeekColumns |-> row[c]]
            BY <2>5, ColumnsOf
        <3>2. QED
            BY <2>2, <2>5, <3>1
    <2> HIDE DEF row
    <2>7. [c \in WeekColumns |-> studentWeek[k][c]] = row
        BY <2>6 DEF Matches
    <2>8. QED
        BY <2>7 DEF row
<1>7. ASSUME NEW k \in DOMAIN levels
      PROVE  [c \in LevelColumns |-> studentLevel[k][c]] = levels[k]
    <2>1. k \in DOMAIN studentLevel /\ k[2] = w
        BY <1>2, <1>5
    <2>2. k \in DOMAIN StudentLevels(A) /\ Matches(studentLevel[k], StudentLevels(A)[k])
        BY <1>1, <2>1 DEF InStep
    <2>3. k \in {<<r.student, r.week, r.level>> : r \in A}
        BY <2>2, TablesAre
    <2>4. LevelRuns(R, k) = LevelRuns(A, k)
        BY <1>4, <2>1, <2>3 DEF LevelRuns
    <2>5. levels[k] = StudentLevels(A)[k] /\ levels[k] = LevelRow(LevelRuns(R, k))
        <3>1. levels[k] = LevelRow(LevelRuns(R, k)) /\ StudentLevels(A)[k] = LevelRow(LevelRuns(A, k))
            BY <2>2, TablesAre
        <3>2. QED
            BY <2>4, <3>1
    <2> DEFINE row == levels[k]
    <2>6. row = [c \in LevelColumns |-> row[c]] /\ Matches(studentLevel[k], row)
        <3>1. row = [c \in LevelColumns |-> row[c]]
            BY <2>5, ColumnsOf
        <3>2. QED
            BY <2>2, <2>5, <3>1
    <2> HIDE DEF row
    <2>7. [c \in LevelColumns |-> studentLevel[k][c]] = row
        BY <2>6 DEF Matches
    <2>8. QED
        BY <2>7 DEF row
<1>8. /\ weeks = [k \in DOMAIN weeks |-> weeks[k]]
      /\ levels = [k \in DOMAIN levels |-> levels[k]]
    BY DEF StudentWeeks, StudentLevels, Grouped
<1> HIDE DEF weeks, levels
<1>9. QED
    BY <1>5, <1>6, <1>7, <1>8, Zenon DEF weeks, levels

(* The figures of a closed week are those of its runs.                     *)
Fits(w) == Recorded(w) = Figures(RunsIn(w))

LEMMA RecordedFits ==
    ASSUME DetailsInv, NEW w \in done \ disturbed
    PROVE  Fits(w)
<1> DEFINE weeks ==
               [k \in DOMAIN OfWeek(studentWeek, w) |-> [c \in WeekColumns |-> studentWeek[k][c]]]
           levels ==
               [k \in DOMAIN OfWeek(studentLevel, w) |-> [c \in LevelColumns |-> studentLevel[k][c]]]
           parts == [t \in DOMAIN details |-> OfWeek(details[t], w)]
<1>1. weeks = StudentWeeks(RunsIn(w)) /\ levels = StudentLevels(RunsIn(w))
    BY RowsRecorded DEF DetailsInv
<1>2. Recorded(w) = [weeks |-> weeks, levels |-> levels, details |-> parts]
    BY Zenon DEF Recorded
<1>3. parts = Details(Steps(RunsIn(w)))
    <2> DEFINE S == Steps(RunsIn(w))
    <2>1. Made(w) = RunsIn(w)
        BY DEF Made
    <2>2. w \in Weeks \ disturbed /\ DOMAIN details = DOMAIN Details({})
        BY DEF DetailsInv, SummariesInv, BaseInv, Types
    <2>3. \A t \in DOMAIN details : OfWeek(details[t], w) = Details(S)[t]
        BY <2>1, <2>2 DEF DetailsInv, DetailRows
    <2>4. DOMAIN Details({}) = DOMAIN Details(S) /\ Details(S) = [t \in DOMAIN Details(S) |-> Details(S)[t]]
        BY DEF Details
    <2> HIDE DEF S
    <2>5. QED
        BY <2>2, <2>3, <2>4 DEF S
<1> HIDE DEF weeks, levels, parts
<1>4. QED
    BY <1>1, <1>2, <1>3, Zenon DEF Fits, Figures

(* The book of a state, by the runs.                                       *)
BookFits == \A w \in done \ disturbed : Fits(w)

LEMMA BooksInitially == ASSUME Init PROVE Books!Init
<1>1. AllRuns = {}
    BY DEF Init, AllRuns, Nothing
<1>2. done \ disturbed = {}
    BY DEF Init
<1>3. Book = [w \in {} |-> w]
    BY <1>2 DEF Book
<1>4. QED
    BY <1>1, <1>3 DEF Books!Init

(* Closed weeks get no runs.                                               *)
LEMMA RunsOfClosedWeeks ==
    ASSUME BaseInv, Next
    PROVE  /\ AllRuns \subseteq AllRuns'
           /\ \A r \in AllRuns' \ AllRuns : r.week \notin done
           /\ Finalize => AllRuns' = AllRuns
<1>1. ASSUME NEW f \in Flushers, Commit(f)
      PROVE  /\ AllRuns \subseteq AllRuns'
             /\ \A r \in AllRuns' \ AllRuns : r.week \notin done
    <2>1. AllRuns' = AllRuns \union New(f)
        BY <1>1, RunsAfterCommit
    <2>2. \A r \in New(f) : ~Quiet(r.week)
        BY NewIs DEF New, Quiet
    <2>3. \A w \in done : Quiet(w)
        BY DEF BaseInv, Closed
    <2>4. QED
        BY <2>1, <2>2, <2>3
<1>2. runs' = runs => AllRuns' = AllRuns
    BY DEF AllRuns, RunOf
<1>3. Finalize => runs' = runs
    BY DEF Finalize
<1>4. (~\E f \in Flushers : Commit(f)) => runs' = runs
    BY DEF Next, Insert, Rollback, NextWeek, Move, StartCompaction, Slice, SliceFails, Finalize
<1>5. QED
    BY <1>1, <1>2, <1>3, <1>4

(* A week that was closed has been finalised, and stays one nobody moved in. *)
LEMMA WeeksClosed ==
    ASSUME Next
    PROVE  /\ done \ disturbed \subseteq done' \ disturbed'
           /\ \/ done' \ disturbed' = done \ disturbed
              \/ /\ Finalize /\ compaction.week \notin done \union disturbed
                 /\ done' \ disturbed' = (done \ disturbed) \union {compaction.week}
<1>1. CASE Finalize
    BY <1>1 DEF Finalize
<1>2. ASSUME NEW p \in Pupils, NEW c \in Rooms, Move(p, c)
      PROVE  done' \ disturbed' = done \ disturbed
    BY <1>2 DEF Move
<1>3. ASSUME ~Finalize, ~\E p \in Pupils, c \in Rooms : Move(p, c)
      PROVE  done' = done /\ disturbed' = disturbed
    BY <1>3 DEF Next, Insert, Commit, Rollback, NextWeek, StartCompaction, Slice, SliceFails
<1>4. QED
    BY <1>1, <1>2, <1>3

(* Every step adds runs to open weeks, or closes one.                      *)
LEMMA BooksStep ==
    ASSUME BaseInv, BookFits, BookFits', Next
    PROVE  Books!Next
<1>1. /\ AllRuns \subseteq AllRuns'
      /\ \A r \in AllRuns' \ AllRuns : r.week \notin done
      /\ Finalize => AllRuns' = AllRuns
    BY RunsOfClosedWeeks
<1>2. \A w \in done : RunsIn(w)' = RunsIn(w)
    BY <1>1 DEF RunsIn
<1>3. ASSUME NEW w \in done \ disturbed
      PROVE  w \in done' \ disturbed' /\ Recorded(w)' = Recorded(w)
    <2>1. w \in done' \ disturbed'
        BY WeeksClosed
    <2>2. Recorded(w) = Figures(RunsIn(w)) /\ (Recorded(w) = Figures(RunsIn(w)))'
        BY <2>1 DEF BookFits, Fits
    <2>3. (Recorded(w) = Figures(RunsIn(w)))' => Recorded(w)' = Figures(RunsIn(w)')
        OBVIOUS
    <2>4. QED
        BY <1>2, <2>1, <2>2, <2>3
<1>4. /\ DOMAIN Book = done \ disturbed /\ DOMAIN Book' = done' \ disturbed'
      /\ \A w \in done \ disturbed : Book[w] = Recorded(w)
      /\ Book' = [w \in done' \ disturbed' |-> Recorded(w)']
    BY DEF Book
<1>5. CASE done' \ disturbed' = done \ disturbed
    <2>1. Book' = Book
        BY <1>3, <1>5 DEF Book
    <2>2. \A r \in AllRuns' \ AllRuns : r.week \notin DOMAIN Book
        BY <1>1, <1>4
    <2>3. Books!Count
        BY <1>1, <2>1, <2>2 DEF Books!Count
    <2>4. QED
        BY <2>3 DEF Books!Next
<1>6. ASSUME Finalize, compaction.week \notin done \union disturbed,
             done' \ disturbed' = (done \ disturbed) \union {compaction.week}
      PROVE  Books!Next
    <2>1. PICK w : w = compaction.week
        OBVIOUS
    <2>2. AllRuns' = AllRuns /\ done' \ disturbed' = (done \ disturbed) \union {w}
          /\ w \notin done
        BY <1>1, <1>6, <2>1
    <2>3. Recorded(w)' = Figures({r \in AllRuns : r.week = w})
        <3>1. (Recorded(w) = Figures(RunsIn(w)))'
            BY <2>2 DEF BookFits, Fits
        <3>2. RunsIn(w)' = {r \in AllRuns : r.week = w}
            BY <2>2 DEF RunsIn
        <3>3. QED
            BY <3>1, <3>2
    <2>4. Book' = [v \in DOMAIN Book \union {w} |->
                      IF v = w THEN Figures({r \in AllRuns : r.week = w}) ELSE Book[v]]
        <3>1. \A v \in done' \ disturbed' :
                  Recorded(v)' = IF v = w THEN Figures({r \in AllRuns : r.week = w}) ELSE Book[v]
            BY <1>3, <1>4, <2>2, <2>3
        <3>2. QED
            BY <1>4, <2>2, <3>1
    <2>5. Books!Close(w) /\ w \in DOMAIN Book'
        BY <1>4, <2>2, <2>4 DEF Books!Close
    <2>6. QED
        BY <2>5 DEF Books!Next
<1>7. QED
    BY <1>5, <1>6, WeeksClosed

(* The tables implement ClosedBooks, for any payloads, flushers, batches,  *)
(* rooms, teachers and weeks, whoever moves when: a closed week that       *)
(* nobody moved in has the figures of all runs that were ever counted in   *)
(* it, deleted turns included, gets no more of them, and keeps its figures *)
(* while the flusher upserts and compaction deletes and remakes others.    *)
(* (rollup_incremental.py and weekly_aggregation.py together)              *)
THEOREM BooksAreKept == Spec => BooksSpec
<1>1. Init => Books!Init
    BY BooksInitially
<1>2. DetailsInv => BookFits
    BY RecordedFits DEF BookFits
<1>3. BaseInv /\ BookFits /\ BookFits' /\ [Next]_vars => [Books!Next]_(Books!vars)
    <2> SUFFICES ASSUME BaseInv, BookFits, BookFits', [Next]_vars
                 PROVE  [Books!Next]_(Books!vars)
        OBVIOUS
    <2>1. CASE Next
        BY <2>1, BooksStep
    <2>2. CASE UNCHANGED vars
        <3>1. AllRuns' = AllRuns /\ Book' = Book
            BY <2>2 DEF vars, queue, tables, people, AllRuns, RunOf, Book, Recorded, OfWeek, Without
        <3>2. QED
            BY <3>1 DEF Books!vars
    <2>3. QED
        BY <2>1, <2>2
<1>4. QED
    BY <1>1, <1>2, <1>3, BaseHolds, DetailsHold, PTL DEF Spec, BooksSpec, Books!Spec
===============================================================================
