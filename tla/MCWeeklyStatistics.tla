-------------------------- MODULE MCWeeklyStatistics --------------------------
(* Small values for the constants of WeeklyStatistics: two pupils of two   *)
(* teachers and a handful of games, with a card of every family.           *)
EXTENDS WeeklyStatistics

CONSTANTS p, q, ra, rb, ann, ben

CardOf(type, tile, value, then) == [type |-> type, tile |-> tile, value |-> value, then |-> then]

Step1     == CardOf("MoveX", None, None, 1)
StepPlain == CardOf("MoveX", None, None, None)
IfTile    == CardOf("IfXMoveYElseMoveZ", "star", None, 2)
IfBag     == CardOf("IfBagLessXMoveYElseMoveZ", None, 3, 2)
ForTile   == CardOf("ForXMoveY", "star", None, 1)
BackOne   == CardOf("Bug", None, None, None)
AllBack   == CardOf("AllBackX", None, None, 1)
Choice    == CardOf("BagCount", None, None, None)
Odd       == CardOf(None, None, None, None)

\* A correct move of one second from a plain tile, and what differs from it.
Plain(i, card) ==
    [index |-> i, card |-> card, offered |-> <<card, Step1>>, correct |-> TRUE,
     before |-> [place |-> i, kind |-> "plain"], rank |-> 2, bots |-> {2}, time |-> 1,
     number |-> -1, numberTime |-> -1, chain |-> <<>>]

StarAt(place) == [place |-> place, kind |-> "star", type |-> "star"]

Game(student, level, place, turns, correct, wrong) ==
    [form |-> "unity", student |-> student, level |-> level, place |-> place, won |-> place = 1,
     elapsed |-> None, started |-> 1, ended |-> 3, score |-> 5, correct |-> correct,
     wrong |-> wrong, map |-> <<StarAt(2)>>, turns |-> turns]

\* Won: a number is chosen, the bag is asked about, a tile is jumped from.
Won ==
    Game(p, 1, 1,
         <<[Plain(0, Choice) EXCEPT !.number = 4, !.numberTime = 1],
           [Plain(1, IfBag) EXCEPT !.offered = <<IfBag, BackOne>>],
           [Plain(2, IfTile) EXCEPT !.correct = FALSE, !.before.kind = "star",
                                    !.chain = <<[index |-> 0, kind |-> "jump"]>>]>>, 3, 1)

\* Lost, by the canonical form, the turns out of order and a very slow one.
Lost ==
    [Game(p, 1, 2,
          <<[Plain(1, BackOne) EXCEPT !.correct = FALSE, !.time = 9],
            [Plain(0, ForTile) EXCEPT !.number = 3]>>, 1, 1)
        EXCEPT !.form = "canonical", !.won = None, !.elapsed = 4, !.score = 2]

\* Longer than a game lasts, on another level, and a card of no known type.
Long ==
    [Game(p, 2, 3, <<Plain(0, AllBack), Plain(1, Odd),
                     [Plain(2, IfBag) EXCEPT !.correct = FALSE]>>, 2, 1)
        EXCEPT !.ended = 99, !.score = 1,
               !.map = <<[place |-> 2, kind |-> "star", type |-> Absent]>>]

Other == [Game(q, 1, 2, <<[Plain(0, StepPlain) EXCEPT !.chain =
                              <<[index |-> 0, kind |-> "slide"], [index |-> 1, kind |-> "jump"]>>],
                          Plain(1, ForTile)>>, 2, 0) EXCEPT !.map = <<StarAt(1), StarAt(2)>>]

\* The winning move left out of the count.
Miscounted == Game(q, 1, 1, <<Plain(0, Step1)>>, 1, 0)

\* Without a place it is accepted, and no database takes it.
Placeless ==
    [Game(q, 1, None, <<Plain(0, Step1)>>, 1, 0) EXCEPT !.form = "canonical", !.won = TRUE]

MCPayloads ==
    [won |-> Won, lost |-> Lost, long |-> Long, other |-> Other, miscounted |-> Miscounted,
     placeless |-> Placeless]

MCArrivals == <<"won", "lost", "other", "long", "miscounted", "placeless">>

MCHome      == p :> ra @@ q :> rb
MCTeacherOf == ra :> ann @@ rb :> ben
Symmetry    == Permutations(Flushers)
===============================================================================
