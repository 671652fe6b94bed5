------------------------------- MODULE Gameplay -------------------------------
(***************************************************************************)
(* What the game sends of a run, what the ingest endpoint accepts of it,   *)
(* and the run and the turns that are stored.  A card is what its payload  *)
(* says: a type, a tile type, a threshold and a number of steps.           *)
(***************************************************************************)
EXTENDS Integers, Sequences, FiniteSets, FiniteSetsExt

CONSTANTS
    None,          \* null
    Absent,        \* a key that is not sent
    AllBacks,      \* card types whose name begins with AllBack
    LongestGame    \* MAX_GAME_DURATION_MS

FamilyByType ==
    [MoveX |-> "move", IfXMoveYElseMoveZ |-> "conditional_tile",
     IfBagEqualXMoveYElseMoveZ |-> "conditional_bag_eq",
     IfBagLessXMoveYElseMoveZ |-> "conditional_bag_lt",
     IfBagGreaterXMoveYElseMoveZ |-> "conditional_bag_gt",
     BagCount |-> "bagcount", ForXMoveY |-> "foreach_tile", Back |-> "back"]

ComparatorByType ==
    [IfBagEqualXMoveYElseMoveZ |-> "eq", IfBagLessXMoveYElseMoveZ |-> "lt",
     IfBagGreaterXMoveYElseMoveZ |-> "gt"]

BackTypes == {"Bug", "Back"} \union AllBacks

FamilyOf(type) == IF type \in DOMAIN FamilyByType THEN FamilyByType[type] ELSE "unknown"

Known(column) == column \notin {None, "unknown"}

-------------------------------------------------------------------------------
(* The endpoint's and the flusher's view of a card.                        *)

\* Mutant: the other name of the card Back is forgotten.
NormalTypeWithoutBug(type) == IF type \in BackTypes \ {"Bug"} THEN "Back" ELSE type

NormalTypeForIngestion(type) == IF type \in BackTypes THEN "Back" ELSE type

(* A move or a step back without a number is by one.                       *)
NormalizedCard(card) ==
    IF NormalTypeForIngestion(card.type) \in {"MoveX", "Back"} /\ card.then = None
      THEN [card EXCEPT !.then = 1] ELSE card

CardMetadata(card) ==
    LET type == IF card.type = None THEN "unknown" ELSE NormalTypeForIngestion(card.type)
    IN  [type |-> type, family |-> FamilyOf(type), tile |-> card.tile]

-------------------------------------------------------------------------------
(* The statistics' view of a card and of a stored turn.                    *)

NormalType(type) == IF type \in BackTypes THEN "Back" ELSE type

ParseCard(card) ==
    LET type == IF card.type = None THEN "unknown" ELSE NormalType(card.type)
    IN  [type |-> type, family |-> FamilyOf(type), tile |-> card.tile, value |-> card.value,
         then |-> IF type \in {"Back", "MoveX"} /\ card.then = None THEN 1 ELSE card.then]

(* weekly_aggregation: a column counts unless it says nothing.             *)
CardFamily(turn) == IF Known(turn.family) THEN turn.family ELSE ParseCard(turn.card).family
CardType(turn)   == IF Known(turn.type) THEN turn.type ELSE ParseCard(turn.card).type
CardTile(turn)   == IF turn.tile # None THEN turn.tile ELSE ParseCard(turn.card).tile

(* analytics: the columns count together.                                  *)
ExtractTurnCard(turn) ==
    IF Known(turn.type) /\ Known(turn.family)
      THEN [type |-> turn.type, family |-> turn.family, tile |-> turn.tile]
      ELSE LET parsed == ParseCard(turn.card)
           IN  [type |-> parsed.type, family |-> parsed.family,
                tile |-> IF turn.tile = None THEN parsed.tile ELSE turn.tile]

(* What stands on a tile of the map: its type, or its index if no type was *)
(* sent; of two tiles of one place the last counts.                        *)
MapLookup(tiles) ==
    [place \in {tiles[i].place : i \in DOMAIN tiles} |->
        LET tile == tiles[Max({i \in DOMAIN tiles : tiles[i].place = place})]
        IN  IF tile.type = Absent THEN tile.kind ELSE tile.type]

OnTile(run, turn, type) ==
    LET lookup == MapLookup(run.map)
    IN  \E bot \in turn.bots \intersect DOMAIN lookup : lookup[bot] = type

-------------------------------------------------------------------------------
(* Validation.                                                             *)

(* What the schemas say of the fields by themselves: numbers are numbers,  *)
(* lists are lists, and the times of a Unity payload are there.            *)
IsList(items) == items \in Seq({items[i] : i \in DOMAIN items})

WellFormedTurn(turn) ==
    /\ IsList(turn.offered) /\ IsList(turn.chain)
    /\ turn.time \in Int /\ {turn.number, turn.numberTime} \subseteq Int \union {None}

WellFormed(p) ==
    /\ IsList(p.turns) /\ \A i \in DOMAIN p.turns : WellFormedTurn(p.turns[i])
    /\ {p.score, p.correct, p.wrong} \subseteq Int
    /\ {p.elapsed, p.started, p.ended} \subseteq Int \union {None}
    /\ p.form = "unity" => None \notin {p.started, p.ended}

Right(turns) == Cardinality({i \in DOMAIN turns : turns[i].correct})
Wrong(turns) == Len(turns) - Right(turns)

(* sorted(indices) == list(range(n))                                       *)
Sequential(steps) == {steps[i].index : i \in DOMAIN steps} = 0 .. Len(steps) - 1

IndicesMatch(p) ==
    /\ Sequential(p.turns)
    /\ \A i \in DOMAIN p.turns : Sequential(p.turns[i].chain)

\* Mutant: the winning move counts as a turn.
MovesMatchTurns(p) == p.correct = Right(p.turns) /\ p.wrong = Wrong(p.turns)

(* The move over the finishing line is a correct move and no turn.         *)
MovesMatch(p) ==
    /\ Right(p.turns) = IF p.place = 1 THEN p.correct - 1 ELSE p.correct
    /\ p.wrong = Wrong(p.turns)

UnityValid(p) == MovesMatch(p) /\ IndicesMatch(p)

CanonicalValid(p) ==
    /\ p.elapsed # None \/ (p.started # None /\ p.ended # None)
    /\ IF p.place # None
         THEN p.won \in {None, p.place = 1} /\ MovesMatch(p)
         ELSE p.won # None /\ Len(p.turns) = p.correct + p.wrong
    /\ IndicesMatch(p)

Valid(p) == IF p.form = "unity" THEN UnityValid(p) ELSE CanonicalValid(p)

-------------------------------------------------------------------------------
(* Storing.                                                                *)

(* clamp_elapsed_ms                                                        *)
Clamped(started, ended) == Max({0, Min({LongestGame, ended - started})})

(* -1 stands for no number.                                                *)
Sentinel(number) == IF number = -1 THEN None ELSE number

StoredTurn(turn) ==
    LET card == NormalizedCard(turn.card)
        meta == CardMetadata(card)
    IN  [card |-> card, type |-> meta.type, family |-> meta.family, tile |-> meta.tile,
         offered |-> [i \in DOMAIN turn.offered |-> NormalizedCard(turn.offered[i])],
         correct |-> turn.correct, from |-> turn.before.place, fromType |-> turn.before.kind,
         rank |-> turn.rank, bots |-> turn.bots, time |-> turn.time,
         number |-> Sentinel(turn.number), numberTime |-> Sentinel(turn.numberTime),
         chain |-> [i \in DOMAIN turn.chain |-> turn.chain[i].kind]]

InOrder(turns) ==
    [i \in DOMAIN turns |->
        StoredTurn(turns[CHOOSE j \in DOMAIN turns : turns[j].index = i - 1])]

(* A Unity tile is stored with a null for a type that was not sent.        *)
StoredMap(p) ==
    IF p.form # "unity" THEN p.map
    ELSE [i \in DOMAIN p.map |->
             IF p.map[i].type = Absent THEN [p.map[i] EXCEPT !.type = None] ELSE p.map[i]]

StoredRun(id, p) ==
    [id |-> id, student |-> p.student, level |-> p.level, place |-> p.place,
     won |-> IF p.place = None THEN p.won ELSE p.place = 1,
     score |-> p.score, correct |-> p.correct, wrong |-> p.wrong,
     elapsed |-> IF p.form = "unity" \/ p.elapsed = None
                   THEN Clamped(p.started, p.ended) ELSE p.elapsed,
     map |-> StoredMap(p), turns |-> InOrder(p.turns)]

\* Mutant: any place will do.
InsertableAlways(run) == TRUE

(* Run.place is NOT NULL: a canonical payload without it fails its batch.  *)
Insertable(run) == run.place # None
===============================================================================
