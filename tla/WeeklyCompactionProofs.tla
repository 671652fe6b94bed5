------------------------ MODULE WeeklyCompactionProofs ------------------------
(***************************************************************************)
(* Theorems of WeeklyCompaction, for any runs, pupils, teachers, pairs,    *)
(* modes, pool size, faults and moves of pupils.  For any number of        *)
(* commands at a time: types, and what overlapping commands on the same    *)
(* week leave intact.  For commands that do not overlap: that a compaction *)
(* loses nothing.                                                          *)
(***************************************************************************)
EXTENDS WeeklyCompaction, TLAPS

Position == [at : Places, runs : SUBSET Week, turns : SUBSET Week,
             of : [Students -> Teachers], listed : SUBSET Week,
             left : SUBSET Week, run : SUBSET Week, lines : Nat]

Order == [phase : {"idle", "open", "run", "orphaned"}, mode : AllModes, dry : BOOLEAN,
          mark : {"pending", "aggregated"}, waiting : SUBSET Slices]

Shape(p) ==
    /\ p.at \in {"archive", "build"} <=> p.left # {}
    /\ p.at = "build" <=> p.run # {}
    /\ p.run \subseteq p.left /\ p.turns \subseteq p.runs /\ p.left \subseteq p.listed

TableTypes ==
    /\ rows \subseteq Runs /\ raw \subseteq rows /\ stamped \subseteq rows
    /\ archive \in [Runs -> Archives]
    /\ runRollup \subseteq Runs /\ turnRollup \subseteq Week /\ trend \subseteq Runs
    /\ named \in [Students -> Teachers] /\ status \in Statuses

SchoolTypes ==
    /\ teacher \in [Students -> Teachers]
    /\ moves \in 0 .. MaxMoves /\ astray \subseteq moved /\ moved \subseteq Students

CommandTypes == command \in [Commands -> Order]

SliceTypes ==
    /\ slice \in [Commands -> [Slices -> Position]]
    /\ \A c \in Commands, s \in Slices : Shape(slice[c][s])

BudgetTypes == faults \in 0 .. MaxFaults /\ started \in 0 .. MaxCommands

(* A slice that has not been started has no leftovers.                     *)
Unstarted ==
    \A c \in Commands :
        /\ command[c].phase # "run" => command[c].waiting = {}
        /\ \A s \in Slices :
              command[c].phase \in {"idle", "open"} \/ s \in command[c].waiting
                 => slice[c][s] = NoSlice

(* Where the modes do not take a slice.                                    *)
Fits(m, at) ==
    /\ m = "archive" => at \notin {"read", "write", "buckets", "verify", "delete", "stamp"}
    /\ m = "rebuild" => at \notin {"archive", "build", "verify", "delete", "stamp"}

Routes == \A c \in Commands, s \in Slices : Fits(command[c].mode, slice[c][s].at)

Types ==
    TableTypes /\ SchoolTypes /\ CommandTypes /\ SliceTypes /\ BudgetTypes /\ Unstarted /\ Routes

-------------------------------------------------------------------------------
(* What the steps of a slice do.                                           *)

Moves(c, s, p) == slice' = [slice EXCEPT ![c][s] = p]

LEMMA NoSliceFits ==
    /\ NoSlice \in Position /\ Shape(NoSlice) /\ \A m : Fits(m, NoSlice.at)
    /\ \A where \in Places \ {"archive", "build"} :
          /\ [NoSlice EXCEPT !.at = where] \in Position
          /\ Shape([NoSlice EXCEPT !.at = where])
          /\ [NoSlice EXCEPT !.at = where].at = where
BY CompactionAssumption DEF CompactionAssumption, NoSlice, Position, Shape, Places, Fits

LEMMA MovesTo ==
    ASSUME SliceTypes, NEW c \in Commands, NEW s \in Slices, NEW p \in Position, Moves(c, s, p)
    PROVE  /\ slice'[c][s] = p
           /\ \A d \in Commands, t \in Slices :
                 d # c \/ t # s => slice'[d][t] = slice[d][t]
           /\ Shape(p) => SliceTypes'
<1>1. slice'[c][s] = p
  BY DEF SliceTypes, Moves
<1>2. \A d \in Commands, t \in Slices : d # c \/ t # s => slice'[d][t] = slice[d][t]
  BY DEF SliceTypes, Moves
<1>3. slice' \in [Commands -> [Slices -> Position]]
  BY DEF SliceTypes, Moves
<1>4. ASSUME Shape(p) PROVE \A d \in Commands, t \in Slices : Shape(slice'[d][t])
  BY <1>1, <1>2, <1>4 DEF SliceTypes
<1>5. Shape(p) => SliceTypes'
  <2>1. (\A d \in Commands, t \in Slices : Shape(slice[d][t]))'
          <=> \A d \in Commands, t \in Slices : Shape(slice'[d][t])
    BY DEF Shape
  <2> QED
    BY <1>3, <1>4, <2>1 DEF SliceTypes
<1> QED
  BY <1>1, <1>2, <1>5

LEMMA LeaveMoves ==
    ASSUME NEW c \in Commands, NEW s \in Slices,
           NEW where \in Places \ {"archive", "build"}, Leave(c, s, where)
    PROVE  \E p \in Position : /\ Moves(c, s, p) /\ Shape(p) /\ p.at = where
                               /\ p = [NoSlice EXCEPT !.at = where]
BY NoSliceFits DEF Leave, Moves

LEMMA SliceStarts ==
    ASSUME Types, NEW c \in Commands, NEW s \in Slices, StartSlice(c, s)
    PROVE  \E p \in Position :
              /\ Moves(c, s, p) /\ Shape(p) /\ p = [NoSlice EXCEPT !.at = FirstPlace(c, s)]
              /\ p.at = FirstPlace(c, s) /\ p.at # "off" /\ Fits(command[c].mode, p.at)
<1>1. slice[c][s] = NoSlice
  BY DEF StartSlice, Types, Unstarted
<1>2. FirstPlace(c, s) \in {"list", "read", "done"} /\ Fits(command[c].mode, FirstPlace(c, s))
  BY DEF FirstPlace, Fits, Mode
<1>3. Leave(c, s, FirstPlace(c, s))
  <2> DEFINE where == FirstPlace(c, s)
  <2>1. slice' = [slice EXCEPT ![c][s].at = where]
    BY DEF StartSlice
  <2> HIDE DEF where
  <2>2. slice' = [slice EXCEPT ![c][s] = [slice[c][s] EXCEPT !.at = where]]
    BY <2>1 DEF Types, SliceTypes
  <2> QED
    BY <1>1, <2>2 DEF Leave, where
<1>4. FirstPlace(c, s) \in Places \ {"archive", "build"}
  BY <1>2 DEF Places
<1> QED
  BY <1>2, <1>3, <1>4, LeaveMoves

LEMMA WeekIsRead ==
    ASSUME Types, NEW c \in Commands, NEW s \in Slices, ReadWeek(c, s)
    PROVE  \E p \in Position :
              /\ Moves(c, s, p) /\ Shape(p) /\ p.at = "write" /\ p.listed = {} /\ p.left = {}
              /\ p.run = {} /\ p.runs = InScope(s) /\ p.turns = TurnsRead(s) /\ p.of = teacher
<1> DEFINE p == [NoSlice EXCEPT !.at = "write", !.runs = InScope(s), !.turns = TurnsRead(s),
                                !.of = teacher]
<1>1. /\ p \in Position /\ Shape(p) /\ p.at = "write" /\ p.listed = {} /\ p.left = {}
      /\ p.run = {} /\ p.runs = InScope(s) /\ p.turns = TurnsRead(s) /\ p.of = teacher
  BY DEF NoSlice, Position, Shape, Places, InScope, TurnsRead, Types, SchoolTypes
<1>2. Moves(c, s, p)
  BY DEF ReadWeek, Moves
<1> QED
  BY <1>1, <1>2

LEMMA RollupsAreWritten ==
    ASSUME NEW c \in Commands, NEW s \in Slices, WriteRollups(c, s)
    PROVE  \E p \in Position :
              /\ Moves(c, s, p) /\ Shape(p) /\ p = [NoSlice EXCEPT !.at = p.at]
              /\ p.at = "list" \/ (p.at = "done" /\ Mode(c) = "rebuild")
<1>1. PICK where \in {"list", "done"} :
        Leave(c, s, where) /\ (where = "done" => Mode(c) = "rebuild")
  BY DEF WriteRollups
<1> QED
  BY <1>1, LeaveMoves DEF Places

LEMMA WeekIsListed ==
    ASSUME Types, NEW c \in Commands, NEW s \in Slices, List(c, s)
    PROVE  \E p \in Position :
              /\ Moves(c, s, p) /\ Shape(p) /\ p.listed = InScope(s)
              /\ p.run = {} /\ p.left \subseteq InScope(s)
              /\ \/ p.at = "archive" /\ p.left = InScope(s) /\ Mode(c) # "rebuild"
                 \/ /\ p.at = AfterArchives(c) /\ p.at \in {"buckets", "done"}
                    /\ InScope(s) # {} => Mode(c) = "rebuild"
<1>1. InScope(s) \in SUBSET Week
  BY DEF InScope
<1>2. CASE InScope(s) # {} /\ Mode(c) # "rebuild"
  <2> DEFINE p == [NoSlice EXCEPT !.at = "archive", !.listed = InScope(s), !.left = InScope(s)]
  <2>1. /\ p \in Position /\ Shape(p) /\ p.listed = InScope(s) /\ p.run = {}
        /\ p.at = "archive" /\ p.left = InScope(s)
    BY <1>1, <1>2, NoSliceFits DEF NoSlice, Position, Shape, Places
  <2>2. Moves(c, s, p)
    BY <1>2 DEF List, Moves
  <2> HIDE DEF p
  <2> QED
    BY <1>2, <2>1, <2>2
<1>3. CASE ~(InScope(s) # {} /\ Mode(c) # "rebuild")
  <2> DEFINE p == [NoSlice EXCEPT !.at = AfterArchives(c), !.listed = InScope(s)]
  <2>1. /\ p \in Position /\ Shape(p) /\ p.listed = InScope(s) /\ p.run = {} /\ p.left = {}
        /\ p.at = AfterArchives(c) /\ p.at \in {"buckets", "done"}
    BY <1>1, NoSliceFits DEF NoSlice, Position, Shape, Places, AfterArchives
  <2>2. Moves(c, s, p)
    BY <1>3 DEF List, Moves
  <2> HIDE DEF p
  <2> QED
    BY <1>3, <2>1, <2>2
<1> QED
  BY <1>2, <1>3

LEMMA NextRunMoves ==
    ASSUME Types, NEW c \in Commands, NEW s \in Slices, NEW r \in slice[c][s].left, NEW n \in Nat,
           NextRun(c, s, r, n)
    PROVE  \E p \in Position :
              /\ Moves(c, s, p) /\ Shape(p) /\ p.listed = slice[c][s].listed
              /\ p.run = {} /\ p.left = slice[c][s].left \ {r}
              /\ p.at \in {"archive", "buckets", "done"}
              /\ p.at # "archive" => p.at = AfterArchives(c) /\ p.left = {}
<1> DEFINE old == slice[c][s]
           p   == [[old EXCEPT !.run = {}, !.left = @ \ {r}, !.lines = @ + n]
                     EXCEPT !.at = IF old.left = {r} THEN AfterArchives(c) ELSE "archive"]
<1>1. old \in Position /\ Shape(old)
  BY DEF Types, SliceTypes
<1>2. AfterArchives(c) \in {"buckets", "done"}
  BY DEF AfterArchives
<1>5. old.turns = old.turns /\ old.lines + n \in Nat
  BY <1>1 DEF Position
<1>3. /\ p \in Position /\ Shape(p) /\ p.listed = old.listed
      /\ p.run = {} /\ p.left = old.left \ {r}
      /\ p.at = IF old.left = {r} THEN AfterArchives(c) ELSE "archive"
  BY <1>1, <1>2, <1>5 DEF Position, Shape, Places
<1>4. Moves(c, s, p)
  BY DEF NextRun, Moves
<1> HIDE DEF p
<1> QED
  BY <1>2, <1>3, <1>4

LEMMA ArchiveIsMissed ==
    ASSUME Types, NEW c \in Commands, NEW s \in Slices, NEW r \in Week, MissArchive(c, s, r)
    PROVE  \E p \in Position :
              /\ Moves(c, s, p) /\ Shape(p) /\ p.listed = slice[c][s].listed
              /\ p.at = "build" /\ p.left = slice[c][s].left /\ p.run = {r}
<1> DEFINE p == [slice[c][s] EXCEPT !.at = "build", !.run = {r}]
<1>1. slice[c][s] \in Position /\ Shape(slice[c][s]) /\ r \in slice[c][s].left
  BY DEF MissArchive, Types, SliceTypes
<1>2. /\ p \in Position /\ Shape(p) /\ p.listed = slice[c][s].listed
      /\ p.at = "build" /\ p.left = slice[c][s].left /\ p.run = {r}
  BY <1>1 DEF Position, Shape, Places
<1>3. Moves(c, s, p)
  BY DEF MissArchive, Moves, Types, SliceTypes
<1> QED
  BY <1>2, <1>3

LEMMA TurnsAreDeleted ==
    ASSUME NEW c \in Commands, NEW s \in Slices, DeleteTurns(c, s)
    PROVE  \E p \in Position :
              /\ Moves(c, s, p) /\ Shape(p) /\ p.at = "stamp" /\ p.runs = InScope(s)
              /\ p.listed = {} /\ p.left = {} /\ p.run = {}
<1> DEFINE p == [NoSlice EXCEPT !.at = "stamp", !.runs = InScope(s)]
<1>1. /\ p \in Position /\ Shape(p) /\ p.at = "stamp" /\ p.runs = InScope(s)
      /\ p.listed = {} /\ p.left = {} /\ p.run = {}
  BY NoSliceFits DEF NoSlice, Position, Shape, Places, InScope
<1>2. Moves(c, s, p)
  BY DEF DeleteTurns, Doomed, Moves
<1> QED
  BY <1>1, <1>2

LEMMA CloseClears ==
    ASSUME Types, NEW c \in Commands, Close(c)
    PROVE  /\ CommandTypes' /\ SliceTypes' /\ Unstarted' /\ Routes'
           /\ command'[c] = NoCommand /\ \A s \in Slices : slice'[c][s] = NoSlice
           /\ \A d \in Commands \ {c} : /\ command'[d] = command[d]
                                        /\ slice'[d] = slice[d]
<1>1. /\ command'[c] = NoCommand /\ \A s \in Slices : slice'[c][s] = NoSlice
      /\ \A d \in Commands \ {c} : command'[d] = command[d] /\ slice'[d] = slice[d]
  BY DEF Close, Types, CommandTypes, SliceTypes
<1>2. CommandTypes'
  BY DEF Close, Types, CommandTypes, NoCommand, Order, AllModes, ForWeek
<1>3. slice' \in [Commands -> [Slices -> Position]]
  BY NoSliceFits DEF Close, Types, SliceTypes
<1>4. \A d \in Commands, s \in Slices : Shape(slice'[d][s])
  BY <1>1, NoSliceFits DEF Types, SliceTypes
<1>5. SliceTypes'
  <2>1. (\A d \in Commands, t \in Slices : Shape(slice[d][t]))'
          <=> \A d \in Commands, t \in Slices : Shape(slice'[d][t])
    BY DEF Shape
  <2> QED
    BY <1>3, <1>4, <2>1 DEF SliceTypes
<1>6. Unstarted'
  BY <1>1 DEF Types, Unstarted, NoCommand
<1>7. Routes'
  <2>1. ASSUME NEW d \in Commands, NEW s \in Slices
        PROVE  Fits(command'[d].mode, slice'[d][s].at)
    BY <1>1, NoSliceFits DEF Types, Routes
  <2> QED
    BY <2>1 DEF Routes, Fits
<1> QED
  BY <1>1, <1>2, <1>5, <1>6, <1>7

(* The steps of a slice that has been started keep the types.              *)
LEMMA MovesKeepTypes ==
    ASSUME Types, NEW c \in Commands, NEW s \in Slices, NEW p \in Position, Moves(c, s, p),
           Shape(p), At(c, s) # "off", Fits(command[c].mode, p.at),
           \A d \in Commands : /\ command'[d].phase = command[d].phase
                               /\ command'[d].mode = command[d].mode
                               /\ command'[d].waiting = command[d].waiting
    PROVE  SliceTypes' /\ Unstarted' /\ Routes'
<1>1. slice'[c][s] = p /\ \A d \in Commands, t \in Slices :
                             d # c \/ t # s => slice'[d][t] = slice[d][t]
  BY MovesTo DEF Types
<1>2. slice[c][s] # NoSlice
  BY DEF At, NoSlice
<1>3. Unstarted'
  BY <1>1, <1>2 DEF Types, Unstarted
<1>4. Routes'
  <2>1. ASSUME NEW d \in Commands, NEW t \in Slices
        PROVE  Fits(command'[d].mode, slice'[d][t].at)
    BY <1>1 DEF Types, Routes
  <2> QED
    BY <2>1 DEF Routes, Fits
<1> QED
  BY <1>3, <1>4, MovesTo DEF Types

-------------------------------------------------------------------------------
(* Types.                                                                  *)

LEMMA TypesInit == Init => Types
<1> SUFFICES ASSUME Init PROVE Types
  OBVIOUS
<1>1. TableTypes /\ BudgetTypes /\ SchoolTypes
  BY CompactionAssumption
  DEF Init, TableTypes, BudgetTypes, SchoolTypes, Archives, Statuses, CompactionAssumption
<1>2. CommandTypes /\ Unstarted
  BY DEF Init, CommandTypes, Unstarted, NoCommand, Order, AllModes, ForWeek
<1>3. SliceTypes /\ Routes
  BY NoSliceFits DEF Init, SliceTypes, Routes
<1> QED
  BY <1>1, <1>2, <1>3 DEF Types

LEMMA Ordered ==
    ASSUME Types, NEW c \in Commands, NEW o \in Order, command' = [command EXCEPT ![c] = o]
    PROVE  /\ CommandTypes' /\ command'[c] = o
           /\ \A d \in Commands \ {c} : command'[d] = command[d]
BY DEF Types, CommandTypes

(* A command whose slices stay where they are gets an order that fits.     *)
LEMMA OrderedTypes ==
    ASSUME Types, NEW c \in Commands, NEW o \in Order, command' = [command EXCEPT ![c] = o],
           UNCHANGED slice, o.phase # "run" => o.waiting = {},
           \/ \A s \in Slices : slice[c][s] = NoSlice
           \/ o.phase = "orphaned" /\ o.mode = command[c].mode
    PROVE  CommandTypes' /\ SliceTypes' /\ Unstarted' /\ Routes'
<1>1. CommandTypes' /\ command'[c] = o /\ \A d \in Commands \ {c} : command'[d] = command[d]
  BY Ordered
<1>2. Unstarted'
  BY <1>1 DEF Types, Unstarted
<1>3. Routes'
  <2>1. ASSUME NEW d \in Commands, NEW s \in Slices
        PROVE  Fits(command'[d].mode, slice'[d][s].at)
    BY <1>1, NoSliceFits DEF Types, Routes
  <2> QED
    BY <2>1 DEF Routes, Fits
<1> QED
  BY <1>1, <1>2, <1>3 DEF Types, SliceTypes

LEMMA CommandStepTypes ==
    ASSUME Types, NEW c \in Commands,
           \/ Start(c) \/ Decline(c) \/ Open(c) \/ OpenAside(c)
           \/ Finish(c) \/ Abort(c) \/ OrphansEnd(c) \/ CommandKilled(c)
    PROVE  Types'
<1>1. TableTypes' /\ BudgetTypes' /\ SchoolTypes'
  <2>1. BudgetTypes'
    <3>1. CASE Start(c)
      <4>1. started < MaxCommands /\ started' = started + 1 /\ faults' = faults
        BY <3>1 DEF Start
      <4> QED
        BY <4>1, CompactionAssumption DEF Types, BudgetTypes, CompactionAssumption
    <3>2. CASE CommandKilled(c)
      BY <3>2, CompactionAssumption
      DEF CommandKilled, Fault, Types, BudgetTypes, CompactionAssumption
    <3> QED
      BY <3>1, <3>2 DEF Decline, Open, OpenAside, Finish, Abort, OrphansEnd, budget, Types,
                        BudgetTypes
  <2>2. UNCHANGED <<school, tables, archive, reports>>
    BY DEF Start, Decline, Open, OpenAside, Finish, Abort, OrphansEnd, CommandKilled
  <2>3. status' \in Statuses
    BY DEF Start, Decline, Open, OpenAside, Finish, FinalStatus, Abort, OrphansEnd,
           CommandKilled, Types, TableTypes, CommandTypes, Order, Statuses
  <2> QED
    BY <2>1, <2>2, <2>3 DEF Types, TableTypes, SchoolTypes, school, tables, reports, rollups
<1>2. CASE Close(c)
  BY <1>1, <1>2, CloseClears DEF Types
<1>3. CASE Start(c)
  <2>1. PICK m \in Modes, d \in BOOLEAN :
          command' = [command EXCEPT ![c] =
                        [NoCommand EXCEPT !.phase = "open", !.mode = m, !.dry = d]]
    BY <1>3 DEF Start
  <2>2. m \in AllModes
    BY CompactionAssumption DEF CompactionAssumption
  <2> DEFINE o == [NoCommand EXCEPT !.phase = "open", !.mode = m, !.dry = d]
  <2>3. o \in Order /\ o.phase = "open" /\ o.waiting = {}
    BY <2>2 DEF NoCommand, Order
  <2>4. command' = [command EXCEPT ![c] = o]
    BY <2>1
  <2>5. UNCHANGED slice /\ command[c].phase = "idle"
    <3>1. UNCHANGED slice /\ command[c] = NoCommand
      BY <1>3 DEF Start
    <3> QED
      BY <3>1 DEF NoCommand
  <2> HIDE DEF o
  <2> QED
    BY <1>1, <2>3, <2>4, <2>5, OrderedTypes DEF Types, Unstarted
<1>4. CASE Open(c) \/ OpenAside(c)
  <2>1. PICK m \in AllModes, W \in SUBSET Slices :
          command' = [command EXCEPT ![c].phase = "run", ![c].mode = m, ![c].waiting = W]
    <3>1. CASE Open(c)
      <4> DEFINE m == IF Mode(c) = "parallel" /\ Cardinality(Work("parallel")) = 1
                      THEN "sequential" ELSE Mode(c)
      <4>1. m \in AllModes
        BY DEF Mode, Types, CommandTypes, Order, AllModes, ForWeek
      <4>2. Work(m) \in SUBSET Slices
        BY CompactionAssumption
        DEF Work, Slices, InScope, Types, TableTypes, SchoolTypes, CompactionAssumption
      <4>3. command' = [command EXCEPT ![c].phase = "run", ![c].mode = m,
                                       ![c].waiting = Work(m)]
        BY <3>1 DEF Open
      <4> QED
        BY <4>1, <4>2, <4>3
    <3>2. CASE OpenAside(c)
      <4>1. PICK s \in Slices :
              command' = [command EXCEPT ![c].phase = "run", ![c].waiting = {s}]
        BY <3>2 DEF OpenAside
      <4>2. command' = [command EXCEPT ![c].phase = "run", ![c].mode = command[c].mode,
                                       ![c].waiting = {s}]
        BY <4>1 DEF Types, CommandTypes, Order
      <4>3. command[c].mode \in AllModes
        BY DEF Types, CommandTypes, Order
      <4> QED
        BY <4>2, <4>3
    <3> QED
      BY <1>4, <3>1, <3>2
  <2> DEFINE o == [command[c] EXCEPT !.phase = "run", !.mode = m, !.waiting = W]
  <2>2. o \in Order /\ o.phase = "run" /\ command' = [command EXCEPT ![c] = o]
    BY <2>1 DEF Types, CommandTypes, Order
  <2> HIDE DEF o
  <2>3. UNCHANGED slice /\ command[c].phase = "open"
    BY <1>4 DEF Open, OpenAside
  <2> QED
    BY <1>1, <2>2, <2>3, OrderedTypes DEF Types, Unstarted
<1>5. CASE CommandKilled(c) /\ ~Close(c)
  <2>1. /\ command' = [command EXCEPT ![c].phase = "orphaned", ![c].waiting = {}]
        /\ UNCHANGED slice
    BY <1>5 DEF CommandKilled
  <2> DEFINE o == [command[c] EXCEPT !.phase = "orphaned", !.waiting = {}]
  <2>2. /\ o \in Order /\ o.phase = "orphaned" /\ o.waiting = {} /\ o.mode = command[c].mode
        /\ command' = [command EXCEPT ![c] = o]
    BY <2>1 DEF Types, CommandTypes, Order
  <2> HIDE DEF o
  <2> QED
    BY <1>1, <2>1, <2>2, OrderedTypes DEF Types
<1> QED
  BY <1>2, <1>3, <1>4, <1>5 DEF Decline, Finish, Abort, OrphansEnd

(* All that a step of a slice changes but its own position.                *)
LEMMA SliceStepTypes ==
    ASSUME Types, NEW c \in Commands, NEW s \in Slices,
           \/ SliceStep(c, s) \/ WorkerDies(c, s)
           \/ \E r \in Week : ArchiveFails(c, s, r)
    PROVE  Types'
<1> USE DEF Mode
<1>1. ASSUME NEW p \in Position, Moves(c, s, p), Shape(p), At(c, s) # "off",
             Fits(command[c].mode, p.at),
             UNCHANGED <<school, command>>, TableTypes', BudgetTypes'
      PROVE  Types'
  BY <1>1, MovesKeepTypes DEF Types, CommandTypes, SchoolTypes, school
<1>2. /\ slice[c][s] \in Position /\ Shape(slice[c][s])
      /\ Fits(command[c].mode, slice[c][s].at)
  BY DEF Types, SliceTypes, Routes
<1>3. CASE StartSlice(c, s)
  <2>1. /\ command' = [command EXCEPT ![c].waiting = @ \ {s}] /\ command[c].phase = "run"
        /\ UNCHANGED <<school, tables, archive, reports, status, budget>>
    BY <1>3 DEF StartSlice
  <2>2. CommandTypes'
    BY <2>1 DEF Types, CommandTypes, Order
  <2>3. PICK p \in Position : Moves(c, s, p) /\ Shape(p) /\ Fits(command[c].mode, p.at)
    BY <1>3, SliceStarts
  <2>4. SliceTypes' /\ slice'[c][s] = p /\ \A d \in Commands, t \in Slices :
                          d # c \/ t # s => slice'[d][t] = slice[d][t]
    BY <2>3, MovesTo DEF Types
  <2>5. Unstarted'
    BY <2>1, <2>4 DEF Types, CommandTypes, Order, Unstarted
  <2>6. Routes'
    <3>1. \A d \in Commands : command'[d].mode = command[d].mode
      BY <2>1 DEF Types, CommandTypes, Order
    <3>2. ASSUME NEW d \in Commands, NEW t \in Slices
          PROVE  Fits(command'[d].mode, slice'[d][t].at)
      BY <2>3, <2>4, <3>1 DEF Types, Routes
    <3> QED
      BY <3>2 DEF Routes, Fits
  <2> QED
    BY <2>1, <2>2, <2>4, <2>5, <2>6
    DEF Types, TableTypes, SchoolTypes, BudgetTypes, school, tables, reports, rollups, budget
<1>4. CASE ReadWeek(c, s)
  <2>1. /\ At(c, s) = "read"
        /\ UNCHANGED <<school, tables, archive, reports, status, command, budget>>
    BY <1>4 DEF ReadWeek
  <2>2. TableTypes' /\ BudgetTypes'
    BY <2>1 DEF Types, TableTypes, BudgetTypes, tables, reports, rollups, budget
  <2>3. \E p \in Position : Moves(c, s, p) /\ Shape(p) /\ p.at = "write"
    BY <1>4, WeekIsRead
  <2>4. Fits(command[c].mode, "write")
    BY <1>2, <2>1 DEF Fits, At
  <2> QED
    BY <1>1, <2>1, <2>2, <2>3, <2>4
<1>5. CASE WriteRollups(c, s) \/ WriteCollides(c, s)
  <2>1. /\ At(c, s) = "write"
        /\ UNCHANGED <<school, tables, archive, trend, status, command, budget>>
    BY <1>5 DEF WriteRollups, WriteCollides, reports
  <2>2. runRollup' \subseteq Runs /\ turnRollup' \subseteq Week
    BY <1>2, <1>5, CompactionAssumption
    DEF WriteRollups, WriteCollides, Recounted, Position, Types, TableTypes, reports, rollups,
        CompactionAssumption
  <2>3. named' \in [Students -> Teachers]
    BY <1>2, <1>5 DEF WriteRollups, WriteCollides, Position, Types, TableTypes, reports, rollups
  <2>4. PICK p \in Position :
          /\ Moves(c, s, p) /\ Shape(p) /\ p.at \in {"list", "done", "failed"}
    BY <1>5, RollupsAreWritten, LeaveMoves DEF WriteCollides, Places
  <2>5. Fits(command[c].mode, p.at)
    BY <2>4 DEF Fits
  <2> QED
    BY <1>1, <2>1, <2>2, <2>3, <2>4, <2>5
    DEF Types, TableTypes, BudgetTypes, tables, budget
<1>6. CASE List(c, s)
  <2>1. At(c, s) # "off" /\ UNCHANGED <<school, tables, archive, reports, budget>>
    BY <1>6 DEF List
  <2>2. /\ status' \in Statuses
        /\ UNCHANGED command \/ command' = [command EXCEPT ![c].mark = "aggregated"]
    BY <1>6 DEF List, Types, TableTypes, Statuses
  <2>3. /\ CommandTypes'
        /\ \A d \in Commands : /\ command'[d].phase = command[d].phase
                               /\ command'[d].mode = command[d].mode
                               /\ command'[d].waiting = command[d].waiting
    BY <2>2 DEF Types, CommandTypes, Order
  <2>4. PICK p \in Position :
          /\ Moves(c, s, p) /\ Shape(p)
          /\ \/ p.at = "archive" /\ Mode(c) # "rebuild"
             \/ p.at = AfterArchives(c) /\ p.at \in {"buckets", "done"}
    BY <1>6, WeekIsListed
  <2>5. Fits(command[c].mode, p.at)
    BY <2>4 DEF Fits, AfterArchives
  <2>6. SliceTypes' /\ Unstarted' /\ Routes'
    BY <2>1, <2>3, <2>4, <2>5, MovesKeepTypes
  <2> QED
    BY <2>1, <2>2, <2>3, <2>6
    DEF Types, TableTypes, SchoolTypes, BudgetTypes, school, tables, reports, rollups, budget
<1>7. ASSUME NEW r \in Week, KeepArchive(c, s, r) \/ MissArchive(c, s, r) PROVE Types'
  <2>1. /\ At(c, s) = "archive"
        /\ UNCHANGED <<school, tables, archive, reports, status, command, budget>>
    BY <1>7 DEF KeepArchive, MissArchive
  <2>2. TableTypes' /\ BudgetTypes'
    BY <2>1 DEF Types, TableTypes, BudgetTypes, tables, reports, rollups, budget
  <2>3. PICK p \in Position :
          /\ Moves(c, s, p) /\ Shape(p)
          /\ p.at \in {"build", "archive"} \/ p.at = AfterArchives(c)
    BY <1>7, NextRunMoves, ArchiveIsMissed DEF KeepArchive
  <2>4. Fits(command[c].mode, p.at)
    BY <1>2, <2>1, <2>3 DEF Fits, At, AfterArchives
  <2> QED
    BY <1>1, <2>1, <2>2, <2>3, <2>4
<1>8. ASSUME NEW r \in Week, BuildArchive(c, s, r) PROVE Types'
  <2>1. /\ At(c, s) = "build" /\ r \in slice[c][s].left
        /\ UNCHANGED <<school, tables, reports, status, command, budget>>
    BY <1>2, <1>8 DEF BuildArchive, Shape
  <2>2. archive' \in [Runs -> Archives]
    BY <1>8 DEF BuildArchive, Types, TableTypes, Archives
  <2>3. PICK p \in Position :
          /\ Moves(c, s, p) /\ Shape(p)
          /\ p.at = "archive" \/ p.at = AfterArchives(c)
    BY <1>8, <2>1, NextRunMoves DEF BuildArchive
  <2>4. Fits(command[c].mode, p.at)
    BY <1>2, <2>1, <2>3 DEF Fits, At, AfterArchives
  <2> QED
    BY <1>1, <2>1, <2>2, <2>3, <2>4 
    DEF Types, TableTypes, BudgetTypes, tables, reports, rollups, budget
<1>9. ASSUME NEW r \in Week, ArchiveFails(c, s, r) PROVE Types'
  <2>1. At(c, s) # "off" /\ UNCHANGED <<school, tables, reports, command>>
    BY <1>9 DEF ArchiveFails
  <2>2. archive' \in [Runs -> Archives] /\ status' \in Statuses /\ BudgetTypes'
    BY <1>9, CompactionAssumption
    DEF ArchiveFails, Fault, Types, TableTypes, BudgetTypes, Archives, Statuses,
        CompactionAssumption
  <2>3. \E p \in Position : Moves(c, s, p) /\ Shape(p) /\ p.at = "failed"
    BY <1>9, LeaveMoves DEF ArchiveFails, Places
  <2>4. Fits(command[c].mode, "failed")
    BY DEF Fits
  <2> QED
    BY <1>1, <2>1, <2>2, <2>3, <2>4 DEF Types, TableTypes, tables, reports, rollups
<1>10. CASE RebuildBuckets(c, s)
  <2>1. At(c, s) = "buckets"
        /\ UNCHANGED <<school, tables, archive, rollups, status, command, budget>>
    BY <1>10 DEF RebuildBuckets
  <2>2. trend' \subseteq Runs
    BY <1>10 DEF RebuildBuckets, HistoricalTrend, Types, TableTypes
  <2>3. PICK p \in Position : Moves(c, s, p) /\ Shape(p) /\ p.at = AfterBuckets(c)
    BY <1>10, LeaveMoves DEF RebuildBuckets, AfterBuckets, Places
  <2>4. Fits(command[c].mode, p.at)
    BY <1>2, <2>1, <2>3 DEF Fits, At, AfterBuckets
  <2> QED
    BY <1>1, <2>1, <2>2, <2>3, <2>4 DEF Types, TableTypes, BudgetTypes, tables, rollups, budget
<1>11. CASE Verify(c, s) \/ DeleteTurns(c, s)
  <2>1. /\ At(c, s) \in {"verify", "delete"}
        /\ UNCHANGED <<school, tables, archive, reports, status, command, budget>>
    BY <1>11 DEF Verify, DeleteTurns
  <2>2. TableTypes' /\ BudgetTypes'
    BY <2>1 DEF Types, TableTypes, BudgetTypes, tables, reports, rollups, budget
  <2>3. PICK p \in Position :
          Moves(c, s, p) /\ Shape(p) /\ p.at \in {"delete", "failed", "stamp"}
    BY <1>11, LeaveMoves, TurnsAreDeleted DEF Verify, Places
  <2>4. Fits(command[c].mode, p.at)
    BY <1>2, <2>1, <2>3 DEF Fits, At
  <2> QED
    BY <1>1, <2>1, <2>2, <2>3, <2>4
<1>12. CASE StampRuns(c, s)
  <2>1. /\ At(c, s) # "off"
        /\ UNCHANGED <<school, rows, archive, reports, status, command, budget>>
    BY <1>12 DEF StampRuns
  <2>2. raw' \subseteq rows /\ stamped' \subseteq rows
    BY <1>12 DEF StampRuns, InScope, Types, TableTypes
  <2>3. \E p \in Position : Moves(c, s, p) /\ Shape(p) /\ p.at = "done"
    BY <1>12, LeaveMoves DEF StampRuns, Places
  <2>4. Fits(command[c].mode, "done")
    BY DEF Fits
  <2> QED
    BY <1>1, <2>1, <2>2, <2>3, <2>4 DEF Types, TableTypes, BudgetTypes, reports, rollups, budget
<1>13. CASE WorkerDies(c, s)
  <2>1. At(c, s) # "off" /\ UNCHANGED <<school, tables, archive, reports, status, command>>
    BY <1>13 DEF WorkerDies, InFlight
  <2>2. BudgetTypes'
    BY <1>13, CompactionAssumption
    DEF WorkerDies, Fault, Types, BudgetTypes, CompactionAssumption
  <2>3. \E p \in Position : Moves(c, s, p) /\ Shape(p) /\ p.at = "failed"
    BY <1>13, LeaveMoves DEF WorkerDies, Places
  <2>4. Fits(command[c].mode, "failed")
    BY DEF Fits
  <2> QED
    BY <1>1, <2>1, <2>2, <2>3, <2>4 DEF Types, TableTypes, tables, reports, rollups
<1> QED
  BY <1>3, <1>4, <1>5, <1>6, <1>7, <1>8, <1>9, <1>10, <1>11, <1>12, <1>13 DEF SliceStep

LEMMA TypesStep == ASSUME Types, [Next]_vars PROVE Types'
<1>1. ASSUME NEW r \in Runs, Insert(r) PROVE Types'
  <2>1. named' \in [Students -> Teachers] /\ UNCHANGED <<school, command, slice, budget>>
    BY <1>1, CompactionAssumption
    DEF Insert, Types, TableTypes, SchoolTypes, CompactionAssumption
  <2>2. TableTypes'
    BY <1>1, <2>1 DEF Insert, Types, TableTypes
  <2> QED
    BY <2>1, <2>2
    DEF school, budget, Types, SchoolTypes, CommandTypes, SliceTypes, BudgetTypes, Unstarted, Routes
<1>2. ASSUME NEW X \in SUBSET Students, NEW t \in Teachers, NEW u \in Teachers, Move(X, t, u)
      PROVE  Types'
  <2>1. /\ teacher' \in [Students -> Teachers] /\ astray' \subseteq moved'
        /\ moved' \subseteq Students
        /\ UNCHANGED <<tables, archive, reports, status, command, slice, budget>>
    BY <1>2 DEF Move, Types, SchoolTypes
  <2>2. moves' \in 0 .. MaxMoves
    BY <1>2, CompactionAssumption DEF Move, Types, SchoolTypes, CompactionAssumption
  <2> QED
    BY <2>1, <2>2
    DEF tables, reports, rollups, budget, Types, TableTypes, SchoolTypes, CommandTypes, SliceTypes,
        BudgetTypes, Unstarted, Routes
<1>3. CASE UNCHANGED vars
  BY <1>3 DEF vars, school, tables, reports, rollups, budget, Types, TableTypes, SchoolTypes,
              CommandTypes, SliceTypes, BudgetTypes, Unstarted, Routes
<1> QED
  BY <1>1, <1>2, <1>3, CommandStepTypes, SliceStepTypes DEF Next, CommandStep, Failure

\* Every reachable state is well typed, with any number of commands at a
\* time: a slice holds what its position says and nothing of an earlier one.
THEOREM TypeCorrect == Spec => []TypeOK
<1>1. Types => TypeOK
  BY DEF Types, TableTypes, SchoolTypes, CommandTypes, SliceTypes, BudgetTypes, Position, Order,
         Shape, TypeOK
<1> QED
  BY <1>1, TypesInit, TypesStep, PTL DEF Spec

-------------------------------------------------------------------------------
(* What holds of one run of the week, whoever works on it.  A run that is  *)
(* late is not followed, and one whose pupil is led astray not any more;   *)
(* the others have a teacher who stays, as long as a command is at work.   *)

Here(s, r) == In(s, teacher, r)

(* Slices a command has or will have worked on.                            *)
Taken(c) == command[c].waiting \union {s \in Slices : At(c, s) # "off"}

(* A run's row and its trend are never lost, and its turns never archived  *)
(* as none.                                                                *)
Known(r) == r \in rows /\ r \in trend /\ (r \in raw => archive[r] # "empty")

(* A slice lists all runs of a pair or none.                               *)
Listing(r, p) == \A q \in p.listed : PairOf[q] = PairOf[r] => r \in p.listed

Settled(r) ==
    StudentOf[r] \notin moved =>
        r \in runRollup /\ named[StudentOf[r]] = teacher[StudentOf[r]]

Counted(r) ==
    /\ r \in runRollup /\ named[StudentOf[r]] = teacher[StudentOf[r]]
    /\ r \in raw => r \in turnRollup

(* What a slice at position p has achieved of run r.                       *)
Secured(c, s, r, p) ==
    /\ p.at = "write" =>
          /\ p.of[StudentOf[r]] = teacher[StudentOf[r]]
          /\ Here(s, r) => r \in p.runs /\ (r \in raw => r \in p.turns)
    /\ p.at = "stamp" => (r \in p.runs <=> Here(s, r))
    /\ Here(s, r) =>
          /\ p.at \in {"list", "archive", "build", "buckets", "verify", "delete", "stamp"}
                /\ Mode(c) # "archive" => Counted(r)
          /\ "archive" \notin FaultKinds /\ r \in raw =>
                /\ p.at \in {"archive", "build"} /\ r \notin p.left => archive[r] = "turns"
                /\ p.at \in {"buckets", "verify", "delete", "stamp"} /\ Mode(c) # "rebuild" =>
                      archive[r] = "turns"
          /\ p.at = "done" /\ Mode(c) \in ForWeek /\ ~command[c].dry => r \in stamped

Covered(c, r) ==
    command[c].phase = "run" /\ Mode(c) \in ForWeek => \E s \in Taken(c) : Here(s, r)

Held(r) ==
    /\ status = "compacted" => r \in stamped
    /\ \A c \in Commands : Covered(c, r)
    /\ \A c \in Commands, s \in Slices : Secured(c, s, r, slice[c][s])

Fine(r) ==
    /\ Known(r) /\ Settled(r) /\ (Steady(r) => Held(r))
    /\ \A c \in Commands, s \in Slices : Listing(r, slice[c][s])

Followed == Week \ Late

Shared == \A r \in Followed : Fine(r)

(* What no step takes from a run that others rely on.                      *)
Keeps(r) ==
    /\ r \in raw' => r \in raw
    /\ r \in stamped => r \in stamped'
    /\ Counted(r) => Counted(r)'
    /\ "archive" \notin FaultKinds /\ r \in raw' /\ archive[r] = "turns" => archive'[r] = "turns"

(* A step of slice s of command c leaves the classrooms, the modes and the *)
(* phases, and no other slice stops waiting.                               *)
SameOrders(c, s) ==
    /\ UNCHANGED school
    /\ \A d \in Commands : /\ command'[d].phase = command[d].phase
                           /\ command'[d].mode = command[d].mode
                           /\ command'[d].dry = command[d].dry
                           /\ command'[d].waiting \subseteq command[d].waiting
                           /\ command[d].waiting \ {s} \subseteq command'[d].waiting
                           /\ d # c => command'[d].waiting = command[d].waiting

-------------------------------------------------------------------------------

LEMMA FollowedFacts ==
    ASSUME NEW r \in Followed
    PROVE  r \in Week /\ r \notin Late /\ r \in Runs /\ StudentOf[r] \in Students
BY CompactionAssumption DEF Followed, CompactionAssumption

(* A query by the present teacher selects what is here.                    *)
LEMMA ScopeHasHere ==
    ASSUME NEW r \in Followed, Known(r), NEW s PROVE r \in InScope(s) <=> Here(s, r)
BY FollowedFacts DEF InScope, Here, Known

LEMMA NothingSecured ==
    ASSUME NEW c, NEW s, NEW r, NEW p, p.at \in {"off", "read", "failed"}
    PROVE  Secured(c, s, r, p) /\ Secured(c, s, r, p)'
BY DEF Secured

(* A slice keeps what it has achieved through the steps of the others.     *)
LEMMA StillSecured ==
    ASSUME NEW c, NEW s, NEW r, NEW p, Secured(c, s, r, p), Keeps(r),
           UNCHANGED teacher, command'[c].mode = command[c].mode,
           command'[c].dry = command[c].dry
    PROVE  Secured(c, s, r, p)'
BY DEF Secured, Keeps, Here, In, Mode

(* The step of one slice.                                                  *)
LEMMA FineMove ==
    ASSUME Types, NEW r \in Followed, Fine(r), NEW c \in Commands, NEW s \in Slices,
           NEW p \in Position, Moves(c, s, p), s \in Taken(c), p.at # "off", SameOrders(c, s),
           Known(r)', Settled(r)', Listing(r, p),
           Steady(r) => /\ Keeps(r) /\ Secured(c, s, r, p)'
                        /\ status' = "compacted" => r \in stamped'
    PROVE  Fine(r)'
<1>1. slice'[c][s] = p /\ \A d \in Commands, t \in Slices :
                             d # c \/ t # s => slice'[d][t] = slice[d][t]
  BY MovesTo DEF Types
<1>2. \A d \in Commands : Taken(d)' = Taken(d)
  BY <1>1 DEF Taken, At, SameOrders
<1>3. ASSUME NEW d \in Commands, NEW t \in Slices PROVE Listing(r, slice'[d][t])
  BY <1>1 DEF Fine
<1>4. ASSUME Steady(r)' PROVE Held(r)'
  <2>1. Steady(r) /\ Held(r)
    BY <1>4 DEF Fine, Steady, SameOrders, school
  <2>2. ASSUME NEW d \in Commands PROVE Covered(d, r)'
    BY <1>2, <2>1 DEF Held, Covered, Mode, Here, In, SameOrders, school
  <2>3. ASSUME NEW d \in Commands, NEW t \in Slices PROVE Secured(d, t, r, slice[d][t])'
    <3>1. CASE d = c /\ t = s
      BY <1>1, <2>1, <3>1
    <3>2. CASE d # c \/ t # s
      <4>1. PICK old : old = slice[d][t] /\ old = slice'[d][t]
        BY <1>1, <3>2
      <4>2. Secured(d, t, r, old)
        BY <2>1, <4>1 DEF Held
      <4>3. Secured(d, t, r, old)'
        BY <2>1, <4>2, StillSecured DEF SameOrders, school
      <4> QED
        BY <4>1, <4>3
    <3> QED
      BY <3>1, <3>2
  <2> QED
    BY <2>1, <2>2, <2>3 DEF Held
<1> QED
  BY <1>3, <1>4 DEF Fine, Listing

(* A step of a slice that changes no table.                                *)
LEMMA QuietFine ==
    ASSUME Types, NEW r \in Followed, Fine(r), NEW c \in Commands, NEW s \in Slices,
           NEW p \in Position, Moves(c, s, p), s \in Taken(c), p.at # "off", SameOrders(c, s),
           UNCHANGED <<tables, archive, reports>>, status' # "compacted" \/ UNCHANGED status,
           Listing(r, p), Steady(r) => Secured(c, s, r, p)
    PROVE  Fine(r)' /\ Keeps(r)
<1>1. Known(r)' /\ Settled(r)' /\ Keeps(r)
  BY DEF Fine, Known, Settled, Keeps, Counted, tables, reports, rollups, SameOrders, school
<1>2. Steady(r) => (status' = "compacted" => r \in stamped')
  BY DEF Fine, Held, tables
<1>3. Steady(r) => Secured(c, s, r, p)'
  BY <1>1, StillSecured DEF SameOrders, school
<1> QED
  BY <1>1, <1>2, <1>3, FineMove

LEMMA FineInit == ASSUME Init PROVE Shared
<1>1. ASSUME NEW r \in Followed PROVE Fine(r)
  <2>1. Known(r) /\ Settled(r)
    BY FollowedFacts DEF Init, Followed, Known, Settled
  <2>2. /\ \A c \in Commands, s \in Slices : slice[c][s] = NoSlice
        /\ \A c \in Commands : command[c].phase = "idle"
    BY DEF Init, NoCommand
  <2>3. NoSlice.at = "off" /\ NoSlice.listed = {}
    BY DEF NoSlice
  <2>4. ASSUME NEW c \in Commands, NEW s \in Slices
        PROVE  Secured(c, s, r, slice[c][s]) /\ Listing(r, slice[c][s])
    <3>1. PICK p : p = slice[c][s] /\ p.at = "off" /\ p.listed = {}
      BY <2>2, <2>3
    <3> QED
      BY <3>1, NothingSecured DEF Listing
  <2>5. Held(r)
    <3>1. status = "absent"
      BY DEF Init
    <3>2. \A c \in Commands : Covered(c, r)
      BY <2>2 DEF Covered
    <3> QED
      BY <2>4, <3>1, <3>2 DEF Held
  <2> QED
    BY <2>1, <2>4, <2>5 DEF Fine
<1> QED
  BY <1>1 DEF Shared

LEMMA InsertFine ==
    ASSUME Types, NEW r \in Followed, Fine(r), NEW q \in Runs, Insert(q)
    PROVE  Fine(r)' /\ Keeps(r)
<1>1. r # q /\ UNCHANGED <<school, stamped, archive, turnRollup, status, command, slice>>
  BY FollowedFacts DEF Insert, Fine, Known
<1>2. /\ rows' = rows \union {q} /\ raw' = raw \union {q}
      /\ runRollup' = runRollup \union {q} /\ trend' = trend \union {q}
      /\ r \in runRollup => named'[StudentOf[r]] = named[StudentOf[r]]
  BY FollowedFacts DEF Insert, Types, TableTypes
<1>3. Known(r)' /\ Settled(r)' /\ Keeps(r)
  BY <1>1, <1>2 DEF Fine, Known, Settled, Keeps, Counted, school
<1>4. ASSUME Steady(r)' PROVE Held(r)'
  <2>1. Held(r)
    BY <1>1, <1>4 DEF Fine, Steady, school
  <2>2. \A c \in Commands, s \in Slices : Secured(c, s, r, slice[c][s])'
    <3> TAKE c \in Commands, s \in Slices
    <3>1. PICK p : p = slice[c][s] /\ p = slice'[c][s]
      BY <1>1
    <3>2. Secured(c, s, r, p)'
      BY <1>1, <1>3, <2>1, <3>1, StillSecured DEF Held, school
    <3> QED
      BY <3>1, <3>2
  <2> QED
    BY <1>1, <2>1, <2>2 DEF Held, Covered, Taken, At, Mode, Here, In, school
<1> QED
  BY <1>1, <1>3, <1>4 DEF Fine, Listing

(* Pupils who move while a command is at work are led astray; when none is *)
(* no slice has anything to lose.                                          *)
LEMMA MoveFine ==
    ASSUME Types, NEW r \in Followed, Fine(r), NEW X \in SUBSET Students,
           NEW t \in Teachers, NEW u \in Teachers, Move(X, t, u)
    PROVE  Fine(r)'
<1>1. /\ UNCHANGED <<tables, archive, reports, status, command, slice>>
      /\ moved' = moved \union X
      /\ StudentOf[r] \notin X => teacher'[StudentOf[r]] = teacher[StudentOf[r]]
      /\ astray' = IF Busy THEN astray \union X ELSE astray
  BY FollowedFacts DEF Move
<1>2. Known(r)' /\ Settled(r)'
  BY <1>1 DEF Fine, Known, Settled, tables, reports, rollups
<1>3. ASSUME Steady(r)' PROVE Held(r)'
  <2>1. Steady(r) /\ Held(r)
    BY <1>1, <1>3 DEF Fine, Steady
  <2>2. CASE StudentOf[r] \notin X
    <3>1. \A s : Here(s, r)' <=> Here(s, r)
      BY <1>1, <2>2 DEF Here, In
    <3>2. teacher'[StudentOf[r]] = teacher[StudentOf[r]]
      BY <1>1, <2>2
    <3>3. Counted(r) => Counted(r)'
      BY <1>1, <3>2 DEF Counted, tables, reports, rollups
    <3>4. \A c \in Commands, s \in Slices : Secured(c, s, r, slice[c][s])'
      BY <1>1, <2>1, <3>1, <3>2, <3>3 DEF Held, Secured, Mode, tables
    <3> QED
      BY <1>1, <2>1, <3>1, <3>4 DEF Held, Covered, Taken, At, Mode, tables
  <2>3. CASE StudentOf[r] \in X
    <3>1. ~Busy
      BY <1>1, <1>3, <2>3 DEF Steady
    <3>2. \A c \in Commands : command[c].phase \in {"idle", "open"}
      BY <3>1 DEF Busy, Types, CommandTypes, Order
    <3>3. \A c \in Commands, s \in Slices : slice'[c][s] = NoSlice
      BY <1>1, <3>2 DEF Types, Unstarted
    <3>4. NoSlice.at = "off"
      BY DEF NoSlice
    <3>5. \A c \in Commands, s \in Slices : Secured(c, s, r, slice[c][s])'
      <4> TAKE c \in Commands, s \in Slices
      <4>1. PICK p : p = NoSlice
        OBVIOUS
      <4>2. Secured(c, s, r, p)'
        BY <3>4, <4>1, NothingSecured
      <4> QED
        BY <3>3, <4>1, <4>2
    <3> QED
      BY <1>1, <2>1, <3>2, <3>5 DEF Held, Covered, tables
  <2> QED
    BY <2>2, <2>3
<1> QED
  BY <1>1, <1>2, <1>3 DEF Fine, Listing

(* When the last slice is done every run is.                               *)
LEMMA AllDone ==
    ASSUME NEW r \in Followed, Held(r), NEW c \in Commands, command[c].phase = "run",
           Mode(c) \in ForWeek, ~command[c].dry, command[c].waiting = {}, InFlight(c) = {}
    PROVE  r \in stamped
<1>1. PICK s \in Taken(c) : Here(s, r)
  BY DEF Held, Covered
<1>2. s \in Slices /\ At(c, s) = "done"
  BY <1>1 DEF Taken, InFlight
<1> QED
  BY <1>1, <1>2 DEF Held, Secured, At

(* The slices a command opens have every run between them.                 *)
LEMMA OpenCovers ==
    ASSUME Types, NEW r \in Followed, Known(r), NEW c \in Commands, Open(c) \/ OpenAside(c),
           UNCHANGED school
    PROVE  Covered(c, r)'
<1>1. CASE Open(c)
  <2> DEFINE m == IF Mode(c) = "parallel" /\ Cardinality(Work("parallel")) = 1
                  THEN "sequential" ELSE Mode(c)
  <2>1. \E s \in Work(m) : Here(s, r)
    <3>1. r \in InScope("week")
      BY ScopeHasHere DEF Here, In
    <3>2. CASE m = "week"
      BY <3>2 DEF Work, Here, In
    <3>3. CASE m # "week"
      BY <3>1, <3>3 DEF Work, Here, In
    <3> QED
      BY <3>2, <3>3
  <2>2. command' = [command EXCEPT ![c].phase = "run", ![c].mode = m, ![c].waiting = Work(m)]
    BY <1>1 DEF Open
  <2> HIDE DEF m
  <2>3. command'[c].waiting = Work(m)
    BY <2>2 DEF Types, CommandTypes, Order
  <2> QED
    BY <2>1, <2>3 DEF Covered, Taken, Here, In, school
<1>2. CASE OpenAside(c)
  <2>1. command'[c].mode = command[c].mode /\ Mode(c) \notin ForWeek
    BY <1>2 DEF OpenAside, Types, CommandTypes, Order
  <2> QED
    BY <2>1 DEF Covered, Mode
<1> QED
  BY <1>1, <1>2

(* What a step of a command does to its slices.                            *)
LEMMA CommandStepSlices ==
    ASSUME Types, NEW c \in Commands,
           \/ Start(c) \/ Decline(c) \/ Open(c) \/ OpenAside(c)
           \/ Finish(c) \/ Abort(c) \/ OrphansEnd(c) \/ CommandKilled(c)
    PROVE  /\ UNCHANGED <<school, tables, archive, reports>>
           /\ \A d \in Commands \ {c} : command'[d] = command[d] /\ slice'[d] = slice[d]
           /\ \/ \A s \in Slices : slice'[c][s] = NoSlice
              \/ /\ slice' = slice /\ command'[c].phase = "orphaned"
                 /\ command'[c].mode = command[c].mode /\ command'[c].dry = command[c].dry
<1>0. UNCHANGED <<school, tables, archive, reports>>
  BY DEF Start, Decline, Open, OpenAside, Finish, Abort, OrphansEnd, CommandKilled
<1>1. CASE Close(c)
  BY <1>0, <1>1, CloseClears
<1>2. CASE Start(c)
  <2>1. command[c] = NoCommand /\ slice' = slice
    BY <1>2 DEF Start
  <2>2. command[c].phase = "idle"
    BY <2>1 DEF NoCommand
  <2>3. \A d \in Commands \ {c} : command'[d] = command[d]
    <3>1. PICK m \in Modes, d \in BOOLEAN :
            command' = [command EXCEPT ![c] =
                          [NoCommand EXCEPT !.phase = "open", !.mode = m, !.dry = d]]
      BY <1>2 DEF Start
    <3> QED
      BY <3>1 DEF Types, CommandTypes
  <2> QED
    BY <1>0, <2>1, <2>2, <2>3 DEF Types, Unstarted
<1>3. CASE Open(c) \/ OpenAside(c)
  <2>1. slice' = slice /\ command[c].phase = "open"
    BY <1>3 DEF Open, OpenAside
  <2>2. \A d \in Commands \ {c} : command'[d] = command[d]
    BY <1>3 DEF Open, OpenAside, Types, CommandTypes
  <2> QED
    BY <1>0, <2>1, <2>2 DEF Types, Unstarted
<1>4. CASE CommandKilled(c) /\ ~Close(c)
  BY <1>0, <1>4 DEF CommandKilled, Types, CommandTypes, Order
<1> QED
  BY <1>0, <1>1, <1>2, <1>3, <1>4 DEF Decline, Finish, Abort, OrphansEnd

(* The steps of a command touch no table and no slice but to clear them.   *)
LEMMA CommandStepFine ==
    ASSUME Types, Types', NEW r \in Followed, Fine(r), NEW c \in Commands,
           \/ Start(c) \/ Decline(c) \/ Open(c) \/ OpenAside(c)
           \/ Finish(c) \/ Abort(c) \/ OrphansEnd(c) \/ CommandKilled(c)
    PROVE  Fine(r)' /\ Keeps(r)
<1>1. UNCHANGED <<school, tables, archive, reports>>
  BY CommandStepSlices
<1>2. Known(r)' /\ Settled(r)' /\ Keeps(r)
  BY <1>1 DEF Fine, Known, Settled, Keeps, Counted, tables, reports, rollups, school
<1>3. /\ \A d \in Commands \ {c} : command'[d] = command[d] /\ slice'[d] = slice[d]
      /\ \/ \A s \in Slices : slice'[c][s] = NoSlice
         \/ /\ slice' = slice /\ command'[c].phase = "orphaned"
            /\ command'[c].mode = command[c].mode /\ command'[c].dry = command[c].dry
  BY CommandStepSlices
<1>4. NoSlice.at = "off" /\ NoSlice.listed = {}
  BY DEF NoSlice
<1>5. ASSUME NEW d \in Commands, NEW s \in Slices PROVE Listing(r, slice[d][s])'
  BY <1>3, <1>4, <1>5 DEF Fine, Listing
<1>6. ASSUME Steady(r)' PROVE Held(r)'
  <2>1. Steady(r) /\ Held(r)
    BY <1>1, <1>6 DEF Fine, Steady, school
  <2>2. status' = "compacted" => r \in stamped'
    <3>1. CASE Finish(c)
      <4>1. CASE status' = "compacted" /\ status # "compacted"
        <5>1. Mode(c) \in ForWeek /\ ~command[c].dry
          BY <3>1, <4>1 DEF Finish, FinalStatus, Types, CommandTypes, Order
        <5> QED
          BY <1>1, <2>1, <3>1, <5>1, AllDone DEF Finish, tables
      <4> QED
        BY <1>1, <2>1, <4>1 DEF Held, tables
    <3>2. CASE Open(c)
      BY <3>2 DEF Open
    <3> QED
      BY <1>1, <2>1, <3>1, <3>2
      DEF Start, Decline, OpenAside, Abort, OrphansEnd, CommandKilled, Held, tables
  <2>3. ASSUME NEW d \in Commands, NEW s \in Slices PROVE Secured(d, s, r, slice[d][s])'
    <3>1. CASE slice'[d][s] = NoSlice
      <4>1. PICK p : p = NoSlice
        OBVIOUS
      <4>2. Secured(d, s, r, p)'
        BY <1>4, <4>1, NothingSecured
      <4> QED
        BY <3>1, <4>1, <4>2
    <3>2. CASE slice'[d][s] # NoSlice
      <4>1. /\ slice'[d][s] = slice[d][s] /\ command'[d].mode = command[d].mode
            /\ command'[d].dry = command[d].dry
        BY <1>3, <3>2
      <4>2. PICK p : p = slice[d][s] /\ p = slice'[d][s]
        BY <4>1
      <4>3. Secured(d, s, r, p)'
        BY <1>1, <1>2, <2>1, <4>1, <4>2, StillSecured DEF Held, school
      <4> QED
        BY <4>2, <4>3
    <3> QED
      BY <3>1, <3>2
  <2>4. ASSUME NEW d \in Commands PROVE Covered(d, r)'
    <3>1. CASE d # c
      BY <1>1, <1>3, <2>1, <3>1 DEF Held, Covered, Taken, At, Mode, Here, In, school
    <3>2. CASE d = c /\ (Open(c) \/ OpenAside(c))
      BY <1>1, <2>1, <3>2, OpenCovers DEF Fine
    <3>3. CASE d = c /\ ~(Open(c) \/ OpenAside(c))
      <4>1. CASE Close(c)
        BY <3>3, <4>1, CloseClears DEF Covered, NoCommand
      <4>2. CASE Start(c)
        BY <3>3, <4>2 DEF Start, Types, CommandTypes, Covered, NoCommand
      <4>3. CASE CommandKilled(c) /\ ~Close(c)
        BY <3>3, <4>3 DEF CommandKilled, Types, CommandTypes, Order, Covered
      <4> QED
        BY <3>3, <4>1, <4>2, <4>3 DEF Decline, Finish, Abort, OrphansEnd
    <3> QED
      BY <3>1, <3>2, <3>3
  <2> QED
    BY <2>2, <2>3, <2>4 DEF Held
<1> QED
  BY <1>2, <1>5, <1>6 DEF Fine

-------------------------------------------------------------------------------
(* The steps of a slice.                                                   *)

LEMMA SameOrdersStay ==
    ASSUME NEW c \in Commands, NEW s \in Slices, UNCHANGED <<school, command>>
    PROVE  SameOrders(c, s)
BY DEF SameOrders

(* From here on a slice that has been started takes a step.                *)
LEMMA WasTaken ==
    ASSUME NEW c \in Commands, NEW s \in Slices, At(c, s) # "off" PROVE s \in Taken(c)
BY DEF Taken

LEMMA WasSecured ==
    ASSUME NEW r \in Followed, Fine(r), NEW c \in Commands, NEW s \in Slices
    PROVE  /\ Steady(r) => Secured(c, s, r, slice[c][s])
           /\ Listing(r, slice[c][s]) /\ Known(r)
BY DEF Fine, Held

LEMMA StartSliceFine ==
    ASSUME Types, NEW r \in Followed, Fine(r), NEW c \in Commands, NEW s \in Slices,
           StartSlice(c, s)
    PROVE  Fine(r)'
<1>1. PICK p \in Position :
        /\ Moves(c, s, p) /\ p = [NoSlice EXCEPT !.at = FirstPlace(c, s)]
        /\ p.at = FirstPlace(c, s) /\ p.at # "off"
  BY SliceStarts
<1>2. /\ command' = [command EXCEPT ![c].waiting = @ \ {s}] /\ s \in command[c].waiting
      /\ UNCHANGED <<school, tables, archive, reports, status>>
  BY DEF StartSlice
<1>3. SameOrders(c, s) /\ s \in Taken(c)
  BY <1>2 DEF SameOrders, Taken, Types, CommandTypes, Order
<1>4. Listing(r, p)
  BY <1>1 DEF Listing, NoSlice
<1>5. Secured(c, s, r, p)
  <2>1. CASE p.at = "list" /\ Mode(c) = "archive"
    BY <2>1 DEF Secured
  <2>2. CASE p.at = "read"
    BY <2>2, NothingSecured
  <2>3. CASE p.at = "done" /\ InScope(s) = {}
    BY <2>3, ScopeHasHere DEF Fine, Secured
  <2> QED
    BY <1>1, <2>1, <2>2, <2>3 DEF FirstPlace
<1> QED
  BY <1>1, <1>2, <1>3, <1>4, <1>5, QuietFine

LEMMA ReadWeekFine ==
    ASSUME Types, NEW r \in Followed, Fine(r), NEW c \in Commands, NEW s \in Slices,
           ReadWeek(c, s)
    PROVE  Fine(r)'
<1>1. PICK p \in Position :
        /\ Moves(c, s, p) /\ p.at = "write" /\ p.listed = {}
        /\ p.runs = InScope(s) /\ p.turns = TurnsRead(s) /\ p.of = teacher
  BY WeekIsRead
<1>2. /\ At(c, s) = "read"
      /\ UNCHANGED <<school, tables, archive, reports, status, command>>
  BY DEF ReadWeek
<1>3. SameOrders(c, s) /\ s \in Taken(c)
  BY <1>2, SameOrdersStay, WasTaken
<1>4. Listing(r, p)
  BY <1>1 DEF Listing
<1>5. Secured(c, s, r, p)
  BY <1>1, ScopeHasHere DEF Secured, Fine, TurnsRead
<1> QED
  BY <1>1, <1>2, <1>3, <1>4, <1>5, QuietFine

(* A slice that deletes the row of a run has read the run.                 *)
LEMMA WrittenStays ==
    ASSUME NEW r \in Followed, Fine(r), Steady(r), NEW c \in Commands, NEW s \in Slices,
           Types, WriteRollups(c, s)
    PROVE  /\ r \in runRollup /\ named[StudentOf[r]] = teacher[StudentOf[r]] =>
                 r \in runRollup' /\ named'[StudentOf[r]] = teacher[StudentOf[r]]
           /\ Counted(r) => Counted(r)'
           /\ Here(s, r) => Counted(r)'
<1>1. /\ At(c, s) = "write" /\ UNCHANGED <<teacher, raw>>
      /\ runRollup' = Recounted(runRollup, s, slice[c][s].runs)
      /\ turnRollup' = Recounted(turnRollup, s, slice[c][s].turns)
  BY DEF WriteRollups, school, tables
<1>2. /\ slice[c][s].of[StudentOf[r]] = teacher[StudentOf[r]]
      /\ Here(s, r) => r \in slice[c][s].runs /\ (r \in raw => r \in slice[c][s].turns)
  BY <1>1, WasSecured DEF Secured, At
<1>3. named'[StudentOf[r]] = IF \E q \in slice[c][s].runs : StudentOf[q] = StudentOf[r]
                             THEN slice[c][s].of[StudentOf[r]] ELSE named[StudentOf[r]]
  BY FollowedFacts DEF WriteRollups
<1>4. ASSUME named[StudentOf[r]] = teacher[StudentOf[r]]
      PROVE  /\ named'[StudentOf[r]] = teacher[StudentOf[r]]
             /\ r \in runRollup => r \in runRollup'
             /\ r \in raw /\ r \in turnRollup => r \in turnRollup'
  <2>1. In(s, named, r) <=> Here(s, r)
    BY <1>4 DEF In, Here
  <2> QED
    BY <1>1, <1>2, <1>3, <1>4, <2>1 DEF Recounted, Named
<1>5. ASSUME Here(s, r) PROVE Counted(r)'
  BY <1>1, <1>2, <1>3, <1>5 DEF Counted, Recounted
<1> QED
  BY <1>1, <1>4, <1>5 DEF Counted

LEMMA WriteRollupsFine ==
    ASSUME Types, NEW r \in Followed, Fine(r), NEW c \in Commands, NEW s \in Slices,
           WriteRollups(c, s)
    PROVE  Fine(r)'
<1>1. PICK p \in Position :
        /\ Moves(c, s, p) /\ p = [NoSlice EXCEPT !.at = p.at]
        /\ p.at = "list" \/ (p.at = "done" /\ Mode(c) = "rebuild")
  BY RollupsAreWritten
<1>2. /\ At(c, s) = "write" /\ UNCHANGED <<school, tables, archive, trend, status, command>>
  BY DEF WriteRollups
<1>3. SameOrders(c, s) /\ s \in Taken(c)
  BY <1>2, SameOrdersStay, WasTaken
<1>4. Known(r)' /\ Listing(r, p)
  BY <1>1, <1>2 DEF Fine, Known, Listing, NoSlice, tables
<1>5. Settled(r)'
  <2>1. StudentOf[r] \notin moved => Steady(r)
    BY FollowedFacts DEF Steady, Types, SchoolTypes
  <2> QED
    BY <1>2, <2>1, WrittenStays DEF Fine, Settled, school
<1>6. ASSUME Steady(r) PROVE Keeps(r) /\ Secured(c, s, r, p)'
  <2>1. Keeps(r)
    BY <1>2, <1>6, WrittenStays DEF Keeps, tables
  <2>2. Here(s, r)' => Counted(r)'
    BY <1>2, <1>6, WrittenStays DEF Here, In, school
  <2>3. p.at = "done" => Mode(c)' \notin ForWeek
    BY <1>1, <1>2 DEF Mode, ForWeek
  <2> QED
    BY <1>1, <2>1, <2>2, <2>3 DEF Secured
<1>7. Steady(r) => (status' = "compacted" => r \in stamped')
  BY <1>2 DEF Fine, Held, tables
<1> QED
  BY <1>1, <1>3, <1>4, <1>5, <1>6, <1>7, FineMove

(* A slice that fails has nothing to keep.                                 *)
LEMMA FailureFine ==
    ASSUME Types, NEW r \in Followed, Fine(r), NEW c \in Commands, NEW s \in Slices,
           WriteCollides(c, s) \/ WorkerDies(c, s)
    PROVE  Fine(r)'
<1>1. PICK p \in Position :
        Moves(c, s, p) /\ p.at = "failed" /\ p = [NoSlice EXCEPT !.at = "failed"]
  BY LeaveMoves DEF WriteCollides, WorkerDies, Places
<1>2. /\ At(c, s) # "off"
      /\ UNCHANGED <<school, tables, archive, reports, status, command>>
  BY DEF WriteCollides, WorkerDies, InFlight
<1>3. SameOrders(c, s) /\ s \in Taken(c)
  BY <1>2, SameOrdersStay, WasTaken
<1>4. Listing(r, p) /\ Secured(c, s, r, p)
  BY <1>1, NothingSecured DEF Listing, NoSlice
<1> QED
  BY <1>1, <1>2, <1>3, <1>4, QuietFine

LEMMA ListFine ==
    ASSUME Types, NEW r \in Followed, Fine(r), NEW c \in Commands, NEW s \in Slices, List(c, s)
    PROVE  Fine(r)'
<1>1. PICK p \in Position :
        /\ Moves(c, s, p) /\ p.listed = InScope(s)
        /\ \/ p.at = "archive" /\ p.left = InScope(s) /\ Mode(c) # "rebuild"
           \/ /\ p.at = AfterArchives(c) /\ p.at \in {"buckets", "done"}
              /\ InScope(s) # {} => Mode(c) = "rebuild"
  BY WeekIsListed
<1>2. /\ At(c, s) = "list" /\ UNCHANGED <<school, tables, archive, reports>>
      /\ UNCHANGED <<status, command>>
         \/ (status' = "aggregated" /\ command' = [command EXCEPT ![c].mark = "aggregated"])
  BY DEF List
<1>3. SameOrders(c, s) /\ s \in Taken(c)
  BY <1>2, WasTaken DEF SameOrders, Types, CommandTypes, Order
<1>4. r \in InScope(s) <=> Here(s, r)
  BY ScopeHasHere DEF Fine
<1>5. Listing(r, p)
  <2>1. ASSUME NEW q \in InScope(s), PairOf[q] = PairOf[r] PROVE r \in InScope(s)
    <3>1. q \in Runs /\ StudentOf[q] = StudentOf[r]
      BY <2>1, FollowedFacts, CompactionAssumption DEF InScope, CompactionAssumption
    <3> QED
      BY <1>4, <2>1, <3>1 DEF InScope, Here, In
  <2> QED
    BY <1>1, <2>1 DEF Listing
<1>6. ASSUME Steady(r) PROVE Secured(c, s, r, p)
  <2>1. Here(s, r) /\ Mode(c) # "archive" => Counted(r)
    BY <1>2, <1>6, WasSecured DEF Secured, At
  <2>2. p.at = "done" => Mode(c) \notin ForWeek
    BY <1>1 DEF AfterArchives, ForWeek
  <2>3. Here(s, r) => (p.at = "archive" /\ r \in p.left) \/ Mode(c) = "rebuild"
    BY <1>1, <1>4
  <2>4. p.at \in {"archive", "buckets", "done"} /\ (p.at = "archive" => Mode(c) # "rebuild")
    BY <1>1
  <2> QED
    BY <2>1, <2>2, <2>3, <2>4 DEF Secured
<1> QED
  BY <1>1, <1>2, <1>3, <1>5, <1>6, QuietFine

(* q has an archive, with its turns if it has them, and the loop goes on.  *)
LEMMA NextRunFine ==
    ASSUME Types, NEW r \in Followed, Fine(r), NEW c \in Commands, NEW s \in Slices,
           NEW q \in slice[c][s].left, NEW n \in Nat, NextRun(c, s, q, n),
           At(c, s) \in {"archive", "build"},
           UNCHANGED <<school, tables, reports, status, command>>,
           NEW kind \in Archives, archive' = [archive EXCEPT ![q] = kind],
           q = r /\ r \in raw => kind = "turns"
    PROVE  Fine(r)'
<1>1. PICK p \in Position :
        /\ Moves(c, s, p) /\ p.listed = slice[c][s].listed
        /\ p.left = slice[c][s].left \ {q} /\ p.at \in {"archive", "buckets", "done"}
        /\ p.at # "archive" => p.at = AfterArchives(c) /\ p.left = {}
  BY NextRunMoves
<1>2. SameOrders(c, s) /\ s \in Taken(c)
  BY SameOrdersStay, WasTaken
<1>3. archive'[r] = IF r = q THEN kind ELSE archive[r]
  BY FollowedFacts DEF Types, TableTypes
<1>4. Known(r)' /\ Settled(r)' /\ Listing(r, p)
  BY <1>1, <1>3 DEF Fine, Known, Settled, Listing, tables, reports, rollups, school
<1>5. ASSUME Steady(r) PROVE Keeps(r) /\ Secured(c, s, r, p)'
  <2>1. Keeps(r)
    BY <1>3 DEF Keeps, Counted, tables, reports, rollups, school
  <2>2. Secured(c, s, r, slice[c][s])
    BY <1>5, WasSecured
  <2>3. Here(s, r) /\ Mode(c) # "archive" => Counted(r)
    BY <2>2 DEF Secured, At
  <2>4. Here(s, r) /\ "archive" \notin FaultKinds /\ r \in raw /\ r \notin p.left =>
            archive'[r] = "turns"
    BY <1>1, <1>3, <2>2 DEF Secured, At
  <2>5. p.at = "done" => Mode(c) \notin ForWeek
    BY <1>1 DEF AfterArchives, ForWeek
  <2>6. /\ Here(s, r)' <=> Here(s, r)
        /\ Counted(r)' <=> Counted(r)
        /\ UNCHANGED <<raw, stamped, command>>
    BY DEF Here, In, Counted, tables, reports, rollups, school
  <2> QED
    BY <1>1, <2>1, <2>3, <2>4, <2>5, <2>6 DEF Secured, Mode
<1>6. Steady(r) => (status' = "compacted" => r \in stamped')
  BY DEF Fine, Held, tables
<1>7. p.at # "off"
  BY <1>1
<1> QED
  BY <1>1, <1>2, <1>4, <1>5, <1>6, <1>7, FineMove

LEMMA KeepArchiveFine ==
    ASSUME Types, NEW r \in Followed, Fine(r), NEW c \in Commands, NEW s \in Slices,
           NEW q \in Week, KeepArchive(c, s, q)
    PROVE  Fine(r)'
<1>1. /\ q \in slice[c][s].left /\ archive[q] \in Archives
      /\ q = r /\ r \in raw => archive[q] = "turns"
  BY CompactionAssumption
  DEF KeepArchive, Kept, Fine, Known, Types, TableTypes, CompactionAssumption
<1>2. archive' = [archive EXCEPT ![q] = archive[q]]
  BY DEF KeepArchive, Types, TableTypes
<1> QED
  BY <1>1, <1>2, NextRunFine DEF KeepArchive

LEMMA BuildArchiveFine ==
    ASSUME Types, NEW r \in Followed, Fine(r), NEW c \in Commands, NEW s \in Slices,
           NEW q \in Week, BuildArchive(c, s, q)
    PROVE  Fine(r)'
<1>1. q \in slice[c][s].left
  BY DEF BuildArchive, Types, SliceTypes, Shape
<1>2. PICK kind \in Archives : kind = IF q \in raw THEN "turns" ELSE "empty"
  BY DEF Archives
<1> QED
  BY <1>1, <1>2, NextRunFine DEF BuildArchive

LEMMA MissArchiveFine ==
    ASSUME Types, NEW r \in Followed, Fine(r), NEW c \in Commands, NEW s \in Slices,
           NEW q \in Week, MissArchive(c, s, q)
    PROVE  Fine(r)'
<1>1. PICK p \in Position :
        /\ Moves(c, s, p) /\ p.listed = slice[c][s].listed
        /\ p.at = "build" /\ p.left = slice[c][s].left
  BY ArchiveIsMissed
<1>2. /\ At(c, s) = "archive"
      /\ UNCHANGED <<school, tables, archive, reports, status, command>>
  BY DEF MissArchive
<1>3. SameOrders(c, s) /\ s \in Taken(c)
  BY <1>2, SameOrdersStay, WasTaken
<1>4. Listing(r, p)
  BY <1>1 DEF Fine, Listing
<1>5. Steady(r) => Secured(c, s, r, p)
  BY <1>1, <1>2, WasSecured DEF Secured, At
<1> QED
  BY <1>1, <1>2, <1>3, <1>4, <1>5, QuietFine

(* An archive that does not verify is written only where that may happen.  *)
LEMMA ArchiveFailsFine ==
    ASSUME Types, NEW r \in Followed, Fine(r), NEW c \in Commands, NEW s \in Slices,
           NEW q \in Week, ArchiveFails(c, s, q)
    PROVE  Fine(r)'
<1>1. PICK p \in Position :
        Moves(c, s, p) /\ p.at = "failed" /\ p = [NoSlice EXCEPT !.at = "failed"]
  BY LeaveMoves DEF ArchiveFails, Places
<1>2. /\ At(c, s) = "build" /\ UNCHANGED <<school, tables, reports, command>>
      /\ status' \in {status, "failed"} /\ "archive" \in FaultKinds
      /\ archive' = [archive EXCEPT ![q] = "bad"]
  BY DEF ArchiveFails, Fault
<1>3. SameOrders(c, s) /\ s \in Taken(c)
  BY <1>2, SameOrdersStay, WasTaken
<1>4. archive'[r] = IF r = q THEN "bad" ELSE archive[r]
  BY <1>2, FollowedFacts DEF Types, TableTypes
<1>5. Known(r)' /\ Settled(r)' /\ Listing(r, p)
  BY <1>1, <1>2, <1>4
  DEF Fine, Known, Settled, Listing, NoSlice, tables, reports, rollups, school
<1>6. Keeps(r) /\ Secured(c, s, r, p)'
  <2>1. UNCHANGED <<raw, stamped, runRollup, turnRollup, named, teacher>>
    BY <1>2 DEF tables, reports, rollups, school
  <2>2. Keeps(r)
    BY <1>2, <2>1 DEF Keeps, Counted
  <2>3. p.at = "failed"
    BY <1>1
  <2>4. Secured(c, s, r, p)'
    BY <2>3, NothingSecured
  <2> QED
    BY <2>2, <2>4
<1>7. Steady(r) => (status' = "compacted" => r \in stamped')
  BY <1>2 DEF Fine, Held, tables
<1> QED
  BY <1>1, <1>3, <1>5, <1>6, <1>7, FineMove

(* A rebuild of the trends has listed every run of the week of a pair it   *)
(* rebuilds.                                                               *)
LEMMA RebuildBucketsFine ==
    ASSUME Types, NEW r \in Followed, Fine(r), NEW c \in Commands, NEW s \in Slices,
           RebuildBuckets(c, s)
    PROVE  Fine(r)'
<1>1. PICK p \in Position :
        Moves(c, s, p) /\ p.at = AfterBuckets(c) /\ p = [NoSlice EXCEPT !.at = p.at]
  BY LeaveMoves DEF RebuildBuckets, AfterBuckets, Places
<1>2. /\ At(c, s) = "buckets"
      /\ UNCHANGED <<school, tables, archive, rollups, status, command>>
      /\ trend' = HistoricalTrend(slice[c][s].listed)
  BY DEF RebuildBuckets
<1>3. SameOrders(c, s) /\ s \in Taken(c)
  BY <1>2, SameOrdersStay, WasTaken
<1>4. r \in trend'
  <2>1. r \in PairRuns(slice[c][s].listed) => r \in slice[c][s].listed
    BY WasSecured DEF PairRuns, Listing
  <2> QED
    BY <1>2, <2>1, FollowedFacts DEF Fine, Known, HistoricalTrend
<1>5. Known(r)' /\ Settled(r)' /\ Listing(r, p) /\ Keeps(r)
  BY <1>1, <1>2, <1>4
  DEF Fine, Known, Settled, Listing, NoSlice, Keeps, Counted, tables, rollups, school
<1>6. ASSUME Steady(r) PROVE Secured(c, s, r, p)'
  <2>1. Mode(c) # "archive"
    BY <1>2 DEF Types, Routes, Fits, At, Mode
  <2>2. /\ p.at \in {"verify", "delete"} => Mode(c) # "rebuild"
        /\ p.at = "done" => Mode(c) \notin ForWeek \/ command[c].dry
        /\ p.at \in {"done", "delete", "verify"}
    BY <1>1 DEF AfterBuckets, ForWeek
  <2>3. Secured(c, s, r, p)
    BY <1>2, <1>6, <2>1, <2>2, WasSecured DEF Secured, At
  <2> QED
    BY <1>2, <1>5, <2>3, StillSecured DEF school
<1>7. Steady(r) => (status' = "compacted" => r \in stamped')
  BY <1>2 DEF Fine, Held, tables
<1>8. p.at # "off"
  BY <1>1 DEF AfterBuckets
<1> QED
  BY <1>1, <1>3, <1>5, <1>6, <1>7, <1>8, FineMove

LEMMA VerifyFine ==
    ASSUME Types, NEW r \in Followed, Fine(r), NEW c \in Commands, NEW s \in Slices,
           Verify(c, s)
    PROVE  Fine(r)'
<1>1. PICK p \in Position : /\ Moves(c, s, p) /\ p.at \in {"delete", "failed"}
                            /\ p = [NoSlice EXCEPT !.at = p.at]
  BY LeaveMoves DEF Verify, Places
<1>2. /\ At(c, s) = "verify"
      /\ UNCHANGED <<school, tables, archive, reports, status, command>>
  BY DEF Verify
<1>3. SameOrders(c, s) /\ s \in Taken(c)
  BY <1>2, SameOrdersStay, WasTaken
<1>4. Mode(c) # "archive" /\ Mode(c) # "rebuild"
  BY <1>2 DEF Types, Routes, Fits, At, Mode
<1>5. Listing(r, p)
  BY <1>1 DEF Listing, NoSlice
<1>6. Steady(r) => Secured(c, s, r, p)
  BY <1>1, <1>2, <1>4, WasSecured DEF Secured, At
<1>7. p.at # "off"
  BY <1>1
<1> QED
  BY <1>1, <1>2, <1>3, <1>5, <1>6, <1>7, QuietFine

LEMMA DeleteTurnsFine ==
    ASSUME Types, NEW r \in Followed, Fine(r), NEW c \in Commands, NEW s \in Slices,
           DeleteTurns(c, s)
    PROVE  Fine(r)'
<1>1. PICK p \in Position :
        Moves(c, s, p) /\ p.at = "stamp" /\ p.runs = InScope(s) /\ p.listed = {}
  BY TurnsAreDeleted
<1>2. /\ At(c, s) = "delete"
      /\ UNCHANGED <<school, tables, archive, reports, status, command>>
  BY DEF DeleteTurns
<1>3. SameOrders(c, s) /\ s \in Taken(c)
  BY <1>2, SameOrdersStay, WasTaken
<1>4. Mode(c) # "archive" /\ Mode(c) # "rebuild"
  BY <1>2 DEF Types, Routes, Fits, At, Mode
<1>5. Listing(r, p)
  BY <1>1 DEF Listing
<1>6. r \in p.runs <=> Here(s, r)
  BY <1>1, ScopeHasHere DEF Fine
<1>7. Steady(r) => Secured(c, s, r, p)
  BY <1>1, <1>2, <1>4, <1>6, WasSecured DEF Secured, At
<1> QED
  BY <1>1, <1>2, <1>3, <1>5, <1>7, QuietFine

LEMMA StampRunsFine ==
    ASSUME Types, NEW r \in Followed, Fine(r), NEW c \in Commands, NEW s \in Slices,
           StampRuns(c, s)
    PROVE  Fine(r)'
<1>1. PICK p \in Position :
        Moves(c, s, p) /\ p.at = "done" /\ p = [NoSlice EXCEPT !.at = "done"]
  BY LeaveMoves DEF StampRuns, Places
<1>2. /\ At(c, s) = "stamp" /\ UNCHANGED <<school, rows, archive, reports, status, command>>
      /\ raw' = raw \ slice[c][s].runs /\ stamped' = stamped \union InScope(s)
  BY DEF StampRuns
<1>3. SameOrders(c, s) /\ s \in Taken(c)
  BY <1>2, SameOrdersStay, WasTaken
<1>4. Known(r)' /\ Settled(r)' /\ Listing(r, p) /\ Keeps(r)
  BY <1>1, <1>2
  DEF Fine, Known, Settled, Listing, NoSlice, Keeps, Counted, reports, rollups, school
<1>5. Secured(c, s, r, p)'
  <2>1. Here(s, r)' => r \in stamped'
    BY <1>2, ScopeHasHere DEF Fine, Here, In, school
  <2> QED
    BY <1>1, <2>1 DEF Secured
<1>6. Steady(r) => (status' = "compacted" => r \in stamped')
  BY <1>2 DEF Fine, Held
<1> QED
  BY <1>1, <1>3, <1>4, <1>5, <1>6, FineMove

LEMMA SharedStep == ASSUME Types, Shared, [Next]_vars PROVE Shared'
<1>1. Types'
  BY TypesStep
<1> SUFFICES ASSUME NEW r \in Followed PROVE Fine(r)'
  BY DEF Shared, Followed
<1>2. Fine(r)
  BY DEF Shared
<1>3. CASE UNCHANGED vars
  <2>1. UNCHANGED <<school, tables, archive, reports, status, command, slice>>
    BY <1>3 DEF vars
  <2>2. Known(r)' /\ Settled(r)' /\ Keeps(r)
    BY <1>2, <2>1 DEF Fine, Known, Settled, Keeps, Counted, tables, reports, rollups, school
  <2>3. ASSUME NEW c \in Commands, NEW s \in Slices, Held(r)
        PROVE  Secured(c, s, r, slice[c][s])'
    <3>1. PICK p : p = slice[c][s] /\ p = slice'[c][s]
      BY <2>1
    <3>2. Secured(c, s, r, p)'
      BY <2>1, <2>2, <2>3, <3>1, StillSecured DEF Held, school
    <3> QED
      BY <3>1, <3>2
  <2>4. Held(r) => Held(r)'
    BY <2>1, <2>3 DEF Held, Covered, Taken, At, Mode, Here, In, school, tables
  <2> QED
    BY <1>2, <2>1, <2>2, <2>4 DEF Fine, Listing, Steady, school
<1>4. ASSUME NEW c \in Commands, NEW s \in Slices, SliceStep(c, s) PROVE Fine(r)'
  BY <1>2, <1>4, StartSliceFine, ReadWeekFine, WriteRollupsFine, FailureFine, ListFine,
     KeepArchiveFine, MissArchiveFine, BuildArchiveFine, RebuildBucketsFine, VerifyFine,
     DeleteTurnsFine, StampRunsFine
  DEF SliceStep
<1>5. ASSUME NEW c \in Commands, Failure(c) PROVE Fine(r)'
  BY <1>1, <1>2, <1>5, CommandStepFine, FailureFine, ArchiveFailsFine DEF Failure
<1>6. ASSUME NEW q \in Runs, Insert(q) PROVE Fine(r)'
  BY <1>2, <1>6, InsertFine
<1>7. ASSUME NEW X \in SUBSET Students, NEW t \in Teachers, NEW u \in Teachers, Move(X, t, u)
      PROVE  Fine(r)'
  BY <1>2, <1>7, MoveFine
<1> QED
  BY <1>1, <1>2, <1>3, <1>4, <1>5, <1>6, <1>7, CommandStepFine DEF Next, CommandStep

-------------------------------------------------------------------------------
(* Turns are deleted by the slices that delete, and by nobody else.        *)

LEMMA DeletedBySlices ==
    ASSUME Types, [Next]_vars, NEW r \in raw \ raw'
    PROVE  \E c \in Commands, s \in Slices : StampRuns(c, s)
<1>1. ASSUME NEW c \in Commands,
             \/ Start(c) \/ Decline(c) \/ Open(c) \/ OpenAside(c)
             \/ Finish(c) \/ Abort(c) \/ OrphansEnd(c) \/ CommandKilled(c)
      PROVE  UNCHANGED raw
  BY <1>1 DEF Start, Decline, Open, OpenAside, Finish, Abort, OrphansEnd, CommandKilled, tables
<1>2. ASSUME NEW c \in Commands, NEW s \in Slices,
             SliceStep(c, s) \/ WorkerDies(c, s) \/ \E q \in Week : ArchiveFails(c, s, q)
      PROVE  UNCHANGED raw \/ StampRuns(c, s)
  BY <1>2 DEF SliceStep, StartSlice, ReadWeek, WriteRollups, WriteCollides, List, KeepArchive,
              MissArchive, BuildArchive, RebuildBuckets, Verify, DeleteTurns, WorkerDies,
              ArchiveFails, tables
<1>3. ASSUME NEW q \in Runs, Insert(q) PROVE r \in raw'
  BY <1>3 DEF Insert
<1>4. ASSUME NEW X \in SUBSET Students, NEW t \in Teachers, NEW u \in Teachers, Move(X, t, u)
      PROVE  UNCHANGED raw
  BY <1>4 DEF Move, tables
<1>5. UNCHANGED vars => UNCHANGED raw
  BY DEF vars, tables
<1> QED
  BY <1>1, <1>2, <1>3, <1>4, <1>5 DEF Next, CommandStep, Failure

(* A steady run whose turns go is here in the slice, counted and drawn.    *)
LEMMA DeletedIsCounted ==
    ASSUME Types, Shared, NEW c \in Commands, NEW s \in Slices, StampRuns(c, s),
           NEW r \in raw \ raw', Steady(r)
    PROVE  /\ r \in Followed /\ Fine(r) /\ Here(s, r) /\ At(c, s) = "stamp"
           /\ Mode(c) # "rebuild" /\ Mode(c) # "archive"
           /\ r \in runRollup /\ r \in turnRollup /\ r \in trend
           /\ Secured(c, s, r, slice[c][s])
<1>1. At(c, s) = "stamp" /\ r \in slice[c][s].runs
  BY DEF StampRuns
<1>2. r \in Followed
  BY <1>1 DEF Types, SliceTypes, Position, Followed, Steady
<1>3. Fine(r) /\ Secured(c, s, r, slice[c][s])
  BY <1>2, WasSecured DEF Shared
<1>4. Mode(c) # "rebuild" /\ Mode(c) # "archive"
  BY <1>1 DEF Types, Routes, Fits, At, Mode
<1>5. Here(s, r) /\ Counted(r)
  BY <1>1, <1>3, <1>4 DEF Secured, At
<1> QED
  BY <1>1, <1>2, <1>3, <1>4, <1>5 DEF Counted, Fine, Known

\* Whatever commands overlap, slices fail and pupils move, the run-level
\* totals of the week count every run, stored when the compaction began, of
\* a pupil who has kept the teacher (weekly_aggregation.py deletes by the
\* teacher a row names and inserts by the teacher a pupil has).
THEOREM RunsStayCounted == Spec => []RunRollupsComplete
<1>1. Shared => RunRollupsComplete
  BY DEF Shared, Followed, Fine, Settled, RunRollupsComplete
<1> QED
  BY <1>1, FineInit, TypesInit, TypesStep, SharedStep, PTL DEF Spec

\* A record says COMPACTED only when no steady run of the week is left,
\* whichever of overlapping commands writes it (compact_weekly_runs.py).
THEOREM CompactedWeeksAreDone == Spec => []CompactedIsDone
<1>1. Shared => CompactedIsDone
  BY DEF Shared, Followed, Fine, Held, Steady, CompactedIsDone
<1> QED
  BY <1>1, FineInit, TypesInit, TypesStep, SharedStep, PTL DEF Spec

\* While archives verify, no command deletes turns of a steady run that
\* another one has not counted, drawn or archived, whatever the others are
\* at, and whether it verifies or not (compact_weekly_runs.py).
THEOREM OverlappingDeletionsAreSafe ==
    ASSUME "archive" \notin FaultKinds PROVE Spec => DeletedIsSafe
<1>1. ASSUME Types, Shared, [Next]_vars
      PROVE  [\A r \in raw \ raw' :
                Steady(r) => /\ r \in runRollup /\ r \in turnRollup /\ r \in trend
                             /\ archive[r] = "turns"]_vars
  <2> SUFFICES ASSUME NEW r \in raw \ raw', Steady(r)
               PROVE  r \in runRollup /\ r \in turnRollup /\ r \in trend /\ archive[r] = "turns"
    OBVIOUS
  <2>1. PICK c \in Commands, s \in Slices : StampRuns(c, s)
    BY <1>1, DeletedBySlices
  <2> QED
    BY <1>1, <2>1, DeletedIsCounted DEF Secured, At
<1> QED
  BY <1>1, FineInit, TypesInit, TypesStep, SharedStep, PTL DEF Spec, DeletedIsSafe

-------------------------------------------------------------------------------
(* That commands that do not overlap lose nothing.                         *)

(* Archives are kept, and there is one process that runs commands.         *)
Alone == ~Overwrite /\ \A c, d \in Commands : c = d

(* The whole week, or teachers: no run is here in two slices.              *)
Apart == \A c \in Commands : "week" \in Taken(c) => Taken(c) = {"week"}

(* What the archive loop of a slice at position p may rely on.             *)
Filed(c, s, r, p) ==
    /\ r \in p.left => Here(s, r)
    /\ r \in p.run => r \in raw
    /\ Here(s, r) =>
          /\ p.at \in {"archive", "build"} /\ r \notin p.left => archive[r] = "turns"
          /\ p.at \in {"buckets", "verify", "delete", "stamp"} /\ Mode(c) # "rebuild" =>
                archive[r] = "turns"

(* A run has its turns or, once they are deleted, an archive of them.      *)
Kempt(r) ==
    /\ archive[r] # "empty"
    /\ r \in raw <=> r \notin stamped
    /\ r \in stamped => archive[r] = "turns"

Safe(r) == Kempt(r) /\ \A c \in Commands, s \in Slices : Filed(c, s, r, slice[c][s])

Sound == Apart /\ \A r \in Followed : Steady(r) => Safe(r)

LEMMA NothingFiled ==
    ASSUME NEW c, NEW s, NEW r, NEW p, p.at \in {"off", "read", "write", "list", "done", "failed"},
           p.left = {}, p.run = {}
    PROVE  Filed(c, s, r, p) /\ Filed(c, s, r, p)'
BY DEF Filed

LEMMA LeftNothing ==
    ASSUME NEW where
    PROVE  /\ [NoSlice EXCEPT !.at = where].left = {} /\ [NoSlice EXCEPT !.at = where].run = {}
           /\ [NoSlice EXCEPT !.at = where].at = where
           /\ NoSlice.left = {} /\ NoSlice.run = {} /\ NoSlice.at = "off"
BY DEF NoSlice

(* A slice keeps what it has filed, of runs that are here.                 *)
LEMMA StillFiled ==
    ASSUME NEW c, NEW s, NEW r, NEW p, Filed(c, s, r, p), p.run \subseteq p.left,
           UNCHANGED teacher, command'[c].mode = command[c].mode,
           Here(s, r) => /\ r \in raw => r \in raw'
                         /\ archive[r] = "turns" => archive'[r] = "turns"
    PROVE  Filed(c, s, r, p)'
BY DEF Filed, Here, In, Mode

(* A run is here in one slice a command has taken.                         *)
LEMMA HereOnce ==
    ASSUME Apart, NEW c \in Commands, NEW s \in Taken(c), NEW t \in Taken(c), NEW r,
           Here(s, r), Here(t, r)
    PROVE  s = t
BY DEF Apart, Here, In

LEMMA WasFiled ==
    ASSUME Sound, NEW r \in Followed, Steady(r), NEW c \in Commands, NEW s \in Slices
    PROVE  Filed(c, s, r, slice[c][s]) /\ Kempt(r)
BY DEF Sound, Safe

(* What the step of slice s of command c to position p owes run r.         *)
Advances(c, s, r, p) ==
    /\ Kempt(r)' /\ Filed(c, s, r, p)'
    /\ ~Here(s, r) => /\ r \in raw => r \in raw'
                      /\ archive[r] = "turns" => archive'[r] = "turns"

(* The step of a slice of the one process there is.                        *)
LEMMA SoundMove ==
    ASSUME Alone, Types, Sound, NEW c \in Commands, NEW s \in Slices, NEW p \in Position,
           Moves(c, s, p), s \in Taken(c), p.at # "off", SameOrders(c, s),
           \A r \in Followed : Steady(r) => Advances(c, s, r, p)
    PROVE  Sound'
<1>1. slice'[c][s] = p /\ \A t \in Slices \ {s} : slice'[c][t] = slice[c][t]
  BY MovesTo DEF Types
<1>2. Taken(c)' = Taken(c)
  BY <1>1 DEF Taken, At, SameOrders
<1>3. Apart'
  BY <1>2 DEF Alone, Sound, Apart
<1>4. ASSUME NEW r \in Followed, Steady(r)' PROVE Safe(r)'
  <2>1. Steady(r) /\ Advances(c, s, r, p)
    BY <1>4 DEF Steady, SameOrders, school
  <2>2. ASSUME NEW t \in Slices PROVE Filed(c, t, r, slice[c][t])'
    <3>1. CASE t = s
      BY <1>1, <2>1, <3>1 DEF Advances
    <3>2. CASE t # s
      <4>1. PICK old : old = slice[c][t] /\ old = slice'[c][t]
        BY <1>1, <3>2
      <4>2. Filed(c, t, r, old) /\ Shape(old)
        BY <2>1, <4>1, WasFiled DEF Types, SliceTypes
      <4>3. CASE t \in Taken(c)
        <5>1. ~(Here(t, r) /\ Here(s, r))
          BY <3>2, <4>3, HereOnce DEF Sound
        <5> QED
          BY <2>1, <4>1, <4>2, <5>1, StillFiled DEF Advances, SameOrders, school, Shape
      <4>4. CASE t \notin Taken(c)
        <5>1. old.at = "off" /\ old.left = {} /\ old.run = {}
          BY <4>1, <4>2, <4>4 DEF Taken, At, Shape
        <5>2. Filed(c, t, r, old)'
          BY <5>1, NothingFiled
        <5> QED
          BY <4>1, <5>2
      <4> QED
        BY <4>3, <4>4
    <3> QED
      BY <3>1, <3>2
  <2> QED
    BY <2>1, <2>2 DEF Alone, Safe, Advances
<1> QED
  BY <1>3, <1>4 DEF Sound, Followed

(* A step of a slice that leaves the runs and their archives.              *)
LEMMA QuietSound ==
    ASSUME Alone, Types, Sound, NEW c \in Commands, NEW s \in Slices, NEW p \in Position,
           Moves(c, s, p), s \in Taken(c), p.at # "off", SameOrders(c, s), Shape(p),
           UNCHANGED <<raw, stamped, archive>>,
           \A r \in Followed : Steady(r) => Filed(c, s, r, p)
    PROVE  Sound'
<1>1. ASSUME NEW r \in Followed, Steady(r) PROVE Advances(c, s, r, p)
  <2>1. Kempt(r)'
    BY <1>1, WasFiled DEF Kempt
  <2>2. Filed(c, s, r, p)'
    BY <1>1, StillFiled DEF SameOrders, school, Shape
  <2> QED
    BY <2>1, <2>2 DEF Advances
<1> QED
  BY <1>1, SoundMove

LEMMA SoundInit == ASSUME Init PROVE Sound
<1>1. /\ \A c \in Commands, s \in Slices : slice[c][s] = NoSlice
      /\ \A c \in Commands : command[c] = NoCommand
  BY DEF Init
<1>2. Apart
  BY <1>1, LeftNothing DEF Apart, Taken, At, NoCommand
<1>3. ASSUME NEW r \in Followed PROVE Safe(r)
  <2>1. Kempt(r)
    BY FollowedFacts DEF Init, Followed, Kempt
  <2>2. ASSUME NEW c \in Commands, NEW s \in Slices PROVE Filed(c, s, r, slice[c][s])
    <3>1. PICK p : p = slice[c][s] /\ p = NoSlice
      BY <1>1
    <3>2. Filed(c, s, r, p)
      BY <3>1, LeftNothing, NothingFiled
    <3> QED
      BY <3>1, <3>2
  <2> QED
    BY <2>1, <2>2 DEF Safe
<1> QED
  BY <1>2, <1>3 DEF Sound

(* Where no slice moves, and the runs and their archives stay.             *)
LEMMA StillSafe ==
    ASSUME Sound, UNCHANGED <<stamped, archive>>, NEW r \in Followed, Steady(r),
           r \in raw' <=> r \in raw,
           \A c \in Commands, s \in Slices :
              \/ slice'[c][s] = NoSlice
              \/ /\ slice'[c][s] = slice[c][s] /\ command'[c].mode = command[c].mode
                 /\ Here(s, r)' <=> Here(s, r)
    PROVE  Safe(r)'
<1>1. Kempt(r)'
  BY DEF Sound, Safe, Kempt
<1>2. ASSUME NEW c \in Commands, NEW s \in Slices PROVE Filed(c, s, r, slice[c][s])'
  <2>1. CASE slice'[c][s] = NoSlice
    <3>1. PICK p : p = NoSlice
      OBVIOUS
    <3>2. Filed(c, s, r, p)'
      BY <3>1, LeftNothing, NothingFiled
    <3> QED
      BY <2>1, <3>1, <3>2
  <2>2. CASE slice'[c][s] # NoSlice
    <3>1. Filed(c, s, r, slice[c][s])
      BY WasFiled
    <3>2. /\ slice'[c][s] = slice[c][s] /\ command'[c].mode = command[c].mode
          /\ Here(s, r)' <=> Here(s, r)
      BY <2>2
    <3> QED
      BY <3>1, <3>2 DEF Filed, Mode
  <2> QED
    BY <2>1, <2>2
<1> QED
  BY <1>1, <1>2 DEF Safe

LEMMA InsertSound ==
    ASSUME Alone, Types, Shared, Sound, NEW q \in Runs, Insert(q)
    PROVE  Sound'
<1>1. /\ UNCHANGED <<school, stamped, archive, command, slice>>
      /\ q \notin rows /\ raw' = raw \union {q}
  BY DEF Insert
<1>2. Apart'
  BY <1>1 DEF Sound, Apart, Taken, At
<1>3. ASSUME NEW r \in Followed, Steady(r)' PROVE Safe(r)'
  <2>1. Steady(r) /\ r # q
    BY <1>1, <1>3 DEF Steady, school, Shared, Fine, Known
  <2>2. \A t \in Slices : Here(t, r)' <=> Here(t, r)
    BY <1>1 DEF Here, In, school
  <2> QED
    BY <1>1, <2>1, <2>2, StillSafe
<1> QED
  BY <1>2, <1>3 DEF Sound, Followed

LEMMA MoveSound ==
    ASSUME Alone, Types, Shared, Sound, NEW X \in SUBSET Students, NEW t \in Teachers,
           NEW u \in Teachers, Move(X, t, u)
    PROVE  Sound'
<1>1. /\ UNCHANGED <<tables, archive, command, slice>>
      /\ astray' = IF Busy THEN astray \union X ELSE astray
  BY DEF Move
<1>2. Apart'
  BY <1>1 DEF Sound, Apart, Taken, At
<1>3. ASSUME NEW r \in Followed, Steady(r)' PROVE Safe(r)'
  <2>1. Steady(r)
    BY <1>1, <1>3 DEF Steady
  <2>2. CASE StudentOf[r] \notin X
    <3>1. teacher'[StudentOf[r]] = teacher[StudentOf[r]]
      BY <2>2, FollowedFacts DEF Move
    <3>2. \A s \in Slices : Here(s, r)' <=> Here(s, r)
      BY <3>1 DEF Here, In
    <3> QED
      BY <1>1, <2>1, <3>2, StillSafe DEF tables
  <2>3. CASE StudentOf[r] \in X
    <3>1. ~Busy
      BY <1>1, <1>3, <2>3 DEF Steady
    <3>2. \A c \in Commands : command[c].phase \in {"idle", "open"}
      BY <3>1 DEF Busy, Types, CommandTypes, Order
    <3>3. \A c \in Commands, s \in Slices : slice'[c][s] = NoSlice
      BY <1>1, <3>2 DEF Types, Unstarted
    <3> QED
      BY <1>1, <2>1, <3>3, StillSafe DEF tables
  <2> QED
    BY <2>2, <2>3
<1> QED
  BY <1>2, <1>3 DEF Sound, Followed

LEMMA CommandStepSound ==
    ASSUME Alone, Types, Types', Shared, Sound, NEW c \in Commands,
           \/ Start(c) \/ Decline(c) \/ Open(c) \/ OpenAside(c)
           \/ Finish(c) \/ Abort(c) \/ OrphansEnd(c) \/ CommandKilled(c)
    PROVE  Sound'
<1>1. /\ UNCHANGED <<school, tables, archive>>
      /\ \/ \A s \in Slices : slice'[c][s] = NoSlice
         \/ /\ slice' = slice /\ command'[c].phase = "orphaned"
            /\ command'[c].mode = command[c].mode
  BY CommandStepSlices
<1>2. Apart'
  <2> SUFFICES ASSUME "week" \in Taken(c)' PROVE Taken(c)' = {"week"}
    BY DEF Alone, Apart
  <2>1. CASE slice' = slice /\ command'[c].phase = "orphaned"
    <3>1. command'[c].waiting = {}
      BY <2>1 DEF Types, Unstarted
    <3> QED
      BY <2>1, <3>1 DEF Sound, Apart, Taken, At
  <2>2. CASE \A s \in Slices : slice'[c][s] = NoSlice
    <3>1. Taken(c)' = command'[c].waiting
      BY <2>2, LeftNothing DEF Taken, At
    <3>2. command'[c].phase = "run"
      BY <3>1 DEF Types, Unstarted
    <3>3. CASE Open(c)
      <4> DEFINE m == IF Mode(c) = "parallel" /\ Cardinality(Work("parallel")) = 1
                      THEN "sequential" ELSE Mode(c)
      <4>1. "week" \in Work(m) => Work(m) = {"week"}
        BY CompactionAssumption, FollowedFacts
        DEF Work, InScope, Types, TableTypes, SchoolTypes, CompactionAssumption
      <4>2. command' = [command EXCEPT ![c].phase = "run", ![c].mode = m,
                                       ![c].waiting = Work(m)]
        BY <3>3 DEF Open
      <4> HIDE DEF m
      <4>3. command'[c].waiting = Work(m)
        BY <4>2 DEF Types, CommandTypes, Order
      <4> QED
        BY <3>1, <4>1, <4>3
    <3>4. CASE OpenAside(c)
      <4>1. PICK s \in Slices :
              command' = [command EXCEPT ![c].phase = "run", ![c].waiting = {s}]
        BY <3>4 DEF OpenAside
      <4>2. command'[c].waiting = {s}
        BY <4>1 DEF Types, CommandTypes, Order
      <4> QED
        BY <3>1, <4>2
    <3>5. CASE Start(c)
      <4>1. PICK m \in Modes, d \in BOOLEAN :
              command' = [command EXCEPT ![c] =
                            [NoCommand EXCEPT !.phase = "open", !.mode = m, !.dry = d]]
        BY <3>5 DEF Start
      <4>2. command'[c].phase = "open"
        BY <4>1 DEF Types, CommandTypes, NoCommand
      <4> QED
        BY <3>2, <4>2
    <3>6. CASE Close(c)
      BY <3>2, <3>6, CloseClears DEF NoCommand
    <3>7. CASE CommandKilled(c) /\ ~Close(c)
      BY <3>2, <3>7 DEF CommandKilled, Types, CommandTypes, Order
    <3> QED
      BY <3>3, <3>4, <3>5, <3>6, <3>7 DEF Decline, Finish, Abort, OrphansEnd
  <2> QED
    BY <1>1, <2>1, <2>2
<1>3. ASSUME NEW r \in Followed, Steady(r)' PROVE Safe(r)'
  <2>1. Steady(r) /\ \A s \in Slices : Here(s, r)' <=> Here(s, r)
    BY <1>1, <1>3 DEF Steady, Here, In, school
  <2>2. \A s \in Slices :
           \/ slice'[c][s] = NoSlice
           \/ slice'[c][s] = slice[c][s] /\ command'[c].mode = command[c].mode
    BY <1>1
  <2> QED
    BY <1>1, <2>1, <2>2, StillSafe DEF Alone, tables
<1> QED
  BY <1>2, <1>3 DEF Sound, Followed

-------------------------------------------------------------------------------
(* The steps of its slices.                                                *)

LEMMA StartSliceSound ==
    ASSUME Alone, Types, Sound, NEW c \in Commands, NEW s \in Slices, StartSlice(c, s)
    PROVE  Sound'
<1>1. PICK p \in Position :
        /\ Moves(c, s, p) /\ Shape(p) /\ p = [NoSlice EXCEPT !.at = FirstPlace(c, s)]
        /\ p.at = FirstPlace(c, s) /\ p.at # "off"
  BY SliceStarts
<1>2. /\ command' = [command EXCEPT ![c].waiting = @ \ {s}] /\ s \in command[c].waiting
      /\ UNCHANGED <<school, raw, stamped, archive>>
  BY DEF StartSlice, tables
<1>3. SameOrders(c, s) /\ s \in Taken(c)
  BY <1>2 DEF SameOrders, Taken, Types, CommandTypes, Order
<1>4. p.at \in {"read", "list", "done"} /\ p.left = {} /\ p.run = {}
  BY <1>1, LeftNothing DEF FirstPlace
<1>5. \A r : Filed(c, s, r, p)
  BY <1>4, NothingFiled
<1> QED
  BY <1>1, <1>2, <1>3, <1>5, QuietSound

(* The steps before the archives, and the ends of a slice.                 *)
LEMMA PlainStepSound ==
    ASSUME Alone, Types, Sound, NEW c \in Commands, NEW s \in Slices,
           \/ ReadWeek(c, s) \/ WriteRollups(c, s) \/ WriteCollides(c, s)
           \/ WorkerDies(c, s)
    PROVE  Sound'
<1>1. PICK p \in Position :
        /\ Moves(c, s, p) /\ Shape(p) /\ p.left = {} /\ p.run = {}
        /\ p.at \in {"write", "list", "done", "failed"}
  <2>1. CASE ReadWeek(c, s)
    BY <2>1, WeekIsRead
  <2>2. CASE WriteRollups(c, s)
    BY <2>2, RollupsAreWritten DEF Shape
  <2>3. CASE WriteCollides(c, s) \/ WorkerDies(c, s)
    <3>1. Leave(c, s, "failed")
      BY <2>3 DEF WriteCollides, WorkerDies
    <3> QED
      BY <3>1, LeaveMoves DEF Places, Shape
  <2> QED
    BY <2>1, <2>2, <2>3
<1>2. At(c, s) # "off" /\ UNCHANGED <<school, tables, archive, command>>
  BY DEF ReadWeek, WriteRollups, WriteCollides, WorkerDies, InFlight
<1>3. SameOrders(c, s) /\ s \in Taken(c)
  BY <1>2, SameOrdersStay, WasTaken
<1>4. \A r : Filed(c, s, r, p)
  BY <1>1, NothingFiled
<1> QED
  BY <1>1, <1>2, <1>3, <1>4, QuietSound DEF tables

LEMMA ListSound ==
    ASSUME Alone, Types, Shared, Sound, NEW c \in Commands, NEW s \in Slices, List(c, s)
    PROVE  Sound'
<1>1. PICK p \in Position :
        /\ Moves(c, s, p) /\ Shape(p) /\ p.run = {} /\ p.left \subseteq InScope(s)
        /\ \/ p.at = "archive" /\ p.left = InScope(s)
           \/ p.at \in {"buckets", "done"} /\ (InScope(s) # {} => Mode(c) = "rebuild")
  BY WeekIsListed
<1>2. /\ At(c, s) = "list" /\ UNCHANGED <<school, tables, archive>>
      /\ UNCHANGED command \/ command' = [command EXCEPT ![c].mark = "aggregated"]
  BY DEF List
<1>3. SameOrders(c, s) /\ s \in Taken(c)
  BY <1>2, WasTaken DEF SameOrders, Types, CommandTypes, Order
<1>4. ASSUME NEW r \in Followed PROVE Filed(c, s, r, p)
  <2>1. r \in InScope(s) <=> Here(s, r)
    BY ScopeHasHere DEF Shared, Fine
  <2> QED
    BY <1>1, <2>1 DEF Filed
<1> QED
  BY <1>1, <1>2, <1>3, <1>4, QuietSound DEF tables

(* q has an archive, and the loop goes on.                                 *)
LEMMA NextRunSound ==
    ASSUME Alone, Types, Sound, NEW c \in Commands, NEW s \in Slices,
           NEW q \in slice[c][s].left, NEW n \in Nat, NextRun(c, s, q, n),
           At(c, s) \in {"archive", "build"}, UNCHANGED <<school, tables, command>>,
           NEW kind \in Archives, archive' = [archive EXCEPT ![q] = kind],
           q \in Followed /\ Steady(q) => kind = "turns"
    PROVE  Sound'
<1>1. PICK p \in Position :
        /\ Moves(c, s, p) /\ Shape(p) /\ p.run = {}
        /\ p.left = slice[c][s].left \ {q} /\ p.at \in {"archive", "buckets", "done"}
        /\ p.at # "archive" => p.left = {}
  BY NextRunMoves
<1>2. SameOrders(c, s) /\ s \in Taken(c)
  BY SameOrdersStay, WasTaken
<1>3. ASSUME NEW r \in Followed, Steady(r) PROVE Advances(c, s, r, p)
  <2>1. archive'[r] = IF r = q THEN "turns" ELSE archive[r]
    BY <1>3, FollowedFacts DEF Types, TableTypes
  <2>2. Kempt(r) /\ Filed(c, s, r, slice[c][s])
    BY <1>3, WasFiled
  <2>3. UNCHANGED <<raw, stamped, teacher, command>>
    BY DEF tables, school
  <2>4. Kempt(r)'
    BY <2>1, <2>2, <2>3 DEF Kempt
  <2>5. Here(s, r)' /\ r \notin p.left => archive'[r] = "turns"
    BY <1>1, <2>1, <2>2, <2>3 DEF Filed, Here, In, At
  <2>6. r \in p.left => Here(s, r)'
    BY <1>1, <2>2, <2>3 DEF Filed, Here, In
  <2>7. Filed(c, s, r, p)'
    BY <1>1, <2>5, <2>6 DEF Filed
  <2> QED
    BY <2>1, <2>3, <2>4, <2>7 DEF Advances
<1>4. p.at # "off"
  BY <1>1
<1> QED
  BY <1>1, <1>2, <1>3, <1>4, SoundMove

LEMMA KeepArchiveSound ==
    ASSUME Alone, Types, Sound, NEW c \in Commands, NEW s \in Slices, NEW q \in Week,
           KeepArchive(c, s, q)
    PROVE  Sound'
<1>1. /\ q \in slice[c][s].left /\ archive[q] \in Archives
      /\ q \in Followed /\ Steady(q) => archive[q] = "turns"
  BY CompactionAssumption, WasFiled
  DEF KeepArchive, Kept, Kempt, Types, TableTypes, CompactionAssumption
<1>2. archive' = [archive EXCEPT ![q] = archive[q]]
  BY DEF KeepArchive, Types, TableTypes
<1> QED
  BY <1>1, <1>2, NextRunSound DEF KeepArchive

LEMMA BuildArchiveSound ==
    ASSUME Alone, Types, Sound, NEW c \in Commands, NEW s \in Slices, NEW q \in Week,
           BuildArchive(c, s, q)
    PROVE  Sound'
<1>1. /\ q \in slice[c][s].left
      /\ q \in Followed /\ Steady(q) => q \in raw
  BY WasFiled DEF BuildArchive, Types, SliceTypes, Shape, Filed
<1>2. PICK kind \in Archives : kind = IF q \in raw THEN "turns" ELSE "empty"
  BY DEF Archives
<1> QED
  BY <1>1, <1>2, NextRunSound DEF BuildArchive

(* A run without an archive to keep has its turns.                         *)
LEMMA MissArchiveSound ==
    ASSUME Alone, Types, Sound, NEW c \in Commands, NEW s \in Slices, NEW q \in Week,
           MissArchive(c, s, q)
    PROVE  Sound'
<1>1. PICK p \in Position :
        /\ Moves(c, s, p) /\ Shape(p)
        /\ p.at = "build" /\ p.left = slice[c][s].left /\ p.run = {q}
  BY ArchiveIsMissed
<1>2. At(c, s) = "archive" /\ ~Kept(q) /\ UNCHANGED <<school, tables, archive, command>>
  BY DEF MissArchive
<1>3. SameOrders(c, s) /\ s \in Taken(c)
  BY <1>2, SameOrdersStay, WasTaken
<1>4. ASSUME NEW r \in Followed, Steady(r) PROVE Filed(c, s, r, p)
  <2>1. r = q => r \in raw
    BY <1>2, <1>4, WasFiled DEF Kept, Alone, Kempt
  <2> QED
    BY <1>1, <1>2, <1>4, <2>1, WasFiled DEF Filed, At
<1> QED
  BY <1>1, <1>2, <1>3, <1>4, QuietSound DEF tables

LEMMA ArchiveFailsSound ==
    ASSUME Alone, Types, Sound, NEW c \in Commands, NEW s \in Slices, NEW q \in Week,
           ArchiveFails(c, s, q)
    PROVE  Sound'
<1>1. PICK p \in Position :
        /\ Moves(c, s, p) /\ Shape(p) /\ p.at = "failed" /\ p.left = {} /\ p.run = {}
  BY LeaveMoves DEF ArchiveFails, Places, Shape
<1>2. /\ At(c, s) = "build" /\ UNCHANGED <<school, tables, command>>
      /\ archive' = [archive EXCEPT ![q] = "bad"] /\ q \in raw /\ q \in slice[c][s].left
  BY DEF ArchiveFails, Types, SliceTypes, Shape
<1>3. SameOrders(c, s) /\ s \in Taken(c)
  BY <1>2, SameOrdersStay, WasTaken
<1>4. ASSUME NEW r \in Followed, Steady(r) PROVE Advances(c, s, r, p)
  <2>1. archive'[r] = IF r = q THEN "bad" ELSE archive[r]
    BY <1>2, FollowedFacts DEF Types, TableTypes
  <2>2. Kempt(r)' /\ (r = q => Here(s, r))
    BY <1>2, <1>4, <2>1, WasFiled DEF Kempt, Filed, tables
  <2>3. Filed(c, s, r, p)'
    BY <1>1, NothingFiled
  <2> QED
    BY <1>2, <2>1, <2>2, <2>3 DEF Advances, tables
<1>5. p.at # "off"
  BY <1>1
<1> QED
  BY <1>1, <1>3, <1>4, <1>5, SoundMove

(* What stands between the archives and the deletion keeps the archives.   *)
LEMMA LateStepSound ==
    ASSUME Alone, Types, Sound, NEW c \in Commands, NEW s \in Slices,
           RebuildBuckets(c, s) \/ Verify(c, s) \/ DeleteTurns(c, s)
    PROVE  Sound'
<1>1. PICK p \in Position :
        /\ Moves(c, s, p) /\ Shape(p) /\ p.left = {} /\ p.run = {}
        /\ p.at \in {"verify", "delete", "stamp", "done", "failed"}
  <2>1. CASE RebuildBuckets(c, s)
    <3>1. PICK p \in Position : Moves(c, s, p) /\ Shape(p) /\ p.at = AfterBuckets(c)
      BY <2>1, LeaveMoves DEF RebuildBuckets, AfterBuckets, Places
    <3>2. p.at \in {"verify", "delete", "done"} /\ p.left = {} /\ p.run = {}
      BY <3>1 DEF AfterBuckets, Shape
    <3> QED
      BY <3>1, <3>2 DEF Moves
  <2>2. CASE Verify(c, s)
    <3>1. PICK where \in {"delete", "failed"} : Leave(c, s, where)
      BY <2>2 DEF Verify
    <3>2. PICK p \in Position : Moves(c, s, p) /\ Shape(p) /\ p.at = where
      BY <3>1, LeaveMoves DEF Places
    <3>3. p.left = {} /\ p.run = {}
      BY <3>1, <3>2 DEF Shape
    <3> QED
      BY <3>1, <3>2, <3>3 DEF Moves
  <2>3. CASE DeleteTurns(c, s)
    BY <2>3, TurnsAreDeleted
  <2> QED
    BY <2>1, <2>2, <2>3
<1>2. /\ At(c, s) \in {"buckets", "verify", "delete"}
      /\ UNCHANGED <<school, tables, archive, command>>
  BY DEF RebuildBuckets, Verify, DeleteTurns
<1>3. SameOrders(c, s) /\ s \in Taken(c)
  BY <1>2, SameOrdersStay, WasTaken
<1>4. ASSUME NEW r \in Followed, Steady(r) PROVE Filed(c, s, r, p)
  BY <1>1, <1>2, <1>4, WasFiled DEF Filed, At
<1>5. p.at # "off"
  BY <1>1
<1> QED
  BY <1>1, <1>2, <1>3, <1>4, <1>5, QuietSound DEF tables

(* The delete and the stamp are of the same steady runs, all archived.     *)
LEMMA StampRunsSound ==
    ASSUME Alone, Types, Shared, Sound, NEW c \in Commands, NEW s \in Slices,
           StampRuns(c, s)
    PROVE  Sound'
<1>1. PICK p \in Position :
        /\ Moves(c, s, p) /\ Shape(p) /\ p.at = "done" /\ p.left = {} /\ p.run = {}
  BY LeaveMoves DEF StampRuns, Places, Shape
<1>2. /\ At(c, s) = "stamp" /\ UNCHANGED <<school, archive, command>>
      /\ raw' = raw \ slice[c][s].runs /\ stamped' = stamped \union InScope(s)
  BY DEF StampRuns
<1>3. SameOrders(c, s) /\ s \in Taken(c)
  BY <1>2, SameOrdersStay, WasTaken
<1>4. ASSUME NEW r \in Followed, Steady(r) PROVE Advances(c, s, r, p)
  <2>1. r \in slice[c][s].runs <=> Here(s, r)
    BY <1>2, <1>4, WasSecured DEF Shared, Secured, At
  <2>2. r \in InScope(s) <=> Here(s, r)
    BY ScopeHasHere DEF Shared, Fine
  <2>3. Mode(c) # "rebuild"
    BY <1>2 DEF Types, Routes, Fits, At, Mode
  <2>4. Here(s, r) => archive[r] = "turns"
    BY <1>2, <1>4, <2>3, WasFiled DEF Filed, At
  <2>5. Kempt(r)'
    BY <1>2, <1>4, <2>1, <2>2, <2>4, WasFiled DEF Kempt
  <2>6. Filed(c, s, r, p)'
    BY <1>1, NothingFiled
  <2> QED
    BY <1>2, <2>1, <2>5, <2>6 DEF Advances
<1>5. p.at # "off"
  BY <1>1
<1> QED
  BY <1>1, <1>3, <1>4, <1>5, SoundMove

LEMMA SoundStep == ASSUME Alone, Types, Shared, Sound, [Next]_vars PROVE Sound'
<1>1. Types'
  BY TypesStep
<1>2. CASE UNCHANGED vars
  BY <1>2 DEF vars, school, tables, Sound, Apart, Taken, At, Safe, Kempt, Filed, Steady, Here, In,
              Mode
<1>3. ASSUME NEW c \in Commands, NEW s \in Slices, SliceStep(c, s) PROVE Sound'
  BY <1>3, StartSliceSound, PlainStepSound, ListSound, KeepArchiveSound, MissArchiveSound,
     BuildArchiveSound, LateStepSound, StampRunsSound
  DEF SliceStep
<1>4. ASSUME NEW c \in Commands, Failure(c) PROVE Sound'
  BY <1>1, <1>4, CommandStepSound, PlainStepSound, ArchiveFailsSound DEF Failure
<1> QED
  BY <1>1, <1>2, <1>3, <1>4, InsertSound, MoveSound, CommandStepSound DEF Next, CommandStep

\* Every stored run of a steady pupil can be replayed at every moment of a
\* compaction, by commands that do not overlap and keep the archives there
\* are, whatever fails, dies, is inserted or moves (replay_archives.py).
THEOREM RunsStayReplayable ==
    ASSUME Alone PROVE Spec => []ReplayAvailable
<1>1. Sound => ReplayAvailable
  BY DEF Sound, Safe, Kempt, Followed, Steady, ReplayAvailable, Replayable
<1> QED
  BY <1>1, FineInit, SoundInit, TypesInit, TypesStep, SharedStep, SoundStep, PTL DEF Spec

\* Turns are deleted only of runs that are counted, drawn and archived with
\* their turns, also where archives may fail to verify, and by pool workers,
\* which do not verify the week (compact_weekly_runs.py).
THEOREM DeletionsAreSafe ==
    ASSUME Alone PROVE Spec => DeletedIsSafe
<1>1. ASSUME Types, Shared, Sound, [Next]_vars
      PROVE  [\A r \in raw \ raw' :
                Steady(r) => /\ r \in runRollup /\ r \in turnRollup /\ r \in trend
                             /\ archive[r] = "turns"]_vars
  <2> SUFFICES ASSUME NEW r \in raw \ raw', Steady(r)
               PROVE  r \in runRollup /\ r \in turnRollup /\ r \in trend /\ archive[r] = "turns"
    OBVIOUS
  <2>1. PICK c \in Commands, s \in Slices : StampRuns(c, s)
    BY <1>1, DeletedBySlices
  <2>2. /\ r \in Followed /\ Here(s, r) /\ At(c, s) = "stamp" /\ Mode(c) # "rebuild"
        /\ r \in runRollup /\ r \in turnRollup /\ r \in trend
    BY <1>1, <2>1, DeletedIsCounted
  <2>3. archive[r] = "turns"
    BY <1>1, <2>2, WasFiled DEF Filed, At
  <2> QED
    BY <2>2, <2>3
<1> QED
  BY <1>1, FineInit, SoundInit, TypesInit, TypesStep, SharedStep, SoundStep, PTL
  DEF Spec, DeletedIsSafe
=============================================================================
