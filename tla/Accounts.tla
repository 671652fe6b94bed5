------------------------------- MODULE Accounts -------------------------------
(***************************************************************************)
(* Schools, teachers, their Django accounts, classrooms and pupils: public *)
(* registration, the superuser's review, the admin panel and the teachers' *)
(* own operations.                                                         *)
(*                                                                         *)
(* The registration and review views run without a transaction: each of    *)
(* their writes is a step, between them other requests run, and a request  *)
(* may die.  A view's model instance is a copy that Model.save() writes    *)
(* back whole.  So are a teacher's edits of pupils and classrooms, in the  *)
(* API and in the panel: rows are loaded and checked, and later written,   *)
(* while nothing locks them.  The superuser's pages in the Django admin    *)
(* run in a transaction and are one step.  One superuser works, one        *)
(* request at a time; any number of teachers register and work meanwhile,  *)
(* each on one edit at a time.                                             *)
(*                                                                         *)
(* Requests that are refused and change nothing are stuttering steps.      *)
(***************************************************************************)
EXTENDS Naturals, FiniteSets

CONSTANTS
    Schools, Teachers, Rooms, Pupils,
    IdentityOf,    \* [Schools -> address, school email and director]
    Usernames,
    UsernameOf,    \* [Teachers -> Usernames], what precedes the @ of the email
    NameOf,        \* [Pupils -> full name]
    NoLogin, NoRoom,
    MaxEvents,     \* bound on the pages the superuser saves and the requests that die
    MaxRequests    \* bound on the requests in progress, an edit counted twice

ASSUME AccountsAssumption ==
    /\ IsFiniteSet(Schools) /\ IsFiniteSet(Teachers)
    /\ UsernameOf \in [Teachers -> Usernames]
    /\ NoLogin \notin Usernames \X Nat
    /\ NoRoom \notin Rooms \union [teacher : Teachers, school : Schools]
    /\ MaxEvents \in Nat /\ MaxRequests \in Nat

VARIABLES
    school,     \* School.status; "none": no row
    teacher,    \* Teacher.status
    works,      \* TeacherSchoolAssignment
    login,      \* Teacher.user
    accounts,   \* auth users of teachers
    valid,      \* school registrations that are validated and not yet stored
    signup,     \* per teacher: where the registration request is
    review,     \* the superuser's request
    room,       \* Classroom rows
    pupil,      \* Student rows, their classroom
    edit,       \* per teacher: what an edit has loaded and not yet written
    overruled,  \* history: teachers whose loaded rows the superuser changed
    events,
    overtaken   \* history: teachers whose registration wrote under a review

people == <<school, teacher, works, login, accounts>>
class  == <<room, pupil, edit, overruled>>
history == <<events, overtaken>>
vars   == <<people, valid, signup, review, class, history>>

Statuses == {"PENDING", "APPROVED", "REJECTED"}
Active   == {"PENDING", "APPROVED"}

(* A username, or one with a number behind it.                             *)
AccountIds == Usernames \X (0 .. MaxEvents)
Account    == [active : BOOLEAN, staff : BOOLEAN, group : BOOLEAN]

NoEdit   == [does |-> "nothing", pupils |-> {}, rooms |-> {}, schools |-> {}]
NoSignup == [stage |-> "idle", todo |-> {}]
NoReview == [stage |-> "idle", school |-> {}, who |-> {}, todo |-> {},
             copy |-> [t \in {} |-> NoLogin]]

(* Types, and the foreign keys of pupils and classrooms.                   *)
TypeOK ==
    /\ school \in [Schools -> Statuses \union {"none"}]
    /\ teacher \in [Teachers -> Statuses \union {"none"}]
    /\ works \in [Teachers -> SUBSET Schools]
    /\ login \in [Teachers -> AccountIds \union {NoLogin}]
    /\ DOMAIN accounts \subseteq AccountIds
    /\ \A a \in DOMAIN accounts : accounts[a] \in Account
    /\ valid \subseteq Schools
    /\ signup \in [Teachers -> [stage : {"idle", "assign", "account", "group", "link"},
                                todo : SUBSET Schools]]
    /\ review.stage \in {"idle", "cascade", "mark", "disable", "reject",
                         "approve", "group", "link"}
    /\ review.school \subseteq Schools
    /\ review.who \union review.todo \subseteq Teachers
    /\ \A t \in DOMAIN review.copy : review.copy[t] \in AccountIds \union {NoLogin}
    /\ room \in [Rooms -> [teacher : Teachers, school : Schools] \union {NoRoom}]
    /\ pupil \in [Pupils -> Rooms \union {NoRoom}]
    /\ \A p \in Pupils : pupil[p] # NoRoom => room[pupil[p]] # NoRoom
    /\ \A r \in Rooms : room[r] # NoRoom =>
          teacher[room[r].teacher] # "none" /\ school[room[r].school] # "none"
    /\ edit \in [Teachers -> [does : {"nothing", "add pupil", "save pupil", "delete pupil",
                                      "save room", "delete room"},
                              pupils : SUBSET Pupils, rooms : SUBSET Rooms,
                              schools : SUBSET Schools]]
    /\ events \in 0 .. MaxEvents /\ overtaken \union overruled \subseteq Teachers

Init ==
    /\ school = [s \in Schools |-> "none"]
    /\ teacher = [t \in Teachers |-> "none"]
    /\ works = [t \in Teachers |-> {}]
    /\ login = [t \in Teachers |-> NoLogin]
    /\ accounts = [a \in {} |-> FALSE]
    /\ valid = {}
    /\ signup = [t \in Teachers |-> NoSignup]
    /\ review = NoReview
    /\ room = [r \in Rooms |-> NoRoom]
    /\ pupil = [p \in Pupils |-> NoRoom]
    /\ edit = [t \in Teachers |-> NoEdit]
    /\ events = 0 /\ overtaken = {} /\ overruled = {}

Event == events < MaxEvents /\ events' = events + 1

(* An edit counts twice.                                                   *)
InProgress == (IF review = NoReview THEN 0 ELSE 1) + Cardinality(valid)
              + Cardinality({t \in Teachers : signup[t] # NoSignup})
              + 2 * Cardinality({t \in Teachers : edit[t] # NoEdit})

Begins(n) == InProgress + n <= MaxRequests

-------------------------------------------------------------------------------
(* Registration of schools.                                                *)

ActiveTwins(s) ==
    {x \in Schools \ {s} : IdentityOf[x] = IdentityOf[s] /\ school[x] \in Active}

(* The form refuses a school that is registered ...                        *)
SubmitSchool(s) ==
    /\ Begins(1) /\ school[s] = "none" /\ s \notin valid
    /\ ActiveTwins(s) = {}
    /\ valid' = valid \union {s}
    /\ UNCHANGED <<people, signup, review, class, history>>

\* Mutant: no unique constraint; the form's check is the only one.
StoreUnconstrained(s) ==
    /\ s \in valid
    /\ valid' = valid \ {s}
    /\ school' = [school EXCEPT ![s] = "PENDING"]
    /\ UNCHANGED <<teacher, works, login, accounts, signup, review, class, history>>

(* ... and so does the constraint unique_active_school_identity.           *)
StoreSchool(s) ==
    /\ s \in valid
    /\ valid' = valid \ {s}
    /\ school' = IF ActiveTwins(s) = {} THEN [school EXCEPT ![s] = "PENDING"] ELSE school
    /\ UNCHANGED <<teacher, works, login, accounts, signup, review, class, history>>

-------------------------------------------------------------------------------
(* Registration of teachers.                                               *)

NextSignup(t, stage, todo) == signup' = [signup EXCEPT ![t] = [stage |-> stage, todo |-> todo]]

(* A pending teacher; an email that has a row is refused by its constraint. *)
SubmitTeacher(t, chosen) ==
    /\ Begins(1) /\ teacher[t] = "none" /\ signup[t] = NoSignup
    /\ Cardinality(chosen) \in 1 .. 3
    /\ \A s \in chosen : school[s] \in Active
    /\ teacher' = [teacher EXCEPT ![t] = "PENDING"]
    /\ NextSignup(t, "assign", chosen)
    /\ UNCHANGED <<school, works, login, accounts, valid, review, class, history>>

(* The registration writes while the superuser's request holds a copy of   *)
(* the teacher.                                                            *)
Overtakes(t) ==
    overtaken' = IF t \in DOMAIN review.copy THEN overtaken \union {t} ELSE overtaken

(* Schools are assigned one by one; a row that is gone ends the request.   *)
Assign(t) ==
    /\ signup[t].stage = "assign"
    /\ \E s \in signup[t].todo :
          IF school[s] # "none" /\ teacher[t] # "none"
            THEN /\ works' = [works EXCEPT ![t] = @ \union {s}]
                 /\ NextSignup(t, IF signup[t].todo = {s} THEN "account" ELSE "assign",
                               signup[t].todo \ {s})
            ELSE NextSignup(t, "idle", {}) /\ UNCHANGED works
    /\ Overtakes(t)
    /\ UNCHANGED <<school, teacher, login, accounts, valid, review, class, events>>

Named(t)   == <<UsernameOf[t], 0>>
NewAccount == [active |-> TRUE, staff |-> TRUE, group |-> FALSE]

With(a, record) ==
    [b \in DOMAIN accounts \union {a} |-> IF b = a THEN record ELSE accounts[b]]

\* Mutant: an account that has the name is taken.
TakeAccount(t) ==
    /\ signup[t].stage = "account"
    /\ NextSignup(t, "group", {})
    /\ accounts' = With(Named(t), NewAccount)
    /\ UNCHANGED <<school, teacher, works, login, valid, review, class, history>>

(* create_user fails, and the request ends, when the username is taken.    *)
CreateAccount(t) ==
    /\ signup[t].stage = "account"
    /\ IF Named(t) \in DOMAIN accounts
         THEN NextSignup(t, "idle", {}) /\ UNCHANGED accounts
         ELSE NextSignup(t, "group", {}) /\ accounts' = With(Named(t), NewAccount)
    /\ UNCHANGED <<school, teacher, works, login, valid, review, class, history>>

Set(a, field, value) ==
    IF a \in DOMAIN accounts
      THEN With(a, [accounts[a] EXCEPT ![field] = value])
      ELSE accounts

JoinGroup(t) ==
    /\ signup[t].stage = "group"
    /\ accounts' = Set(Named(t), "group", TRUE)
    /\ NextSignup(t, "link", {})
    /\ UNCHANGED <<school, teacher, works, login, valid, review, class, history>>

(* teacher.save() writes every field of an instance that says PENDING, and *)
(* inserts the row again if it is gone.                                    *)
LinkAccount(t) ==
    /\ signup[t].stage = "link"
    /\ teacher' = [teacher EXCEPT ![t] = "PENDING"]
    /\ login' = [login EXCEPT ![t] = Named(t)]
    /\ NextSignup(t, "idle", {})
    /\ Overtakes(t)
    /\ UNCHANGED <<school, works, accounts, valid, review, class, events>>

(* The request dies.                                                       *)
SignupDies(t) ==
    /\ signup[t] # NoSignup /\ Event
    /\ NextSignup(t, "idle", {})
    /\ UNCHANGED <<people, valid, review, class, overtaken>>

-------------------------------------------------------------------------------
(* The superuser's review.                                                 *)

ApproveSchool(s) ==
    /\ review = NoReview /\ school[s] = "PENDING"
    /\ school' = [school EXCEPT ![s] = "APPROVED"]
    /\ UNCHANGED <<teacher, works, login, accounts, valid, signup, review, class, history>>

At(s) == {t \in Teachers : s \in works[t]}

(* reject_school: School.save() stores the status and loads the teachers.  *)
RejectSchool(s) ==
    /\ Begins(1) /\ review = NoReview /\ school[s] = "PENDING"
    /\ school' = [school EXCEPT ![s] = "REJECTED"]
    /\ review' = [stage |-> "cascade", school |-> {s}, who |-> {}, todo |-> At(s),
                  copy |-> [t \in At(s) |-> login[t]]]
    /\ UNCHANGED <<teacher, works, login, accounts, valid, signup, class, history>>

\* Mutant: every teacher of the school counts as its own.
OnlySchoolAlways(t) == TRUE

(* teacher.schools.count() == 1                                            *)
OnlySchool(t) == Cardinality(works[t]) = 1

(* The teachers of a rejected school, one by one: who has another school   *)
(* is left alone, else the account of the copy is disabled ...             *)
Cascade(t) ==
    /\ review.stage = "cascade" /\ t \in review.todo
    /\ IF OnlySchool(t)
         THEN /\ accounts' = Set(review.copy[t], "active", FALSE)
              /\ review' = [review EXCEPT !.stage = "mark", !.who = {t}, !.todo = @ \ {t}]
         ELSE /\ review' = [review EXCEPT !.todo = @ \ {t}]
              /\ UNCHANGED accounts
    /\ UNCHANGED <<school, teacher, works, login, valid, signup, class, history>>

(* ... and an UPDATE sets the status.                                      *)
CascadeMarks(t) ==
    /\ review.stage = "mark" /\ review.who = {t}
    /\ teacher' = [teacher EXCEPT ![t] = "REJECTED"]
    /\ review' = [review EXCEPT !.stage = "cascade", !.who = {}]
    /\ UNCHANGED <<school, works, login, accounts, valid, signup, class, history>>

CascadeEnds ==
    /\ review.stage = "cascade" /\ review.todo = {}
    /\ review' = NoReview
    /\ UNCHANGED <<people, valid, signup, class, history>>

NextReview(stage) == review' = [review EXCEPT !.stage = stage]

(* approve_teacher and reject_teacher load a pending teacher.              *)
LoadTeacher(t, stage) ==
    /\ Begins(1) /\ review = NoReview /\ teacher[t] = "PENDING"
    /\ review' = [NoReview EXCEPT !.stage = stage, !.who = {t},
                                  !.copy = [x \in {t} |-> login[t]]]
    /\ UNCHANGED <<people, valid, signup, class, history>>

(* Teacher.save() on the way to REJECTED: the account first ...            *)
DisableTeacher(t) ==
    /\ review.stage = "disable" /\ review.who = {t}
    /\ accounts' = Set(review.copy[t], "active", FALSE)
    /\ NextReview("reject")
    /\ UNCHANGED <<school, teacher, works, login, valid, signup, class, history>>

(* ... then the whole row, its account as the copy has it.                 *)
StoreTeacher(t, status, account) ==
    /\ teacher' = [teacher EXCEPT ![t] = status]
    /\ login' = [login EXCEPT ![t] = account]
    /\ review' = NoReview
    /\ UNCHANGED <<school, works, accounts, valid, signup, class, history>>

RejectTeacher(t) ==
    /\ review.stage = "reject" /\ review.who = {t}
    /\ StoreTeacher(t, "REJECTED", review.copy[t])

(* approve_teacher with an account only stores; without one it creates it, *)
(* which fails like in a registration.                                     *)
ApproveTeacher(t) ==
    /\ review.stage = "approve" /\ review.who = {t} /\ review.copy[t] # NoLogin
    /\ StoreTeacher(t, "APPROVED", review.copy[t])

ApproveCreates(t) ==
    /\ review.stage = "approve" /\ review.who = {t} /\ review.copy[t] = NoLogin
    /\ IF Named(t) \in DOMAIN accounts
         THEN review' = NoReview /\ UNCHANGED accounts
         ELSE NextReview("group") /\ accounts' = With(Named(t), NewAccount)
    /\ UNCHANGED <<school, teacher, works, login, valid, signup, class, history>>

ApproveJoins(t) ==
    /\ review.stage = "group" /\ review.who = {t}
    /\ accounts' = Set(Named(t), "group", TRUE)
    /\ NextReview("link")
    /\ UNCHANGED <<school, teacher, works, login, valid, signup, class, history>>

ApproveLinks(t) ==
    /\ review.stage = "link" /\ review.who = {t}
    /\ StoreTeacher(t, "APPROVED", Named(t))

ReviewDies ==
    /\ review # NoReview /\ Event
    /\ review' = NoReview
    /\ UNCHANGED <<people, valid, signup, class, overtaken>>

-------------------------------------------------------------------------------
(* The superuser in the admin panel, a transaction per page.               *)

Page ==
    /\ Event
    /\ UNCHANGED <<valid, signup, review, overtaken>>

Panel == review = NoReview /\ Page

Disabled(set) ==
    [a \in DOMAIN accounts |->
        IF a \in {login[t] : t \in set} THEN [accounts[a] EXCEPT !.active = FALSE]
                                        ELSE accounts[a]]

(* A school's status; on the way to REJECTED School.save() cascades.       *)
SetSchool(s, status) ==
    /\ Panel
    /\ school[s] \notin {"none", status}
    /\ status \in Active => ActiveTwins(s) = {}
    /\ school' = [school EXCEPT ![s] = status]
    /\ LET gone == IF status = "REJECTED" THEN {t \in At(s) : OnlySchool(t)} ELSE {}
       IN  /\ teacher' = [t \in Teachers |-> IF t \in gone THEN "REJECTED" ELSE teacher[t]]
           /\ accounts' = Disabled(gone)
    /\ UNCHANGED <<works, login, class>>

\* Mutant: Teacher.save() without its side effects.
SetTeacherBare(t, status) ==
    /\ Panel
    /\ teacher[t] \notin {"none", status}
    /\ teacher' = [teacher EXCEPT ![t] = status]
    /\ UNCHANGED <<school, works, login, accounts, class>>

(* The first free of the username and its numbered variants.               *)
FreeName(t, a) ==
    /\ a[1] = UsernameOf[t] /\ a \notin DOMAIN accounts
    /\ \A i \in 0 .. a[2] - 1 : <<a[1], i>> \in DOMAIN accounts

(* A teacher's status.  Rejection disables the account; approval after it  *)
(* enables the account, or creates one: not staff and in no group.         *)
SetTeacher(t, status) ==
    /\ Panel
    /\ teacher[t] \notin {"none", status}
    /\ teacher' = [teacher EXCEPT ![t] = status]
    /\ \/ /\ status = "REJECTED"
          /\ accounts' = Disabled({t}) /\ UNCHANGED login
       \/ /\ teacher[t] = "REJECTED" /\ status = "APPROVED" /\ login[t] # NoLogin
          /\ accounts' = Set(login[t], "active", TRUE) /\ UNCHANGED login
       \/ /\ teacher[t] = "REJECTED" /\ status = "APPROVED" /\ login[t] = NoLogin
          /\ \E a \in AccountIds :
                /\ FreeName(t, a)
                /\ accounts' = With(a, [active |-> TRUE, staff |-> FALSE, group |-> FALSE])
                /\ login' = [login EXCEPT ![t] = a]
       \/ /\ {teacher[t], status} \in {{"PENDING", "APPROVED"}, {"REJECTED", "PENDING"}}
          /\ status # "REJECTED"
          /\ UNCHANGED <<login, accounts>>
    /\ UNCHANGED <<school, works, class>>

(* The inline form of a teacher's schools.                                 *)
SetSchools(t, chosen) ==
    /\ Panel
    /\ teacher[t] # "none" /\ chosen # works[t] /\ Cardinality(chosen) <= 3
    /\ \A s \in chosen : school[s] # "none"
    /\ works' = [works EXCEPT ![t] = chosen]
    /\ UNCHANGED <<school, teacher, login, accounts, class>>

\* Mutant: the pupils of a deleted classroom stay.
DropRoomsOnly(gone) ==
    /\ room' = [r \in Rooms |-> IF r \in gone THEN NoRoom ELSE room[r]]
    /\ UNCHANGED pupil

(* Deletions cascade to assignments, classrooms and pupils; the account of *)
(* a deleted teacher stays.                                                *)
DropRooms(gone) ==
    /\ room' = [r \in Rooms |-> IF r \in gone THEN NoRoom ELSE room[r]]
    /\ pupil' = [p \in Pupils |-> IF pupil[p] \in gone THEN NoRoom ELSE pupil[p]]

Taken == {r \in Rooms : room[r] # NoRoom}

(* A row that an edit has loaded is no longer what the edit found.         *)
Withdrawn(t) ==
    \/ \E r \in edit[t].rooms : room'[r] # room[r]
    \/ \E p \in edit[t].pupils :
          \/ pupil'[p] # pupil[p]
          \/ pupil[p] # NoRoom /\ room'[pupil[p]] # room[pupil[p]]

Overrule ==
    /\ overruled' = overruled \union {t \in Teachers : Withdrawn(t)}
    /\ UNCHANGED edit

DeleteTeacher(t) ==
    /\ Panel
    /\ teacher[t] # "none"
    /\ teacher' = [teacher EXCEPT ![t] = "none"]
    /\ works' = [works EXCEPT ![t] = {}]
    /\ login' = [login EXCEPT ![t] = NoLogin]
    /\ DropRooms({r \in Taken : room[r].teacher = t})
    /\ Overrule
    /\ UNCHANGED <<school, accounts>>

DeleteSchool(s) ==
    /\ Panel
    /\ school[s] # "none"
    /\ school' = [school EXCEPT ![s] = "none"]
    /\ works' = [t \in Teachers |-> works[t] \ {s}]
    /\ DropRooms({r \in Taken : room[r].school = s})
    /\ Overrule
    /\ UNCHANGED <<teacher, login, accounts>>

(* clear_school_data, run while no request is in progress: accounts that   *)
(* are linked to no teacher survive.                                       *)
ClearData ==
    /\ Panel /\ \A t \in Teachers : signup[t] = NoSignup /\ edit[t] = NoEdit
    /\ school' = [s \in Schools |-> "none"]
    /\ teacher' = [t \in Teachers |-> "none"]
    /\ works' = [t \in Teachers |-> {}]
    /\ login' = [t \in Teachers |-> NoLogin]
    /\ accounts' = [a \in DOMAIN accounts \ {login[t] : t \in Teachers} |-> accounts[a]]
    /\ DropRooms(Rooms)
    /\ Overrule

-------------------------------------------------------------------------------
(* Classrooms and pupils.                                                  *)

(* Classroom.clean(): the teacher is assigned to the school.               *)
Valid(t, s) == s \in works[t]

(* unique_together of full_name and classroom.                             *)
NameFree(p, r) == \A q \in Pupils \ {p} : pupil[q] = r => NameOf[q] # NameOf[p]

(* Ids of rows are never used again: not while an edit holds one.          *)
NewPupil(p) == pupil[p] = NoRoom /\ \A t \in Teachers : p \notin edit[t].pupils
NewRoom(r)  == room[r] = NoRoom /\ \A t \in Teachers : r \notin edit[t].rooms

(* bulk_students: names that the classroom has are skipped.                *)
Enrolled(r, names) ==
    pupil' = [p \in Pupils |-> IF p \in names /\ NewPupil(p) /\ NameFree(p, r) THEN r ELSE pupil[p]]

(* The names of one text, each once.                                       *)
BulkTexts == {b \in SUBSET Pupils : \A p, q \in b : NameOf[p] = NameOf[q] => p = q}

(* The superuser may give a classroom to any approved teacher.             *)
AdminSavesRoom(r, t, s, bulk) ==
    /\ Panel
    /\ teacher[t] = "APPROVED" /\ school[s] \in Active /\ Valid(t, s)
    /\ r \in Taken \/ NewRoom(r)
    /\ room' = [room EXCEPT ![r] = [teacher |-> t, school |-> s]]
    /\ Enrolled(r, bulk)
    /\ Overrule
    /\ UNCHANGED people

AdminSavesPupil(p, r) ==
    /\ Panel
    /\ r \in Taken /\ NameFree(p, r)
    /\ pupil[p] # NoRoom \/ NewPupil(p)
    /\ pupil' = [pupil EXCEPT ![p] = r]
    /\ UNCHANGED <<people, room>>
    /\ Overrule

AdminDeletesRoom(r) ==
    /\ Panel
    /\ r \in Taken
    /\ DropRooms({r})
    /\ Overrule
    /\ UNCHANGED people

AdminDeletesPupil(p) ==
    /\ Panel
    /\ pupil[p] # NoRoom
    /\ pupil' = [pupil EXCEPT ![p] = NoRoom]
    /\ UNCHANGED <<people, room>>
    /\ Overrule

Has(t, field) == login[t] # NoLogin /\ accounts[login[t]][field]

(* Who gets into the admin panel, and who the API lets in (IsTeacher).     *)
InPanel(t) == Has(t, "active") /\ Has(t, "staff")
InApi(t)   == Has(t, "active") /\ Has(t, "group") /\ teacher[t] \in Active

Own(t) == {r \in Taken : room[r].teacher = t}

AsTeacher == UNCHANGED <<people, valid, signup, review, history>>

(* A new classroom in one of the teacher's schools, with pupils.           *)
AddRoom(t, r, s, bulk) ==
    /\ AsTeacher /\ InPanel(t)
    /\ NewRoom(r) /\ school[s] # "REJECTED" /\ Valid(t, s)
    /\ room' = [room EXCEPT ![r] = [teacher |-> t, school |-> s]]
    /\ Enrolled(r, bulk)
    /\ UNCHANGED <<edit, overruled>>

(* Everything else loads rows of the teacher's own and checks them ...     *)
Load(t, does, pupils, rooms, schools) ==
    /\ AsTeacher
    /\ edit' = [edit EXCEPT ![t] = [does |-> does, pupils |-> pupils, rooms |-> rooms,
                                    schools |-> schools]]
    /\ UNCHANGED <<room, pupil, overruled>>

(* (the school of a classroom is read-only, but validated)                 *)
LoadRoom(t, r) ==
    /\ InPanel(t) /\ r \in Own(t) /\ Valid(t, room[r].school)
    /\ Load(t, "save room", {}, {r}, {room[r].school})

(* (the panel asks for the permission to delete what goes with it)         *)
LoadRoomToDelete(t, r) ==
    /\ InPanel(t) /\ r \in Own(t)
    /\ Has(t, "group") \/ \A p \in Pupils : pupil[p] # r
    /\ Load(t, "delete room", {}, {r}, {})

(* Student pages of the panel need the group's permissions.                *)
MayEditPupils(t) == InApi(t) \/ (InPanel(t) /\ Has(t, "group"))

LoadRoomOfNew(t, r) ==
    /\ MayEditPupils(t) /\ r \in Own(t)
    /\ Load(t, "add pupil", {}, {r}, {})

\* Mutant: the choice of classrooms is not limited to the teacher's own.
LoadPupilForAnyRoom(t, p, r) ==
    /\ MayEditPupils(t) /\ pupil[p] \in Own(t) /\ r \in Taken
    /\ Load(t, "save pupil", {p}, {r}, {})

(* One of the own pupils, for one of the own classrooms: the same one if   *)
(* the request names none.                                                 *)
LoadPupil(t, p, r) ==
    /\ MayEditPupils(t) /\ pupil[p] \in Own(t) /\ r \in Own(t)
    /\ Load(t, "save pupil", {p}, {r}, {})

LoadPupilToDelete(t, p) ==
    /\ MayEditPupils(t) /\ pupil[p] \in Own(t)
    /\ Load(t, "delete pupil", {p}, {}, {})

(* ... and later writes them, whatever they are by now.  An edit that      *)
(* overrules the superuser in turn may surprise another teacher's.         *)
Write(t, does) ==
    /\ AsTeacher /\ edit[t].does = does
    /\ edit' = [edit EXCEPT ![t] = NoEdit]
    /\ overruled' = (overruled \ {t}) \union
                     {u \in Teachers \ {t} : t \in overruled /\ Withdrawn(u)}

(* The whole row: a classroom that was handed over is the teacher's again, *)
(* one that was deleted is inserted, unless teacher or school are gone.    *)
SaveRoom(t, bulk) ==
    /\ \E r \in edit[t].rooms, s \in edit[t].schools :
          IF teacher[t] # "none" /\ school[s] # "none"
            THEN room' = [room EXCEPT ![r] = [teacher |-> t, school |-> s]] /\ Enrolled(r, bulk)
            ELSE UNCHANGED <<room, pupil>>
    /\ Write(t, "save room")

DeleteRoom(t) ==
    /\ DropRooms(edit[t].rooms)
    /\ Write(t, "delete room")

(* A pupil's row with the classroom it was loaded or validated with; the   *)
(* constraints refuse a classroom that is gone and a name that is taken.   *)
PutPupil(p, r) ==
    pupil' = IF r \in Taken /\ NameFree(p, r) THEN [pupil EXCEPT ![p] = r] ELSE pupil

AddPupil(t, p) ==
    /\ NewPupil(p)
    /\ \E r \in edit[t].rooms : PutPupil(p, r)
    /\ UNCHANGED room
    /\ Write(t, "add pupil")

SavePupil(t) ==
    /\ \E p \in edit[t].pupils, r \in edit[t].rooms : PutPupil(p, r)
    /\ UNCHANGED room
    /\ Write(t, "save pupil")

DeletePupil(t) ==
    /\ \E p \in edit[t].pupils : pupil' = [pupil EXCEPT ![p] = NoRoom]
    /\ UNCHANGED room
    /\ Write(t, "delete pupil")

-------------------------------------------------------------------------------
(* The specification.                                                      *)

Registering ==
    \/ \E s \in Schools : SubmitSchool(s) \/ StoreSchool(s)
    \/ \E t \in Teachers :
          \/ \E chosen \in SUBSET Schools : SubmitTeacher(t, chosen)
          \/ Assign(t) \/ CreateAccount(t) \/ JoinGroup(t) \/ LinkAccount(t)
          \/ SignupDies(t)

Reviewing ==
    \/ \E s \in Schools : ApproveSchool(s) \/ RejectSchool(s)
    \/ \E t \in Teachers :
          \/ Cascade(t) \/ CascadeMarks(t)
          \/ \E stage \in {"disable", "approve"} : LoadTeacher(t, stage)
          \/ DisableTeacher(t) \/ RejectTeacher(t)
          \/ ApproveTeacher(t) \/ ApproveCreates(t) \/ ApproveJoins(t) \/ ApproveLinks(t)
    \/ CascadeEnds \/ ReviewDies

Administering ==
    \/ \E s \in Schools :
          DeleteSchool(s) \/ \E status \in Statuses : SetSchool(s, status)
    \/ \E t \in Teachers :
          \/ DeleteTeacher(t)
          \/ \E status \in Statuses : SetTeacher(t, status)
          \/ \E chosen \in SUBSET Schools : SetSchools(t, chosen)
          \/ \E r \in Rooms, s \in Schools, bulk \in BulkTexts : AdminSavesRoom(r, t, s, bulk)
    \/ \E p \in Pupils, r \in Rooms : AdminSavesPupil(p, r)
    \/ \E r \in Rooms : AdminDeletesRoom(r)
    \/ \E p \in Pupils : AdminDeletesPupil(p)
    \/ ClearData

TeacherLoads(t) ==
    /\ edit[t] = NoEdit /\ Begins(2)
    /\ \/ \E r \in Rooms :
             \/ LoadRoom(t, r) \/ LoadRoomToDelete(t, r) \/ LoadRoomOfNew(t, r)
             \/ \E p \in Pupils : LoadPupil(t, p, r)
       \/ \E p \in Pupils : LoadPupilToDelete(t, p)

TeacherWrites(t) ==
    \/ \E r \in Rooms, s \in Schools, bulk \in BulkTexts : AddRoom(t, r, s, bulk)
    \/ \E bulk \in BulkTexts : SaveRoom(t, bulk)
    \/ \E p \in Pupils : AddPupil(t, p)
    \/ DeleteRoom(t) \/ SavePupil(t) \/ DeletePupil(t)

TeacherStep(t) == TeacherLoads(t) \/ TeacherWrites(t)

Teaching == \E t \in Teachers : TeacherStep(t)

Next == Registering \/ Reviewing \/ Administering \/ Teaching

Spec == Init /\ [][Next]_vars

-------------------------------------------------------------------------------
(* Properties.                                                             *)

(* A rejected teacher cannot log in: whichever of the views and pages      *)
(* rejected the teacher, and wherever a request died, unless the teacher's *)
(* registration wrote while the rejection held a copy of the row           *)
(* ("REJECTED: disables user login", models.py).                           *)
RejectedIsLockedOut ==
    \A t \in Teachers \ overtaken : teacher[t] = "REJECTED" => ~Has(t, "active")

(* An account opens one teacher's data, though the username is only the    *)
(* front of the email and review and registration both create accounts.    *)
OneTeacherPerAccount ==
    \A t, u \in Teachers : login[t] # NoLogin /\ login[t] = login[u] => t = u

(* However registrations and status changes interleave, of the schools     *)
(* with one identity at most one is pending or approved.                   *)
OneActiveSchoolPerIdentity ==
    \A s, x \in Schools :
        /\ s # x /\ IdentityOf[s] = IdentityOf[x]
        /\ school[s] \in Active
        => school[x] \notin Active

(* When reject_school ends, the teachers it found who have only that       *)
(* school are rejected, and whom it marks has no other school; registra-   *)
(* tions that overtake the cascade are excepted.                           *)
CascadeReachesItsTeachers ==
    [][/\ CascadeEnds =>
             \A t \in DOMAIN review.copy :
                 works[t] = review.school /\ t \notin overtaken => teacher[t] = "REJECTED"
       /\ \A t \in Teachers :
             CascadeMarks(t) /\ t \notin overtaken => works[t] = review.school]_vars

(* Pupils who leave or enter a classroom that is not, and does not become, *)
(* the teacher's own, and other people's classrooms.                       *)
DisturbsOthers(t) ==
    \/ \E p \in Pupils :
          /\ pupil'[p] # pupil[p]
          /\ \E r \in {pupil[p], pupil'[p]} \ {NoRoom} : room[r] # NoRoom /\ r \notin Own(t)
    \/ \E r \in Taken \ Own(t) : room'[r] # room[r]

(* What a teacher does moves only pupils between the teacher's own rooms,  *)
(* or in and out of them, and keeps others' classrooms, whoever else works *)
(* at the same time, unless the superuser changed the rows the edit had    *)
(* loaded, or an edit that had lost its rows so changed them in turn.      *)
OwnPupilsOnly ==
    [][\A t \in Teachers : DisturbsOthers(t) /\ TeacherStep(t) => t \in overruled]_vars

(* "Approved teachers are added to the Teachers auth group and given       *)
(* scoped Django-admin access" (docs/architecture.md): an approved teacher *)
(* who has an account can use the panel and the API.                       *)
ApprovedHaveAccess ==
    \A t \in Teachers :
        teacher[t] = "APPROVED" /\ login[t] # NoLogin => InPanel(t) /\ InApi(t)
===============================================================================
