---------------------------- MODULE AccountsProofs ----------------------------
(***************************************************************************)
(* Theorems of Accounts, for any schools, teachers, classrooms and pupils, *)
(* any number of requests that die and pages that are saved.               *)
(***************************************************************************)
EXTENDS Accounts, FiniteSetTheorems, TLAPS

Logins == AccountIds \union {NoLogin}

Signups == [stage : {"idle", "assign", "account", "group", "link"}, todo : SUBSET Schools]

(* A request of the superuser is about teachers it has loaded.             *)
Reviews ==
    {r \in [stage : {"idle", "cascade", "mark", "disable", "reject", "approve", "group", "link"},
            school : SUBSET Schools, who : SUBSET Teachers, todo : SUBSET Teachers,
            copy : UNION {[T -> Logins] : T \in SUBSET Teachers}] :
        r.who \union r.todo \subseteq DOMAIN r.copy}

PeopleTypes ==
    /\ school \in [Schools -> Statuses \union {"none"}]
    /\ teacher \in [Teachers -> Statuses \union {"none"}]
    /\ works \in [Teachers -> SUBSET Schools]
    /\ login \in [Teachers -> Logins]

AccountTypes ==
    /\ DOMAIN accounts \subseteq AccountIds
    /\ \A a \in DOMAIN accounts : accounts[a] \in Account

RequestTypes ==
    /\ valid \subseteq Schools
    /\ signup \in [Teachers -> Signups]
    /\ review \in Reviews
    /\ events \in 0 .. MaxEvents /\ overtaken \subseteq Teachers

ClassTypes ==
    /\ room \in [Rooms -> [teacher : Teachers, school : Schools] \union {NoRoom}]
    /\ pupil \in [Pupils -> Rooms \union {NoRoom}]

EditTypes ==
    /\ edit \in [Teachers -> [does : {"nothing", "add pupil", "save pupil", "delete pupil",
                                      "save room", "delete room"},
                              pupils : SUBSET Pupils, rooms : SUBSET Rooms,
                              schools : SUBSET Schools]]
    /\ overruled \subseteq Teachers

(* Foreign keys: what is assigned, linked or taught refers to rows.        *)
References ==
    /\ \A t \in Teachers, s \in Schools :
          s \in works[t] => school[s] # "none" /\ teacher[t] # "none"
    /\ \A t \in Teachers : login[t] # NoLogin => teacher[t] # "none"

ClassReferences ==
    /\ \A p \in Pupils : pupil[p] # NoRoom => room[pupil[p]] # NoRoom
    /\ \A r \in Rooms : room[r] # NoRoom =>
          teacher[room[r].teacher] # "none" /\ school[room[r].school] # "none"

Types == PeopleTypes /\ AccountTypes /\ RequestTypes

Rows == Types /\ References /\ ClassTypes /\ ClassReferences /\ EditTypes

-------------------------------------------------------------------------------
(* Types and foreign keys.                                                 *)

LEMMA NoLoginIsNoAccount == NoLogin \notin AccountIds
BY AccountsAssumption DEF AccountsAssumption, AccountIds

LEMMA NamedIsAnAccount == ASSUME NEW t \in Teachers PROVE Named(t) \in AccountIds
BY AccountsAssumption DEF AccountsAssumption, AccountIds, Named

LEMMA RowsInit == Init => Rows
<1> SUFFICES ASSUME Init PROVE Rows
  OBVIOUS
<1> USE AccountsAssumption DEF Init
<1>1. PeopleTypes
  BY DEF PeopleTypes, Statuses, Logins
<1>2. AccountTypes
  BY DEF AccountTypes
<1>3. review \in Reviews
  <2>1. [t \in {} |-> NoLogin] \in [{} -> Logins]
    BY DEF Logins
  <2> QED
    BY <2>1 DEF Reviews, NoReview
<1>4. RequestTypes
  BY <1>3 DEF RequestTypes, Signups, NoSignup, AccountsAssumption
<1> QED
  BY <1>1, <1>2, <1>4
  DEF Rows, Types, References, ClassTypes, ClassReferences, EditTypes, NoEdit

LEMMA WithTypes ==
    ASSUME AccountTypes, NEW a \in AccountIds, NEW record \in Account,
           accounts' = With(a, record)
    PROVE  AccountTypes' /\ DOMAIN accounts' = DOMAIN accounts \union {a}
BY DEF AccountTypes, With

LEMMA SetTypes ==
    ASSUME AccountTypes, NEW a, NEW field \in {"active", "staff", "group"},
           NEW value \in BOOLEAN, accounts' = Set(a, field, value)
    PROVE  AccountTypes' /\ DOMAIN accounts' = DOMAIN accounts
<1>1. CASE a \in DOMAIN accounts
  <2>1. [accounts[a] EXCEPT ![field] = value] \in Account
    BY <1>1 DEF AccountTypes, Account
  <2> QED
    BY <1>1, <2>1 DEF AccountTypes, Set, With
<1>2. CASE a \notin DOMAIN accounts
  BY <1>2 DEF AccountTypes, Set
<1> QED
  BY <1>1, <1>2

LEMMA DisabledTypes ==
    ASSUME AccountTypes, NEW S, accounts' = Disabled(S)
    PROVE  AccountTypes' /\ DOMAIN accounts' = DOMAIN accounts
<1>1. ASSUME NEW a \in DOMAIN accounts
      PROVE  [accounts[a] EXCEPT !.active = FALSE] \in Account
  BY DEF AccountTypes, Account
<1> QED
  BY <1>1 DEF AccountTypes, Disabled

(* What the admin panel and the teachers' pages leave alone.               *)
LEMMA PageLeaves ==
    ASSUME Rows, Page
    PROVE  RequestTypes'
BY AccountsAssumption DEF Rows, Types, Page, Event, RequestTypes, AccountsAssumption

(* A class page, of a teacher or of the superuser, on the classrooms.      *)
LEMMA RoomsDropped ==
    ASSUME Rows, NEW gone \in SUBSET Rooms, DropRooms(gone)
    PROVE  /\ ClassTypes'
           /\ \A p \in Pupils : pupil'[p] # NoRoom => room'[pupil'[p]] # NoRoom
           /\ \A r \in Rooms : room'[r] # NoRoom => r \notin gone /\ room'[r] = room[r]
<1>1. ClassTypes'
  BY DEF Rows, ClassTypes, DropRooms
<1>2. \A r \in Rooms : room'[r] # NoRoom => r \notin gone /\ room'[r] = room[r]
  BY DEF DropRooms
<1>3. ASSUME NEW p \in Pupils, pupil'[p] # NoRoom PROVE room'[pupil'[p]] # NoRoom
  BY <1>3 DEF Rows, ClassTypes, ClassReferences, DropRooms
<1> QED
  BY <1>1, <1>2, <1>3

LEMMA ClassStep ==
    ASSUME Rows, UNCHANGED people, RequestTypes', ClassTypes', EditTypes',
           \A p \in Pupils : pupil'[p] # NoRoom => room'[pupil'[p]] # NoRoom,
           \A r \in Rooms : room'[r] # NoRoom =>
              teacher[room'[r].teacher] # "none" /\ school[room'[r].school] # "none"
    PROVE  Rows'
BY DEF Rows, Types, PeopleTypes, AccountTypes, References, ClassReferences, people

LEMMA EnrolledTypes ==
    ASSUME Rows, NEW r \in Rooms, NEW names, Enrolled(r, names)
    PROVE  /\ pupil' \in [Pupils -> Rooms \union {NoRoom}]
           /\ \A p \in Pupils : pupil'[p] = r \/ pupil'[p] = pupil[p]
BY DEF Rows, ClassTypes, Enrolled

LEMMA RegisteringRows == ASSUME Rows, Registering PROVE Rows'
<1> USE DEF Rows, Types, References, ClassReferences, Signups, Statuses
<1> DEFINE Others == Types /\ References /\ ClassTypes /\ ClassReferences
<1>1. ASSUME NEW s \in Schools, SubmitSchool(s) PROVE Others'
  BY <1>1 DEF SubmitSchool, PeopleTypes, AccountTypes, RequestTypes, ClassTypes,
              people, class, history
<1>2. ASSUME NEW s \in Schools, StoreSchool(s) PROVE Others'
  BY <1>2 DEF StoreSchool, PeopleTypes, AccountTypes, RequestTypes, ClassTypes, class, history
<1>3. ASSUME NEW t \in Teachers, NEW chosen \in SUBSET Schools, SubmitTeacher(t, chosen)
      PROVE  Others'
  BY <1>3 DEF SubmitTeacher, NextSignup, PeopleTypes, AccountTypes, RequestTypes, ClassTypes,
              class, history
<1>4. ASSUME NEW t \in Teachers, Assign(t) PROVE Others'
  <2>1. PICK s \in signup[t].todo :
          IF school[s] # "none" /\ teacher[t] # "none"
            THEN /\ works' = [works EXCEPT ![t] = @ \union {s}]
                 /\ NextSignup(t, IF signup[t].todo = {s} THEN "account" ELSE "assign",
                               signup[t].todo \ {s})
            ELSE NextSignup(t, "idle", {}) /\ UNCHANGED works
    BY <1>4 DEF Assign
  <2>2. s \in Schools
    BY DEF RequestTypes
  <2>3. PeopleTypes' /\ References'
    BY <1>4, <2>1, <2>2 DEF Assign, PeopleTypes
  <2>4. signup' \in [Teachers -> Signups]
    BY <2>1 DEF RequestTypes, NextSignup
  <2>5. RequestTypes'
    BY <1>4, <2>4 DEF Assign, Overtakes, RequestTypes
  <2> QED
    BY <1>4, <2>3, <2>5 DEF Assign, AccountTypes, ClassTypes, class
<1>5. ASSUME NEW t \in Teachers, CreateAccount(t) PROVE Others'
  <2>1. NewAccount \in Account
    BY DEF NewAccount, Account
  <2>2. AccountTypes'
    BY <1>5, <2>1, WithTypes, NamedIsAnAccount DEF CreateAccount, AccountTypes
  <2> QED
    BY <1>5, <2>2 DEF CreateAccount, NextSignup, PeopleTypes, RequestTypes, ClassTypes,
                      class, history
<1>6. ASSUME NEW t \in Teachers, JoinGroup(t) PROVE Others'
  <2>1. AccountTypes'
    BY <1>6, SetTypes DEF JoinGroup
  <2> QED
    BY <1>6, <2>1 DEF JoinGroup, NextSignup, PeopleTypes, RequestTypes, ClassTypes, class, history
<1>7. ASSUME NEW t \in Teachers, LinkAccount(t) PROVE Others'
  <2>1. Named(t) \in Logins
    BY NamedIsAnAccount DEF Logins
  <2> QED
    BY <1>7, <2>1 DEF LinkAccount, NextSignup, Overtakes, PeopleTypes, AccountTypes, RequestTypes,
                      ClassTypes, class
<1>8. ASSUME NEW t \in Teachers, SignupDies(t) PROVE Others'
  BY <1>8, AccountsAssumption
  DEF SignupDies, Event, NextSignup, PeopleTypes, AccountTypes, RequestTypes, ClassTypes,
      people, class, AccountsAssumption
<1>9. EditTypes'
  BY DEF EditTypes, Registering, SubmitSchool, StoreSchool, SubmitTeacher, Assign, CreateAccount,
         JoinGroup, LinkAccount, SignupDies, class
<1> QED
  BY <1>1, <1>2, <1>3, <1>4, <1>5, <1>6, <1>7, <1>8, <1>9 DEF Registering

(* An instance the superuser's request has loaded.                         *)
LEMMA CopyTypes ==
    ASSUME RequestTypes, NEW t \in DOMAIN review.copy
    PROVE  t \in Teachers /\ review.copy[t] \in Logins
BY DEF RequestTypes, Reviews

LEMMA NoReviewTypes == NoReview \in Reviews
<1>1. [t \in {} |-> NoLogin] \in [{} -> Logins]
  BY DEF Logins
<1> QED
  BY <1>1 DEF Reviews, NoReview

(* What a step of the review that touches no rows has to show.             *)
LEMMA ReviewStep ==
    ASSUME Rows, PeopleTypes', AccountTypes', References', review' \in Reviews,
           \A t \in Teachers : teacher[t] # "none" => teacher'[t] # "none",
           \A s \in Schools : school[s] # "none" => school'[s] # "none",
           UNCHANGED <<valid, signup, class, overtaken>>, events' \in 0 .. MaxEvents
    PROVE  Rows'
<1>1. RequestTypes' /\ ClassTypes'
  BY DEF Rows, Types, RequestTypes, ClassTypes, class
<1>2. ClassReferences' /\ EditTypes'
  BY DEF Rows, ClassReferences, ClassTypes, EditTypes, class
<1> QED
  BY <1>1, <1>2 DEF Rows, Types

LEMMA StoreTeacherRows ==
    ASSUME Rows, NEW t \in Teachers, NEW status \in Statuses, NEW a \in Logins,
           StoreTeacher(t, status, a)
    PROVE  Rows'
<1>1. PeopleTypes' /\ References' /\ AccountTypes'
  BY DEF Rows, Types, PeopleTypes, AccountTypes, References, StoreTeacher, Statuses
<1>2. /\ \A u \in Teachers : teacher[u] # "none" => teacher'[u] # "none"
      /\ UNCHANGED <<school, valid, signup, class, overtaken>>
      /\ events' \in 0 .. MaxEvents
  BY DEF Rows, Types, PeopleTypes, RequestTypes, StoreTeacher, Statuses, history
<1>3. review' \in Reviews
  BY NoReviewTypes DEF StoreTeacher
<1> QED
  BY <1>1, <1>2, <1>3, ReviewStep

LEMMA ReviewingRows == ASSUME Rows, Reviewing PROVE Rows'
<1> USE DEF Rows, Types
<1>1. ASSUME NEW s \in Schools, ApproveSchool(s) PROVE Rows'
  <2>1. PeopleTypes' /\ References' /\ AccountTypes'
    BY <1>1 DEF ApproveSchool, PeopleTypes, AccountTypes, References, Statuses
  <2>2. /\ \A x \in Schools : school[x] # "none" => school'[x] # "none"
        /\ UNCHANGED <<teacher, valid, signup, review, class, overtaken, events>>
    BY <1>1 DEF ApproveSchool, PeopleTypes, history
  <2> QED
    BY <2>1, <2>2, ReviewStep DEF RequestTypes
<1>2. ASSUME NEW s \in Schools, RejectSchool(s) PROVE Rows'
  <2>1. PeopleTypes' /\ References' /\ AccountTypes'
    BY <1>2 DEF RejectSchool, PeopleTypes, AccountTypes, References, Statuses
  <2>2. /\ \A x \in Schools : school[x] # "none" => school'[x] # "none"
        /\ UNCHANGED <<teacher, valid, signup, class, overtaken, events>>
    BY <1>2 DEF RejectSchool, PeopleTypes, history
  <2>3. At(s) \in SUBSET Teachers /\ [t \in At(s) |-> login[t]] \in [At(s) -> Logins]
    BY DEF At, PeopleTypes
  <2>4. review' \in Reviews
    BY <1>2, <2>3 DEF RejectSchool, Reviews
  <2> QED
    BY <2>1, <2>2, <2>4, ReviewStep DEF RequestTypes
<1>3. ASSUME NEW t \in Teachers, Cascade(t) PROVE Rows'
  <2>1. AccountTypes'
    BY <1>3, SetTypes DEF Cascade, AccountTypes
  <2>2. review' \in Reviews
    <3> USE <1>3 DEF Cascade, RequestTypes, Reviews
    <3>1. CASE OnlySchool(t)
      <4>1. review' = [review EXCEPT !.stage = "mark", !.who = {t}, !.todo = @ \ {t}]
        BY <3>1
      <4> QED
        BY <4>1
    <3>2. CASE ~OnlySchool(t)
      <4>1. review' = [review EXCEPT !.todo = @ \ {t}]
        BY <3>2
      <4> QED
        BY <4>1
    <3> QED
      BY <3>1, <3>2
  <2>3. PeopleTypes' /\ References'
    BY <1>3 DEF Cascade, PeopleTypes, References
  <2>4. UNCHANGED <<school, teacher, valid, signup, class, overtaken, events>>
    BY <1>3 DEF Cascade, history
  <2> QED
    BY <2>1, <2>2, <2>3, <2>4, ReviewStep DEF RequestTypes
<1>4. ASSUME NEW t \in Teachers, CascadeMarks(t) PROVE Rows'
  <2>1. PeopleTypes' /\ References' /\ AccountTypes'
    BY <1>4 DEF CascadeMarks, PeopleTypes, AccountTypes, References, Statuses
  <2>2. review' \in Reviews
    BY <1>4 DEF CascadeMarks, RequestTypes, Reviews
  <2>3. /\ \A u \in Teachers : teacher[u] # "none" => teacher'[u] # "none"
        /\ UNCHANGED <<school, valid, signup, class, overtaken, events>>
    BY <1>4 DEF CascadeMarks, PeopleTypes, history
  <2> QED
    BY <2>1, <2>2, <2>3, ReviewStep DEF RequestTypes
<1>5. ASSUME CascadeEnds \/ ReviewDies PROVE Rows'
  <2>1. PeopleTypes' /\ References' /\ AccountTypes'
    BY <1>5 DEF CascadeEnds, ReviewDies, PeopleTypes, AccountTypes, References, people
  <2>2. UNCHANGED <<school, teacher, valid, signup, class, overtaken>> /\ review' = NoReview
    BY <1>5 DEF CascadeEnds, ReviewDies, people, history
  <2>3. events' \in 0 .. MaxEvents
    BY <1>5, AccountsAssumption
    DEF CascadeEnds, ReviewDies, Event, RequestTypes, history, AccountsAssumption
  <2> QED
    BY <2>1, <2>2, <2>3, NoReviewTypes, ReviewStep
<1>6. ASSUME NEW t \in Teachers, NEW stage \in {"disable", "approve"}, LoadTeacher(t, stage)
      PROVE  Rows'
  <2>1. PeopleTypes' /\ References' /\ AccountTypes'
    BY <1>6 DEF LoadTeacher, PeopleTypes, AccountTypes, References, people
  <2>2. [x \in {t} |-> login[t]] \in [{t} -> Logins]
    BY DEF PeopleTypes
  <2>3. review' \in Reviews
    <3>1. review' = [stage |-> stage, school |-> {}, who |-> {t}, todo |-> {},
                     copy |-> [x \in {t} |-> login[t]]]
      BY <1>6 DEF LoadTeacher, NoReview
    <3> QED
      BY <2>2, <3>1 DEF Reviews
  <2>4. UNCHANGED <<school, teacher, valid, signup, class, overtaken, events>>
    BY <1>6 DEF LoadTeacher, people, history
  <2> QED
    BY <2>1, <2>3, <2>4, ReviewStep DEF RequestTypes
<1>7. ASSUME NEW t \in Teachers, DisableTeacher(t) PROVE Rows'
  <2>1. AccountTypes'
    BY <1>7, SetTypes DEF DisableTeacher
  <2>2. PeopleTypes' /\ References' /\ review' \in Reviews
    BY <1>7 DEF DisableTeacher, NextReview, PeopleTypes, References, RequestTypes, Reviews
  <2>3. UNCHANGED <<school, teacher, valid, signup, class, overtaken, events>>
    BY <1>7 DEF DisableTeacher, history
  <2> QED
    BY <2>1, <2>2, <2>3, ReviewStep DEF RequestTypes
<1>8. ASSUME NEW t \in Teachers, RejectTeacher(t) \/ ApproveTeacher(t) PROVE Rows'
  <2>1. review.copy[t] \in Logins
    BY <1>8, CopyTypes DEF RejectTeacher, ApproveTeacher, RequestTypes, Reviews
  <2> QED
    BY <1>8, <2>1, StoreTeacherRows DEF RejectTeacher, ApproveTeacher, Statuses
<1>9. ASSUME NEW t \in Teachers, ApproveCreates(t) PROVE Rows'
  <2>1. NewAccount \in Account
    BY DEF NewAccount, Account
  <2>2. AccountTypes'
    BY <1>9, <2>1, WithTypes, NamedIsAnAccount DEF ApproveCreates, AccountTypes
  <2>3. review' \in Reviews
    BY <1>9, NoReviewTypes DEF ApproveCreates, NextReview, RequestTypes, Reviews
  <2>4. PeopleTypes' /\ References'
    BY <1>9 DEF ApproveCreates, PeopleTypes, References
  <2>5. UNCHANGED <<school, teacher, valid, signup, class, overtaken, events>>
    BY <1>9 DEF ApproveCreates, history
  <2> QED
    BY <2>2, <2>3, <2>4, <2>5, ReviewStep DEF RequestTypes
<1>10. ASSUME NEW t \in Teachers, ApproveJoins(t) PROVE Rows'
  <2>1. AccountTypes'
    BY <1>10, SetTypes DEF ApproveJoins
  <2>2. PeopleTypes' /\ References' /\ review' \in Reviews
    BY <1>10 DEF ApproveJoins, NextReview, PeopleTypes, References, RequestTypes, Reviews
  <2>3. UNCHANGED <<school, teacher, valid, signup, class, overtaken, events>>
    BY <1>10 DEF ApproveJoins, history
  <2> QED
    BY <2>1, <2>2, <2>3, ReviewStep DEF RequestTypes
<1>11. ASSUME NEW t \in Teachers, ApproveLinks(t) PROVE Rows'
  <2>1. Named(t) \in Logins
    BY NamedIsAnAccount DEF Logins
  <2> QED
    BY <1>11, <2>1, StoreTeacherRows DEF ApproveLinks, Statuses
<1> QED
  BY <1>1, <1>2, <1>3, <1>4, <1>5, <1>6, <1>7, <1>8, <1>9, <1>10, <1>11 DEF Reviewing

(* A page of the superuser on schools and teachers that keeps all rows.    *)
LEMMA PeoplePage ==
    ASSUME Rows, Panel, PeopleTypes', AccountTypes', References', UNCHANGED class,
           \A t \in Teachers : teacher[t] # "none" => teacher'[t] # "none",
           \A s \in Schools : school[s] # "none" => school'[s] # "none"
    PROVE  Rows'
<1>1. RequestTypes'
  BY PageLeaves DEF Panel
<1>2. ClassTypes' /\ ClassReferences' /\ EditTypes'
  BY DEF Rows, ClassTypes, ClassReferences, EditTypes, class
<1> QED
  BY <1>1, <1>2 DEF Rows, Types

(* One that deletes rows, and the classrooms with them.                    *)
LEMMA DeletionPage ==
    ASSUME Rows, Panel, PeopleTypes', AccountTypes', References',
           NEW gone \in SUBSET Rooms, DropRooms(gone), Overrule,
           \A r \in Taken \ gone : /\ teacher'[room[r].teacher] # "none"
                                   /\ school'[room[r].school] # "none"
    PROVE  Rows'
<1>1. RequestTypes'
  BY PageLeaves DEF Panel
<1>2. ClassTypes' /\ ClassReferences'
  BY RoomsDropped DEF ClassReferences, Taken
<1>3. EditTypes'
  BY DEF Rows, EditTypes, Overrule
<1> QED
  BY <1>1, <1>2, <1>3 DEF Rows, Types

LEMMA PeoplePagesRows ==
    ASSUME Rows,
           \/ \E s \in Schools : DeleteSchool(s) \/ \E status \in Statuses : SetSchool(s, status)
           \/ \E t \in Teachers :
                 \/ DeleteTeacher(t)
                 \/ \E status \in Statuses : SetTeacher(t, status)
                 \/ \E chosen \in SUBSET Schools : SetSchools(t, chosen)
           \/ ClearData
    PROVE  Rows'
<1> USE DEF Rows, Types
<1>1. ASSUME NEW s \in Schools, DeleteSchool(s) PROVE Rows'
  <2> DEFINE gone == {r \in Taken : room[r].school = s}
  <2>1. PeopleTypes' /\ AccountTypes' /\ References'
    BY <1>1 DEF DeleteSchool, PeopleTypes, AccountTypes, References
  <2>2. Panel /\ DropRooms(gone) /\ Overrule /\ gone \in SUBSET Rooms
    BY <1>1 DEF DeleteSchool, Taken
  <2>3. \A r \in Taken \ gone : /\ teacher'[room[r].teacher] # "none"
                                /\ school'[room[r].school] # "none"
    BY <1>1 DEF DeleteSchool, Taken, ClassTypes, ClassReferences, PeopleTypes
  <2> QED
    BY <2>1, <2>2, <2>3, DeletionPage
<1>2. ASSUME NEW s \in Schools, NEW status \in Statuses, SetSchool(s, status) PROVE Rows'
  <2>1. AccountTypes'
    BY <1>2, DisabledTypes DEF SetSchool
  <2>2. PeopleTypes'
    BY <1>2 DEF SetSchool, PeopleTypes, Statuses
  <2>3. /\ \A t \in Teachers : teacher[t] # "none" => teacher'[t] # "none"
        /\ \A x \in Schools : school[x] # "none" => school'[x] # "none"
        /\ Panel /\ UNCHANGED <<class, works, login>>
    BY <1>2 DEF SetSchool, PeopleTypes, Statuses
  <2>4. References'
    BY <2>3 DEF References
  <2> QED
    BY <2>1, <2>2, <2>3, <2>4, PeoplePage
<1>3. ASSUME NEW t \in Teachers, DeleteTeacher(t) PROVE Rows'
  <2> DEFINE gone == {r \in Taken : room[r].teacher = t}
  <2>1. PeopleTypes' /\ AccountTypes' /\ References'
    BY <1>3 DEF DeleteTeacher, PeopleTypes, AccountTypes, References, Logins
  <2>2. Panel /\ DropRooms(gone) /\ Overrule /\ gone \in SUBSET Rooms
    BY <1>3 DEF DeleteTeacher, Taken
  <2>3. \A r \in Taken \ gone : /\ teacher'[room[r].teacher] # "none"
                                /\ school'[room[r].school] # "none"
    BY <1>3 DEF DeleteTeacher, Taken, ClassTypes, ClassReferences, PeopleTypes
  <2> QED
    BY <2>1, <2>2, <2>3, DeletionPage
<1>4. ASSUME NEW t \in Teachers, NEW status \in Statuses, SetTeacher(t, status) PROVE Rows'
  <2>1. AccountTypes' /\ login' \in [Teachers -> Logins]
    <3>1. CASE status = "REJECTED" /\ accounts' = Disabled({t}) /\ UNCHANGED login
      BY <3>1, DisabledTypes DEF PeopleTypes
    <3>2. CASE accounts' = Set(login[t], "active", TRUE) /\ UNCHANGED login
      BY <3>2, SetTypes DEF PeopleTypes
    <3>3. ASSUME NEW a \in AccountIds, login' = [login EXCEPT ![t] = a],
                 accounts' = With(a, [active |-> TRUE, staff |-> FALSE, group |-> FALSE])
          PROVE  AccountTypes' /\ login' \in [Teachers -> Logins]
      <4>1. [active |-> TRUE, staff |-> FALSE, group |-> FALSE] \in Account
        BY DEF Account
      <4> QED
        BY <3>3, <4>1, WithTypes DEF PeopleTypes, Logins
    <3>4. CASE UNCHANGED <<login, accounts>>
      BY <3>4 DEF PeopleTypes, AccountTypes
    <3> QED
      BY <1>4, <3>1, <3>2, <3>3, <3>4 DEF SetTeacher
  <2>2. /\ teacher' = [teacher EXCEPT ![t] = status] /\ teacher[t] # "none"
        /\ \A u \in Teachers : u # t => login'[u] = login[u]
        /\ Panel /\ UNCHANGED <<class, works, school>>
    BY <1>4 DEF SetTeacher, PeopleTypes
  <2>3. PeopleTypes' /\ References'
    BY <2>1, <2>2 DEF PeopleTypes, References, Statuses
  <2>4. \A u \in Teachers : teacher[u] # "none" => teacher'[u] # "none"
    BY <2>2 DEF PeopleTypes, Statuses
  <2> QED
    BY <2>1, <2>2, <2>3, <2>4, PeoplePage
<1>5. ASSUME NEW t \in Teachers, NEW chosen \in SUBSET Schools, SetSchools(t, chosen) PROVE Rows'
  <2>1. PeopleTypes' /\ AccountTypes' /\ References'
    BY <1>5 DEF SetSchools, PeopleTypes, AccountTypes, References
  <2>2. Panel /\ UNCHANGED <<class, school, teacher>>
    BY <1>5 DEF SetSchools
  <2> QED
    BY <2>1, <2>2, PeoplePage
<1>6. ASSUME ClearData PROVE Rows'
  <2>1. PeopleTypes' /\ AccountTypes' /\ References'
    BY <1>6 DEF ClearData, PeopleTypes, AccountTypes, References, Logins
  <2>2. Panel /\ DropRooms(Rooms) /\ Overrule
    BY <1>6 DEF ClearData
  <2> QED
    BY <2>1, <2>2, DeletionPage DEF Taken
<1> QED
  BY <1>1, <1>2, <1>3, <1>4, <1>5, <1>6

(* The classroom and pupil pages, of the superuser and of teachers.        *)
ClassPage ==
    \/ \E t \in Teachers, r \in Rooms, s \in Schools, bulk \in BulkTexts :
          AdminSavesRoom(r, t, s, bulk)
    \/ \E p \in Pupils, r \in Rooms : AdminSavesPupil(p, r)
    \/ \E r \in Rooms : AdminDeletesRoom(r)
    \/ \E p \in Pupils : AdminDeletesPupil(p)
    \/ Teaching

LEMMA ClassPageLeaves ==
    ASSUME Rows, ClassPage
    PROVE  UNCHANGED <<people, valid, signup, review, overtaken>> /\ RequestTypes'
<1>1. UNCHANGED <<people, valid, signup, review, overtaken>>
      /\ (Panel \/ UNCHANGED <<valid, signup, review, history>>)
  BY DEF ClassPage, AdminSavesRoom, AdminSavesPupil, AdminDeletesRoom, AdminDeletesPupil,
         Teaching, TeacherStep, TeacherLoads, LoadRoom, LoadRoomToDelete, LoadRoomOfNew,
         LoadPupil, LoadPupilToDelete, Load, TeacherWrites, AddRoom, SaveRoom, DeleteRoom,
         AddPupil, SavePupil, DeletePupil, Write, Panel, Page, AsTeacher, history
<1> QED
  BY <1>1, PageLeaves DEF Panel, Rows, Types, RequestTypes, history

(* A teacher's edit is loaded with rows of the teacher's own ...           *)
LEMMA LoadsAreOwn ==
    ASSUME Rows, NEW t \in Teachers, TeacherLoads(t)
    PROVE  \E does \in {"add pupil", "save pupil", "delete pupil", "save room", "delete room"},
              P \in SUBSET Pupils, R \in SUBSET Rooms, S \in SUBSET Schools :
              /\ Load(t, does, P, R, S)
              /\ R \subseteq Own(t) /\ \A p \in P : pupil[p] \in Own(t)
<1> DEFINE Loads(does, P, R, S) ==
              /\ Load(t, does, P, R, S)
              /\ R \subseteq Own(t) /\ \A p \in P : pupil[p] \in Own(t)
<1>1. ASSUME NEW r \in Own(t) PROVE r \in Rooms /\ room[r].school \in Schools
  BY AccountsAssumption DEF Own, Taken, Rows, ClassTypes, AccountsAssumption
<1>2. ASSUME NEW r \in Rooms, LoadRoom(t, r)
      PROVE  Loads("save room", {}, {r}, {room[r].school}) /\ room[r].school \in Schools
  BY <1>1, <1>2 DEF LoadRoom
<1>3. ASSUME NEW r \in Rooms, LoadRoomToDelete(t, r) PROVE Loads("delete room", {}, {r}, {})
  BY <1>3 DEF LoadRoomToDelete
<1>4. ASSUME NEW r \in Rooms, LoadRoomOfNew(t, r) PROVE Loads("add pupil", {}, {r}, {})
  BY <1>4 DEF LoadRoomOfNew
<1>5. ASSUME NEW p \in Pupils, NEW r \in Rooms, LoadPupil(t, p, r)
      PROVE  Loads("save pupil", {p}, {r}, {})
  BY <1>5 DEF LoadPupil
<1>6. ASSUME NEW p \in Pupils, LoadPupilToDelete(t, p) PROVE Loads("delete pupil", {p}, {}, {})
  BY <1>6 DEF LoadPupilToDelete
<1>7. CASE \E r \in Rooms : LoadRoom(t, r)
  <2>1. PICK r \in Rooms : LoadRoom(t, r)
    BY <1>7
  <2>2. {} \in SUBSET Pupils /\ {r} \in SUBSET Rooms /\ {room[r].school} \in SUBSET Schools
    BY <1>2, <2>1
  <2> QED
    BY <1>2, <2>1, <2>2
<1>8. CASE \E r \in Rooms : LoadRoomToDelete(t, r) \/ LoadRoomOfNew(t, r)
  <2>1. PICK r \in Rooms : LoadRoomToDelete(t, r) \/ LoadRoomOfNew(t, r)
    BY <1>8
  <2>2. {} \in SUBSET Pupils /\ {r} \in SUBSET Rooms /\ {} \in SUBSET Schools
    OBVIOUS
  <2> QED
    BY <1>3, <1>4, <2>1, <2>2
<1>9. CASE \E p \in Pupils, r \in Rooms : LoadPupil(t, p, r)
  <2>1. PICK p \in Pupils, r \in Rooms : LoadPupil(t, p, r)
    BY <1>9
  <2>2. {p} \in SUBSET Pupils /\ {r} \in SUBSET Rooms /\ {} \in SUBSET Schools
    OBVIOUS
  <2> QED
    BY <1>5, <2>1, <2>2
<1>10. CASE \E p \in Pupils : LoadPupilToDelete(t, p)
  <2>1. PICK p \in Pupils : LoadPupilToDelete(t, p)
    BY <1>10
  <2>2. {p} \in SUBSET Pupils /\ {} \in SUBSET Rooms /\ {} \in SUBSET Schools
    OBVIOUS
  <2> QED
    BY <1>6, <2>1, <2>2
<1> QED
  BY <1>7, <1>8, <1>9, <1>10 DEF TeacherLoads

LEMMA LoadsAreTyped ==
    ASSUME Rows, NEW t \in Teachers, TeacherLoads(t)
    PROVE  EditTypes' /\ UNCHANGED <<room, pupil, overruled>>
<1>1. PICK does \in {"add pupil", "save pupil", "delete pupil", "save room", "delete room"},
          P \in SUBSET Pupils, R \in SUBSET Rooms, S \in SUBSET Schools :
          /\ Load(t, does, P, R, S)
          /\ R \subseteq Own(t) /\ \A p \in P : pupil[p] \in Own(t)
  BY LoadsAreOwn
<1> QED
  BY <1>1 DEF Load, Rows, EditTypes

(* ... and over when it has written.                                       *)
LEMMA WritesAreTyped ==
    ASSUME Rows, NEW t \in Teachers, NEW does, Write(t, does)
    PROVE  EditTypes'
BY DEF Write, Rows, EditTypes, NoEdit

LEMMA ClassPageEdits == ASSUME Rows, ClassPage PROVE EditTypes'
<1>1. Overrule \/ UNCHANGED <<edit, overruled>> => EditTypes'
  BY DEF Overrule, Rows, EditTypes
<1>2. ASSUME NEW t \in Teachers, TeacherWrites(t) PROVE EditTypes'
  BY <1>1, <1>2, WritesAreTyped
  DEF TeacherWrites, AddRoom, SaveRoom, DeleteRoom, AddPupil, SavePupil, DeletePupil
<1> QED
  BY <1>1, <1>2, LoadsAreTyped
  DEF ClassPage, AdminSavesRoom, AdminSavesPupil, AdminDeletesRoom, AdminDeletesPupil, Teaching,
      TeacherStep

LEMMA ClassPageRows == ASSUME Rows, ClassPage PROVE Rows'
<1>1. UNCHANGED people /\ RequestTypes' /\ EditTypes'
  BY ClassPageLeaves, ClassPageEdits
<1> DEFINE Good == /\ ClassTypes'
                   /\ \A p \in Pupils : pupil'[p] # NoRoom => room'[pupil'[p]] # NoRoom
                   /\ \A r \in Rooms : room'[r] # NoRoom =>
                        teacher[room'[r].teacher] # "none" /\ school[room'[r].school] # "none"
<1> SUFFICES Good
  BY <1>1, ClassStep
<1> USE AccountsAssumption DEF AccountsAssumption
<1>2. ASSUME NEW t \in Teachers, NEW r \in Rooms, NEW s \in Schools, NEW bulk,
             room' = [room EXCEPT ![r] = [teacher |-> t, school |-> s]], Enrolled(r, bulk),
             teacher[t] # "none", school[s] # "none"
      PROVE  Good
  <2>1. ClassTypes'
    BY <1>2, EnrolledTypes DEF Rows, ClassTypes
  <2>2. \A x \in Rooms : room'[x] # NoRoom =>
           teacher[room'[x].teacher] # "none" /\ school[room'[x].school] # "none"
    BY <1>2 DEF Rows, ClassTypes, ClassReferences
  <2>3. ASSUME NEW p \in Pupils, pupil'[p] # NoRoom PROVE room'[pupil'[p]] # NoRoom
    BY <1>2, <2>3, EnrolledTypes DEF Rows, ClassTypes, ClassReferences
  <2> QED
    BY <2>1, <2>2, <2>3
<1>3. ASSUME NEW p \in Pupils, NEW r \in Rooms \union {NoRoom},
             r = NoRoom \/ room[r] # NoRoom,
             pupil' = [pupil EXCEPT ![p] = r], UNCHANGED room
      PROVE  Good
  BY <1>3 DEF Rows, ClassTypes, ClassReferences
<1>4. UNCHANGED <<room, pupil>> => Good
  BY DEF Rows, ClassTypes, ClassReferences
<1>5. ASSUME NEW gone \in SUBSET Rooms, DropRooms(gone) PROVE Good
  BY <1>5, RoomsDropped DEF Rows, ClassReferences
<1>6. ASSUME NEW t \in Teachers, NEW s \in Schools, Valid(t, s)
      PROVE  teacher[t] # "none" /\ school[s] # "none"
  BY <1>6 DEF Valid, Rows, References
<1>7. CASE \E t \in Teachers, r \in Rooms, s \in Schools, bulk \in BulkTexts :
              AdminSavesRoom(r, t, s, bulk) \/ AddRoom(t, r, s, bulk)
  BY <1>2, <1>6, <1>7 DEF AdminSavesRoom, AddRoom
<1>8. ASSUME NEW t \in Teachers, NEW bulk, SaveRoom(t, bulk) PROVE Good
  <2>1. PICK r \in edit[t].rooms, s \in edit[t].schools :
          IF teacher[t] # "none" /\ school[s] # "none"
            THEN room' = [room EXCEPT ![r] = [teacher |-> t, school |-> s]] /\ Enrolled(r, bulk)
            ELSE UNCHANGED <<room, pupil>>
    BY <1>8 DEF SaveRoom
  <2>2. r \in Rooms /\ s \in Schools
    BY DEF Rows, EditTypes
  <2> QED
    BY <1>2, <1>4, <2>1, <2>2
<1>9. CASE \E p \in Pupils, r \in Rooms : AdminSavesPupil(p, r)
  BY <1>3, <1>9 DEF AdminSavesPupil, Taken
<1>10. CASE \E p \in Pupils : AdminDeletesPupil(p)
  BY <1>3, <1>10 DEF AdminDeletesPupil
<1>11. CASE \E r \in Rooms : AdminDeletesRoom(r)
  BY <1>5, <1>11 DEF AdminDeletesRoom
<1>12. ASSUME NEW t \in Teachers, DeleteRoom(t) PROVE Good
  BY <1>5, <1>12 DEF DeleteRoom, Rows, EditTypes
<1>13. ASSUME NEW p \in Pupils, NEW r \in Rooms, PutPupil(p, r), UNCHANGED room PROVE Good
  BY <1>3, <1>4, <1>13 DEF PutPupil, Taken
<1>14. ASSUME NEW t \in Teachers, SavePupil(t) \/ \E p \in Pupils : AddPupil(t, p) PROVE Good
  BY <1>13, <1>14 DEF SavePupil, AddPupil, Rows, EditTypes
<1>15. ASSUME NEW t \in Teachers, DeletePupil(t) PROVE Good
  BY <1>3, <1>15 DEF DeletePupil, Rows, EditTypes
<1> QED
  BY <1>4, <1>7, <1>8, <1>9, <1>10, <1>11, <1>12, <1>14, <1>15, LoadsAreTyped
  DEF ClassPage, Teaching, TeacherStep, TeacherWrites

LEMMA RowsStep == ASSUME Rows, [Next]_vars PROVE Rows'
<1>1. CASE UNCHANGED vars
  BY <1>1 DEF vars, people, class, history, Rows, Types, PeopleTypes, AccountTypes, RequestTypes,
              References, ClassTypes, ClassReferences, EditTypes
<1> QED
  BY <1>1, RegisteringRows, ReviewingRows, PeoplePagesRows, ClassPageRows
  DEF Next, Administering, ClassPage

\* Every reachable state is well typed, and every pupil, classroom and
\* assignment refers to rows that exist (the foreign keys of models.py and
\* their cascades).
THEOREM TypeCorrect == Spec => []TypeOK
<1>1. ASSUME Rows PROVE TypeOK
  <2>1. overtaken \union overruled \subseteq Teachers
    BY <1>1 DEF Rows, Types, RequestTypes, EditTypes
  <2>2. /\ review.school \subseteq Schools /\ review.who \union review.todo \subseteq Teachers
        /\ review.stage \in {"idle", "cascade", "mark", "disable", "reject",
                             "approve", "group", "link"}
        /\ \A t \in DOMAIN review.copy : review.copy[t] \in AccountIds \union {NoLogin}
    BY <1>1 DEF Rows, Types, RequestTypes, Reviews, Logins
  <2> QED
    BY <1>1, <2>1, <2>2 DEF Rows, Types, PeopleTypes, AccountTypes, RequestTypes, ClassTypes,
                            ClassReferences, EditTypes, Signups, Logins, TypeOK
<1> QED
  BY <1>1, RowsInit, RowsStep, PTL DEF Spec

-------------------------------------------------------------------------------
(* One active school per identity.                                         *)

LEMMA SchoolsStep ==
    ASSUME OneActiveSchoolPerIdentity, NEW s,
           \A x \in Schools : school'[x] \in Active =>
              school[x] \in Active \/ (x = s /\ ActiveTwins(s) = {})
    PROVE  OneActiveSchoolPerIdentity'
BY DEF OneActiveSchoolPerIdentity, ActiveTwins

LEMMA OneActiveStep ==
    ASSUME Rows, OneActiveSchoolPerIdentity, [Next]_vars
    PROVE  OneActiveSchoolPerIdentity'
<1> USE DEF Rows, Types, PeopleTypes
<1>1. CASE UNCHANGED school
  BY <1>1 DEF OneActiveSchoolPerIdentity
<1>2. ASSUME NEW s \in Schools, StoreSchool(s) PROVE OneActiveSchoolPerIdentity'
  BY <1>2, SchoolsStep DEF StoreSchool
<1>3. ASSUME NEW s \in Schools, ApproveSchool(s) \/ RejectSchool(s)
      PROVE  OneActiveSchoolPerIdentity'
  BY <1>3, SchoolsStep DEF ApproveSchool, RejectSchool, Active
<1>4. ASSUME NEW s \in Schools, NEW status \in Statuses, SetSchool(s, status)
      PROVE  OneActiveSchoolPerIdentity'
  BY <1>4, SchoolsStep DEF SetSchool
<1>5. ASSUME NEW s \in Schools, DeleteSchool(s) PROVE OneActiveSchoolPerIdentity'
  BY <1>5, SchoolsStep DEF DeleteSchool, Active
<1>6. CASE ClearData
  BY <1>6, SchoolsStep DEF ClearData, Active
<1>7. Registering => UNCHANGED school \/ \E s \in Schools : StoreSchool(s)
  BY DEF Registering, SubmitSchool, SubmitTeacher, Assign, CreateAccount, JoinGroup, LinkAccount,
         SignupDies, people
<1>8. Reviewing => UNCHANGED school \/ \E s \in Schools : ApproveSchool(s) \/ RejectSchool(s)
  BY DEF Reviewing, Cascade, CascadeMarks, CascadeEnds, LoadTeacher, DisableTeacher,
         RejectTeacher, ApproveTeacher, StoreTeacher, ApproveCreates, ApproveJoins, ApproveLinks,
         ReviewDies, people
<1>9. ClassPage => UNCHANGED school
  BY ClassPageLeaves DEF people
<1>10. \A t \in Teachers :
          \/ DeleteTeacher(t)
          \/ \E status \in Statuses : SetTeacher(t, status)
          \/ \E chosen \in SUBSET Schools : SetSchools(t, chosen)
          => UNCHANGED school
  BY DEF DeleteTeacher, SetTeacher, SetSchools
<1>11. UNCHANGED vars => UNCHANGED school
  BY DEF vars, people
<1> QED
  BY <1>1, <1>2, <1>3, <1>4, <1>5, <1>6, <1>7, <1>8, <1>9, <1>10, <1>11
  DEF Next, Administering, ClassPage

\* However registrations, reviews and pages interleave, schools of one
\* identity are never pending or approved together: the partial unique
\* constraint of School (models.py) and the checks before each status change.
THEOREM OneActiveSchool == Spec => []OneActiveSchoolPerIdentity
<1>1. Init => OneActiveSchoolPerIdentity
  BY DEF Init, OneActiveSchoolPerIdentity, Active
<1> QED
  BY <1>1, RowsInit, RowsStep, OneActiveStep, PTL DEF Spec

-------------------------------------------------------------------------------
(* A teacher disturbs nobody else, unless overruled.                       *)

(* Whose edit nobody has overruled still has the rows it loaded.           *)
Held(t) ==
    /\ edit[t].rooms \subseteq Own(t)
    /\ \A p \in edit[t].pupils : pupil[p] \in Own(t)

Holding == \A t \in Teachers \ overruled : Held(t)

LEMMA StillHeld ==
    ASSUME Rows, NEW t \in Teachers, Held(t), ~Withdrawn(t), edit'[t] = edit[t]
    PROVE  Held(t)'
<1>1. \A r \in Rooms : r \in Own(t) /\ room'[r] = room[r] => r \in Own(t)'
  BY DEF Own, Taken
<1>2. \A r \in edit[t].rooms : r \in Rooms /\ r \in Own(t) /\ room'[r] = room[r]
  BY DEF Held, Withdrawn, Own, Taken
<1>3. ASSUME NEW p \in edit[t].pupils PROVE pupil'[p] \in Own(t)'
  <2>1. pupil[p] \in Rooms /\ pupil[p] \in Own(t) /\ pupil[p] # NoRoom
    BY AccountsAssumption DEF Held, Own, Taken, AccountsAssumption, Rows, ClassTypes, EditTypes
  <2>2. pupil'[p] = pupil[p] /\ room'[pupil[p]] = room[pupil[p]]
    BY <2>1 DEF Withdrawn
  <2> QED
    BY <1>1, <2>1, <2>2
<1> QED
  BY <1>1, <1>2, <1>3 DEF Held

LEMMA OverruleHolds == ASSUME Rows, Holding, Overrule PROVE Holding'
BY StillHeld DEF Holding, Overrule

(* Who disturbs nobody withdraws nothing from another teacher's edit.      *)
LEMMA UndisturbedIsHeld ==
    ASSUME Rows, NEW t \in Teachers, NEW u \in Teachers \ {t}, Held(u), ~DisturbsOthers(t)
    PROVE  ~Withdrawn(u)
<1>1. \A r \in Own(u) : r \in Rooms /\ r \in Taken \ Own(t) /\ room[r] # NoRoom /\ r # NoRoom
  BY AccountsAssumption DEF Own, Taken, AccountsAssumption, Rows, ClassTypes
<1>2. \A r \in Own(u) : room'[r] = room[r]
  BY <1>1 DEF DisturbsOthers
<1>3. ASSUME NEW p \in edit[u].pupils PROVE pupil'[p] = pupil[p] /\ pupil[p] \in Own(u)
  BY <1>1 DEF Held, DisturbsOthers, Rows, EditTypes
<1> QED
  BY <1>2, <1>3 DEF Held, Withdrawn

(* New rows are in nobody's edit and in nobody's way.                      *)
LEMMA NewRoomDisturbsNobody ==
    ASSUME Rows, NEW t \in Teachers, NEW r \in Rooms, NEW s \in Schools, NEW bulk,
           AddRoom(t, r, s, bulk)
    PROVE  ~DisturbsOthers(t) /\ \A u \in Teachers : Held(u) => ~Withdrawn(u)
<1>1. /\ room[r] = NoRoom /\ \A u \in Teachers : r \notin edit[u].rooms
      /\ \A x \in Rooms \ {r} : room'[x] = room[x]
  BY DEF AddRoom, NewRoom, Rows, ClassTypes
<1>2. \A p \in Pupils : pupil'[p] # pupil[p] =>
         pupil[p] = NoRoom /\ pupil'[p] = r /\ \A u \in Teachers : p \notin edit[u].pupils
  BY DEF AddRoom, Enrolled, NewPupil
<1>3. ~DisturbsOthers(t)
  BY <1>1, <1>2 DEF DisturbsOthers, Taken
<1>4. ASSUME NEW u \in Teachers, Held(u) PROVE ~Withdrawn(u)
  BY <1>1, <1>2, <1>4 DEF Held, Withdrawn, Own, Taken, Rows, EditTypes
<1> QED
  BY <1>3, <1>4

(* An edit that holds its rows writes the teacher's own.                   *)
LEMMA HolderDisturbsNobody ==
    ASSUME Rows, NEW t \in Teachers, Held(t), TeacherStep(t)
    PROVE  ~DisturbsOthers(t)
<1> USE AccountsAssumption
    DEF Rows, ClassTypes, EditTypes, Held, DisturbsOthers, Own, Taken, AccountsAssumption
<1>1. UNCHANGED <<room, pupil>> => ~DisturbsOthers(t)
  OBVIOUS
<1>2. ASSUME NEW bulk, SaveRoom(t, bulk) PROVE ~DisturbsOthers(t)
  <2>1. PICK r \in edit[t].rooms, s \in edit[t].schools :
          IF teacher[t] # "none" /\ school[s] # "none"
            THEN room' = [room EXCEPT ![r] = [teacher |-> t, school |-> s]] /\ Enrolled(r, bulk)
            ELSE UNCHANGED <<room, pupil>>
    BY <1>2 DEF SaveRoom
  <2>2. CASE room' = [room EXCEPT ![r] = [teacher |-> t, school |-> s]] /\ Enrolled(r, bulk)
    BY <2>2 DEF Enrolled, NewPupil
  <2> QED
    BY <1>1, <2>1, <2>2
<1>3. CASE DeleteRoom(t)
  BY <1>3 DEF DeleteRoom, DropRooms
<1>4. ASSUME NEW p \in Pupils, NEW r \in Own(t) \union {NoRoom}, UNCHANGED room,
             pupil[p] \in Own(t) \union {NoRoom}, pupil' = [pupil EXCEPT ![p] = r]
      PROVE  ~DisturbsOthers(t)
  BY <1>4
<1>5. ASSUME NEW p \in Pupils, AddPupil(t, p) PROVE ~DisturbsOthers(t)
  BY <1>1, <1>4, <1>5 DEF AddPupil, PutPupil, NewPupil
<1>6. CASE SavePupil(t)
  BY <1>1, <1>4, <1>6 DEF SavePupil, PutPupil
<1>7. CASE DeletePupil(t)
  BY <1>4, <1>7 DEF DeletePupil
<1> QED
  BY <1>1, <1>2, <1>3, <1>5, <1>6, <1>7, NewRoomDisturbsNobody, LoadsAreTyped
  DEF TeacherStep, TeacherWrites

LEMMA LoadHolds == ASSUME Rows, Holding, NEW t \in Teachers, TeacherLoads(t) PROVE Holding'
<1>1. UNCHANGED <<room, pupil, overruled>>
  BY LoadsAreTyped
<1>2. \A u \in Teachers : Own(u)' = Own(u)
  BY <1>1 DEF Own, Taken
<1>3. PICK does \in {"add pupil", "save pupil", "delete pupil", "save room", "delete room"},
          P \in SUBSET Pupils, R \in SUBSET Rooms, S \in SUBSET Schools :
          /\ Load(t, does, P, R, S)
          /\ R \subseteq Own(t) /\ \A p \in P : pupil[p] \in Own(t)
  BY LoadsAreOwn
<1>4. /\ edit'[t].pupils = P /\ edit'[t].rooms = R
      /\ \A u \in Teachers \ {t} : edit'[u] = edit[u]
  BY <1>3 DEF Load, Rows, EditTypes
<1>5. Held(t)'
  BY <1>1, <1>2, <1>3, <1>4 DEF Held
<1>6. \A u \in Teachers \ {t} : Held(u) => Held(u)'
  BY <1>1, <1>2, <1>4 DEF Held
<1> QED
  BY <1>1, <1>5, <1>6 DEF Holding

LEMMA WriteHolds ==
    ASSUME Rows, Holding, NEW t \in Teachers, TeacherStep(t), NEW does, Write(t, does)
    PROVE  Holding'
<1>1. Held(t)'
  BY DEF Write, Held, NoEdit, Rows, EditTypes
<1>2. ASSUME NEW u \in Teachers \ {t}, u \notin overruled' PROVE Held(u)'
  <2>1. edit'[u] = edit[u] /\ Held(u)
    BY <1>2 DEF Write, Holding, Rows, EditTypes
  <2>2. ~Withdrawn(u)
    BY <1>2, <2>1, HolderDisturbsNobody, UndisturbedIsHeld DEF Write, Holding
  <2> QED
    BY <2>1, <2>2, StillHeld
<1> QED
  BY <1>1, <1>2 DEF Holding

LEMMA HoldingStep == ASSUME Rows, Holding, [Next]_vars PROVE Holding'
<1>1. CASE UNCHANGED class
  BY <1>1 DEF class, Holding, Held, Own, Taken
<1>2. Registering \/ Reviewing \/ UNCHANGED vars => UNCHANGED class
  BY DEF Registering, SubmitSchool, StoreSchool, SubmitTeacher, Assign, CreateAccount, JoinGroup,
         LinkAccount, SignupDies, Reviewing, ApproveSchool, RejectSchool, Cascade, CascadeMarks,
         CascadeEnds, LoadTeacher, DisableTeacher, RejectTeacher, ApproveTeacher, StoreTeacher,
         ApproveCreates, ApproveJoins, ApproveLinks, ReviewDies, vars
<1>3. Administering => UNCHANGED class \/ Overrule
  BY DEF Administering, DeleteSchool, SetSchool, DeleteTeacher, SetTeacher, SetSchools,
         AdminSavesRoom, AdminSavesPupil, AdminDeletesRoom, AdminDeletesPupil, ClearData
<1>4. ASSUME NEW t \in Teachers, TeacherWrites(t) PROVE Holding'
  <2>1. CASE \E r \in Rooms, s \in Schools, bulk \in BulkTexts : AddRoom(t, r, s, bulk)
    BY <2>1, NewRoomDisturbsNobody, StillHeld DEF AddRoom, Holding
  <2> QED
    BY <1>4, <2>1, WriteHolds
    DEF TeacherStep, TeacherWrites, SaveRoom, DeleteRoom, AddPupil, SavePupil, DeletePupil
<1> QED
  BY <1>1, <1>2, <1>3, <1>4, OverruleHolds, LoadHolds DEF Next, Teaching, TeacherStep

\* No edit of a teacher, in the panel or by the API, moves, adds or deletes a
\* pupil of somebody else's classroom, or changes such a classroom, unless the
\* superuser changed the rows after the edit had loaded them: the querysets
\* and form fields limited to the own classrooms (admin.py, views.py).
THEOREM OwnPupils == Spec => OwnPupilsOnly
<1>1. Init => Holding
  BY DEF Init, Holding, Held, NoEdit
<1>2. Rows /\ Holding /\ [Next]_vars
      => [\A t \in Teachers : DisturbsOthers(t) /\ TeacherStep(t) => t \in overruled]_vars
  BY HolderDisturbsNobody DEF Holding
<1> QED
  BY <1>1, <1>2, RowsInit, RowsStep, HoldingStep, PTL DEF Spec, OwnPupilsOnly

-------------------------------------------------------------------------------
(* What interleaved registrations and reviews keep true of accounts: each  *)
(* has one owner, and rejection closes it.  The invariants say what a      *)
(* request that is between two of its writes relies on.                    *)

(* The account is the teacher's, or will be when a request stores the row: *)
(* a registration or an approval that has created it, or a review whose    *)
(* copy of the row names it.                                               *)
Claims(t, a) ==
    \/ login[t] = a
    \/ signup[t].stage \in {"group", "link"} /\ a = Named(t)
    \/ review.stage \in {"group", "link"} /\ t \in review.who /\ a = Named(t)
    \/ t \in DOMAIN review.copy /\ review.copy[t] = a

(* Claimed accounts exist, and no two teachers claim the same.             *)
Owned ==
    \A t \in Teachers, a \in AccountIds :
        Claims(t, a) => /\ a \in DOMAIN accounts
                        /\ \A u \in Teachers : Claims(u, a) => u = t

(* The review's copies are true to the rows nobody has written since.      *)
Copies ==
    \A t \in DOMAIN review.copy \ overtaken : review.copy[t] = login[t]

Locked(t) == ~Has(t, "active")

(* Who is about to be marked as rejected is locked out already.            *)
Closing ==
    review.stage \in {"mark", "reject"} => \A t \in review.who \ overtaken : Locked(t)

(* The teachers a cascade found, but for those whose registrations it      *)
(* raced: they are still at the school, and when they have no other they   *)
(* are still to do, being done, or rejected.                               *)
Reached(t) ==
    \/ t \in review.todo
    \/ works[t] # review.school
    \/ teacher[t] = "REJECTED"
    \/ review.stage = "mark" /\ review.who = {t}

Cascading ==
    review.stage \in {"cascade", "mark"} =>
        /\ \E s \in Schools : review.school = {s}
        /\ \A t \in DOMAIN review.copy \ overtaken :
              review.school \subseteq works[t] /\ Reached(t)
        /\ review.stage = "mark" =>
              \A t \in review.who \ overtaken : works[t] = review.school

-------------------------------------------------------------------------------
(* An account has one owner.                                               *)

(* A claim that is new is on an account that did not exist.                *)
LEMMA ClaimsStep ==
    ASSUME Owned, NEW t, NEW b,
           \A u \in Teachers, a \in AccountIds :
              Claims(u, a)' => Claims(u, a) \/ (u = t /\ a = b /\ a \notin DOMAIN accounts),
           \A u \in Teachers, a \in AccountIds : Claims(u, a)' => a \in DOMAIN accounts'
    PROVE  Owned'
BY DEF Owned

LEMMA NoNewClaims ==
    ASSUME Owned,
           \A u \in Teachers, a \in AccountIds : Claims(u, a)' => Claims(u, a),
           DOMAIN accounts \subseteq DOMAIN accounts'
    PROVE  Owned'
BY ClaimsStep DEF Owned

LEMMA OwnedInit == Init => Owned
BY NoLoginIsNoAccount DEF Init, Owned, Claims, NoSignup, NoReview

LEMMA OwnedRegistering == ASSUME Rows, Owned, Registering PROVE Owned'
<1> USE DEF Rows, Types, PeopleTypes, RequestTypes, Signups
<1>1. ASSUME NEW s \in Schools, SubmitSchool(s) \/ StoreSchool(s) PROVE Owned'
  BY <1>1, NoNewClaims DEF SubmitSchool, StoreSchool, people, Claims, Named
<1>2. ASSUME NEW t \in Teachers, NEW chosen \in SUBSET Schools, SubmitTeacher(t, chosen)
      PROVE  Owned'
  BY <1>2, NoNewClaims DEF SubmitTeacher, NextSignup, Claims, Named
<1>3. ASSUME NEW t \in Teachers, Assign(t) PROVE Owned'
  BY <1>3, NoNewClaims DEF Assign, NextSignup, Claims, Named
<1>4. ASSUME NEW t \in Teachers, CreateAccount(t) PROVE Owned'
  <2>1. CASE Named(t) \in DOMAIN accounts
    BY <1>4, <2>1, NoNewClaims DEF CreateAccount, NextSignup, Claims, Named
  <2>2. CASE Named(t) \notin DOMAIN accounts
    <3>1. DOMAIN accounts' = DOMAIN accounts \union {Named(t)}
      BY <1>4, <2>2 DEF CreateAccount, With
    <3>2. \A u \in Teachers, a \in AccountIds :
             Claims(u, a)' => Claims(u, a) \/ (u = t /\ a = Named(t) /\ a \notin DOMAIN accounts)
      BY <1>4, <2>2 DEF CreateAccount, NextSignup, Claims, Named
    <3> QED
      BY <3>1, <3>2, ClaimsStep DEF Owned
  <2> QED
    BY <2>1, <2>2
<1>5. ASSUME NEW t \in Teachers, JoinGroup(t) PROVE Owned'
  <2>1. DOMAIN accounts' = DOMAIN accounts
    BY <1>5, SetTypes DEF JoinGroup
  <2> QED
    BY <1>5, <2>1, NoNewClaims DEF JoinGroup, NextSignup, Claims, Named
<1>6. ASSUME NEW t \in Teachers, LinkAccount(t) PROVE Owned'
  BY <1>6, NoNewClaims DEF LinkAccount, NextSignup, Claims, Named
<1>7. ASSUME NEW t \in Teachers, SignupDies(t) PROVE Owned'
  BY <1>7, NoNewClaims DEF SignupDies, NextSignup, people, Claims, Named
<1> QED
  BY <1>1, <1>2, <1>3, <1>4, <1>5, <1>6, <1>7 DEF Registering

LEMMA StoreTeacherClaims ==
    ASSUME Rows, Owned, NEW t \in Teachers, NEW status, NEW b, StoreTeacher(t, status, b),
           b \in AccountIds => Claims(t, b)
    PROVE  Owned'
<1>1. \A u \in Teachers, a \in AccountIds : Claims(u, a)' => Claims(u, a)
  BY DEF Rows, Types, PeopleTypes, StoreTeacher, NoReview, Claims, Named
<1> QED
  BY <1>1, NoNewClaims DEF StoreTeacher

LEMMA OwnedReviewing == ASSUME Rows, Owned, Reviewing PROVE Owned'
<1> USE DEF Rows, Types, PeopleTypes, RequestTypes, Reviews
<1>1. ASSUME NEW s \in Schools, ApproveSchool(s) \/ RejectSchool(s) PROVE Owned'
  BY <1>1, NoNewClaims DEF ApproveSchool, RejectSchool, Claims, Named
<1>2. ASSUME NEW t \in Teachers, Cascade(t) PROVE Owned'
  <2>1. DOMAIN accounts' = DOMAIN accounts
    BY <1>2, SetTypes DEF Cascade
  <2>2. review'.copy = review.copy /\ review'.stage \in {"cascade", "mark"}
    <3>1. CASE OnlySchool(t)
      <4>1. review' = [review EXCEPT !.stage = "mark", !.who = {t}, !.todo = @ \ {t}]
        BY <1>2, <3>1 DEF Cascade
      <4> QED
        BY <4>1
    <3>2. CASE ~OnlySchool(t)
      <4>1. review' = [review EXCEPT !.todo = @ \ {t}]
        BY <1>2, <3>2 DEF Cascade
      <4> QED
        BY <1>2, <4>1 DEF Cascade
    <3> QED
      BY <3>1, <3>2
  <2> QED
    BY <1>2, <2>1, <2>2, NoNewClaims DEF Cascade, Claims, Named
<1>3. ASSUME NEW t \in Teachers, CascadeMarks(t) PROVE Owned'
  BY <1>3, NoNewClaims DEF CascadeMarks, Claims, Named
<1>4. ASSUME CascadeEnds \/ ReviewDies PROVE Owned'
  BY <1>4, NoNewClaims DEF CascadeEnds, ReviewDies, NoReview, people, Claims, Named
<1>5. ASSUME NEW t \in Teachers, NEW stage \in {"disable", "approve"}, LoadTeacher(t, stage)
      PROVE  Owned'
  <2>1. review' = [stage |-> stage, school |-> {}, who |-> {t}, todo |-> {},
                   copy |-> [x \in {t} |-> login[t]]]
    BY <1>5 DEF LoadTeacher, NoReview
  <2> QED
    BY <1>5, <2>1, NoNewClaims DEF LoadTeacher, people, Claims, Named
<1>6. ASSUME NEW t \in Teachers, DisableTeacher(t) \/ ApproveJoins(t) PROVE Owned'
  <2>1. DOMAIN accounts' = DOMAIN accounts
    BY <1>6, SetTypes DEF DisableTeacher, ApproveJoins
  <2> QED
    BY <1>6, <2>1, NoNewClaims DEF DisableTeacher, ApproveJoins, NextReview, Claims, Named
<1>7. ASSUME NEW t \in Teachers, RejectTeacher(t) \/ ApproveTeacher(t) PROVE Owned'
  <2>1. t \in DOMAIN review.copy
    BY <1>7 DEF RejectTeacher, ApproveTeacher
  <2> QED
    BY <1>7, <2>1, StoreTeacherClaims DEF RejectTeacher, ApproveTeacher, Claims
<1>8. ASSUME NEW t \in Teachers, ApproveCreates(t) PROVE Owned'
  <2>1. CASE Named(t) \in DOMAIN accounts
    BY <1>8, <2>1, NoNewClaims DEF ApproveCreates, NoReview, Claims, Named
  <2>2. CASE Named(t) \notin DOMAIN accounts
    <3>1. DOMAIN accounts' = DOMAIN accounts \union {Named(t)}
      BY <1>8, <2>2 DEF ApproveCreates, With
    <3>2. \A u \in Teachers, a \in AccountIds :
             Claims(u, a)' => Claims(u, a) \/ (u = t /\ a = Named(t) /\ a \notin DOMAIN accounts)
      BY <1>8, <2>2 DEF ApproveCreates, NextReview, Claims, Named
    <3> QED
      BY <3>1, <3>2, ClaimsStep DEF Owned
  <2> QED
    BY <2>1, <2>2
<1>9. ASSUME NEW t \in Teachers, ApproveLinks(t) PROVE Owned'
  BY <1>9, StoreTeacherClaims DEF ApproveLinks, Claims
<1> QED
  BY <1>1, <1>2, <1>3, <1>4, <1>5, <1>6, <1>7, <1>8, <1>9 DEF Reviewing

LEMMA OwnedAdministering == ASSUME Rows, Owned, Administering PROVE Owned'
<1> USE DEF Rows, Types, PeopleTypes, RequestTypes
<1>1. ASSUME NEW s \in Schools, DeleteSchool(s) PROVE Owned'
  BY <1>1, NoNewClaims DEF DeleteSchool, Panel, Page, Claims, Named
<1>2. ASSUME NEW s \in Schools, NEW status \in Statuses, SetSchool(s, status) PROVE Owned'
  <2>1. DOMAIN accounts' = DOMAIN accounts
    BY <1>2, DisabledTypes DEF SetSchool
  <2> QED
    BY <1>2, <2>1, NoNewClaims DEF SetSchool, Panel, Page, Claims, Named
<1>3. ASSUME NEW t \in Teachers, DeleteTeacher(t) PROVE Owned'
  BY <1>3, NoNewClaims, NoLoginIsNoAccount DEF DeleteTeacher, Panel, Page, Claims, Named
<1>4. ASSUME NEW t \in Teachers, NEW status \in Statuses, SetTeacher(t, status) PROVE Owned'
  <2>1. UNCHANGED <<signup, review>>
    BY <1>4 DEF SetTeacher, Panel, Page
  <2>2. CASE UNCHANGED login /\ DOMAIN accounts' = DOMAIN accounts
    BY <2>1, <2>2, NoNewClaims DEF Claims, Named
  <2>3. ASSUME NEW b \in AccountIds, FreeName(t, b), login' = [login EXCEPT ![t] = b],
               DOMAIN accounts' = DOMAIN accounts \union {b}
        PROVE  Owned'
    <3>1. \A u \in Teachers, a \in AccountIds :
             Claims(u, a)' => Claims(u, a) \/ (u = t /\ a = b /\ a \notin DOMAIN accounts)
      BY <2>1, <2>3 DEF Claims, Named, FreeName
    <3> QED
      BY <2>3, <3>1, ClaimsStep DEF Owned
  <2>4. accounts' = Disabled({t}) => DOMAIN accounts' = DOMAIN accounts
    BY DEF Disabled
  <2>5. accounts' = Set(login[t], "active", TRUE) => DOMAIN accounts' = DOMAIN accounts
    BY SetTypes
  <2>6. \A b : accounts' = With(b, [active |-> TRUE, staff |-> FALSE, group |-> FALSE]) =>
                  DOMAIN accounts' = DOMAIN accounts \union {b}
    BY DEF With
  <2> QED
    BY <1>4, <2>2, <2>3, <2>4, <2>5, <2>6 DEF SetTeacher
<1>5. ASSUME NEW t \in Teachers, NEW chosen \in SUBSET Schools, SetSchools(t, chosen)
      PROVE  Owned'
  BY <1>5, NoNewClaims DEF SetSchools, Panel, Page, Claims, Named
<1>6. ASSUME ClearData PROVE Owned'
  BY <1>6, NoLoginIsNoAccount
  DEF ClearData, Panel, Page, NoReview, NoSignup, Owned, Claims, Named
<1>7. ASSUME ClassPage PROVE Owned'
  <2>1. UNCHANGED <<people, signup, review>>
    BY <1>7, ClassPageLeaves
  <2> QED
    BY <2>1, NoNewClaims DEF people, Claims, Named
<1> QED
  BY <1>1, <1>2, <1>3, <1>4, <1>5, <1>6, <1>7 DEF Administering, ClassPage

LEMMA OwnedStep == ASSUME Rows, Owned, [Next]_vars PROVE Owned'
<1>1. UNCHANGED <<people, signup, review>> => Owned'
  BY NoNewClaims DEF people, Claims, Named
<1>2. ClassPage => UNCHANGED <<people, signup, review>>
  BY ClassPageLeaves
<1> QED
  BY <1>1, <1>2, OwnedRegistering, OwnedReviewing, OwnedAdministering DEF Next, ClassPage, vars

\* No account is ever linked to two teachers, although registration and approval
\* both create accounts from the front of the email, in several writes, and
\* whoever is between two of them (views.py, models.py).
THEOREM OneOwner == Spec => []OneTeacherPerAccount
<1>1. Rows /\ Owned => OneTeacherPerAccount
  BY DEF Rows, Types, PeopleTypes, Logins, Owned, Claims, OneTeacherPerAccount
<1> QED
  BY <1>1, RowsInit, RowsStep, OwnedInit, OwnedStep, PTL DEF Spec

-------------------------------------------------------------------------------
(* A rejected teacher is locked out.                                       *)

LockedOut == RejectedIsLockedOut /\ Copies /\ Closing

(* No account is opened but by a new owner.                                *)
Kept ==
    \A a \in DOMAIN accounts :
        a \in DOMAIN accounts' /\ (accounts'[a].active => accounts[a].active)

LEMMA KeptLocked ==
    ASSUME Rows, Owned, Kept, NEW t \in Teachers, login'[t] = login[t], Locked(t)
    PROVE  Locked(t)'
<1>1. CASE login[t] = NoLogin
  BY <1>1 DEF Locked, Has
<1>2. CASE login[t] # NoLogin
  <2>1. login[t] \in DOMAIN accounts
    BY <1>2 DEF Rows, Types, PeopleTypes, Logins, Owned, Claims
  <2> QED
    BY <1>2, <2>1 DEF Locked, Has, Kept
<1> QED
  BY <1>1, <1>2

LEMMA WithKept == ASSUME NEW a, NEW r, a \notin DOMAIN accounts, accounts' = With(a, r) PROVE Kept
BY DEF Kept, With

LEMMA SetKept ==
    ASSUME Rows, NEW a, NEW field \in {"active", "group"}, NEW value \in BOOLEAN,
           field = "active" => ~value, accounts' = Set(a, field, value)
    PROVE  Kept
<1>1. CASE a \in DOMAIN accounts
  <2>1. accounts' = With(a, [accounts[a] EXCEPT ![field] = value])
    BY <1>1 DEF Set
  <2>2. [accounts[a] EXCEPT ![field] = value].active => accounts[a].active
    BY <1>1 DEF Rows, Types, AccountTypes, Account
  <2> QED
    BY <1>1, <2>1, <2>2 DEF Kept, With
<1>2. CASE a \notin DOMAIN accounts
  BY <1>2 DEF Set, Kept
<1> QED
  BY <1>1, <1>2

LEMMA DisabledKept == ASSUME Rows, NEW S, accounts' = Disabled(S) PROVE Kept
<1>1. \A a \in DOMAIN accounts : ~[accounts[a] EXCEPT !.active = FALSE].active
  BY DEF Rows, Types, AccountTypes, Account
<1> QED
  BY <1>1 DEF Disabled, Kept

LEMMA DisabledLocked ==
    ASSUME Rows, Owned, NEW t \in Teachers, NEW a, a = login[t],
           accounts' = Set(a, "active", FALSE), login'[t] = login[t]
    PROVE  Locked(t)'
<1>1. CASE login[t] = NoLogin
  BY <1>1 DEF Locked, Has
<1>2. CASE login[t] # NoLogin
  <2>1. login[t] \in DOMAIN accounts
    BY <1>2 DEF Rows, Types, PeopleTypes, Logins, Owned, Claims
  <2>2. ~[accounts[a] EXCEPT !["active"] = FALSE].active
    BY <2>1 DEF Rows, Types, AccountTypes, Account
  <2> QED
    BY <2>1, <2>2 DEF Locked, Has, Set, With
<1> QED
  BY <1>1, <1>2

(* A step that opens nothing, after which who is rejected was rejected or  *)
(* is locked out.                                                          *)
LEMMA LockStep ==
    ASSUME Rows, Owned, RejectedIsLockedOut, Kept, overtaken \subseteq overtaken',
           \A t \in Teachers \ overtaken' : teacher'[t] = "REJECTED" =>
              \/ (teacher[t] = "REJECTED" \/ Locked(t)) /\ login'[t] = login[t]
              \/ Locked(t)'
    PROVE  RejectedIsLockedOut'
BY KeptLocked DEF RejectedIsLockedOut, Locked

LEMMA RegisteringKept == ASSUME Rows, Registering PROVE Kept
<1>1. CASE UNCHANGED accounts
  BY <1>1 DEF Kept
<1>2. ASSUME NEW t \in Teachers, CreateAccount(t) PROVE Kept
  BY <1>1, <1>2, WithKept DEF CreateAccount
<1>3. ASSUME NEW t \in Teachers, JoinGroup(t) PROVE Kept
  BY <1>3, SetKept DEF JoinGroup
<1> QED
  BY <1>1, <1>2, <1>3
  DEF Registering, SubmitSchool, StoreSchool, SubmitTeacher, Assign, LinkAccount, SignupDies, people

(* Registrations: whoever's row they write is excepted or is not rejected. *)
LEMMA LockedRegistering ==
    ASSUME Rows, Owned, LockedOut, Registering
    PROVE  LockedOut'
<1> USE DEF Rows, Types, PeopleTypes, RequestTypes
<1>1. Kept
  BY RegisteringKept
<1>2. /\ UNCHANGED review /\ overtaken \subseteq overtaken'
      /\ \A t \in Teachers : teacher'[t] = "REJECTED" =>
            teacher[t] = "REJECTED" /\ login'[t] = login[t]
      /\ \A t \in DOMAIN review.copy \ overtaken' : login'[t] = login[t]
  <2>1. CASE UNCHANGED <<teacher, login, review, overtaken>>
    BY <2>1
  <2>2. ASSUME NEW t \in Teachers, LinkAccount(t) PROVE <1>2!:
    BY <2>2 DEF LinkAccount, Overtakes
  <2>3. ASSUME NEW t \in Teachers, Assign(t) PROVE <1>2!:
    BY <2>3 DEF Assign, Overtakes
  <2>4. ASSUME NEW t \in Teachers, NEW chosen, SubmitTeacher(t, chosen) PROVE <1>2!:
    BY <2>4 DEF SubmitTeacher, history
  <2> QED
    BY <2>1, <2>2, <2>3, <2>4
    DEF Registering, SubmitSchool, StoreSchool, CreateAccount, JoinGroup, SignupDies, people, history
<1>3. RejectedIsLockedOut'
  BY <1>1, <1>2, LockStep DEF LockedOut
<1>4. Copies'
  BY <1>2 DEF LockedOut, Copies
<1>5. Closing'
  BY <1>1, <1>2, KeptLocked DEF LockedOut, Closing, Reviews
<1> QED
  BY <1>3, <1>4, <1>5 DEF LockedOut

(* The end of a review's request leaves nothing half done.                 *)
LEMMA ReviewOver == ASSUME review' = NoReview PROVE Copies' /\ Closing'
BY DEF NoReview, Copies, Closing

LEMMA LockedReviewing ==
    ASSUME Rows, Owned, LockedOut, Reviewing
    PROVE  LockedOut'
<1> USE DEF Rows, Types, PeopleTypes, RequestTypes, Reviews
<1>1. CASE UNCHANGED people /\ UNCHANGED overtaken /\ review' = NoReview
  <2>1. RejectedIsLockedOut'
    BY <1>1 DEF LockedOut, RejectedIsLockedOut, Has, people
  <2> QED
    BY <1>1, <2>1, ReviewOver DEF LockedOut
<1>2. ASSUME NEW s \in Schools, ApproveSchool(s) \/ RejectSchool(s) PROVE LockedOut'
  <2>1. RejectedIsLockedOut'
    BY <1>2 DEF ApproveSchool, RejectSchool, LockedOut, RejectedIsLockedOut, Has, history
  <2>2. Copies' /\ Closing'
    BY <1>2 DEF ApproveSchool, RejectSchool, LockedOut, Copies, Closing, Locked, Has, NoReview,
                history
  <2> QED
    BY <2>1, <2>2 DEF LockedOut
<1>3. ASSUME NEW t \in Teachers, Cascade(t) PROVE LockedOut'
  <2>1. CASE OnlySchool(t)
    <3>1. /\ review' = [review EXCEPT !.stage = "mark", !.who = {t}, !.todo = @ \ {t}]
          /\ accounts' = Set(review.copy[t], "active", FALSE)
          /\ UNCHANGED <<teacher, login, overtaken>>
      BY <1>3, <2>1 DEF Cascade, history
    <3>2. review'.copy = review.copy /\ review'.who = {t} /\ t \in DOMAIN review.copy
      BY <1>3, <3>1 DEF Cascade
    <3>3. RejectedIsLockedOut'
      BY <3>1, SetKept, LockStep DEF LockedOut
    <3>4. t \notin overtaken => Locked(t)'
      BY <3>1, <3>2, DisabledLocked DEF LockedOut, Copies
    <3>5. Copies' /\ Closing'
      BY <3>1, <3>2, <3>4 DEF LockedOut, Copies, Closing
    <3> QED
      BY <3>3, <3>5 DEF LockedOut
  <2>2. CASE ~OnlySchool(t)
    <3>1. review' = [review EXCEPT !.todo = @ \ {t}] /\ UNCHANGED <<teacher, login, accounts, overtaken>>
      BY <1>3, <2>2 DEF Cascade, history
    <3>2. review'.copy = review.copy /\ review'.stage = "cascade"
      BY <1>3, <3>1 DEF Cascade
    <3> QED
      BY <3>1, <3>2 DEF LockedOut, RejectedIsLockedOut, Copies, Closing, Has
  <2> QED
    BY <2>1, <2>2
<1>4. ASSUME NEW t \in Teachers, CascadeMarks(t) PROVE LockedOut'
  <2>1. /\ teacher' = [teacher EXCEPT ![t] = "REJECTED"] /\ UNCHANGED <<login, accounts, overtaken>>
        /\ review'.copy = review.copy /\ review'.stage = "cascade"
        /\ review.stage = "mark" /\ review.who = {t}
    BY <1>4 DEF CascadeMarks, history
  <2>2. t \notin overtaken => Locked(t)
    BY <2>1 DEF LockedOut, Closing
  <2>3. RejectedIsLockedOut'
    BY <2>1, <2>2 DEF LockedOut, RejectedIsLockedOut, Locked, Has
  <2> QED
    BY <2>1, <2>3 DEF LockedOut, Copies, Closing
<1>5. ASSUME NEW t \in Teachers, NEW stage \in {"disable", "approve"}, LoadTeacher(t, stage)
      PROVE  LockedOut'
  <2>1. /\ review' = [stage |-> stage, school |-> {}, who |-> {t}, todo |-> {},
                      copy |-> [x \in {t} |-> login[t]]]
        /\ UNCHANGED <<people, overtaken>>
    BY <1>5 DEF LoadTeacher, NoReview, history
  <2> QED
    BY <2>1 DEF LockedOut, RejectedIsLockedOut, Copies, Closing, Has, people
<1>6. ASSUME NEW t \in Teachers, DisableTeacher(t) PROVE LockedOut'
  <2>1. /\ accounts' = Set(review.copy[t], "active", FALSE)
        /\ review'.copy = review.copy /\ review'.who = {t} /\ t \in DOMAIN review.copy
        /\ UNCHANGED <<teacher, login, overtaken>>
    BY <1>6 DEF DisableTeacher, NextReview, history
  <2>2. RejectedIsLockedOut'
    BY <2>1, SetKept, LockStep DEF LockedOut
  <2>3. t \notin overtaken => Locked(t)'
    BY <2>1, DisabledLocked DEF LockedOut, Copies
  <2> QED
    BY <2>1, <2>2, <2>3 DEF LockedOut, Copies, Closing
<1>7. ASSUME NEW t \in Teachers, RejectTeacher(t) PROVE LockedOut'
  <2>1. /\ teacher' = [teacher EXCEPT ![t] = "REJECTED"]
        /\ login' = [login EXCEPT ![t] = review.copy[t]]
        /\ review' = NoReview /\ UNCHANGED <<accounts, overtaken>>
        /\ review.stage = "reject" /\ review.who = {t}
    BY <1>7 DEF RejectTeacher, StoreTeacher, history
  <2>2. t \notin overtaken => Locked(t) /\ login'[t] = login[t]
    BY <2>1 DEF LockedOut, Closing, Copies
  <2>3. RejectedIsLockedOut'
    BY <2>1, <2>2, LockStep DEF LockedOut, Kept
  <2> QED
    BY <2>1, <2>3, ReviewOver DEF LockedOut
<1>8. ASSUME NEW t \in Teachers, NEW a, StoreTeacher(t, "APPROVED", a) PROVE LockedOut'
  <2>1. RejectedIsLockedOut'
    BY <1>8, LockStep DEF StoreTeacher, LockedOut, Kept, history
  <2> QED
    BY <1>8, <2>1, ReviewOver DEF StoreTeacher, LockedOut
<1>9. ASSUME NEW t \in Teachers, ApproveCreates(t) \/ ApproveJoins(t) PROVE LockedOut'
  <2>1. Kept
    BY <1>9, WithKept, SetKept DEF ApproveCreates, ApproveJoins, Kept
  <2>2. /\ UNCHANGED <<teacher, login, overtaken>>
        /\ review' = NoReview \/ (review'.copy = review.copy /\ review'.stage \in {"group", "link"})
    BY <1>9 DEF ApproveCreates, ApproveJoins, NextReview, history
  <2>3. RejectedIsLockedOut'
    BY <2>1, <2>2, LockStep DEF LockedOut
  <2> QED
    BY <2>2, <2>3, ReviewOver DEF LockedOut, Copies, Closing
<1> QED
  BY <1>1, <1>2, <1>3, <1>4, <1>5, <1>6, <1>7, <1>8, <1>9
  DEF Reviewing, CascadeEnds, ReviewDies, ApproveTeacher, ApproveLinks, history

LEMMA LockedAdministering ==
    ASSUME Rows, Owned, LockedOut, Panel,
           \/ \E s \in Schools : DeleteSchool(s) \/ \E status \in Statuses : SetSchool(s, status)
           \/ \E t \in Teachers :
                 \/ DeleteTeacher(t)
                 \/ \E status \in Statuses : SetTeacher(t, status)
                 \/ \E chosen \in SUBSET Schools : SetSchools(t, chosen)
           \/ ClearData
    PROVE  LockedOut'
<1> USE DEF Rows, Types, PeopleTypes, RequestTypes, Statuses
<1>1. Copies' /\ Closing' /\ overtaken' = overtaken
  BY ReviewOver DEF Panel, Page
<1> SUFFICES RejectedIsLockedOut'
  BY <1>1 DEF LockedOut
<1>2. CASE UNCHANGED <<teacher, login, accounts>>
  BY <1>1, <1>2 DEF LockedOut, RejectedIsLockedOut, Has
<1>3. ASSUME NEW s \in Schools, NEW status \in Statuses, SetSchool(s, status)
      PROVE  RejectedIsLockedOut'
  <2> DEFINE gone == IF status = "REJECTED" THEN {t \in At(s) : OnlySchool(t)} ELSE {}
  <2>1. /\ teacher' = [t \in Teachers |-> IF t \in gone THEN "REJECTED" ELSE teacher[t]]
        /\ accounts' = Disabled(gone) /\ UNCHANGED login
    BY <1>3 DEF SetSchool
  <2>2. ASSUME NEW t \in gone PROVE Locked(t)'
    <3>1. t \in Teachers
      BY DEF At
    <3>2. login[t] # NoLogin => login[t] \in DOMAIN accounts
      BY <3>1 DEF Logins, Owned, Claims
    <3>3. login[t] \in DOMAIN accounts => ~[accounts[login[t]] EXCEPT !.active = FALSE].active
      BY DEF AccountTypes, Account
    <3> QED
      BY <2>1, <3>1, <3>2, <3>3 DEF Locked, Has, Disabled
  <2> QED
    BY <1>1, <2>1, <2>2, DisabledKept, LockStep DEF LockedOut
<1>4. ASSUME NEW t \in Teachers, DeleteTeacher(t) PROVE RejectedIsLockedOut'
  BY <1>1, <1>4, LockStep DEF DeleteTeacher, LockedOut, Kept
<1>5. ASSUME NEW t \in Teachers, NEW status \in Statuses, SetTeacher(t, status)
      PROVE  RejectedIsLockedOut'
  <2>1. teacher' = [teacher EXCEPT ![t] = status] /\ teacher[t] # "none"
    BY <1>5 DEF SetTeacher
  <2>2. CASE status = "REJECTED" /\ accounts' = Disabled({t}) /\ UNCHANGED login
    <3>1. login[t] # NoLogin => login[t] \in DOMAIN accounts
      BY DEF Logins, Owned, Claims
    <3>2. login[t] \in DOMAIN accounts => ~[accounts[login[t]] EXCEPT !.active = FALSE].active
      BY DEF AccountTypes, Account
    <3>3. Locked(t)'
      BY <2>2, <3>1, <3>2 DEF Locked, Has, Disabled
    <3> QED
      BY <1>1, <2>1, <2>2, <3>3, DisabledKept, LockStep DEF LockedOut
  <2>3. CASE /\ status = "APPROVED" /\ login[t] # NoLogin /\ UNCHANGED login
             /\ accounts' = Set(login[t], "active", TRUE)
    <3>1. ASSUME NEW u \in Teachers \ overtaken, teacher'[u] = "REJECTED" PROVE Locked(u)'
      <4>1. u # t /\ Locked(u)
        BY <2>1, <2>3, <3>1 DEF LockedOut, RejectedIsLockedOut, Locked
      <4>2. login[u] # login[t]
        BY <2>3, <4>1 DEF Logins, Owned, Claims
      <4>3. login[u] # NoLogin => login[u] \in DOMAIN accounts
        BY DEF Logins, Owned, Claims
      <4> QED
        BY <2>3, <4>1, <4>2, <4>3 DEF Locked, Has, Set, With
    <3> QED
      BY <1>1, <3>1 DEF RejectedIsLockedOut, Locked
  <2>4. ASSUME NEW a \in AccountIds, FreeName(t, a), status = "APPROVED",
               accounts' = With(a, [active |-> TRUE, staff |-> FALSE, group |-> FALSE]),
               login' = [login EXCEPT ![t] = a]
        PROVE  RejectedIsLockedOut'
    <3>1. Kept
      BY <2>4, WithKept DEF FreeName
    <3> QED
      BY <1>1, <2>1, <2>4, <3>1, LockStep DEF LockedOut
  <2>5. CASE status # "REJECTED" /\ UNCHANGED <<login, accounts>>
    BY <1>1, <2>1, <2>5, LockStep DEF LockedOut, Kept
  <2> QED
    BY <1>5, <2>2, <2>3, <2>4, <2>5 DEF SetTeacher
<1>6. ASSUME ClearData PROVE RejectedIsLockedOut'
  BY <1>6 DEF ClearData, RejectedIsLockedOut
<1> QED
  BY <1>2, <1>3, <1>4, <1>5, <1>6 DEF DeleteSchool, SetSchools

LEMMA LockedStep == ASSUME Rows, Owned, LockedOut, [Next]_vars PROVE LockedOut'
<1>1. CASE UNCHANGED <<people, review, overtaken>>
  BY <1>1 DEF people, LockedOut, RejectedIsLockedOut, Copies, Closing, Locked, Has
<1>2. ClassPage \/ UNCHANGED vars => UNCHANGED <<people, review, overtaken>>
  BY ClassPageLeaves DEF vars, history
<1> QED
  BY <1>1, <1>2, LockedRegistering, LockedReviewing, LockedAdministering
  DEF Next, Administering, ClassPage, DeleteSchool, SetSchool, DeleteTeacher, SetTeacher, SetSchools,
      ClearData

\* Whichever view or page rejects a teacher, and wherever a request dies, a
\* rejected teacher's account is inactive, except for those whose registration
\* was still writing while the rejection held a copy of the row (views.py and
\* the save() methods of models.py disable the account before the status).
THEOREM LockedOutWhenRejected == Spec => []RejectedIsLockedOut
<1>1. Init => LockedOut
  BY DEF Init, NoReview, LockedOut, RejectedIsLockedOut, Copies, Closing
<1>2. LockedOut => RejectedIsLockedOut
  BY DEF LockedOut
<1> QED
  BY <1>1, <1>2, RowsInit, RowsStep, OwnedInit, OwnedStep, LockedStep, PTL DEF Spec

-------------------------------------------------------------------------------
(* The cascade of a rejected school.                                       *)

(* teacher.schools.count() == 1 of a teacher of the school.                *)
LEMMA OnlySchoolIsThis ==
    ASSUME Rows, NEW t \in Teachers, NEW s \in works[t]
    PROVE  OnlySchool(t) <=> works[t] = {s}
<1>1. IsFiniteSet(works[t])
  BY AccountsAssumption, FS_Subset DEF Rows, Types, PeopleTypes, AccountsAssumption
<1>2. Cardinality({s}) = 1
  BY FS_Singleton
<1>3. ASSUME Cardinality(works[t]) = 1 PROVE works[t] = {s}
  <2>1. PICK x : works[t] = {x}
    BY <1>1, <1>3, FS_Singleton
  <2> QED
    BY <2>1
<1> QED
  BY <1>2, <1>3 DEF OnlySchool

(* A step of others while the request is open.                             *)
LEMMA CascadeBystander ==
    ASSUME Rows, Cascading, UNCHANGED review, overtaken \subseteq overtaken',
           \A t \in DOMAIN review.copy \ overtaken' :
              /\ works'[t] = works[t]
              /\ teacher[t] = "REJECTED" => teacher'[t] = "REJECTED"
    PROVE  Cascading'
<1> SUFFICES ASSUME review.stage \in {"cascade", "mark"} PROVE Cascading'
  BY DEF Cascading
<1>1. review.who \subseteq DOMAIN review.copy
  BY DEF Rows, Types, RequestTypes, Reviews
<1> QED
  BY <1>1 DEF Cascading, Reached

LEMMA CascadingRegistering == ASSUME Rows, Cascading, Registering PROVE Cascading'
<1> USE DEF Rows, Types, PeopleTypes
<1> DEFINE Aside == /\ UNCHANGED review /\ overtaken \subseteq overtaken'
                    /\ \A t \in DOMAIN review.copy \ overtaken' :
                          /\ works'[t] = works[t]
                          /\ teacher[t] = "REJECTED" => teacher'[t] = "REJECTED"
<1>1. ASSUME UNCHANGED <<teacher, works, review, overtaken>> PROVE Aside
  BY <1>1
<1>2. ASSUME NEW t \in Teachers, LinkAccount(t) PROVE Aside
  BY <1>2 DEF LinkAccount, Overtakes
<1>3. ASSUME NEW t \in Teachers, Assign(t) PROVE Aside
  <2>1. works' = works \/ \E s \in Schools \union signup[t].todo :
                            works' = [works EXCEPT ![t] = @ \union {s}]
    BY <1>3 DEF Assign
  <2>2. \A u \in Teachers \ {t} : works'[u] = works[u]
    BY <2>1
  <2>3. /\ UNCHANGED <<teacher, review>>
        /\ overtaken' = IF t \in DOMAIN review.copy THEN overtaken \union {t} ELSE overtaken
    BY <1>3 DEF Assign, Overtakes
  <2>4. DOMAIN review.copy \subseteq Teachers
    BY DEF RequestTypes, Reviews
  <2> QED
    BY <2>2, <2>3, <2>4
<1>4. ASSUME NEW t \in Teachers, NEW chosen, SubmitTeacher(t, chosen) PROVE Aside
  BY <1>4 DEF SubmitTeacher, history
<1>5. Aside
  BY <1>1, <1>2, <1>3, <1>4
  DEF Registering, SubmitSchool, StoreSchool, CreateAccount, JoinGroup, SignupDies, people, history
<1> QED
  BY <1>5, CascadeBystander

LEMMA CascadingReviewing == ASSUME Rows, Cascading, Reviewing PROVE Cascading'
<1> USE DEF Rows, Types, PeopleTypes, RequestTypes, Reviews
<1>1. CASE review'.stage \notin {"cascade", "mark"}
  BY <1>1 DEF Cascading
<1>2. ASSUME NEW s \in Schools, RejectSchool(s) PROVE Cascading'
  <2>1. /\ review' = [stage |-> "cascade", school |-> {s}, who |-> {}, todo |-> At(s),
                      copy |-> [t \in At(s) |-> login[t]]]
        /\ UNCHANGED <<works, overtaken>>
    BY <1>2 DEF RejectSchool, history
  <2> QED
    BY <2>1 DEF Cascading, Reached, At
<1>3. ASSUME NEW t \in Teachers, Cascade(t) PROVE Cascading'
  <2>1. PICK s \in Schools : review.school = {s}
    BY <1>3 DEF Cascade, Cascading
  <2>2. /\ UNCHANGED <<teacher, works, overtaken>> /\ t \in DOMAIN review.copy
        /\ review.stage = "cascade"
    BY <1>3 DEF Cascade, history
  <2>3. t \notin overtaken => (OnlySchool(t) <=> works[t] = review.school)
    BY <2>1, <2>2, OnlySchoolIsThis DEF Cascading
  <2>4. CASE OnlySchool(t)
    <3>1. review' = [review EXCEPT !.stage = "mark", !.who = {t}, !.todo = @ \ {t}]
      BY <1>3, <2>4 DEF Cascade
    <3>2. /\ review'.stage = "mark" /\ review'.who = {t} /\ review'.todo = review.todo \ {t}
          /\ review'.copy = review.copy /\ review'.school = review.school
      BY <3>1
    <3> QED
      BY <2>1, <2>2, <2>3, <2>4, <3>2 DEF Cascading, Reached
  <2>5. CASE ~OnlySchool(t)
    <3>1. review' = [review EXCEPT !.todo = @ \ {t}]
      BY <1>3, <2>5 DEF Cascade
    <3>2. /\ review'.stage = "cascade" /\ review'.todo = review.todo \ {t}
          /\ review'.copy = review.copy /\ review'.school = review.school
      BY <2>2, <3>1
    <3> QED
      BY <2>1, <2>2, <2>3, <2>5, <3>2 DEF Cascading, Reached
  <2> QED
    BY <2>4, <2>5
<1>4. ASSUME NEW t \in Teachers, CascadeMarks(t) PROVE Cascading'
  <2>1. /\ review'.stage = "cascade" /\ UNCHANGED <<works, overtaken>>
        /\ review'.copy = review.copy /\ review'.school = review.school
        /\ review'.todo = review.todo
        /\ teacher' = [teacher EXCEPT ![t] = "REJECTED"]
        /\ review.stage = "mark" /\ review.who = {t}
    BY <1>4 DEF CascadeMarks, history
  <2> QED
    BY <2>1 DEF Cascading, Reached
<1>5. ASSUME NEW s \in Schools, ApproveSchool(s) PROVE review'.stage \notin {"cascade", "mark"}
  BY <1>5 DEF ApproveSchool, NoReview
<1>6. ASSUME NEW t \in Teachers, NEW stage \in {"disable", "approve"}, LoadTeacher(t, stage)
      PROVE  review'.stage \notin {"cascade", "mark"}
  <2>1. review' = [stage |-> stage, school |-> {}, who |-> {t}, todo |-> {},
                   copy |-> [x \in {t} |-> login[t]]]
    BY <1>6 DEF LoadTeacher, NoReview
  <2> QED
    BY <2>1
<1>7. ASSUME NEW t \in Teachers,
             \/ DisableTeacher(t) \/ RejectTeacher(t) \/ ApproveTeacher(t) \/ ApproveCreates(t)
             \/ ApproveJoins(t) \/ ApproveLinks(t)
      PROVE  review'.stage \notin {"cascade", "mark"}
  <2>1. review' = NoReview \/ \E stage \in {"reject", "group", "link"} : NextReview(stage)
    BY <1>7 DEF DisableTeacher, RejectTeacher, ApproveTeacher, StoreTeacher, ApproveCreates,
                ApproveJoins, ApproveLinks
  <2>2. ASSUME NEW stage, NextReview(stage) PROVE review'.stage = stage
    BY <2>2 DEF NextReview
  <2> QED
    BY <2>1, <2>2 DEF NoReview
<1>8. ASSUME CascadeEnds \/ ReviewDies PROVE review'.stage \notin {"cascade", "mark"}
  BY <1>8 DEF CascadeEnds, ReviewDies, NoReview
<1> QED
  BY <1>1, <1>2, <1>3, <1>4, <1>5, <1>6, <1>7, <1>8 DEF Reviewing

LEMMA CascadingStep == ASSUME Rows, Cascading, [Next]_vars PROVE Cascading'
<1>1. Panel => Cascading'
  BY DEF Panel, Page, NoReview, Cascading
<1>2. CASE UNCHANGED <<people, review, overtaken>>
  BY <1>2, CascadeBystander DEF people
<1>3. ClassPage \/ UNCHANGED vars => UNCHANGED <<people, review, overtaken>>
  BY ClassPageLeaves DEF vars, history
<1> QED
  BY <1>1, <1>2, <1>3, CascadingRegistering, CascadingReviewing
  DEF Next, Administering, ClassPage, DeleteSchool, SetSchool, DeleteTeacher, SetTeacher, SetSchools,
      ClearData

LEMMA CascadeHolds ==
    ASSUME Rows, Cascading
    PROVE  /\ CascadeEnds => \A t \in DOMAIN review.copy :
                 works[t] = review.school /\ t \notin overtaken => teacher[t] = "REJECTED"
           /\ \A t \in Teachers : CascadeMarks(t) /\ t \notin overtaken => works[t] = review.school
BY DEF CascadeEnds, CascadeMarks, Cascading, Reached

\* reject_school reaches all the teachers it found who work nowhere else, and
\* marks nobody who does, though registrations add schools meanwhile: who is
\* excepted wrote a row the request had loaded (views.py, models.py).
THEOREM CascadeReaches == Spec => CascadeReachesItsTeachers
<1>1. Init => Cascading
  BY DEF Init, NoReview, Cascading
<1>2. Rows /\ Cascading /\ [Next]_vars =>
         [/\ CascadeEnds => \A t \in DOMAIN review.copy :
                works[t] = review.school /\ t \notin overtaken => teacher[t] = "REJECTED"
          /\ \A t \in Teachers :
                CascadeMarks(t) /\ t \notin overtaken => works[t] = review.school]_vars
  BY CascadeHolds
<1> QED
  BY <1>1, <1>2, RowsInit, RowsStep, CascadingStep, PTL DEF Spec, CascadeReachesItsTeachers
===============================================================================
