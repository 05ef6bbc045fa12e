--------------------------- MODULE UserApiProofs ----------------------------
(***************************************************************************)
(* Theorems about UserApi for all values of its constants.                 *)
(*                                                                         *)
(* The inductive invariant has a part about the tables, which the          *)
(* statements keep, and a part about the requests in progress, which the   *)
(* handlers keep.  StepForms brings every step of a handler, its failures  *)
(* included, into one of four forms: which statement it ran and what it    *)
(* answered.  From there the invariant and the registers are each argued   *)
(* statement by statement.                                                 *)
(***************************************************************************)
EXTENDS UserApi, TLAPS

\* Only ids that were handed out are in the table.
UsersAreUsed == \A id \in Ids : users[id] # None => id \in used

TablesOK ==
    /\ users \in [Ids -> Emails \cup {None}]
    /\ profiles \in [Pids -> Profile \cup {None}]
    /\ used \subseteq Ids
    /\ UsersAreUsed /\ ProfilesHaveUsers /\ RowsAreUnique

\* A request between its two statements has its user and body.
Holding == \A h \in Requests : at[h] \in {"insert", "readback"} =>
                                  arg[h] \in [user : Ids, data : Data]

\* A request has an answer only once it is answered.
AnswersAreNew == \A h \in Requests : at[h] # "answered" => answer[h] = None

RequestsOK ==
    /\ at \in [Requests -> {"idle", "insert", "readback", "answered"}]
    /\ arg \in [Requests -> [user : Ids, data : Data] \cup {None}]
    /\ answer \in [Requests -> Answer \cup {None}]
    /\ Holding /\ AnswersAreNew

IInv == TablesOK /\ RequestsOK

LEMMA InitIInv == Init => IInv
BY DEF Init, IInv, TablesOK, UsersAreUsed, ProfilesHaveUsers, RowsAreUnique,
       RequestsOK, Holding, AnswersAreNew

-----------------------------------------------------------------------------
(* The forms of a step                                                     *)

Acked == {"createUser", "deleteUser", "createProfile", "deleteProfile"}

\* What the request op has done to the tables when it is answered: nothing,
\* and then it does not say otherwise, or its statement.
Outcome(op, done) ==
    \/ UNCHANGED tables /\ (op \in Acked => ~done)
    \/ /\ op = "createUser" /\ (done \/ Faulty)
       /\ \E id \in Ids \ used, email \in Emails : InsertUser(id, email)
    \/ /\ op = "deleteUser" /\ (done \/ Faulty)
       /\ \E id \in Ids : DeleteUserRow(id)
    \/ /\ op = "createProfile" /\ (done \/ Faulty)
       /\ \E row \in [user : Ids, data : Data] : InsertRow(row)
    \/ /\ op = "deleteProfile" /\ (done \/ Faulty)
       /\ \E id \in Ids : DeleteRow(id)
    \/ /\ op = "updateUser"
       /\ \E id \in Ids, email \in Emails : UpdateUserRow(id, email)
    \/ /\ op = "updateProfile"
       /\ \E row \in [user : Ids, data : Data] : UpdateRow(row)

Done(status) == status \in {201, 204}

Answers(h) ==
    /\ at[h] # "answered"
    /\ \E op, status, cause, body :
          /\ [op |-> op, status |-> status, cause |-> cause, body |-> body]
                \in Answer
          /\ AnswerWith(h, op, status, cause, body)
          /\ Outcome(op, Done(status))

Forms(h) ==
    \/ End(h)
    \/ Answers(h)
    \/ \E row \in [user : Ids, data : Data] :
          /\ at[h] = "idle"
          /\ \/ UNCHANGED tables /\ Continue(h, "insert", row)
             \/ UpdateRow(row) /\ Continue(h, "readback", row)

LEMMA AnswersBy ==
    ASSUME NEW h \in Requests, at[h] # "answered",
           NEW op \in {"listUsers", "createUser", "updateUser", "deleteUser",
                       "getUser", "getProfile", "createProfile",
                       "updateProfile", "deleteProfile"},
           NEW status \in {200, 201, 204, 400, 404, 409, 500},
           NEW cause \in {"none", "duplicate", "nouser", "db"},
           NEW body \in Data \cup {None, "-"},
           AnswerWith(h, op, status, cause, body),
           Outcome(op, Done(status))
    PROVE  Forms(h)
<1>1. [op |-> op, status |-> status, cause |-> cause, body |-> body] \in Answer
  BY DEF Answer
<1> QED
  BY <1>1 DEF Forms, Answers

LEMMA UserForms ==
    ASSUME NEW h \in Requests, NEW id \in Ids, NEW email \in Emails,
           CreateUser(h, id, email) \/ UpdateUser(h, id, email)
    PROVE  Forms(h)
<1>1. at[h] # "answered"
  BY DEF CreateUser, UpdateUser
<1>2. CASE CreateUser(h, id, email)
  <2>1. id \in Ids \ used
    BY <1>2 DEF CreateUser
  <2>2. PICK status \in {201, 500}, cause \in {"none", "duplicate", "db"} :
          /\ AnswerWith(h, "createUser", status, cause, "-")
          /\ \/ UNCHANGED tables /\ status = 500
             \/ InsertUser(id, email) /\ (status = 201 \/ Faulty)
    BY <1>2 DEF CreateUser, Refuse, Break
  <2>3. Outcome("createUser", Done(status))
    BY <2>1, <2>2 DEF Outcome, Done
  <2> QED
    BY <1>1, <2>2, <2>3, AnswersBy
<1>3. CASE UpdateUser(h, id, email)
  <2>1. PICK status \in {200, 500}, cause \in {"none", "duplicate", "db"} :
          /\ AnswerWith(h, "updateUser", status, cause, "-")
          /\ UNCHANGED tables \/ UpdateUserRow(id, email)
    BY <1>3 DEF UpdateUser, Refuse, Break
  <2>2. Outcome("updateUser", Done(status))
    BY <2>1 DEF Outcome, Acked
  <2> QED
    BY <1>1, <2>1, <2>2, AnswersBy
<1> QED
  BY <1>2, <1>3

LEMMA DeleteForms ==
    ASSUME NEW h \in Requests, NEW id \in Ids,
           DeleteUser(h, id) \/ DeleteProfile(h, id)
    PROVE  Forms(h)
<1>1. at[h] # "answered"
  BY DEF DeleteUser, DeleteProfile
<1>2. PICK op \in {"deleteUser", "deleteProfile"}, status \in {204, 500},
           cause \in {"none", "db"} :
        /\ AnswerWith(h, op, status, cause, "-")
        /\ \/ UNCHANGED tables /\ status = 500
           \/ /\ status = 204 \/ Faulty
              /\ \/ op = "deleteUser" /\ DeleteUserRow(id)
                 \/ op = "deleteProfile" /\ DeleteRow(id)
  BY DEF DeleteUser, DeleteProfile, Break
<1>3. Outcome(op, Done(status))
  BY <1>2 DEF Outcome, Done
<1> QED
  BY <1>1, <1>2, <1>3, AnswersBy

LEMMA ReadForms ==
    ASSUME IInv, NEW h \in Requests,
           \/ ListUsers(h) \/ ReadBack(h)
           \/ \E id \in Ids : GetUser(h, id) \/ GetProfile(h, id)
    PROVE  Forms(h)
<1>1. at[h] # "answered" /\ UNCHANGED tables
  BY DEF ListUsers, ReadBack, GetUser, GetProfile, Break, tables
<1>2. \A u : \A i \in OfUser(u) : profiles[i].data \in Data
  BY DEF OfUser, IInv, TablesOK, Profile
<1>3. PICK op \in {"listUsers", "getUser", "getProfile", "updateProfile"},
           status \in {200, 404, 500}, cause \in {"none", "db"},
           body \in Data \cup {None, "-"} :
        AnswerWith(h, op, status, cause, body)
  BY <1>2 DEF ListUsers, ReadBack, GetUser, GetProfile, Break
<1>4. Outcome(op, Done(status))
  BY <1>1 DEF Outcome, Acked
<1> QED
  BY <1>1, <1>3, <1>4, AnswersBy

LEMMA CreateProfileForms ==
    ASSUME NEW h \in Requests, NEW id \in Ids, NEW data \in Data,
           CreateProfile(h, id, data)
    PROVE  Forms(h)
<1>1. at[h] = "idle" /\ UNCHANGED tables
  BY DEF CreateProfile
<1>2. CASE AnswerWith(h, "createProfile", 409, "duplicate", "-")
  <2>1. Outcome("createProfile", Done(409))
    BY <1>1 DEF Outcome, Done
  <2> QED
    BY <1>1, <1>2, <2>1, AnswersBy
<1>3. CASE Continue(h, "insert", [user |-> id, data |-> data])
  BY <1>1, <1>3 DEF Forms
<1> QED
  BY <1>2, <1>3 DEF CreateProfile

LEMMA CreateProfileBadlyForms ==
    ASSUME NEW h \in Requests, NEW id \in Ids, CreateProfileBadly(h, id)
    PROVE  Forms(h)
<1>1. at[h] = "idle" /\ UNCHANGED tables
  BY DEF CreateProfileBadly
<1>2. PICK status \in {400, 409}, cause \in {"none", "duplicate"} :
         AnswerWith(h, "createProfile", status, cause, "-")
  BY DEF CreateProfileBadly
<1>3. Outcome("createProfile", Done(status))
  BY <1>1 DEF Outcome, Done
<1> QED
  BY <1>1, <1>2, <1>3, AnswersBy

LEMMA InsertProfileForms ==
    ASSUME IInv, NEW h \in Requests, InsertProfile(h)
    PROVE  Forms(h)
<1>1. at[h] # "answered" /\ arg[h] \in [user : Ids, data : Data]
      /\ arg[h].data \in Data
  BY DEF InsertProfile, IInv, RequestsOK, Holding
<1>2. PICK status \in {201, 500}, cause \in {"none", "duplicate", "nouser", "db"},
           body \in Data \cup {None, "-"} :
        /\ AnswerWith(h, "createProfile", status, cause, body)
        /\ \/ UNCHANGED tables /\ status = 500
           \/ InsertRow(arg[h]) /\ (status = 201 \/ Faulty)
  BY <1>1 DEF InsertProfile, Refuse, Break
<1>3. Outcome("createProfile", Done(status))
  BY <1>1, <1>2 DEF Outcome, Done
<1> QED
  BY <1>1, <1>2, <1>3, AnswersBy

LEMMA UpdateProfileForms ==
    ASSUME NEW h \in Requests, NEW id \in Ids, NEW data \in Data,
           UpdateProfile(h, id, data)
    PROVE  Forms(h)
<1> DEFINE row == [user |-> id, data |-> data]
<1>1. at[h] = "idle" /\ row \in [user : Ids, data : Data]
  BY DEF UpdateProfile
<1>2. CASE UpdateRow(row) /\ Continue(h, "readback", row)
  BY <1>1, <1>2 DEF Forms
<1>3. CASE Break(h, "updateProfile", UpdateRow(row))
  <2>1. Outcome("updateProfile", Done(500))
    BY <1>1, <1>3 DEF Break, Outcome, Acked
  <2> QED
    BY <1>1, <1>3, <2>1, AnswersBy DEF Break
<1> QED
  BY <1>2, <1>3 DEF UpdateProfile

LEMMA StepForms ==
    ASSUME IInv, NEW h \in Requests, Step(h)
    PROVE  Forms(h)
<1>1. CASE \E id \in Ids :
             \/ \E email \in Emails :
                   CreateUser(h, id, email) \/ UpdateUser(h, id, email)
             \/ DeleteUser(h, id) \/ DeleteProfile(h, id)
  BY <1>1, UserForms, DeleteForms
<1>2. CASE \E id \in Ids, data \in Data :
              CreateProfile(h, id, data) \/ UpdateProfile(h, id, data)
  BY <1>2, CreateProfileForms, UpdateProfileForms
<1>3. CASE \/ ListUsers(h) \/ ReadBack(h)
           \/ \E id \in Ids : GetUser(h, id) \/ GetProfile(h, id)
  BY <1>3, ReadForms
<1>4. CASE InsertProfile(h)
  BY <1>4, InsertProfileForms
<1>5. CASE End(h)
  BY <1>5 DEF Forms
<1>6. CASE \E id \in Ids : CreateProfileBadly(h, id)
  BY <1>6, CreateProfileBadlyForms
<1> QED
  BY <1>1, <1>2, <1>3, <1>4, <1>5, <1>6 DEF Step

-----------------------------------------------------------------------------
(* The statements keep the tables, the handlers the requests.              *)

LEMMA UserRows ==
    ASSUME TablesOK, NEW id \in Ids, NEW email \in Emails,
           \/ InsertUser(id, email) /\ id \notin used
           \/ UpdateUserRow(id, email)
    PROVE  TablesOK'
<1>1. /\ users' \in [Ids -> Emails \cup {None}] /\ used' \subseteq Ids
      /\ UNCHANGED profiles
  BY DEF InsertUser, UpdateUserRow, TablesOK
<1>2. \/ UNCHANGED <<users, used>>
      \/ /\ users' = [users EXCEPT ![id] = email] /\ ~Taken(email, id)
         /\ email # None
         /\ \/ used' = used \cup {id}
            \/ users[id] # None /\ used' = used
  BY NoneAssumption DEF InsertUser, UpdateUserRow, TablesOK
<1>3. UsersAreUsed'
  BY <1>2 DEF UsersAreUsed, TablesOK
<1>4. ProfilesHaveUsers'
  BY <1>1, <1>2 DEF ProfilesHaveUsers, TablesOK, Profile
<1>5. RowsAreUnique'
  BY <1>1, <1>2 DEF RowsAreUnique, Taken, TablesOK
<1> QED
  BY <1>1, <1>3, <1>4, <1>5 DEF TablesOK

LEMMA RemoveRows ==
    ASSUME TablesOK, NEW id \in Ids, DeleteUserRow(id) \/ DeleteRow(id)
    PROVE  TablesOK'
<1>1. /\ profiles' \in [Pids -> Profile \cup {None}]
      /\ \A i \in Pids : profiles'[i] = IF i \in OfUser(id) THEN None
                                        ELSE profiles[i]
  BY DEF DeleteUserRow, DeleteRow, Remove, TablesOK
<1>2. /\ users' \in [Ids -> Emails \cup {None}] /\ used' = used
      /\ \A u \in Ids : \/ users'[u] = users[u]
                        \/ /\ u = id /\ users'[u] = None
  BY DEF DeleteUserRow, DeleteRow, TablesOK
<1>3. UsersAreUsed'
  BY <1>2 DEF UsersAreUsed, TablesOK
<1>4. ProfilesHaveUsers'
  BY <1>1, <1>2 DEF ProfilesHaveUsers, OfUser, TablesOK, Profile
<1>5. RowsAreUnique'
  BY <1>1, <1>2 DEF RowsAreUnique, TablesOK
<1> QED
  BY <1>1, <1>2, <1>3, <1>4, <1>5 DEF TablesOK

\* The INSERT itself makes sure that there is a user and no profile.
LEMMA NewRow ==
    ASSUME TablesOK, NEW row \in [user : Ids, data : Data], InsertRow(row)
    PROVE  TablesOK'
<1>1. row \in Profile /\ row # None /\ row.user \in Ids
  BY NoneAssumption DEF Profile
<1>2. /\ OfUser(row.user) = {} /\ users[row.user] # None
      /\ UNCHANGED <<users, used>>
      /\ \E i \in Pids : profiles' = [profiles EXCEPT ![i] = row]
  BY DEF InsertRow
<1>3. profiles' \in [Pids -> Profile \cup {None}]
  BY <1>1, <1>2 DEF TablesOK
<1>4. ProfilesHaveUsers'
  BY <1>2 DEF ProfilesHaveUsers, TablesOK
<1>5. RowsAreUnique'
  BY <1>2 DEF RowsAreUnique, OfUser, TablesOK
<1> QED
  BY <1>2, <1>3, <1>4, <1>5 DEF TablesOK, UsersAreUsed

\* The UPDATE changes a profile, not whose it is.
LEMMA NewData ==
    ASSUME TablesOK, NEW row \in [user : Ids, data : Data], UpdateRow(row)
    PROVE  TablesOK'
<1>1. row \in Profile /\ row # None
  BY NoneAssumption DEF Profile
<1>2. /\ profiles' \in [Pids -> Profile \cup {None}]
      /\ \A i \in Pids : profiles'[i] # None =>
            profiles[i] # None /\ profiles'[i].user = profiles[i].user
      /\ UNCHANGED <<users, used>>
  BY <1>1 DEF UpdateRow, OfUser, TablesOK
<1>3. ProfilesHaveUsers' /\ RowsAreUnique'
  BY <1>2 DEF ProfilesHaveUsers, RowsAreUnique, TablesOK
<1> QED
  BY <1>2, <1>3 DEF TablesOK, UsersAreUsed

LEMMA SameTablesOK == TablesOK /\ UNCHANGED tables => TablesOK'
BY DEF tables, TablesOK, UsersAreUsed, ProfilesHaveUsers, RowsAreUnique

LEMMA OutcomeTables ==
    ASSUME TablesOK, NEW op, NEW done, Outcome(op, done)
    PROVE  TablesOK'
BY UserRows, RemoveRows, NewRow, NewData, SameTablesOK DEF Outcome

LEMMA AnswerRequests ==
    ASSUME RequestsOK, NEW h \in Requests, Answers(h)
    PROVE  RequestsOK'
BY DEF Answers, AnswerWith, RequestsOK, Holding, AnswersAreNew

LEMMA OtherRequests ==
    ASSUME RequestsOK, NEW h \in Requests,
           \/ End(h)
           \/ \E row \in [user : Ids, data : Data],
                 l \in {"insert", "readback"} :
                 at[h] = "idle" /\ Continue(h, l, row)
    PROVE  RequestsOK'
BY DEF End, Continue, RequestsOK, Holding, AnswersAreNew

LEMMA StepIInv == IInv /\ [Next]_vars => IInv'
<1> SUFFICES ASSUME IInv, [Next]_vars PROVE IInv'
  OBVIOUS
<1>1. CASE UNCHANGED vars
  <2>1. TablesOK'
    BY <1>1, SameTablesOK DEF vars, IInv
  <2>2. RequestsOK'
    BY <1>1 DEF vars, IInv, RequestsOK, Holding, AnswersAreNew
  <2> QED
    BY <2>1, <2>2 DEF IInv
<1>2. CASE Next
  <2>1. PICK h \in Requests : Forms(h)
    BY <1>2, StepForms DEF Next
  <2>2. TablesOK'
    BY <2>1, OutcomeTables, NewData, SameTablesOK
    DEF Forms, Answers, End, IInv
  <2>3. RequestsOK'
    BY <2>1, AnswerRequests, OtherRequests DEF Forms, IInv
  <2> QED
    BY <2>2, <2>3 DEF IInv
<1> QED
  BY <1>1, <1>2

LEMMA SpecIInv == Spec => []IInv
BY InitIInv, StepIInv, PTL DEF Spec

-----------------------------------------------------------------------------

\* Every variable of the REST service stays in its domain, whatever requests
\* overlap: user.go and profile.go write nothing else into the two tables.
THEOREM UserTypesHold == Spec => []TypeOK
<1>1. IInv => TypeOK
  BY DEF IInv, TablesOK, RequestsOK, TypeOK
<1> QED
  BY <1>1, SpecIInv, PTL

\* No profile outlives its user (ON DELETE CASCADE and REFERENCES in
\* migrate.go), for any number of requests in progress.
THEOREM ProfilesHaveUsersHolds == Spec => []ProfilesHaveUsers
<1>1. IInv => ProfilesHaveUsers
  BY DEF IInv, TablesOK
<1> QED
  BY <1>1, SpecIInv, PTL

\* No user has two profiles and no two users one e-mail, although
\* ProfileHandler.Create checks and inserts in two statements.
THEOREM RowsAreUniqueHolds == Spec => []RowsAreUnique
<1>1. IInv => RowsAreUnique
  BY DEF IInv, TablesOK
<1> QED
  BY <1>1, SpecIInv, PTL

-----------------------------------------------------------------------------
(* The REST service implements the registers.                              *)

\* What the registers of the users hold is a function of the tables.
LEMMA SameRegisters ==
    /\ UNCHANGED <<users, used>> => Alive' = Alive /\ Gone' = Gone
    /\ UNCHANGED profiles => ProfilesOf' = ProfilesOf
BY DEF Alive, Gone, ProfilesOf, OfUser

LEMMA AnswerAck ==
    ASSUME IInv, NEW h \in Requests, NEW op, NEW status, NEW cause, NEW body,
           [op |-> op, status |-> status, cause |-> cause, body |-> body]
              \in Answer,
           AnswerWith(h, op, status, cause, body)
    PROVE  Ack' = [Ack EXCEPT ![h] = IF op \notin Acked THEN "none"
                                     ELSE IF Done(status) THEN "done"
                                     ELSE "failed"]
<1> DEFINE new == [op |-> op, status |-> status, cause |-> cause, body |-> body]
<1>1. answer \in [Requests -> Answer \cup {None}]
      /\ answer' = [answer EXCEPT ![h] = new]
  BY DEF IInv, RequestsOK, AnswerWith
<1>2. new # None /\ new.op = op /\ new.status = status
  BY NoneAssumption DEF Answer
<1> HIDE DEF new
<1> QED
  BY <1>1, <1>2 DEF Ack, Acked, Done

\* A request whose answer is about no register leaves them as they are.
LEMMA SilentAck ==
    ASSUME IInv, NEW h \in Requests, at[h] # "answered",
           Ack' = [Ack EXCEPT ![h] = "none"]
    PROVE  Ack' = Ack
<1> DEFINE word(g) == IF answer[g] = None THEN "none"
                      ELSE IF answer[g].op \notin Acked THEN "none"
                      ELSE IF answer[g].status \in {201, 204} THEN "done"
                      ELSE "failed"
<1>1. Ack = [g \in Requests |-> word(g)]
  BY DEF Ack, Acked
<1>2. word(h) = "none"
  BY DEF IInv, RequestsOK, AnswersAreNew
<1> HIDE DEF word
<1> QED
  BY <1>1, <1>2

LEMMA InitRegister == Init => Register!Init
BY DEF Init, Register!Init, Alive, Gone, ProfilesOf, OfUser, Ack

LEMMA InsertUserRegister ==
    ASSUME IInv, NEW h \in Requests, NEW id \in Ids \ used, NEW email \in Emails,
           InsertUser(id, email), Register!Tell(h)
    PROVE  Register!Born(h, id)
<1>1. email # None /\ users \in [Ids -> Emails \cup {None}]
      /\ used \subseteq Ids /\ users[id] = None
  BY NoneAssumption DEF IInv, TablesOK, UsersAreUsed
<1>2. Alive' = Alive \cup {id} /\ Gone' = Gone /\ id \notin Alive \cup Gone
  BY <1>1 DEF InsertUser, Alive, Gone
<1> QED
  BY <1>2, SameRegisters DEF InsertUser, Register!Born

LEMMA UpdateUserRegister ==
    ASSUME IInv, NEW id \in Ids, NEW email \in Emails, UpdateUserRow(id, email)
    PROVE  Alive' = Alive /\ Gone' = Gone /\ ProfilesOf' = ProfilesOf
<1>1. email # None /\ users \in [Ids -> Emails \cup {None}]
      /\ used \subseteq Ids
  BY NoneAssumption DEF IInv, TablesOK
<1> QED
  BY <1>1, SameRegisters DEF UpdateUserRow, Alive, Gone

\* The rows of one user are removed, those of the others stay.
LEMMA RemoveRegister ==
    ASSUME IInv, NEW id \in Ids, Remove(OfUser(id))
    PROVE  ProfilesOf' = [ProfilesOf EXCEPT ![id] = {}]
<1>1. \A i \in Pids : profiles'[i] = IF i \in OfUser(id) THEN None
                                     ELSE profiles[i]
  BY DEF Remove
<1>2. ASSUME NEW u \in Ids
      PROVE  /\ u = id => OfUser(u)' = {}
             /\ u # id => /\ OfUser(u)' = OfUser(u)
                          /\ \A i \in OfUser(u) : profiles'[i] = profiles[i]
  BY <1>1 DEF OfUser
<1>3. ASSUME NEW u \in Ids
      PROVE  {profiles'[i].data : i \in OfUser(u)'} =
             IF u = id THEN {} ELSE {profiles[i].data : i \in OfUser(u)}
  BY <1>2
<1> QED
  BY <1>3 DEF ProfilesOf

LEMMA DeleteUserRegister ==
    ASSUME IInv, NEW h \in Requests, NEW id \in Ids, DeleteUserRow(id),
           Register!Tell(h)
    PROVE  Register!Die(h, id)
<1>1. ProfilesOf' = [ProfilesOf EXCEPT ![id] = {}]
  BY RemoveRegister DEF DeleteUserRow
<1>2. /\ users \in [Ids -> Emails \cup {None}] /\ used \subseteq Ids
      /\ users' = [users EXCEPT ![id] = None] /\ used' = used
      /\ users[id] # None => id \in used
  BY DEF IInv, TablesOK, UsersAreUsed, DeleteUserRow
<1>3. Alive' = Alive \ {id} /\ Gone' = Gone \cup (Alive \cap {id})
  BY <1>2 DEF Alive, Gone
<1> QED
  BY <1>1, <1>3 DEF Register!Die

LEMMA DeleteRowRegister ==
    ASSUME IInv, NEW h \in Requests, NEW id \in Ids, DeleteRow(id),
           Register!Tell(h)
    PROVE  Register!Clear(h, id)
BY RemoveRegister, SameRegisters DEF DeleteRow, Register!Clear

\* Only the request whose row went into the table says "done".
LEMMA InsertRowRegister ==
    ASSUME IInv, NEW h \in Requests, NEW row \in [user : Ids, data : Data],
           InsertRow(row), Register!Tell(h)
    PROVE  Register!Create(h, row.user, row.data)
<1>1. /\ row # None /\ row.user \in Ids /\ row.data \in Data
      /\ profiles \in [Pids -> Profile \cup {None}]
  BY NoneAssumption DEF IInv, TablesOK, Profile
<1>2. PICK i \in Pids : profiles[i] = None
                        /\ profiles' = [profiles EXCEPT ![i] = row]
  BY DEF InsertRow
<1>3. ASSUME NEW u \in Ids
      PROVE  /\ u = row.user => OfUser(u)' = {i}
             /\ u # row.user =>
                   /\ OfUser(u)' = OfUser(u)
                   /\ \A j \in OfUser(u) : profiles'[j] = profiles[j]
  BY <1>1, <1>2 DEF OfUser, InsertRow
<1>4. ASSUME NEW u \in Ids
      PROVE  {profiles'[j].data : j \in OfUser(u)'} =
             IF u = row.user THEN {row.data}
             ELSE {profiles[j].data : j \in OfUser(u)}
  <2>1. profiles'[i] = row
    BY <1>1, <1>2
  <2> QED
    BY <1>3, <2>1
<1>5. ProfilesOf' = [ProfilesOf EXCEPT ![row.user] = {row.data}]
  BY <1>1, <1>4 DEF ProfilesOf
<1>6. row.user \in Alive /\ ProfilesOf[row.user] = {}
  BY <1>1 DEF InsertRow, Alive, ProfilesOf
<1> QED
  BY <1>5, <1>6, SameRegisters DEF InsertRow, Register!Create

LEMMA UpdateRowRegister ==
    ASSUME IInv, NEW row \in [user : Ids, data : Data], UpdateRow(row),
           Ack' = Ack
    PROVE  [Register!Next]_(Register!vars)
<1>1. Alive' = Alive /\ Gone' = Gone
  BY SameRegisters DEF UpdateRow
<1>2. row # None /\ row.user \in Ids /\ row.data \in Data
  BY NoneAssumption DEF Profile
<1>3. ASSUME NEW u \in Ids
      PROVE  /\ OfUser(u)' = OfUser(u)
             /\ \A i \in OfUser(u) :
                   profiles'[i] = IF u = row.user THEN row ELSE profiles[i]
  BY <1>2 DEF OfUser, UpdateRow
<1>4. CASE OfUser(row.user) = {}
  <2>1. ASSUME NEW u \in Ids
        PROVE  {profiles'[i].data : i \in OfUser(u)'} =
               {profiles[i].data : i \in OfUser(u)}
    BY <1>3, <1>4
  <2>2. ProfilesOf' = ProfilesOf
    BY <2>1 DEF ProfilesOf
  <2> QED
    BY <1>1, <2>2 DEF Register!vars
<1>5. CASE OfUser(row.user) # {}
  <2>1. ASSUME NEW u \in Ids
        PROVE  {profiles'[i].data : i \in OfUser(u)'} =
               IF u = row.user THEN {row.data}
               ELSE {profiles[i].data : i \in OfUser(u)}
    BY <1>2, <1>3, <1>5
  <2>2. ProfilesOf' = [ProfilesOf EXCEPT ![row.user] = {row.data}]
    BY <2>1 DEF ProfilesOf
  <2>3. ProfilesOf[row.user] # {}
    <3>1. PICK i : i \in OfUser(row.user)
      BY <1>5
    <3>2. profiles[i].data \in {profiles[j].data : j \in OfUser(row.user)}
      BY <3>1
    <3> QED
      BY <1>2, <3>2 DEF ProfilesOf
  <2>4. Register!Replace(row.user, row.data)
    BY <1>1, <2>2, <2>3 DEF Register!Replace
  <2> QED
    BY <1>2, <2>4 DEF Register!Next
<1> QED
  BY <1>4, <1>5

LEMMA AnswerRegister ==
    ASSUME IInv, NEW h \in Requests, Answers(h)
    PROVE  [Register!Next]_(Register!vars)
<1>1. PICK op, status, cause, body :
        /\ [op |-> op, status |-> status, cause |-> cause, body |-> body]
              \in Answer
        /\ AnswerWith(h, op, status, cause, body)
        /\ Outcome(op, Done(status))
  BY DEF Answers
<1>2. Ack' = [Ack EXCEPT ![h] = IF op \notin Acked THEN "none"
                                ELSE IF Done(status) THEN "done"
                                ELSE "failed"]
  BY <1>1, AnswerAck
<1>3. op \notin Acked => Ack' = Ack
  BY <1>2, SilentAck DEF Answers
<1>4. op \in Acked /\ (Done(status) \/ Faulty) => Register!Tell(h)
  BY <1>2 DEF Register!Tell, Register!Told
<1>5. CASE UNCHANGED tables /\ (op \in Acked => ~Done(status))
  <2>1. Alive' = Alive /\ Gone' = Gone /\ ProfilesOf' = ProfilesOf
    BY <1>5, SameRegisters DEF tables
  <2>2. CASE op \in Acked
    <3>1. Register!Fail(h)
      BY <1>2, <1>5, <2>1, <2>2 DEF Register!Fail, Register!Told
    <3> QED
      BY <3>1 DEF Register!Next
  <2>3. CASE op \notin Acked
    BY <1>3, <2>1, <2>3 DEF Register!vars
  <2> QED
    BY <2>2, <2>3
<1>6. CASE /\ op \in Acked /\ (Done(status) \/ Faulty)
           /\ \/ \E id \in Ids \ used, email \in Emails : InsertUser(id, email)
              \/ \E id \in Ids : DeleteUserRow(id) \/ DeleteRow(id)
              \/ \E row \in [user : Ids, data : Data] : InsertRow(row)
  <2>1. \/ \E id \in Ids : \/ Register!Born(h, id) \/ Register!Die(h, id)
                           \/ Register!Clear(h, id)
        \/ \E id \in Ids, d \in Data : Register!Create(h, id, d)
    BY <1>4, <1>6, InsertUserRegister, DeleteUserRegister, DeleteRowRegister,
       InsertRowRegister
  <2> QED
    BY <2>1 DEF Register!Next
<1>7. CASE /\ op \notin Acked
           /\ \E id \in Ids, email \in Emails : UpdateUserRow(id, email)
  BY <1>3, <1>7, UpdateUserRegister DEF Register!vars
<1>8. CASE /\ op \notin Acked
           /\ \E row \in [user : Ids, data : Data] : UpdateRow(row)
  BY <1>3, <1>8, UpdateRowRegister
<1> QED
  BY <1>1, <1>5, <1>6, <1>7, <1>8 DEF Outcome, Acked

LEMMA OtherRegister ==
    ASSUME IInv, NEW h \in Requests, Forms(h), ~Answers(h)
    PROVE  [Register!Next]_(Register!vars)
<1>1. CASE End(h)
  <2>1. Ack' = [Ack EXCEPT ![h] = "none"]
    BY <1>1 DEF IInv, RequestsOK, End, Ack
  <2>2. Register!Forget(h)
    BY <1>1, <2>1, SameRegisters DEF End, tables, Register!Forget, Register!Told
  <2> QED
    BY <2>2 DEF Register!Next
<1>2. CASE \E row \in [user : Ids, data : Data] :
              UNCHANGED tables /\ Continue(h, "insert", row)
  BY <1>2, SameRegisters DEF tables, Continue, Ack, Register!vars
<1>3. CASE \E row \in [user : Ids, data : Data] :
              UpdateRow(row) /\ Continue(h, "readback", row)
  <2>1. Ack' = Ack
    BY <1>3 DEF Continue, Ack
  <2> QED
    BY <1>3, <2>1, UpdateRowRegister
<1> QED
  BY <1>1, <1>2, <1>3 DEF Forms

LEMMA StepRegister == IInv /\ [Next]_vars => [Register!Next]_(Register!vars)
<1> SUFFICES ASSUME IInv, [Next]_vars
             PROVE  [Register!Next]_(Register!vars)
  OBVIOUS
<1>1. CASE UNCHANGED vars
  BY <1>1, SameRegisters DEF vars, tables, Register!vars, Ack
<1>2. CASE Next
  <2>1. PICK h \in Requests : Forms(h)
    BY <1>2, StepForms DEF Next
  <2> QED
    BY <2>1, AnswerRegister, OtherRegister
<1> QED
  BY <1>1, <1>2

\* The API is one register per living user, filled by the very request that
\* is answered "done" and emptied with its user, for any number of
\* overlapping requests and whichever statements fail.
THEOREM ActsAsRegisterHolds == Spec => ActsAsRegister
BY InitRegister, StepRegister, SpecIInv, PTL
DEF Spec, ActsAsRegister, Register!Spec
=============================================================================
