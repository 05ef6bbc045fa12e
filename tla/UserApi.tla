------------------------------ MODULE UserApi -------------------------------
(***************************************************************************)
(* The REST service of sirius_go: users, open to everybody, and profiles,  *)
(* one per user, addressed by the user id in the caller's token.           *)
(*                                                                         *)
(* Every request is served by a goroutine of its own and every SQL         *)
(* statement is a transaction of its own.  A request of one statement is   *)
(* one action; POST and PUT of a profile are two statements, between       *)
(* which others are served.  Requests are authenticated, and well formed   *)
(* but for the body of a POST of a profile, which is read after the first  *)
(* statement; the token's user need not exist: tokens outlive their users. *)
(*                                                                         *)
(* Of a user the e-mail is kept and of a profile one datum: the other      *)
(* columns are never compared.  The two tables' constraints (UNIQUE,       *)
(* REFERENCES, ON DELETE CASCADE) are those of repository/migrate.go.      *)
(***************************************************************************)
EXTENDS Naturals

CONSTANTS
    Ids,        \* user UUIDs; uuid.New never yields one twice
    Pids,       \* profile UUIDs
    Emails, Data,
    Requests,   \* requests that may be in progress at a time
    Faulty,     \* whether a statement may fail, with or without its effect
    None

VARIABLES
    users,      \* table users: id -> e-mail
    profiles,   \* table profiles: id -> user and datum
    used,       \* history: the user ids handed out so far
    at,         \* where each request is in its handler
    arg,        \* the token's user and the body of a request in progress
    answer      \* the answer of each request

tables == <<users, profiles, used>>
vars   == <<tables, at, arg, answer>>

Profile == [user : Ids, data : Data]

\* body is the datum in the answer, None for null, "-" when there is none.
\* cause tells what a refusal of the database was about.
Answer == [op : {"listUsers", "createUser", "updateUser", "deleteUser",
                 "getUser", "getProfile", "createProfile", "updateProfile",
                 "deleteProfile"},
           status : {200, 201, 204, 400, 404, 409, 500},
           cause : {"none", "duplicate", "nouser", "db"},
           body : Data \cup {None, "-"}]

ASSUME NoneAssumption == None \notin Emails \cup Profile \cup Answer
ASSUME FaultyAssumption == Faulty \in BOOLEAN

TypeOK ==
    /\ users \in [Ids -> Emails \cup {None}]
    /\ profiles \in [Pids -> Profile \cup {None}]
    /\ used \subseteq Ids
    /\ at \in [Requests -> {"idle", "insert", "readback", "answered"}]
    /\ arg \in [Requests -> [user : Ids, data : Data] \cup {None}]
    /\ answer \in [Requests -> Answer \cup {None}]

Init ==
    /\ users = [id \in Ids |-> None]
    /\ profiles = [i \in Pids |-> None]
    /\ used = {}
    /\ at = [h \in Requests |-> "idle"]
    /\ arg = [h \in Requests |-> None]
    /\ answer = [h \in Requests |-> None]

-----------------------------------------------------------------------------
(* The statements of repository/, with the constraints of migrate.go       *)

Taken(email, id) == \E other \in Ids \ {id} : users[other] = email

InsertUser(id, email) ==
    /\ ~Taken(email, id)
    /\ users' = [users EXCEPT ![id] = email]
    /\ used' = used \cup {id}
    /\ UNCHANGED profiles

\* Without such a user the UPDATE matches no row, which is no error.
UpdateUserRow(id, email) ==
    /\ users[id] = None \/ ~Taken(email, id)
    /\ users' = [users EXCEPT ![id] = IF @ = None THEN None ELSE email]
    /\ UNCHANGED <<profiles, used>>

OfUser(id) == {i \in Pids : profiles[i] # None /\ profiles[i].user = id}

Remove(rows) ==
    profiles' = [i \in Pids |-> IF i \in rows THEN None ELSE profiles[i]]

\* Mutant: the profile of a deleted user stays.
DeleteUserAlone(id) ==
    users' = [users EXCEPT ![id] = None] /\ UNCHANGED <<profiles, used>>

\* The user's profile goes by ON DELETE CASCADE.
DeleteUserRow(id) ==
    /\ users' = [users EXCEPT ![id] = None]
    /\ Remove(OfUser(id))
    /\ UNCHANGED used

\* Mutant: column user_id without UNIQUE: the check alone is to prevent a second.
InsertRowAgain(row) ==
    /\ users[row.user] # None
    /\ \E i \in Pids : profiles[i] = None /\ profiles' = [profiles EXCEPT ![i] = row]
    /\ UNCHANGED <<users, used>>

\* Mutant: column user_id without REFERENCES.
InsertRowOfAnyone(row) ==
    /\ OfUser(row.user) = {}
    /\ \E i \in Pids : profiles[i] = None /\ profiles' = [profiles EXCEPT ![i] = row]
    /\ UNCHANGED <<users, used>>

InsertRow(row) ==
    /\ OfUser(row.user) = {} /\ users[row.user] # None
    /\ \E i \in Pids : /\ profiles[i] = None
                       /\ profiles' = [profiles EXCEPT ![i] = row]
    /\ UNCHANGED <<users, used>>

UpdateRow(row) ==
    /\ profiles' = [i \in Pids |-> IF i \in OfUser(row.user) THEN row
                                   ELSE profiles[i]]
    /\ UNCHANGED <<users, used>>

DeleteRow(id) == Remove(OfUser(id)) /\ UNCHANGED <<users, used>>

-----------------------------------------------------------------------------
(* Answers                                                                 *)

AnswerWith(h, op, status, cause, body) ==
    /\ at' = [at EXCEPT ![h] = "answered"]
    /\ arg' = [arg EXCEPT ![h] = None]
    /\ answer' = [answer EXCEPT ![h] = [op |-> op, status |-> status,
                                        cause |-> cause, body |-> body]]

\* The database refuses a statement: 500, whatever the constraint.
Refuse(h, op, cause) ==
    AnswerWith(h, op, 500, cause, "-") /\ UNCHANGED tables

\* The database breaks down before or after the statement: 500 as well.
Break(h, op, statement) ==
    /\ Faulty
    /\ statement \/ UNCHANGED tables
    /\ AnswerWith(h, op, 500, "db", "-")

\* The answer has been sent; the goroutine ends.
End(h) ==
    /\ at[h] = "answered"
    /\ at' = [at EXCEPT ![h] = "idle"]
    /\ answer' = [answer EXCEPT ![h] = None]
    /\ UNCHANGED <<tables, arg>>

-----------------------------------------------------------------------------
(* Users                                                                   *)

\* GET /api/users.
ListUsers(h) ==
    /\ at[h] = "idle"
    /\ \/ AnswerWith(h, "listUsers", 200, "none", "-") /\ UNCHANGED tables
       \/ Break(h, "listUsers", UNCHANGED tables)

\* POST /api/users.
CreateUser(h, id, email) ==
    /\ at[h] = "idle" /\ id \notin used
    /\ \/ /\ InsertUser(id, email)
          /\ AnswerWith(h, "createUser", 201, "none", "-")
       \/ Taken(email, id) /\ Refuse(h, "createUser", "duplicate")
       \/ Break(h, "createUser", InsertUser(id, email))

\* PUT /api/users/{id}: answered with the body, even when there is no user.
UpdateUser(h, id, email) ==
    /\ at[h] = "idle"
    /\ \/ /\ UpdateUserRow(id, email)
          /\ AnswerWith(h, "updateUser", 200, "none", "-")
       \/ /\ users[id] # None /\ Taken(email, id)
          /\ Refuse(h, "updateUser", "duplicate")
       \/ Break(h, "updateUser", UpdateUserRow(id, email))

\* DELETE /api/users/{id}.
DeleteUser(h, id) ==
    /\ at[h] = "idle"
    /\ \/ /\ DeleteUserRow(id)
          /\ AnswerWith(h, "deleteUser", 204, "none", "-")
       \/ Break(h, "deleteUser", DeleteUserRow(id))

\* GET /api/users/{id}: every error is a 404.
GetUser(h, id) ==
    /\ at[h] = "idle"
    /\ \/ users[id] # None /\ AnswerWith(h, "getUser", 200, "none", "-")
       \/ /\ users[id] = None \/ Faulty
          /\ AnswerWith(h, "getUser", 404, "none", "-")
    /\ UNCHANGED tables

-----------------------------------------------------------------------------
(* Profiles of the token's user                                            *)

\* GET /api/profile: every error is a 404.
GetProfile(h, id) ==
    /\ at[h] = "idle"
    /\ \/ \E i \in OfUser(id) :
            AnswerWith(h, "getProfile", 200, "none", profiles[i].data)
       \/ /\ OfUser(id) = {} \/ Faulty
          /\ AnswerWith(h, "getProfile", 404, "none", "-")
    /\ UNCHANGED tables

\* The request goes on to its second statement.
Continue(h, l, row) ==
    /\ at' = [at EXCEPT ![h] = l]
    /\ arg' = [arg EXCEPT ![h] = row]
    /\ UNCHANGED answer

\* POST /api/profile, first statement: is there a profile already?  An error
\* is taken for a no.
CreateProfile(h, id, data) ==
    /\ at[h] = "idle"
    /\ \/ /\ OfUser(id) # {}
          /\ AnswerWith(h, "createProfile", 409, "duplicate", "-")
       \/ /\ OfUser(id) = {} \/ Faulty
          /\ Continue(h, "insert", [user |-> id, data |-> data])
    /\ UNCHANGED tables

\* POST /api/profile with a body that cannot be decoded: a 400, unless there is
\* a profile already.
CreateProfileBadly(h, id) ==
    /\ at[h] = "idle"
    /\ \/ /\ OfUser(id) # {}
          /\ AnswerWith(h, "createProfile", 409, "duplicate", "-")
       \/ /\ OfUser(id) = {} \/ Faulty
          /\ AnswerWith(h, "createProfile", 400, "none", "-")
    /\ UNCHANGED tables

\* POST /api/profile, second statement.
InsertProfile(h) ==
    LET id == arg[h].user IN
    /\ at[h] = "insert"
    /\ \/ /\ InsertRow(arg[h])
          /\ AnswerWith(h, "createProfile", 201, "none", arg[h].data)
       \/ OfUser(id) # {} /\ Refuse(h, "createProfile", "duplicate")
       \/ /\ OfUser(id) = {} /\ users[id] = None
          /\ Refuse(h, "createProfile", "nouser")
       \/ Break(h, "createProfile", InsertRow(arg[h]))

\* PUT /api/profile, first statement: may match no row.
UpdateProfile(h, id, data) ==
    LET row == [user |-> id, data |-> data] IN
    /\ at[h] = "idle"
    /\ \/ UpdateRow(row) /\ Continue(h, "readback", row)
       \/ Break(h, "updateProfile", UpdateRow(row))

\* Mutant: without a row there is no nil to answer with, but an empty profile.
ReadBackEmpty(h) ==
    LET id == arg[h].user IN
    /\ at[h] = "readback"
    /\ \/ \E i \in OfUser(id) :
            AnswerWith(h, "updateProfile", 200, "none", profiles[i].data)
       \/ OfUser(id) = {} /\ AnswerWith(h, "updateProfile", 200, "none", "")
    /\ UNCHANGED tables

\* PUT /api/profile, second statement: its error is not looked at, and the
\* answer is then the JSON null.
ReadBack(h) ==
    LET id == arg[h].user IN
    /\ at[h] = "readback"
    /\ \/ \E i \in OfUser(id) :
            AnswerWith(h, "updateProfile", 200, "none", profiles[i].data)
       \/ /\ OfUser(id) = {} \/ Faulty
          /\ AnswerWith(h, "updateProfile", 200, "none", None)
    /\ UNCHANGED tables

\* DELETE /api/profile.
DeleteProfile(h, id) ==
    /\ at[h] = "idle"
    /\ \/ DeleteRow(id) /\ AnswerWith(h, "deleteProfile", 204, "none", "-")
       \/ Break(h, "deleteProfile", DeleteRow(id))

\* The steps of one request.
Step(h) ==
    \/ \E id \in Ids :
          \/ \E email \in Emails :
                CreateUser(h, id, email) \/ UpdateUser(h, id, email)
          \/ \E data \in Data :
                CreateProfile(h, id, data) \/ UpdateProfile(h, id, data)
          \/ DeleteUser(h, id) \/ GetUser(h, id)
          \/ GetProfile(h, id) \/ DeleteProfile(h, id)
          \/ CreateProfileBadly(h, id)
    \/ ListUsers(h) \/ InsertProfile(h) \/ ReadBack(h) \/ End(h)

Next == \E h \in Requests : Step(h)

Spec == Init /\ [][Next]_vars

-----------------------------------------------------------------------------
(* Properties                                                              *)

\* No profile outlives its user, although a request that found the user's
\* slot free may insert its profile after the user is deleted.
ProfilesHaveUsers ==
    \A i \in Pids : profiles[i] # None => users[profiles[i].user] # None

\* No user has two profiles and no two users one e-mail, whoever raced.
RowsAreUnique ==
    /\ \A i, j \in Pids :
          profiles[i] # None /\ profiles[j] # None
          /\ profiles[i].user = profiles[j].user => i = j
    /\ \A u, v \in Ids : users[u] # None /\ users[u] = users[v] => u = v

\* A duplicate profile is refused with 409 Conflict.
DuplicateIsConflict ==
    \A h \in Requests :
        answer[h] # None /\ answer[h].op = "createProfile"
        /\ answer[h].cause = "duplicate" => answer[h].status = 409

\* A PUT of a profile answers with the updated profile: with the datum it has
\* just written.
PutAnswersUpdated ==
    [][\A h \in Requests :
          at[h] = "readback" /\ at'[h] = "answered" =>
              answer'[h].body = arg[h].data]_vars

Alive == {id \in Ids : users[id] # None}
Gone  == {id \in used : users[id] = None}

ProfilesOf == [id \in Ids |-> {profiles[i].data : i \in OfUser(id)}]

\* What a request to create or to delete has been told; others are told
\* nothing about the registers.
Ack == [h \in Requests |->
          IF answer[h] = None THEN "none"
          ELSE IF answer[h].op \notin {"createUser", "deleteUser",
                                       "createProfile", "deleteProfile"}
          THEN "none"
          ELSE IF answer[h].status \in {201, 204} THEN "done" ELSE "failed"]

Register == INSTANCE ProfileRegister WITH
    alive <- Alive, gone <- Gone, profile <- ProfilesOf, ack <- Ack

\* The API behaves as one register per living user, and says "done" in the
\* very step that has done it; a refusal has changed nothing, unless a
\* statement failed after its effect.
ActsAsRegister == Register!Spec
=============================================================================
