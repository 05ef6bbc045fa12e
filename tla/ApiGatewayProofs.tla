-------------------------- MODULE ApiGatewayProofs --------------------------
(***************************************************************************)
(* Theorems about ApiGateway for any number of requests, images and users, *)
(* any bodies, and the database and MinIO failing or not.                  *)
(*                                                                         *)
(* That a POST looks like one step to everybody else rests on what the     *)
(* requests in progress know: the id of one that is about to insert is in  *)
(* no row and in no other request (Fresh).  That a poster's URL leads to   *)
(* an image of its own rests on Owned: the owner column is written before  *)
(* the URL leaves and never again.                                         *)
(***************************************************************************)
EXTENDS ApiGateway, TLAPS, FiniteSetTheorems

Rows == [Ids -> Api!Row \cup {None}]

Types ==
    /\ image \in Rows
    /\ owner \in [Ids -> Users \cup {None}]
    /\ at \in [Requests -> Places]
    /\ job \in [Requests -> Job \cup {None}]
    /\ answer \in [Requests -> Answer \cup {None}]
    /\ count \in [Methods -> [Statuses -> Nat]]

\* What a request knows at each of its calls.
Knows(l, j) ==
    CASE l = "sign"   -> j \in Job /\ j.method = "POST" /\ j.body \in Bodies
                         /\ j.token.kind \in {"canonical", "variant"}
      [] l = "insert" -> j \in Job /\ j.method = "POST" /\ j.body \in Bodies
                         /\ j.token.kind \in {"canonical", "variant"}
                         /\ j.id \in Ids
      [] l = "select" -> j \in Job /\ j.method = "GET" /\ j.id \in Ids
      [] OTHER        -> TRUE

JobsFit ==
    \A r \in Requests : /\ Knows(at[r], job[r])
                        /\ at[r] = "answered" <=> answer[r] # None

Fresh ==
    \A r \in Requests : at[r] = "insert" =>
        /\ image[job[r].id] = None
        /\ \A q \in Requests \ {r} : at[q] = "insert" => job[q].id # job[r].id

Owned ==
    \A id \in Ids : owner[id] # None =>
        image[id] # None /\ image[id].owner = owner[id]

\* No counter exceeds the requests that were answered.
Done == {r \in Requests : answer[r] # None}

Bounded == \A m \in Methods, s \in Statuses : count[m][s] <= Cardinality(Done)

IInv == Types /\ JobsFit /\ Fresh /\ Owned /\ HandlersCount /\ Bounded

-----------------------------------------------------------------------------
(* The statements                                                          *)

\* An INSERT makes one row, of its user, and changes no other.
LEMMA Inserts ==
    ASSUME NEW id \in Ids, NEW u \in Users, NEW name \in Names, image \in Rows,
           Api!InsertImage(id, u, name)
    PROVE  /\ image' \in Rows
           /\ image'[id] # None /\ image'[id].owner = u
           /\ \A i \in Ids \ {id} : image'[i] = image[i]
<1> DEFINE row == [owner |-> u, name |-> name, status |-> "upload", sizes |-> None]
<1>1. row \in Api!Row /\ row.owner = u
  BY DEF Api!Row, Api!Statuses
<1>2. image' = [image EXCEPT ![id] = row]
  BY DEF Api!InsertImage
<1> HIDE DEF row
<1>. QED BY <1>1, <1>2, NoneAssumption DEF Rows

\* An UPDATE of the status makes no row, removes none and changes no owner.
LEMMA Updates ==
    ASSUME NEW id \in Ids, NEW s \in Api!Statuses, image \in Rows,
           Api!SetStatus(id, s)
    PROVE  /\ image' \in Rows
           /\ \A i \in Ids : (image'[i] = None) <=> (image[i] = None)
           /\ \A i \in Ids : image[i] # None => image'[i].owner = image[i].owner
<1> DEFINE New(r) == [r EXCEPT !.status = s]
<1>1. \A r \in Api!Row : New(r) \in Api!Row /\ New(r).owner = r.owner
  BY DEF Api!Row
<1>2. \A i \in Ids : image'[i] =
         IF i = id THEN (IF image[i] = None THEN None ELSE New(image[i]))
         ELSE image[i]
  BY DEF Api!SetStatus, Rows
<1>3. image' = [i \in Ids |-> image'[i]]
  BY DEF Api!SetStatus, Rows
<1> HIDE DEF New
<1>4. \A i \in Ids : image[i] \in Api!Row \cup {None}
  BY DEF Rows
<1>5. \A i \in Ids : image'[i] \in Api!Row \cup {None}
  BY <1>1, <1>2, <1>4
<1>. QED BY <1>1, <1>2, <1>3, <1>4, <1>5, NoneAssumption DEF Rows

-----------------------------------------------------------------------------
(* The forms a step can have                                               *)

Unknown(id) ==
    image[id] = None /\ \A q \in Requests : at[q] = "insert" => job[q].id # id

\* A request goes on to a call, knowing what it needs for it.
Moves(r, l, j) ==
    /\ answer[r] = None /\ l # "answered" /\ l \in Places
    /\ Go(r, l, j) /\ Knows(l, j) /\ j \in Job
    /\ l = "insert" => Unknown(j.id)
    /\ UNCHANGED <<image, owner>>

\* What the counter does when an answer is given.
Counts(m, s) ==
    \/ Count(m, s)
    \/ s = 401 /\ Count("GET", 401)
    \/ s \in {400, 401} /\ UNCHANGED count

\* The one change of the table a request makes.
Inserting(r) ==
    /\ at[r] = "insert" /\ InsertRow(job[r])
    /\ Handout(job[r]) \/ ("db" \in Env /\ UNCHANGED owner)

\* A request is answered.
Ends(r, j, s) ==
    /\ answer[r] = None
    /\ j \in Job /\ s \in Statuses
    /\ Answered(r, j, s) /\ Counts(j.method, s)
    /\ UNCHANGED <<image, owner>> \/ Inserting(r)

StepOf(r) ==
    \/ \E l \in Places, j \in Job : Moves(r, l, j)
    \/ \E j \in Job, s \in Statuses : Ends(r, j, s)

LEMMA UnauthenticatedForm ==
    ASSUME IInv, NEW r \in Requests, NEW j \in Job, answer[r] = None,
           Unauthenticated(r, j), UNCHANGED <<image, owner>>
    PROVE  StepOf(r)
<1>1. PICK s \in {400, 401} : Answered(r, j, s) /\ Counts(j.method, s)
  BY DEF Unauthenticated, DecideSilently, Counts
<1>2. s \in Statuses
  BY DEF Statuses
<1>. QED BY <1>1, <1>2 DEF StepOf, Ends

LEMMA DecideForm ==
    ASSUME IInv, NEW r \in Requests, NEW j \in Job, NEW s \in Statuses,
           answer[r] = None, UNCHANGED <<image, owner>> \/ Inserting(r),
           Decide(r, j, s) \/ (s = 400 /\ DecideSilently(r, j, s))
    PROVE  StepOf(r)
<1>1. Answered(r, j, s) /\ Counts(j.method, s)
  BY DEF Decide, DecideSilently, Counts
<1>. QED BY <1>1 DEF StepOf, Ends

LEMMA PostForm ==
    ASSUME IInv, NEW r \in Requests, NEW token \in Token, NEW body \in Bodies,
           Post(r, token, body)
    PROVE  StepOf(r)
<1> DEFINE j == [method |-> "POST", token |-> token, id |-> None, body |-> body]
<1>1. j \in Job /\ j.method = "POST" /\ j.body = body /\ j.token = token
  BY DEF Job, Methods
<1>2. answer[r] = None /\ UNCHANGED <<image, owner>>
  BY DEF Post, IInv, JobsFit
<1>3. token.kind \in {"missing", "refused", "nosub", "text", "canonical", "variant"}
  BY DEF Token
<1>4. \/ Unauthenticated(r, j)
      \/ Decide(r, j, 400)
      \/ DecideSilently(r, j, 400)
      \/ token.kind \in {"canonical", "variant"} /\ Go(r, "sign", j)
  BY <1>3 DEF Post, Authenticated
<1> HIDE DEF j
<1>5. 400 \in Statuses /\ "sign" \in Places
  BY DEF Statuses, Places
<1>6. CASE token.kind \in {"canonical", "variant"} /\ Go(r, "sign", j)
  <2>1. Knows("sign", j)
    BY <1>1, <1>6 DEF Knows
  <2>. QED BY <1>1, <1>2, <1>5, <1>6, <2>1 DEF StepOf, Moves
<1>7. CASE Unauthenticated(r, j)
  BY <1>1, <1>2, <1>7, UnauthenticatedForm
<1>8. CASE Decide(r, j, 400) \/ DecideSilently(r, j, 400)
  BY <1>1, <1>2, <1>5, <1>8, DecideForm
<1>. QED BY <1>4, <1>6, <1>7, <1>8

LEMMA GetForm ==
    ASSUME IInv, NEW r \in Requests, NEW token \in Token,
           NEW id \in Ids \cup {None}, Get(r, token, id)
    PROVE  StepOf(r)
<1> DEFINE j == [method |-> "GET", token |-> token, id |-> id, body |-> None]
<1>1. j \in Job /\ j.method = "GET" /\ j.id = id
  BY DEF Job, Methods
<1>2. answer[r] = None /\ UNCHANGED <<image, owner>>
  BY DEF Get, IInv, JobsFit
<1>3. \/ Unauthenticated(r, j)
      \/ Decide(r, j, 400)
      \/ id # None /\ Go(r, "select", j)
  BY DEF Get
<1> HIDE DEF j
<1>4. 400 \in Statuses /\ "select" \in Places
  BY DEF Statuses, Places
<1>5. CASE id # None /\ Go(r, "select", j)
  <2>1. Knows("select", j)
    BY <1>1, <1>5 DEF Knows
  <2>. QED BY <1>1, <1>2, <1>4, <1>5, <2>1 DEF StepOf, Moves
<1>6. CASE Unauthenticated(r, j)
  BY <1>1, <1>2, <1>6, UnauthenticatedForm
<1>7. CASE Decide(r, j, 400)
  BY <1>1, <1>2, <1>4, <1>7, DecideForm
<1>. QED BY <1>3, <1>5, <1>6, <1>7

LEMMA SignForm ==
    ASSUME IInv, NEW r \in Requests, Sign(r)
    PROVE  StepOf(r)
<1>1. /\ answer[r] = None /\ UNCHANGED <<image, owner>>
      /\ Knows("sign", job[r])
  BY DEF Sign, IInv, JobsFit
<1>2. CASE Decide(r, job[r], 500)
  BY <1>1, <1>2, DecideForm DEF Knows, Statuses
<1>3. ASSUME NEW id \in Ids, Unknown(id),
             Go(r, "insert", [job[r] EXCEPT !.id = id])
      PROVE  StepOf(r)
  <2> DEFINE j == [job[r] EXCEPT !.id = id]
  <2>1. /\ j \in Job /\ j.id = id /\ j.method = job[r].method
        /\ j.body = job[r].body /\ j.token = job[r].token
    BY <1>1 DEF Knows, Job
  <2>2. Go(r, "insert", j)
    BY <1>3
  <2> HIDE DEF j
  <2>3. Knows("insert", j) /\ "insert" \in Places
    BY <1>1, <2>1 DEF Knows, Places
  <2>. QED BY <1>1, <1>3, <2>1, <2>2, <2>3 DEF StepOf, Moves
<1>. QED BY <1>2, <1>3 DEF Sign, Unknown

LEMMA InsertForm ==
    ASSUME IInv, NEW r \in Requests, Insert(r)
    PROVE  StepOf(r)
<1>1. answer[r] = None /\ at[r] = "insert" /\ Knows("insert", job[r])
  BY DEF Insert, IInv, JobsFit
<1>2. PICK s \in {200, 500} : Decide(r, job[r], s)
  BY DEF Insert
<1>3. UNCHANGED <<image, owner>> \/ Inserting(r)
  BY DEF Insert, Inserting, InsertRow
<1>. QED BY <1>1, <1>2, <1>3, DecideForm DEF Knows, Statuses

LEMMA SelectForm ==
    ASSUME IInv, NEW r \in Requests, Select(r)
    PROVE  StepOf(r)
<1>1. /\ answer[r] = None /\ UNCHANGED <<image, owner>>
      /\ Knows("select", job[r])
  BY DEF Select, IInv, JobsFit
<1>2. PICK s \in {200, 403, 404, 406, 500} : Decide(r, job[r], s)
  BY DEF Select, Api!GetImage
<1>. QED BY <1>1, <1>2, DecideForm DEF Knows, Statuses

Moving == \E id \in Ids, s \in Api!Statuses \ {"upload"} : Work(id, s)

\* Every step is one of a request, in one of the two forms, or img-service's.
LEMMA StepForms ==
    ASSUME IInv, Next
    PROVE  Moving \/ \E r \in Requests : StepOf(r)
BY PostForm, GetForm, SignForm, InsertForm, SelectForm DEF Next, Moving

-----------------------------------------------------------------------------
(* What the forms do to the table and to the requests                      *)

\* INSERT of the job of a request that knows what it must.
LEMMA InsertingChanges ==
    ASSUME IInv, NEW r \in Requests, Inserting(r)
    PROVE  /\ job[r] \in Job /\ job[r].id \in Ids
           /\ image[job[r].id] = None
           /\ job[r].token.user \in Users
           /\ image' \in Rows /\ image'[job[r].id] # None
           /\ image'[job[r].id].owner = job[r].token.user
           /\ \A i \in Ids \ {job[r].id} : image'[i] = image[i]
           /\ \/ owner' = [owner EXCEPT ![job[r].id] = job[r].token.user]
              \/ "db" \in Env /\ owner' = owner
<1>1. Knows("insert", job[r]) /\ image[job[r].id] = None
  BY DEF IInv, JobsFit, Fresh, Inserting
<1>2. job[r].token \in Token /\ job[r].token.kind \in {"canonical", "variant"}
  BY <1>1 DEF Knows, Job
<1>3. job[r].token.user \in Users
  BY <1>2 DEF Token
<1>4. job[r].body.name \in Names
  BY <1>1, BodiesAssumption DEF Knows
<1>5. Api!InsertImage(job[r].id, job[r].token.user, job[r].body.name)
  BY DEF Inserting, InsertRow
<1>6. image \in Rows
  BY DEF IInv, Types
<1>7. \/ owner' = [owner EXCEPT ![job[r].id] = job[r].token.user]
      \/ "db" \in Env /\ owner' = owner
  BY DEF Inserting, Handout
<1>. QED BY <1>1, <1>3, <1>4, <1>5, <1>6, <1>7, Inserts DEF Knows

\* A row once there stays, with its owner.
LEMMA RowsStay ==
    ASSUME IInv, [Next]_gatewayVars
    PROVE  /\ image' \in Rows
           /\ \A i \in Ids : image[i] # None =>
                 image'[i] # None /\ image'[i].owner = image[i].owner
<1>1. image \in Rows
  BY DEF IInv, Types
<1>2. CASE Moving
  BY <1>1, <1>2, Updates DEF Moving, Work
<1>3. ASSUME NEW r \in Requests, StepOf(r)
      PROVE  /\ image' \in Rows
             /\ \A i \in Ids : image[i] # None =>
                   image'[i] # None /\ image'[i].owner = image[i].owner
  <2>1. UNCHANGED image \/ Inserting(r)
    BY <1>3 DEF StepOf, Moves, Ends
  <2>2. CASE UNCHANGED image
    BY <1>1, <2>2
  <2>3. CASE Inserting(r)
    BY <2>3, InsertingChanges
  <2>. QED BY <2>1, <2>2, <2>3
<1>4. CASE UNCHANGED gatewayVars
  BY <1>1, <1>4 DEF gatewayVars
<1>. QED BY <1>2, <1>3, <1>4, StepForms

LEMMA OwnedStep ==
    ASSUME IInv, [Next]_gatewayVars
    PROVE  Owned' /\ owner' \in [Ids -> Users \cup {None}]
<1>1. owner \in [Ids -> Users \cup {None}] /\ Owned
  BY DEF IInv, Types
<1>2. CASE UNCHANGED owner
  BY <1>1, <1>2, RowsStay DEF Owned
<1>3. ASSUME NEW r \in Requests, Inserting(r), owner' # owner
      PROVE  Owned' /\ owner' \in [Ids -> Users \cup {None}]
  <2>1. owner' = [owner EXCEPT ![job[r].id] = job[r].token.user]
    BY <1>3, InsertingChanges
  <2>2. /\ job[r].id \in Ids /\ job[r].token.user \in Users
        /\ image'[job[r].id] # None
        /\ image'[job[r].id].owner = job[r].token.user
    BY <1>3, InsertingChanges
  <2>. QED BY <1>1, <2>1, <2>2, RowsStay DEF Owned
<1>4. UNCHANGED owner \/ \E r \in Requests : Inserting(r)
  BY StepForms DEF Moving, Work, StepOf, Moves, Ends, gatewayVars
<1>. QED BY <1>2, <1>3, <1>4

LEMMA TypesStep ==
    ASSUME IInv, [Next]_gatewayVars
    PROVE  Types'
<1>1. Types
  BY DEF IInv
<1> DEFINE Typed == /\ at' \in [Requests -> Places]
                    /\ job' \in [Requests -> Job \cup {None}]
                    /\ answer' \in [Requests -> Answer \cup {None}]
                    /\ count' \in [Methods -> [Statuses -> Nat]]
<1>2. Typed
  <2>1. CASE Moving \/ UNCHANGED gatewayVars
    BY <1>1, <2>1 DEF Moving, Work, Types, gatewayVars
  <2>2. ASSUME NEW r \in Requests, NEW l \in Places, NEW j \in Job, Moves(r, l, j)
        PROVE  Typed
    BY <1>1, <2>2 DEF Moves, Go, Types
  <2>3. ASSUME NEW r \in Requests, NEW j \in Job, NEW s \in Statuses, Ends(r, j, s)
        PROVE  Typed
    <3>1. [method |-> j.method, status |-> s, id |-> j.id] \in Answer
      BY DEF Job, Answer
    <3>2. /\ answer' \in [Requests -> Answer \cup {None}]
          /\ job' \in [Requests -> Job \cup {None}]
      BY <1>1, <2>3, <3>1 DEF Ends, Answered, Types
    <3>3. at' \in [Requests -> Places]
      BY <1>1, <2>3 DEF Ends, Answered, Types, Places
    <3>4. \A m \in Methods, c \in Statuses :
             Count(m, c) => count' \in [Methods -> [Statuses -> Nat]]
      BY <1>1 DEF Count, Types
    <3>5. j.method \in Methods /\ "GET" \in Methods /\ 401 \in Statuses
      BY DEF Job, Methods, Statuses
    <3>6. count' \in [Methods -> [Statuses -> Nat]]
      BY <1>1, <2>3, <3>4, <3>5 DEF Ends, Counts, Types
    <3>. QED BY <3>2, <3>3, <3>6
  <2>. QED BY <2>1, <2>2, <2>3, StepForms DEF StepOf
<1>. QED BY <1>2, RowsStay, OwnedStep DEF Types

LEMMA JobsFitStep ==
    ASSUME IInv, [Next]_gatewayVars
    PROVE  JobsFit'
<1>1. Types /\ JobsFit
  BY DEF IInv
<1>2. CASE Moving \/ UNCHANGED gatewayVars
  <2>1. UNCHANGED <<at, job, answer>>
    BY <1>2 DEF Moving, Work, gatewayVars
  <2>. QED BY <1>1, <2>1 DEF JobsFit, Knows
<1>3. ASSUME NEW r \in Requests, NEW l \in Places, NEW j \in Job, Moves(r, l, j),
             NEW q \in Requests
      PROVE  Knows(at'[q], job'[q]) /\ (at'[q] = "answered" <=> answer'[q] # None)
  <2>1. /\ at'[q] = (IF q = r THEN l ELSE at[q])
        /\ job'[q] = (IF q = r THEN j ELSE job[q])
        /\ answer' = answer
    BY <1>1, <1>3 DEF Moves, Go, Types
  <2>. QED BY <1>1, <1>3, <2>1 DEF JobsFit, Moves
<1>4. ASSUME NEW r \in Requests, NEW j \in Job, NEW s \in Statuses, Ends(r, j, s),
             NEW q \in Requests
      PROVE  Knows(at'[q], job'[q]) /\ (at'[q] = "answered" <=> answer'[q] # None)
  <2>1. [method |-> j.method, status |-> s, id |-> j.id] # None
    BY NoneAssumption DEF Job, Answer
  <2>2. /\ at'[q] = (IF q = r THEN "answered" ELSE at[q])
        /\ job'[q] = (IF q = r THEN None ELSE job[q])
        /\ answer'[q] # None <=> (q = r \/ answer[q] # None)
    BY <1>1, <1>4, <2>1 DEF Ends, Answered, Types
  <2>. QED BY <1>1, <2>2 DEF JobsFit, Knows
<1>5. (\A q \in Requests :
          Knows(at'[q], job'[q]) /\ (at'[q] = "answered" <=> answer'[q] # None))
      => JobsFit'
  BY DEF JobsFit, Knows
<1>. QED BY <1>2, <1>3, <1>4, <1>5, StepForms DEF StepOf

LEMMA FreshStep ==
    ASSUME IInv, [Next]_gatewayVars
    PROVE  Fresh'
<1>1. Types /\ JobsFit /\ Fresh
  BY DEF IInv
<1>2. \A r \in Requests : at[r] = "insert" => job[r].id \in Ids
  BY <1>1 DEF JobsFit, Knows
<1>3. CASE Moving
  BY <1>1, <1>2, <1>3, Updates DEF Moving, Work, Fresh, Types
<1>4. CASE UNCHANGED gatewayVars
  BY <1>1, <1>4 DEF gatewayVars, Fresh
<1>5. ASSUME NEW r \in Requests, NEW l \in Places, NEW j \in Job, Moves(r, l, j)
      PROVE  Fresh'
  <2>1. \A q \in Requests : /\ at'[q] = (IF q = r THEN l ELSE at[q])
                            /\ job'[q] = (IF q = r THEN j ELSE job[q])
    BY <1>1, <1>5 DEF Moves, Go, Types
  <2>2. image' = image /\ (l = "insert" => Unknown(j.id))
    BY <1>5 DEF Moves
  <2>. QED BY <1>1, <2>1, <2>2 DEF Fresh, Unknown
<1>6. ASSUME NEW r \in Requests, NEW j \in Job, NEW s \in Statuses, Ends(r, j, s)
      PROVE  Fresh'
  <2>1. \A q \in Requests :
           at'[q] = "insert" => q # r /\ at[q] = "insert" /\ job'[q] = job[q]
    BY <1>1, <1>6 DEF Ends, Answered, Types
  <2>2. \A q \in Requests \ {r} : at[q] = "insert" => image'[job[q].id] = None
    <3>1. CASE UNCHANGED image
      BY <1>1, <3>1 DEF Fresh
    <3>2. CASE Inserting(r)
      BY <1>1, <1>2, <3>2, InsertingChanges DEF Fresh, Inserting
    <3>. QED BY <1>6, <3>1, <3>2 DEF Ends
  <2>. QED BY <1>1, <2>1, <2>2 DEF Fresh
<1>. QED BY <1>3, <1>4, <1>5, <1>6, StepForms DEF StepOf

-----------------------------------------------------------------------------
(* The counter                                                             *)

\* By how much one more answer raises one number of the counter.
LEMMA CountsByOne ==
    ASSUME Types, NEW j \in Job, NEW s \in Statuses, Counts(j.method, s),
           NEW m \in Methods, NEW c \in Statuses
    PROVE  /\ count[m][c] \in Nat
           /\ count'[m][c] <= count[m][c] + 1
           /\ c \notin {400, 401} =>
                 count'[m][c] = IF m = j.method /\ c = s THEN count[m][c] + 1
                                ELSE count[m][c]
<1>1. count \in [Methods -> [Statuses -> Nat]]
  BY DEF Types
<1>2. count[m] \in [Statuses -> Nat] /\ count[m][c] \in Nat
  BY <1>1
<1>3. j.method \in Methods /\ "GET" \in Methods
  BY DEF Job, Methods
<1>4. ASSUME NEW k \in Methods, NEW d \in Statuses, Count(k, d)
      PROVE  count'[m][c] = IF m = k /\ c = d THEN count[m][c] + 1
                            ELSE count[m][c]
  BY <1>1, <1>4 DEF Count
<1>. QED BY <1>2, <1>3, <1>4 DEF Counts, Statuses

LEMMA BoundedStep ==
    ASSUME IInv, [Next]_gatewayVars
    PROVE  Bounded'
<1>1. Types /\ Bounded
  BY DEF IInv
<1>2. CASE UNCHANGED <<answer, count>>
  BY <1>1, <1>2 DEF Bounded, Done
<1>3. ASSUME NEW r \in Requests, NEW j \in Job, NEW s \in Statuses, Ends(r, j, s),
             NEW m \in Methods, NEW c \in Statuses
      PROVE  count'[m][c] <= Cardinality(Done')
  <2>1. IsFiniteSet(Done)
    BY RequestsAssumption, FS_Subset DEF Done
  <2>2. Done' = Done \cup {r} /\ r \notin Done
    <3>1. [method |-> j.method, status |-> s, id |-> j.id] # None
      BY NoneAssumption DEF Job, Answer
    <3>. QED BY <1>1, <1>3, <3>1 DEF Ends, Answered, Types, Done
  <2>3. Cardinality(Done') = Cardinality(Done) + 1 /\ Cardinality(Done) \in Nat
    BY <2>1, <2>2, FS_AddElement, FS_CardinalityType
  <2>4. /\ count[m][c] <= Cardinality(Done) /\ count[m][c] \in Nat
        /\ count'[m][c] <= count[m][c] + 1
    BY <1>1, <1>3, CountsByOne DEF Bounded, Ends
  <2>5. count'[m][c] \in Nat
    BY TypesStep DEF Types
  <2>. QED BY <2>3, <2>4, <2>5
<1>4. (\A m \in Methods, c \in Statuses : count'[m][c] <= Cardinality(Done'))
      => Bounded'
  BY DEF Bounded
<1>5. \/ UNCHANGED <<answer, count>>
      \/ \E r \in Requests, j \in Job, s \in Statuses : Ends(r, j, s)
  BY StepForms DEF StepOf, Moves, Go, Moving, Work, gatewayVars
<1>. QED BY <1>2, <1>3, <1>4, <1>5

LEMMA HandlersCountStep ==
    ASSUME IInv, [Next]_gatewayVars
    PROVE  HandlersCount'
<1>1. Types /\ HandlersCount
  BY DEF IInv
<1>2. CASE UNCHANGED <<answer, count>>
  BY <1>1, <1>2 DEF HandlersCount, Answers
<1>3. ASSUME NEW r \in Requests, NEW j \in Job, NEW s \in Statuses, Ends(r, j, s),
             NEW m \in Methods, NEW c \in Statuses \ {400, 401}
      PROVE  count'[m][c] = Cardinality(Answers(m, c)')
  <2> DEFINE a == [method |-> j.method, status |-> s, id |-> j.id]
  <2>1. a # None /\ a.method = j.method /\ a.status = s
    BY NoneAssumption DEF Job, Answer
  <2>2. answer[r] = None /\ answer' = [answer EXCEPT ![r] = a]
    BY <1>3 DEF Ends, Answered
  <2> HIDE DEF a
  <2>3. /\ r \notin Answers(m, c)
        /\ Answers(m, c)' = IF m = j.method /\ c = s THEN Answers(m, c) \cup {r}
                            ELSE Answers(m, c)
    BY <1>1, <2>1, <2>2 DEF Answers, Types
  <2>4. IsFiniteSet(Answers(m, c))
    BY RequestsAssumption, FS_Subset DEF Answers
  <2>5. Cardinality(Answers(m, c) \cup {r}) = Cardinality(Answers(m, c)) + 1
    BY <2>3, <2>4, FS_AddElement
  <2>6. count[m][c] = Cardinality(Answers(m, c))
    BY <1>1 DEF HandlersCount
  <2>7. count'[m][c] = IF m = j.method /\ c = s THEN count[m][c] + 1
                       ELSE count[m][c]
    BY <1>1, <1>3, CountsByOne DEF Ends
  <2>. QED BY <2>3, <2>5, <2>6, <2>7
<1>4. (\A m \in Methods, c \in Statuses \ {400, 401} :
          count'[m][c] = Cardinality(Answers(m, c)')) => HandlersCount'
  BY DEF HandlersCount
<1>5. \/ UNCHANGED <<answer, count>>
      \/ \E r \in Requests, j \in Job, s \in Statuses : Ends(r, j, s)
  BY StepForms DEF StepOf, Moves, Go, Moving, Work, gatewayVars
<1>. QED BY <1>2, <1>3, <1>4, <1>5

-----------------------------------------------------------------------------
(* The theorems                                                            *)

LEMMA InvInit == Init => IInv
<1>. SUFFICES ASSUME Init PROVE IInv
  OBVIOUS
<1>1. Types /\ JobsFit /\ Fresh /\ Owned
  BY DEF Init, Types, Rows, Places, JobsFit, Knows, Fresh, Owned
<1>2. Done = {} /\ \A m \in Methods, s \in Statuses : Answers(m, s) = {}
  BY DEF Init, Done, Answers
<1>3. \A m \in Methods, s \in Statuses : count[m][s] = 0
  BY DEF Init
<1>4. HandlersCount /\ Bounded
  BY <1>2, <1>3, FS_EmptySet DEF HandlersCount, Bounded
<1>. QED BY <1>1, <1>4 DEF IInv

LEMMA InvStep == IInv /\ [Next]_gatewayVars => IInv'
BY TypesStep, JobsFitStep, FreshStep, OwnedStep, HandlersCountStep, BoundedStep
   DEF IInv

\* IInv is an invariant of ApiGateway.
LEMMA InvHolds == Spec => []IInv
BY InvInit, InvStep, PTL DEF Spec

LEMMA TypesSuffice == IInv => TypeOK
<1>. SUFFICES ASSUME IInv PROVE TypeOK
  OBVIOUS
<1>1. IsFiniteSet(Done) /\ Cardinality(Done) <= Cardinality(Requests)
  BY RequestsAssumption, FS_Subset DEF Done
<1>2. Cardinality(Done) \in Nat /\ Cardinality(Requests) \in Nat
  BY <1>1, RequestsAssumption, FS_CardinalityType
<1>3. ASSUME NEW m \in Methods, NEW s \in Statuses
      PROVE  count[m][s] \in 0..Cardinality(Requests)
  <2>1. count[m][s] \in Nat /\ count[m][s] <= Cardinality(Done)
    BY DEF IInv, Types, Bounded
  <2>. QED BY <1>1, <1>2, <2>1
<1>4. count \in [Methods -> [Statuses -> 0..Cardinality(Requests)]]
  BY <1>3 DEF IInv, Types
<1>. QED BY <1>4 DEF IInv, Types, Rows, TypeOK

\* Variables stay in their domains, no counter above the number of requests.
THEOREM GatewayTypesHold == Spec => []TypeOK
BY InvHolds, TypesSuffice, PTL

\* Whatever overlaps and fails, the answers the handlers give are counted
\* once each, under their own method and status: all but 400 and 401.
THEOREM HandlersCountHolds == Spec => []HandlersCount
<1>1. IInv => HandlersCount
  BY DEF IInv
<1>. QED BY <1>1, InvHolds, PTL

\* An answer to a GET of the caller's own image comes from a row that is
\* there and is the caller's.
LEMMA ReadStep ==
    ASSUME IInv, [Next]_gatewayVars
    PROVE  [\A r \in Requests :
              at[r] = "select" /\ at'[r] = "answered"
              /\ owner[job[r].id] # None /\ owner[job[r].id] = Sub(job[r].token) =>
                 answer'[r].status \notin {403, 404}]_gatewayVars
<1>. SUFFICES ASSUME NEW r \in Requests, at[r] = "select", at'[r] = "answered",
                     owner[job[r].id] # None,
                     owner[job[r].id] = Sub(job[r].token)
              PROVE  answer'[r].status \notin {403, 404}
  OBVIOUS
<1>1. Types /\ Knows("select", job[r]) /\ Owned
  BY DEF IInv, JobsFit
<1>2. Select(r)
  <2>1. Next /\ at' # at
    BY DEF gatewayVars
  <2>2. PICK q \in Requests :
           \/ \E token \in Token :
                 \/ \E body \in Bodies : Post(q, token, body)
                 \/ \E id \in Ids \cup {None} : Get(q, token, id)
           \/ Sign(q) \/ Insert(q) \/ Select(q)
    BY <2>1 DEF Next, Work
  <2>3. PICK l \in Places : at' = [at EXCEPT ![q] = l]
    <3>1. \A j, s : Answered(q, j, s) => at' = [at EXCEPT ![q] = "answered"]
      BY DEF Answered
    <3>2. \A j : \A l \in Places : Go(q, l, j) => at' = [at EXCEPT ![q] = l]
      BY DEF Go
    <3>3. {"answered", "sign", "insert", "select"} \subseteq Places
      BY DEF Places
    <3>4. \A j, s : Decide(q, j, s) \/ DecideSilently(q, j, s)
                    \/ Unauthenticated(q, j) => at' = [at EXCEPT ![q] = "answered"]
      BY <3>1 DEF Decide, DecideSilently, Unauthenticated
    <3>5. ASSUME NEW token, NEW body, Post(q, token, body)
          PROVE  \E l \in Places : at' = [at EXCEPT ![q] = l]
      BY <3>2, <3>3, <3>4, <3>5 DEF Post
    <3>6. ASSUME NEW token, NEW id, Get(q, token, id)
          PROVE  \E l \in Places : at' = [at EXCEPT ![q] = l]
      BY <3>2, <3>3, <3>4, <3>6 DEF Get
    <3>7. CASE Sign(q)
      BY <3>3, <3>7 DEF Sign, Go, Decide, Answered
    <3>8. CASE Insert(q)
      BY <3>3, <3>4, <3>8 DEF Insert
    <3>9. CASE Select(q)
      BY <3>3, <3>4, <3>9 DEF Select
    <3>. QED BY <2>2, <3>5, <3>6, <3>7, <3>8, <3>9
  <2>4. q = r
    BY <1>1, <2>3 DEF Types
  <2>. QED BY <2>2, <2>4 DEF Post, Get, Sign, Insert
<1>3. /\ image[job[r].id] # None
      /\ image[job[r].id].owner = Sub(job[r].token)
  BY <1>1 DEF Owned, Knows
<1>4. Api!GetImage(Sub(job[r].token), job[r].id) \in {200, 406}
  BY <1>3 DEF Api!GetImage
<1>5. PICK s \in {200, 406, 500} : Answered(r, job[r], s)
  BY <1>2, <1>4 DEF Select, Decide
<1>. QED BY <1>1, <1>5 DEF Answered, Types

\* Whoever was given the URL of an image gets neither 403 nor 404 for it.
THEOREM ReadYourPostsHolds == Spec => ReadYourPosts
BY InvHolds, ReadStep, PTL DEF Spec, ReadYourPosts

\* Every change of the table and of what posters were told is a step of the
\* abstract service.
LEMMA ApiStep ==
    ASSUME IInv, [Next]_gatewayVars
    PROVE  [\/ \E u \in Users, id \in Ids, name \in Names :
                  Api!PostImage(u, id, name)
            \/ \E id \in Ids, s \in Api!Statuses :
                  Api!SetStatus(id, s) /\ UNCHANGED owner]_<<image, owner>>
<1>1. CASE Moving
  BY <1>1 DEF Moving, Work
<1>2. ASSUME NEW r \in Requests, Inserting(r)
      PROVE  \E u \in Users, id \in Ids, name \in Names : Api!PostImage(u, id, name)
  <2>1. PICK id \in Ids, u \in Users :
           /\ id = job[r].id /\ u = job[r].token.user
           /\ image[id] = None
           /\ \/ owner' = [owner EXCEPT ![id] = u]
              \/ "db" \in Env /\ owner' = owner
    BY <1>2, InsertingChanges
  <2>2. PICK name \in Names : Api!InsertImage(id, u, name)
    <3>1. job[r].body.name \in Names
      BY <1>2, BodiesAssumption DEF Inserting, IInv, JobsFit, Knows
    <3>2. image' = [image EXCEPT ![id] =
                      [owner |-> u, name |-> job[r].body.name,
                       status |-> "upload", sizes |-> None]]
      BY <1>2, <2>1 DEF Inserting, InsertRow, Api!InsertImage
    <3>. QED BY <3>1, <3>2 DEF Api!InsertImage
  <2>3. ASSUME owner' = [owner EXCEPT ![id] = u]
        PROVE  \A i \in Ids : (owner'[i] = None) <=> (i # id /\ owner[i] = None)
    <3>1. u # None /\ owner \in [Ids -> Users \cup {None}]
      BY NoneAssumption DEF IInv, Types
    <3>. QED BY <2>3, <3>1
  <2>4. Api!PostImage(u, id, name)
    BY <2>1, <2>2, <2>3 DEF Api!PostImage
  <2>. QED BY <2>4
<1>3. \/ Moving \/ UNCHANGED <<image, owner>>
      \/ \E r \in Requests : Inserting(r)
  BY StepForms DEF StepOf, Moves, Ends, gatewayVars
<1>. QED BY <1>1, <1>2, <1>3

\* Overlapping, failing POSTs act on the table as if each were the one step
\* ApiService says it is.
THEOREM ImplementsApiHolds == Spec => ImplementsApi
BY InvHolds, ApiStep, PTL DEF Spec, ImplementsApi
=============================================================================
