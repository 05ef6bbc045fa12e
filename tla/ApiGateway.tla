----------------------------- MODULE ApiGateway -----------------------------
(***************************************************************************)
(* api-service request by request: the bearer token, the checks of the     *)
(* body, the calls to MinIO and Postgres one after the other, the answer   *)
(* and the counter behind GET /metrics.  ApiService is what this promises. *)
(*                                                                         *)
(* The two pods of api-service share nothing but the table and keep no     *)
(* state between requests, so that requests are told apart and pods are    *)
(* not; the counter is the sum of theirs.  What img-service does to a row  *)
(* is left open: any change of its status.                                 *)
(***************************************************************************)
EXTENDS Naturals, FiniteSets

CONSTANTS
    Ids, Users,
    Names,      \* file names, records [bytes, chars, nul]
    Bodies,     \* bodies of a POST, records [json, image, size, name, type]
    Requests,   \* all the requests there will be
    None,
    Env         \* what may go wrong, of "db" and "s3"

VARIABLES
    image,      \* public.image: id -> row
    owner,      \* history: whose POST was answered with the URL of id
    at,         \* where each request is
    job,        \* what each request in progress is about
    answer,     \* the answer of each request
    count       \* api_requests_total by method and status

gatewayVars == <<image, owner, at, job, answer, count>>

MiB == 1024 * 1024

\* The bearer token: none, one that Keycloak's keys do not verify, one
\* without sub, one whose sub is no UUID; or the sub in the form String()
\* gives it ("canonical") or in another that uuid.Parse takes ("variant").
Token == [kind : {"missing", "refused", "nosub", "text"}, user : {None}]
         \cup [kind : {"canonical", "variant"}, user : Users]

Methods  == {"POST", "GET"}
Statuses == {200, 400, 401, 403, 404, 406, 500}

Job    == [method : Methods, token : Token, id : Ids \cup {None},
           body : Bodies \cup {None}]
Answer == [method : Methods, status : Statuses, id : Ids \cup {None}]

\* Where a request is; a request is answered once and for all.
Places == {"new", "sign", "insert", "select", "answered"}

\* The table and the URLs as ApiService sees them; no object is put here.
Api == INSTANCE ApiService WITH
    MaxPuts <- 1,
    url <- [id \in Ids |-> IF owner[id] = None THEN "none" ELSE "live"],
    upload <- [id \in Ids |-> None], original <- [name \in Names |-> None],
    preview <- [b \in {"large", "medium", "small"} |-> [id \in Ids |-> None]],
    puts <- [id \in Ids |-> 0], events <- [id \in Ids |-> 0]

ASSUME NoneAssumption == None \notin Ids \cup Users \cup Api!Row \cup Job \cup Answer
ASSUME BodiesAssumption == \A body \in Bodies : body.name \in Names
ASSUME RequestsAssumption == IsFiniteSet(Requests)

TypeOK ==
    /\ image \in [Ids -> Api!Row \cup {None}]
    /\ owner \in [Ids -> Users \cup {None}]
    /\ at \in [Requests -> Places]
    /\ job \in [Requests -> Job \cup {None}]
    /\ answer \in [Requests -> Answer \cup {None}]
    /\ count \in [Methods -> [Statuses -> 0..Cardinality(Requests)]]

Init ==
    /\ image = [id \in Ids |-> None]
    /\ owner = [id \in Ids |-> None]
    /\ at = [r \in Requests |-> "new"]
    /\ job = [r \in Requests |-> None]
    /\ answer = [r \in Requests |-> None]
    /\ count = [m \in Methods |-> [s \in Statuses |-> 0]]

-----------------------------------------------------------------------------
(* Going on and answering                                                  *)

Go(r, l, j) ==
    /\ at' = [at EXCEPT ![r] = l]
    /\ job' = [job EXCEPT ![r] = j]
    /\ UNCHANGED <<answer, count>>

\* Mutant: the middleware counts what the handler counts again.
CountTwice(method, status) == count' = [count EXCEPT ![method][status] = @ + 2]

Count(method, status) == count' = [count EXCEPT ![method][status] = @ + 1]

\* The answer leaves when the handler returns, wherever it was written.
Answered(r, j, status) ==
    /\ at' = [at EXCEPT ![r] = "answered"]
    /\ job' = [job EXCEPT ![r] = None]
    /\ answer' = [answer EXCEPT ![r] =
                    [method |-> j.method, status |-> status, id |-> j.id]]

Decide(r, j, status) == Answered(r, j, status) /\ Count(j.method, status)

DecideSilently(r, j, status) == Answered(r, j, status) /\ UNCHANGED count

\* Auth.Middleware and SubFromClaims: the answers to a token without a sub.
Unauthenticated(r, j) ==
    \/ /\ j.token.kind = "missing"
       /\ Answered(r, j, 401) /\ Count("GET", 401)
    \/ j.token.kind = "refused" /\ DecideSilently(r, j, 401)
    \/ j.token.kind = "nosub" /\ DecideSilently(r, j, 400)

Authenticated(j) == j.token.kind \in {"text", "canonical", "variant"}

-----------------------------------------------------------------------------
(* POST /api/img                                                           *)

\* A text, a file name or a MIME type, is known by its length in bytes and in
\* characters and by whether it has a NUL, which JSON allows.  The handler
\* looks at the bytes of the name.
Acceptable(body) ==
    /\ body.json /\ body.image
    /\ body.size <= 10 * MiB
    /\ body.name.bytes <= 255

\* What the columns take: VARCHAR(255) and VARCHAR(128) count characters, and
\* no text of Postgres has a NUL.
Fits(body) ==
    /\ body.name.chars <= 255 /\ body.type.chars <= 128
    /\ ~body.name.nul /\ ~body.type.nul

\* POST up to the first call; the sub is parsed after the body is checked.
Post(r, token, body) ==
    LET j == [method |-> "POST", token |-> token, id |-> None, body |-> body] IN
    /\ at[r] = "new"
    /\ \/ Unauthenticated(r, j)
       \/ Authenticated(j) /\ ~Acceptable(body) /\ Decide(r, j, 400)
       \/ /\ Authenticated(j) /\ Acceptable(body)
          /\ \/ token.kind = "text" /\ DecideSilently(r, j, 400)
             \/ token.kind # "text" /\ Go(r, "sign", j)
    /\ UNCHANGED <<image, owner>>

\* uuid.New() and PresignedPutURL.
Sign(r) ==
    /\ at[r] = "sign"
    /\ \/ \E id \in Ids :
             /\ image[id] = None
             /\ \A q \in Requests : at[q] = "insert" => job[q].id # id
             /\ Go(r, "insert", [job[r] EXCEPT !.id = id])
       \/ "s3" \in Env /\ Decide(r, job[r], 500)
    /\ UNCHANGED <<image, owner>>

\* The table refuses a second row with the same PRIMARY KEY and a text that
\* does not fit.
Refused(j) == image[j.id] # None \/ ~Fits(j.body)

InsertRow(j) ==
    ~Refused(j) /\ Api!InsertImage(j.id, j.token.user, j.body.name)

Handout(j) == owner' = [owner EXCEPT ![j.id] = j.token.user]

\* Mutant: an INSERT that fails is logged, and the URL handed out.
InsertIgnored(r) ==
    LET j == job[r] IN
    /\ at[r] = "insert"
    /\ InsertRow(j) \/ UNCHANGED image
    /\ Handout(j) /\ Decide(r, j, 200)

\* CreateImage, and the answer with the URL.
Insert(r) ==
    LET j == job[r] IN
    /\ at[r] = "insert"
    /\ \/ InsertRow(j) /\ Handout(j) /\ Decide(r, j, 200)
       \/ /\ "db" \in Env \/ Refused(j)
          /\ InsertRow(j) \/ UNCHANGED image
          /\ UNCHANGED owner /\ Decide(r, j, 500)

-----------------------------------------------------------------------------
(* GET /api/img                                                            *)

\* GET up to the SELECT; id is None for an id that is no UUID.
Get(r, token, id) ==
    LET j == [method |-> "GET", token |-> token, id |-> id, body |-> None] IN
    /\ at[r] = "new"
    /\ \/ Unauthenticated(r, j)
       \/ Authenticated(j) /\ id = None /\ Decide(r, j, 400)
       \/ Authenticated(j) /\ id # None /\ Go(r, "select", j)
    /\ UNCHANGED <<image, owner>>

\* What the row's owner is compared with: the sub as it is.  One that is not
\* in canonical form is nobody's.
Sub(token) == IF token.kind = "canonical" THEN token.user ELSE None

\* Mutant: an error of the database is logged only.
SelectSilently(r) ==
    LET j == job[r] IN
    /\ at[r] = "select"
    /\ \/ Decide(r, j, Api!GetImage(Sub(j.token), j.id))
       \/ "db" \in Env /\ DecideSilently(r, j, 500)
    /\ UNCHANGED <<image, owner>>

\* GetImage and the answer.
Select(r) ==
    LET j == job[r] IN
    /\ at[r] = "select"
    /\ \/ Decide(r, j, Api!GetImage(Sub(j.token), j.id))
       \/ "db" \in Env /\ Decide(r, j, 500)
    /\ UNCHANGED <<image, owner>>

\* img-service moves an image on.
Work(id, status) ==
    /\ image[id] # None
    /\ Api!SetStatus(id, status)
    /\ UNCHANGED <<owner, at, job, answer, count>>

Next ==
    \/ \E r \in Requests :
          \/ \E token \in Token :
                \/ \E body \in Bodies : Post(r, token, body)
                \/ \E id \in Ids \cup {None} : Get(r, token, id)
          \/ Sign(r) \/ Insert(r) \/ Select(r)
    \/ \E id \in Ids, status \in Api!Statuses \ {"upload"} : Work(id, status)

Spec == Init /\ [][Next]_gatewayVars

-----------------------------------------------------------------------------
(* Properties                                                              *)

\* POST /api/img is one step, in which the row comes to be and the URL with
\* it, or the row alone when the database broke down; all else is a change of
\* status.  No failure and no overlap gives a URL without a row.
ImplementsApi ==
    [][\/ \E u \in Users, id \in Ids, name \in Names : Api!PostImage(u, id, name)
       \/ \E id \in Ids, s \in Api!Statuses :
             Api!SetStatus(id, s) /\ UNCHANGED owner]_<<image, owner>>

\* Whoever was given an image's URL is never told that there is no such image
\* or that it is another's, if the token has the sub in canonical form.
ReadYourPosts ==
    [][\A r \in Requests :
          at[r] = "select" /\ at'[r] = "answered"
          /\ owner[job[r].id] # None /\ owner[job[r].id] = Sub(job[r].token) =>
             answer'[r].status \notin {403, 404}]_gatewayVars

Answers(m, s) == {r \in Requests : answer[r] # None /\ answer[r].method = m
                                   /\ answer[r].status = s}

\* Whatever the handlers answer is counted under its method and status, once,
\* however requests overlap and calls fail: all but 400 and 401.
HandlersCount ==
    \A m \in Methods, s \in Statuses \ {400, 401} :
        count[m][s] = Cardinality(Answers(m, s))
=============================================================================
