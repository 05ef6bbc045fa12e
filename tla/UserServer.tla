----------------------------- MODULE UserServer -----------------------------
(***************************************************************************)
(* sirius_go as its clients reach it: the routes of main.go, JWTAuth in    *)
(* front of the profiles and MetricsMiddleware around everything but       *)
(* /metrics.  What passes routes, token and decoding is served by UserApi. *)
(* A request is over, and its answer complete for the client, only when    *)
(* its metrics have been updated, one after the other.                     *)
(*                                                                         *)
(* The metrics are a bag of samples: like a Prometheus vector, it has a    *)
(* sample only from its first increment on.  GET /metrics reads them one   *)
(* by one, in any order, while requests are measured.                      *)
(***************************************************************************)
EXTENDS UserApi, Bags, Sequences, FiniteSets

CONSTANT Watched    \* the samples of a scrape that are looked at

VARIABLES
    meter,      \* the middleware's view of each request that was answered
    samples,    \* the increments behind GET /metrics
    scrape      \* the GET /metrics in progress

serverVars == <<vars, meter, samples, scrape>>

Operations == {"get", "create", "update", "delete", "patch"}
Entities   == {"user", "profile", "other"}

\* The samples: of the total by class of status, of the others by labels alone.
Sample ==
    ({"app_request_total"} \X Entities \X Operations \X (2..5)) \cup
    ({"app_request_duration_seconds", "app_request_duration_summary_seconds",
      "app_client_errors_total", "app_server_errors_total"}
        \X Entities \X Operations)

\* What the middleware has of a request: labels, status, increments to come.
Meters == [entity : Entities, operation : Operations, status : 200..599,
           left : Seq(Sample)]

\* A scrape: what it has read, None where it has not read yet, and as history
\* the requests that were over when it began.
Scrapes == [over : SUBSET Requests, read : [Watched -> Nat \cup {None}]]

ASSUME WatchedAssumption == Watched \subseteq Sample
ASSUME ScrapesAssumption == None \notin Scrapes \cup Nat
ASSUME MetersAssumption == None \notin Meters
ASSUME RequestsAssumption == IsFiniteSet(Requests)

\* getLabels of the requests that reach a handler.
LabelsOf == [listUsers     |-> [entity |-> "user", operation |-> "get"],
             createUser    |-> [entity |-> "user", operation |-> "create"],
             getUser       |-> [entity |-> "user", operation |-> "get"],
             updateUser    |-> [entity |-> "user", operation |-> "update"],
             deleteUser    |-> [entity |-> "user", operation |-> "delete"],
             getProfile    |-> [entity |-> "profile", operation |-> "get"],
             createProfile |-> [entity |-> "profile", operation |-> "create"],
             updateProfile |-> [entity |-> "profile", operation |-> "update"],
             deleteProfile |-> [entity |-> "profile", operation |-> "delete"]]

\* The requests that reach no table, each by its labels and its answer.
Rejections ==
    LET all(entity, operations, status) ==
            [entity : {entity}, operation : operations, status : {status}] IN
    \* no such path; a path is labelled by its prefix alone
    all("other", Operations, 404) \cup all("user", Operations, 404) \cup
    all("profile", Operations, 404) \cup
    \* no such method
    all("user", Operations \ {"get"}, 405) \cup all("profile", {"patch"}, 405)
    \cup \* no id, no body; a POST of a profile looks at the table first
    all("user", Operations \ {"patch"}, 400) \cup
    all("profile", {"update"}, 400) \cup
    \* JWTAuth: no token, or one without a valid signature or a user id
    all("profile", Operations, 401)

Family(name, l) == <<name, l.entity, l.operation>>

\* Mutant: the status is not recorded and stays the 200 it begins with.
RecordedNever(status) == 200

\* responseWriter.WriteHeader.
Recorded(status) == status

\* The increments of an answer, if the last family is as given.
UpdatesWith(l, status, errors) ==
    << <<"app_request_total", l.entity, l.operation, Recorded(status) \div 100>>,
       Family("app_request_duration_seconds", l),
       Family("app_request_duration_summary_seconds", l) >> \o errors

\* Mutant: every error is a client's, and a 5xx the server's as well.
UpdatesBoth(l, status) ==
    UpdatesWith(l, status,
        (IF Recorded(status) >= 400 THEN << Family("app_client_errors_total", l) >>
         ELSE << >>)
        \o (IF Recorded(status) >= 500
            THEN << Family("app_server_errors_total", l) >> ELSE << >>))

\* Mutant: rw.status > 400.
UpdatesAbove(l, status) ==
    UpdatesWith(l, status,
        CASE Recorded(status) \in 401..499 -> << Family("app_client_errors_total", l) >>
          [] Recorded(status) >= 500 -> << Family("app_server_errors_total", l) >>
          [] OTHER -> << >>)

\* What the middleware increments when the handler has returned, in order.
Updates(l, status) ==
    UpdatesWith(l, status,
        CASE Recorded(status) \in 400..499 -> << Family("app_client_errors_total", l) >>
          [] Recorded(status) >= 500 -> << Family("app_server_errors_total", l) >>
          [] OTHER -> << >>)

ServerTypeOK ==
    /\ TypeOK
    /\ IsABag(samples) /\ BagToSet(samples) \subseteq Sample
    /\ meter \in [Requests -> Meters \cup {None}]
    /\ \A h \in Requests : meter[h] # None => Len(meter[h].left) <= 4
    /\ scrape \in Scrapes \cup {None}

ServerInit ==
    /\ Init
    /\ meter = [h \in Requests |-> None]
    /\ samples = EmptyBag
    /\ scrape = None

\* The handler returns.
Meter(h, l, status) ==
    meter' = [meter EXCEPT ![h] =
                [entity |-> l.entity, operation |-> l.operation,
                 status |-> status, left |-> Updates(l, status)]]

\* A step of UserApi; its last one starts the measuring.
Serve(h) ==
    /\ meter[h] = None /\ at[h] # "answered"
    /\ Step(h)
    /\ IF at'[h] = "answered"
       THEN Meter(h, LabelsOf[answer'[h].op], answer'[h].status)
       ELSE UNCHANGED meter
    /\ UNCHANGED <<samples, scrape>>

Reject(h, r) ==
    /\ meter[h] = None /\ at[h] = "idle"
    /\ Meter(h, r, r.status)
    /\ UNCHANGED <<vars, samples, scrape>>

\* One increment.
Measure(h) ==
    /\ meter[h] # None /\ meter[h].left # << >>
    /\ samples' = samples (+) SetToBag({Head(meter[h].left)})
    /\ meter' = [meter EXCEPT ![h].left = Tail(@)]
    /\ UNCHANGED <<vars, scrape>>

-----------------------------------------------------------------------------
(* GET /metrics                                                            *)

\* The requests over: their clients have the whole answer.
Over == {h \in Requests : meter[h] # None /\ meter[h].left = << >>}

\* What a sample shows: nothing before its first increment.
Value(f) == IF BagIn(f, samples) THEN samples[f] ELSE 0

BeginScrape ==
    /\ scrape = None
    /\ scrape' = [over |-> Over, read |-> [f \in Watched |-> None]]
    /\ UNCHANGED <<vars, meter, samples>>

\* The registry collects its families at the same time, each sample when its
\* turn comes.
ReadSample(f) ==
    /\ scrape # None /\ scrape.read[f] = None
    /\ scrape' = [scrape EXCEPT !.read[f] = Value(f)]
    /\ UNCHANGED <<vars, meter, samples>>

EndScrape ==
    /\ scrape # None /\ \A f \in Watched : scrape.read[f] # None
    /\ scrape' = None
    /\ UNCHANGED <<vars, meter, samples>>

ServerNext ==
    \/ \E h \in Requests :
          Serve(h) \/ Measure(h) \/ \E r \in Rejections : Reject(h, r)
    \/ BeginScrape \/ (\E f \in Watched : ReadSample(f)) \/ EndScrape

ServerSpec == ServerInit /\ [][ServerNext]_serverVars

-----------------------------------------------------------------------------
(* Properties                                                              *)

ServedLabels == {LabelsOf[op] : op \in DOMAIN LabelsOf}

\* The requests of the set R answered with these labels and such a status.
AnsweredWith(R, l, statuses) ==
    {h \in R : /\ meter[h] # None
               /\ meter[h].entity = l.entity
               /\ meter[h].operation = l.operation
               /\ meter[h].status \in statuses}

Class(c) == (100 * c)..(100 * c + 99)

\* When no request is in progress, the samples account for every answer: in
\* the total of its class and, for a 4xx or a 5xx, in the counter of errors.
AnswersAreMeasured ==
    (\A h \in Requests : meter[h] # None => h \in Over) =>
        \A l \in ServedLabels :
            /\ \A c \in {2, 4, 5} :
                  Value(<<"app_request_total", l.entity, l.operation, c>>)
                  = Cardinality(AnsweredWith(Over, l, Class(c)))
            /\ Value(Family("app_client_errors_total", l))
               = Cardinality(AnsweredWith(Over, l, Class(4)))
            /\ Value(Family("app_server_errors_total", l))
               = Cardinality(AnsweredWith(Over, l, Class(5)))

\* What the scrape in progress has read of f, which is to count the answers
\* with these labels and statuses: all that were over when it began, and none
\* but those given so far.
Brackets(f, l, statuses) ==
    f \in Watched /\ scrape.read[f] # None =>
        /\ Cardinality(AnsweredWith(scrape.over, l, statuses)) <= scrape.read[f]
        /\ scrape.read[f] <= Cardinality(AnsweredWith(Requests, l, statuses))

\* A scrape misses no answer that was complete when it began and makes none
\* up, although other requests are answered and measured while it reads one
\* sample after the other.
ScrapesAreBounded ==
    scrape # None =>
        \A l \in ServedLabels :
            /\ \A c \in {2, 4, 5} :
                  Brackets(<<"app_request_total", l.entity, l.operation, c>>,
                           l, Class(c))
            /\ Brackets(Family("app_client_errors_total", l), l, Class(4))
            /\ Brackets(Family("app_server_errors_total", l), l, Class(5))

\* A scrape may well show more client errors than requests answered 4xx, when
\* it reads the total first: but by no more than the requests it overlapped.
RatesAreBounded ==
    scrape # None =>
        \A l \in ServedLabels :
            LET total  == <<"app_request_total", l.entity, l.operation, 4>>
                errors == Family("app_client_errors_total", l)
                late   == AnsweredWith(Requests \ scrape.over, l, Class(4)) IN
            {total, errors} \subseteq Watched
            /\ scrape.read[total] # None /\ scrape.read[errors] # None =>
                scrape.read[errors] <= scrape.read[total] + Cardinality(late)
=============================================================================
