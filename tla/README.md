# TLA+ models of sirius_go

The repository holds two systems that share nothing but their author:

* `src/exam/` – an **image pipeline**: three Go services (`api-service`,
  `img-service`, `push-service`) around a Postgres table `public.image` and five
  MinIO buckets (`upload`, `original`, `large`, `medium`, `small`), tied together by
  MinIO's bucket events, one HTTP webhook, one Go channel and one HTTP notification;
* `src/sirius_go/` – a **REST service** for users and their profiles: one Go
  process, two Postgres tables, a JWT middleware and a Prometheus middleware.

This directory models both, checks the models with TLC on small instances and
proves the main safety properties with TLAPS for every value of the constants.
`PROJECT.json` lists the runs, the theorems, the hazards and, for each definition
that models code, the lines it models.

## 1. Inventory

### Image pipeline

| Component | State | Operations | Module |
|---|---|---|---|
| table `public.image`, buckets (`init.sql`, the `storage` packages) | rows with owner, name, status, sizes; objects | INSERT, `SetStatus`, `UpdateSizes`, SELECTs; Put, Get, Copy, Remove | `Stores` |
| `api-service` handlers | none of its own; the URLs it has signed | `POST /api/img`, `GET /api/img`, expiry of a URL | `ApiService` (as one step each), `ApiGateway` (call by call) |
| `api-service` authentication and request counter | Keycloak's keys, `api_requests_total` | `Auth.Middleware`, `SubFromClaims`, `ReqTotal.Inc` | `ApiGateway` |
| `img-service` webhook | – | `Process`: parse and refuse with 400, or `Enqueue` and answer 202 | `ImgService` |
| `img-service` queue and worker | a channel of 64 ids, blocked handlers, the worker's locals | `Run`, `process`, `fail`, `pushNotify` | `ImgService` |
| `push-service` | its log | `Notify` | `PushService` |
| compose files, Kubernetes manifests, scripts, config loaders | – | – | not modelled by themselves; what they imply is in the faults below |

A client POSTs a description of an image and is answered with a URL that accepts
PUTs for 15 minutes. MinIO raises an event for each PUT and calls the webhook of
`img-service`, which puts the id into the channel and answers 202. A single
goroutine takes the ids one by one: it sets the status to `process`, fetches and
decodes the object, writes three previews, asks the table for the file name,
copies the object to `original/<name>`, removes it from `upload`, records the
sizes with the status `ready` and notifies `push-service`. Every error leads to
`fail`: the status `error` and a notification that says so. `GET /api/img` answers
with four links if the row says `ready`.

What is hard here: nothing spans two stores, so every pair of calls can be split
by a failure, by the death of the process, by another PUT of the same client or,
during a rollout, by another pod working on the same image; several errors are
deliberately not looked at (`queue.go:50`, `:54`, `:120`); the queue is in memory and
bounded; nobody repeats an event. In front, a POST is four calls (token, signature,
INSERT, answer), any of which may fail while others are served, and what the
middleware answers and what the handlers answer is counted in different places.

What makes it correct: links handed out by GET lead to objects, whatever happened
before; the previews of a ready image belong together; accepted work is
finished or at least still held by somebody; a file is not deleted before it has
been stored elsewhere; a notification agrees with the table; statuses move along
the life cycle; accepted images settle and blocked webhook calls get in, in the order
in which they came. A POST, overlapping and failing or not, is one step for everybody
else; who was given a URL reads the image; answers are counted once.

### REST service

| Component | State | Operations | Module |
|---|---|---|---|
| tables `users`, `profiles` (`repository/`) | rows; UNIQUE, REFERENCES, ON DELETE CASCADE | the repositories' statements | `UserApi` |
| handlers (`handler/`) | the requests in progress | create, get, update, delete of users and profiles | `UserApi` |
| JWT middleware (`middleware/jwt.go`) | – | a decision on one header | `UserServer` |
| metrics middleware (`middleware/metrics.go`) | counters, histograms, summaries | counts every answered request, one increment after the other | `UserServer` |
| routes (`main.go`) | – | 404, 405, 400 before any table | `UserServer` |
| start (`main.go`, `repository/migrate.go`), compose and Kubernetes | the tables there are, whether Postgres is up, where each process is | ping, two CREATE TABLE, serve; deaths and restarts | `Startup` |

What is hard: POST and PUT of a profile are two statements without a transaction,
so requests interleave between them; a statement may fail after its effect; tokens
outlive the users they name; the metrics of one request are up to four increments that a
scrape may come between; processes start before, during and after Postgres, and two of
them create the same tables.
What makes it correct: the constraints between the tables survive every
interleaving and failure, each answer tells the truth about what the request did, the
metrics account for every answer, and nobody serves without tables.

## 2. Modules

```
Stores ──┬── PushService ── ImgService ──┐
         └── ApiService ─────────────────┴─ Pipeline ──┬── MCPipeline
                 ▲                          │  │       └── PipelineProofs ─┬─ RoundProofs
                 │       ImageLifecycle ◄───┘  │                           ├─ FileProofs
                 │       WaitingLine    ◄──────┘                           └─ QueueProofs
                 └─ ApiGateway ──┬── MCApiGateway
                                 └── ApiGatewayProofs

UserApi ──┬── UserServer ──┬── MCUserServer       Startup ──┬── MCStartup
   │      │                └── UserServerProofs             └── StartupProofs
   │      ├── UserApiProofs ───────┘
   │      └── MCUserApi
   └─► ProfileRegister
```

Lines are EXTENDS; arrows lead from a module to the specification it refines.

**Stores.** `image`, `upload`, `original`, `preview` are the table and the buckets;
`puts` counts PUTs and `events` the bucket events not delivered yet. There is one
operator per SQL statement that writes. An UPDATE for an id without a row matches
nothing and reports no error, as in Postgres.

The *content* of a file is abstracted to what the pipeline tells apart: an element
of `Upload` says for which image the file was sent, which PUT it was, and whether
`image.Decode` accepts it. A preview is the upload it was made from, and so is the
triple of sizes: whether previews and sizes belong together is then equality. The
columns `mime_type`, `size` and `uploaded_at` are never read by a decision and left
out. A name is a value that maps one to one to a key of bucket `original` and to a
link.

`Env` is the set of things that may go wrong, so that a run or a theorem says which
failures it tolerates:

| fault | meaning |
|---|---|
| `db` | a statement reports an error, with or without its effect |
| `s3` | a MinIO request reports an error, with or without its effect |
| `push` | the connection to `push-service` is refused, or breaks |
| `loss` | MinIO drops a bucket event, or its call arrives broken and is refused with 400 (without `queue_dir` it does not repeat a call) |
| `crash` | the process of `img-service` dies |
| `overlap` | a rollout runs the old and the new pod together |
| `stray` | an object is put into `upload` without a live URL: from a URL signed for a POST whose INSERT failed, or by an operator |

Without `crash`, `loss` and `overlap` there is one pod and its events arrive. A
statement that fails takes effect at once or not at all; one that takes effect
after its error was reported is not modelled.

**ApiService.** `PostImage` is the whole handler for a well-formed, authenticated
request: the URL is signed first and handed out after the INSERT, so a failed INSERT
leaves either nothing or a row whose URL nobody has. `GetImage` is the status code
of the answer (404, 403, 406, 200 in the order of the code), `Links` the objects
behind the four links.

**ApiGateway** is the same two handlers from the outside: a request is `new`, about to
make one of its calls (`sign`, `insert`, `select`) or `answered`, and other requests run in
between. A *token* is what the middleware and `SubFromClaims` make of it: missing,
refused by Keycloak's keys, without `sub`, with a `sub` that is no UUID, or with one in
the form `uuid.String` gives (`canonical`) or in another that `uuid.Parse` takes (`variant`:
the row is then stored for the user, but `GET` compares texts and answers 403). A
*body* is what the checks and the columns look at: whether it is JSON, whether the MIME type
is one of images, the size, and two texts, name and type, each with its length in bytes, its
length in characters and whether it holds a NUL. The handler counts the bytes of the name
(`handler.go:66`), the columns the characters of both (`init.sql`), and no text in Postgres
holds a NUL: a body may pass the checks and be refused by the INSERT, and one that would fit
may be refused by the handler. The INSERT also keeps the PRIMARY KEY. A request is made once,
so `Requests` bounds the run and `answer` stays. `count` is `api_requests_total`, incremented
where the code increments it. `owner` is a history variable: whose POST was given the
URL of an image. The work of `img-service` is left open: any change of a status. `Env`
is `db` and `s3` as above. The table and the URLs instantiate `ApiService`, whose
`PostImage` every overlapping, failing POST is shown to implement.

**ImgService.** A pod is `new`, `up` or `dead`; a restart is another pod. A webhook call is
one event: `Process` is a call with a record whose key is an id, `RefuseCall` one that is
broken and answered 400, which loses its event. MinIO sends one record per call, and the
handler reads no other. A key that is no UUID belongs to no image and has no event in the
model. `ch[p]` is
the channel's buffer; handlers blocked in `Enqueue` are `parked`, in arrival order,
because Go serves blocked senders first come, first served: `Receive` moves the
first parked id into the buffer in the same step. The worker is a program counter
and the locals `job` and `src`. Its labels name the call it is about to make, so every
call to a store is one step and everything else may happen between two of them:

| label | step | code |
|---|---|---|
| `idle` | `Receive` | `queue.go:37` |
| `start` | `Start` | `:54`, error ignored |
| `fetch` | `Fetch` | `:56-67` |
| `large`, `medium`, `small` | `PutPreview` | `:78-93` |
| `name` | `GetFileName` | `:95-100` |
| `copy`, `remove` | `CopyObject`, `RemoveObject` | `s3.go:38-46` |
| `finish` | `Finish` | `:108-111` |
| `fail` | `Fail` | `:50`, error ignored |
| `ready`, `error` | `PostNotify` | `:117-129` |
| `posted` | `Answered` | `:129-135` |

`GetFileName` only decides whether there is a row: names never change, so
`CopyObject` looks the name up again instead of carrying it in another variable.
`GetUserID` (`:118`) has no step: its result fills a field `push-service` ignores, its
error is only logged, and it changes nothing. `accepted` is a history variable: the
ids for which some handler has answered 202.

**PushService.** `Notify` answers a request in flight: it looks the image up and logs
the status *of the request*. `lastlog` is the status in the last line about each image.

**Pipeline** composes them: `Next` is a step of `Api`, `Img` or `Push`. **ImageLifecycle**
is what the pipeline promises without saying how: a status that moves along `Moves`
and a set of artefacts that only grows, complete whenever the status becomes `ready`.
**WaitingLine** is what channel, blocked handlers and worker promise together: one line
per pod, first come first served, one id at a time in the worker's hand, lost only
when its process dies, which it does once (`life`, refined by `pod`). The line is `ch[p] \o parked[p]`; where one ends and the other begins does
not show.
`Reliable` says whether every round must pass through `process`; the refinement sets
it to "neither `db` nor `overlap`", since a lost write of `process` or a second worker
makes a row jump.

**UserApi.** A request is `idle`, between its two statements (`insert`, `readback`), or
`answered`; every SQL statement is one step, with the constraints of `migrate.go`
enforced by the step. `used` records the ids `uuid.New` has handed out. An `answer`
has a status, what a refusal was about, and the datum of a profile in the body.
`Break` is a statement that fails before or after its effect (`Faulty`); `GET` answers
404 to every error, and `POST` of a profile takes a failed lookup for a no, as the code
does. It also looks at the table before it decodes its body: one that cannot be decoded is
answered 409 when there is a profile and 400 otherwise (`CreateProfileBadly`). **ProfileRegister** is the abstract specification: one
register per living user, filled by the very step that acknowledges `created`.

**UserServer** puts routes, `JWTAuth` and `MetricsMiddleware` around `UserApi`. What reaches no
table is a `Rejection`: the labels of `getLabels`, which go by the path's prefix and the
method, with 404, 405, 400 or 401. The metrics are a bag of samples, since a
Prometheus vector has a sample only from its first increment on. When the handler
returns, `Updates` lists the increments to come and `Measure` takes them one by one. A
request is over after its last increment: `net/http` completes an answer only when the
handler chain, the middleware included, has returned, so this is when the client has
its answer. `GET /metrics` is `BeginScrape`, one `ReadSample` for each sample in `Watched`, in
any order, and `EndScrape`: the registry collects the families at the same time, and requests
are measured between one sample and the next.

**Startup** is `main` up to `ListenAndServe`: a process is launched, pings once, executes the
two statements of `Migrate` and serves; each error is a `log.Fatal`. Two processes that
execute the same CREATE TABLE may both find the table missing: then one of them
fails, IF NOT EXISTS or not. `deployment` says what the system runs under:
`kubernetes` starts exited processes again and has no volume for Postgres, `compose` has the
volume and no restart policy. A process that serves goes on when Postgres dies.

Operators whose comment starts with "Mutant" are not part of the models: each is a
plausible bug in the definition that follows it, and shows that a run would find it.

## 3. Runs

All runs finish within a minute.

| run | question | bounds |
|---|---|---|
| `two_images` | accepted work is held or settled (`NoAcceptedWorkLost`) and settles in the end (`AcceptedSettles`), blocked webhook calls are answered (`ParkedIsAccepted`) and ids are served in turn (`KeepsQueue`), a file leaves `upload` only for `original` (`MovePreserves`), `original` holds the file the previews were made of (`OriginalMatches`), notifications agree with the table (`NotifiedIsStored`) and the log ends with its status (`LastWord`) | two images, two names, one PUT each, channel of 1, `s3`, `loss` |
| `repeat_put` | previews of a ready image come from one upload and match the sizes (`ReadyPreviewsMatch`), statuses pass through `process` (`KeepsLifecycle`, reliable) | one image, three PUTs, two pods in turn, `s3`, `push`, `crash`, `loss`, `stray` |
| `all_faults` | links of a 200 resolve (`ServedLinksResolve`), workers publish in order (`WorkerKeepsOrder`), `ready` only when complete (`KeepsLifecycle`, unreliable) | one image, two PUTs, two pods at once, every fault |
| `gateway` | POST is one step (`ImplementsApi`), posters read their image (`ReadYourPosts`), handlers' answers are counted once (`HandlersCount`) | three requests, two images, two users, every kind of token, bodies at and beyond each bound in bytes and in characters, with and without NULs, `db`, `s3` |
| `users_race` | constraints hold and the service implements `ProfileRegister` | two requests that start again and again, two users, two profiles, two e-mails, two data, statements that fail |
| `server` | with no request in progress the metrics account for every answer (`AnswersAreMeasured`); a scrape at any time misses no answer that was complete when it began and makes none up (`ScrapesAreBounded`), and shows more client errors than requests answered so only by those it overlapped (`RatesAreBounded`) | two requests on any route, statements that fail, scrapes of three samples |
| `startup` | a process begins to serve only with both tables (`BeginsWithTables`), keeps them where they are durable (`ServingHasTables`), and serves in the end where it is restarted (`Serves`) | two processes, three deaths of Postgres, both deployments |

Why these bounds are enough to be interesting: a channel of one with two images
already blocks a handler, wakes it, and has an id in the buffer while another is in
the worker; two PUTs give every interleaving of a second file with the round that
processes the first, three let a PUT arrive when a ready image is being
reprocessed; two pods are one restart or one overlap. Three requests are a POST that
races another for an id, and a GET of what came of it; two requests of the REST service
are one between the two statements of the other, and since they start again any
history of the tables is reached. A third death of Postgres can hit the second attempt
of a process whose first was hit before each statement. The three samples of a scrape are the
total of 4xx and both counters of errors of one label, the creates of profiles, which may end
in any class. What the bounds leave to
the proofs: a third webhook call that comes while a second is blocked (`KeepsQueueHolds`),
two images that share a name while both are worked on (`LinksHold`), an image PUT once among
others that are not and under every fault at once (`OriginalMatchesHolds`), scrapes of all samples
at once between the increments of many requests (`ScrapesAreBoundedHolds`).

The properties need different faults to hold, and each run has the most the property
tolerates: `NoAcceptedWorkLost` fails with `crash`, `MovePreserves` with a second PUT
(`OriginalMatches` speaks only of images PUT once), `LastWord` with `push`, `ReadyPreviewsMatch` with `db` or `overlap`,
`NotifiedIsStored` with these and with `crash`, when the next pod starts while a request of
the last is in flight. The theorems of section 4 have the same faults as hypotheses. The
boundaries that contradict a text of the repository are runs of their own (below).

**Deadlock** is checked for the pipeline and for `UserApi`. The pipeline may rest when nothing is under way, and says so
with the action `Rest`, enabled only in `Quiescent` states: no event under way, all
channels empty, all workers idle. Any other state without a step is an error. The other
three may really stop and say CHECK_DEADLOCK FALSE: in `gateway` and `server` each request is
made once, and all have been answered; in `startup` every death is spent and every
process serves.

**Fairness.** `two_images`: weak fairness of each pod's worker, a goroutine of a
running process that waits for nothing but the channel, the stores (whose clients
return) and the answer of `push-service`. Weak fairness of the answer to a
notification in flight: `Notify` is one SELECT and one log line. The code does not
protect itself against a `push-service` that accepts the connection and never
answers, `http.Post` having no timeout; the run assumes this does not happen.
Nothing is assumed of clients, of MinIO's events, of the start of pods or of the
expiry of URLs. `startup`: Postgres comes up again, `main` runs on, each process is
launched once by `docker-compose up` or `kubectl apply`, and an exited one again only
under Kubernetes, whose default restart policy does that.

### What the code does not keep

| run | text | what the run shows |
|---|---|---|
| `crash_loses_work` | `exam/exam.md:27`: services are stateless, pods restart without losing data | a pod that dies with an accepted id leaves the image in `upload` or `process` |
| `second_put` | `queue.go:102`: we move it to `original` | a second PUT between copy and remove is deleted without having been copied |
| `same_name` | `queue.go:102`, `exam/README.md:1`: storing images | a second image with the same file name replaces the original of the first, for which GET hands out the same link |
| `users_conflict` | `sirius_go/readme.md:191`: a duplicate profile is 409 | of two overlapping creates the second is answered 500 |
| `users_put` | `handler/profile.go:67`: we return the updated profile | the answer is `null` when there is no profile, or another request's datum |

Met while modelling, and plain enough from the code to need no run:

* A bearer token that does not verify is answered 401 without being counted
  (`auth.go:36-39`), although `exam/tests.sh:11` sends such requests to raise the metric of
  401; a missing one is counted under GET whatever the method was (`auth.go:29`).
  `HandlersCount` therefore speaks of what the handlers answer.
* Without `S3_EXTERNAL_URL`, as `exam/README.md:202` asks for and the manifest has it, the links of
  a 200 are paths without a host (`handler.go:152-160`); with it, the URL of an upload carries
  another host than the one it was signed for (`s3.go:37`).
* `GET /metrics` of sirius_go has no `app_server_errors_total` before the first 5xx, since a
  vector has no samples of its own (`metrics.go:49`), although `test_all.sh:139-141` looks for it.
* Under docker-compose the application may be started before Postgres is ready, exit
  and stay so: `depends_on` has no condition and there is no restart policy. `Serves` is
  stated for Kubernetes only.
* An owner whose `sub` is not in canonical form is answered 403 for its own image
  (`handler.go:141`).
* A name or a MIME type with a NUL, and a MIME type beyond 128 characters, pass the checks of
  `POST /api/img` and are answered 500 by the INSERT; a name of more than 255 bytes but fewer
  characters is refused although its column would take it (`handler.go:66`, `init.sql:4`).
* A scrape may read the total before a request and its errors after it, and so show a rate of
  errors above one (`main.go:98`, `metrics.go:113-121`).

## 4. Proofs

`tlapm` checks every proof of the eight modules whose names end in `Proofs`. Each safety
property of a passing run is stated by a theorem, the refinements (`KeepsLifecycle`,
`KeepsQueue`, `ImplementsApi`, `ActsAsRegister`) included. The theorems hold for any sets of images, users,
names, bodies, pods, requests, ..., any number of PUTs and of deaths of Postgres and any
capacity of the channel, under the assumptions the modules name: `PutsAssumption`,
`CapAssumption` (positive numbers), `StartupAssumption` (a natural number),
`EnvAssumption`, `FaultyAssumption` (faults are faults), `NoneAssumption`, `NoticeAssumption`,
`MetersAssumption`, `ScrapesAssumption` (`None` is none of the values it stands beside),
`BodiesAssumption` (bodies carry names), `WatchedAssumption` (what is watched are samples) and `RequestsAssumption` (finitely many requests, which counters need). TLC
evaluates them in every run. Beyond these, a theorem about the pipeline holds under any set of
faults except those its hypothesis excludes:

| theorem | excluded | because |
|---|---|---|
| `TypesHold`, `OrderHolds`, `LinksHold`, `KeepsLifecycleHolds`, `KeepsQueueHolds`, `OriginalMatchesHolds`, `MovesOnceHolds` | nothing | |
| `ReadyPreviewsMatchHolds` | `db`, `overlap` (`Serial`) | a lost write of `process` leaves `ready` visible while previews are replaced; a second pod replaces them under another's sizes |
| `NotifiedIsStoredHolds` | these and `crash` (`Steady`) | a lost write of `ready` or `error` is notified all the same (`queue.go:50`); a request of a dead process may arrive after the next pod has moved the row on |
| `LastWordHolds` | these and `push` (`Calm`) | nobody repeats a notification |
| `NoAcceptedWorkLostHolds` | `db`, `crash` (`Durable`) | run `crash_loses_work`; when even the status `error` cannot be written, nothing is left that knows of the id |
| `MovePreservesHolds` | `overlap`, and a second PUT (`MaxPuts = 1`) | run `second_put`; two pods that work on two images of one name overwrite each other's original between copy and remove |

No hypothesis is stronger than it must be: on an instance with any one of the excluded faults
alone TLC finds the property violated. The strengthened invariants below hold in TLC's runs of
small instances, with and without each fault.

**Pipeline.** `TypesHold`, `OrderHolds` (`WorkerKeepsOrder`) and `LinksHold`
(`ServedLinksResolve`) follow from one inductive invariant,

    IInv == TypeOK /\ EventsCounted /\ WorkerKeepsOrder /\ ReadyComplete

* `ReadyComplete` (a ready row has its sizes and its four objects) implies the
  property but is not inductive: `UpdateSizes` makes a row ready without looking at a
  bucket.
* `WorkerKeepsOrder` closes that gap. Where a worker is tells what has been written:
  it has a decoded image from `large` on, the previews of the labels it has passed,
  a row from `copy` on, and the original from `remove` on.
* Other workers, clients and failures run in between, and another pod may be
  processing the same image. What makes `WorkerKeepsOrder` survive them is `Keeps`: no
  step deletes a row, renames one, or removes a preview or an original. The proof
  shows once that every action implies `Keeps`, and that a worker which does not move
  keeps its order under any step that `Keeps`.
* `EventsCounted` bounds `events` by `puts`; `TypeOK` needs it, since each webhook call
  counts an event down.

What the other three modules about the pipeline share is in the last sections of
`PipelineProofs`:

    KInv == IInv /\ WorkIsKnown /\ UpWorks /\ OneUp

`WorkIsKnown` says that an id gets into a channel, a worker or a 202 only after a PUT, so that
no row can come to be under a worker's feet; `UpWorks` that only a running pod works; `OneUp`
that without `overlap` one pod runs at a time. `RowForms` brings every step into one of three
forms, as one image sees it: its row stays, comes to be, or has its status written by a worker
at `start`, `finish` or `fail`.

**Rounds** (`RoundProofs`). While nothing in `Serial` happens, `InRound` is inductive: between
`Start` and the end of the round the row says `process`, and the previews the worker has
passed are made of the file it holds. So nobody sees a ready row whose previews are being
replaced, and `Finish` makes a row ready whose three previews are of one file; afterwards only
the next round touches them, and it says `process` first (`ReadyPreviewsMatchHolds`).
`KeepsLifecycleHolds` shows each step to be one of `ImageLifecycle` or a stutter. Under `Serial`
that every round passes through `process` needs `InRound`; otherwise `Moves` allows the jump,
and `ReadyComplete` and `Keeps` are enough. `Announced` says that a request under way, and one
about to be sent, is about the image in its worker's hands and agrees with the row, which waits
until the answer comes (`NotifiedIsStoredHolds`). `Told` says that where the log and a settled
row differ, a worker is about to say so or `push-service` about to hear it (`LastWordHolds`).

**Files** (`FileProofs`). `OneFile` says that what was PUT once exists in one version, in all
the places it has come to: `upload`, the memory of workers, `original` under any name, the
sizes of the row. It survives every fault, since failures and deaths lose copies and make none,
and it implies `OriginalMatchesHolds` with `ReadyComplete`. An image PUT twice has no such
invariant (run `second_put`). For the action property, `CopyStays` adds that without overlapping pods nobody
writes an original while its worker is between copying and removing. `MovesOnceHolds` needs
neither hypothesis: it says of each image PUT once, whatever happens to the others, that its file leaves
`upload` only for `original`, under every fault if no image shares its name. `MovePreservesHolds`
is its consequence for the run's instance.

**The queue** (`QueueProofs`). `KeepsQueueHolds` (`KeepsQueue`) rests on `QInv == TypeOK /\ Ordered`: calls are blocked
only behind a full channel, and an idle worker has no id. A pod's state is the `life` of its
line, so that only a running process changes a line and only its death drops one. Without it a call could find
room in the channel while others are blocked before it. Two lemmas about sequences say
that joining the second of two sequences joins the line, and that taking the first of
the buffer and moving the first blocked call up takes the first of the line.
`NoAcceptedWorkLostHolds` rests on `Kept`. The property itself is not inductive: it counts an
id as held by a worker that is past writing the status and can do nothing more for it. `Kept`
demands a pod that still *will* write it (`Carries`), which every step hands on: from
channel to worker, along the worker's labels, up to the write itself.

**ApiGateway.** `GatewayTypesHold`, `HandlersCountHolds`, `ReadYourPostsHolds` and `ImplementsApiHolds`
follow from

    IInv == Types /\ JobsFit /\ Fresh /\ Owned /\ HandlersCount /\ Bounded

`JobsFit` is what a request knows at each call. `Fresh` says that the id of a request
about to insert is in no row and in no other request: this is why a POST of several
calls looks like one step. `Owned` says that a row is its poster's before the URL
leaves and ever after. `Bounded` keeps each counter below the number of answered
requests, which the type of `count` needs.

**UserApi.** `UserTypesHold`, `ProfilesHaveUsersHolds`, `RowsAreUniqueHolds` and
`ActsAsRegisterHolds` follow from `IInv == TablesOK /\ RequestsOK`. `TablesOK` has the two
properties of the tables and `UsersAreUsed`; `RequestsOK` says that a request between two
statements still has its user and body (`Holding`) and that only answered requests have
answers (`AnswersAreNew`). `StepForms` brings every step of a handler, its failures
included, into one of a few forms: which statement ran, and whether the answer says
so. The refinement is then argued statement by statement: user creation maps to
`Born`, deletion to `Die` (which empties the register, by the cascade), the INSERT to
`Create`, a statement that failed after its effect to the same with the answer `failed`. It
needs `UsersAreUsed` to know that a dead user stays dead, and `AnswersAreNew` to know
that a step acknowledges a create only for the request that takes it.

**UserServer.** `ServesUserApi` says that every behaviour of the server is one of `UserApi`, so
that all of the above holds of what clients reach through routes, token check and metrics.
`ServerTypesHold`, `AnswersAreMeasuredHolds`, `ScrapesAreBoundedHolds` and `RatesAreBoundedHolds`
follow from

    ServerInv == IInv /\ Metering /\ Counting /\ Scraping

`Metering` says that what is left of a request's increments is the end of all of them
(`Suffix`), `Counting` that the value of each sample is the number of requests whose middleware
is past that increment (`Counted`). One step of `Measure` adds one request to one sample, since the
increments of an answer differ from each other (`UpdatesOf`). `Scraping` says that what a
scrape has read of a sample is at least the number of its requests that were over when the
scrape began, and at most of those it counts by now. Other requests' steps keep it, since
a request that is over stays as it is and no sample forgets one (`Grows`). The properties then
compare sets of requests: the errors a scrape shows exceed the total only by answers that were
not over when it began.

**Startup.** `ServingHasTablesHolds` and `BeginsWithTablesHolds` follow from
`IInv == TypeOK /\ Closed /\ ServingHasTables`. `Closed` says that there is no table without
the tables it refers to: a process whose last statement finds `profiles` there needs no
memory of having executed the first, whatever Postgres lost in between.

**Only model-checked**: the liveness properties (`AcceptedSettles`, `ParkedIsAccepted`, `Serves`),
which are beyond this prover, and that the pipeline and `UserApi` do not deadlock, which
is about ENABLED.

## 5. Not modelled

* Redirects of `net/http` for paths that are not clean, `/healthz` and `/metrics` as endpoints,
  durations of requests: nothing is decided by them.
* The text of names: characters that a link would have to escape, and the empty
  name, which MinIO refuses as a key. Where a link leads below its host is modelled
  (`Links`), the host is configuration and is not.
* Resizing and encoding as computations; two previews of one upload are always equal.
* Configuration loaders, container images, nginx, and the manifests beyond the
  rollouts, restarts and volumes above: they declare and have no steps of their own.
* Postgres, MinIO, Keycloak and Prometheus: third-party code, modelled by how the
  services use them where they are used.

## 6. Plan

1. *(done)* The pipeline's core with its faults, its runs and the theorem that served
   links resolve; the users and profiles of the REST service with their refinement.
2. *(done)* `ApiGateway`: authentication, validation at its boundaries, the counter, and
   POST as one step.
3. *(done)* Failures of the database in `UserApi`, and the 404 and 500 they turn into.
4. *(done)* `UserServer`: routes, JWT and metrics, with scrapes that read sample by sample.
5. *(done)* `WaitingLine`, implemented by the queue of `ImgService`; `Startup`.
6. *(done)* Theorems for every safety property of the runs: rounds, files, accepted work,
   metrics, scrapes.
7. Next: that a request of the gateway is answered at most once and never answered otherwise;
   that what a deleted user's profile held is not read again; what is left of
   `ReadyPreviewsMatch` under `db` and `overlap`, where every preview of a ready image is
   still of some file sent for that image.
