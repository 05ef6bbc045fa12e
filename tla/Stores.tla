------------------------------- MODULE Stores -------------------------------
(***************************************************************************)
(* The two stores every service of exam/ shares: the Postgres table        *)
(* public.image and the MinIO buckets upload, original, large, medium and  *)
(* small.  One operator per SQL statement that changes the table, and one  *)
(* action per thing that happens to the buckets from outside the services. *)
(*                                                                         *)
(* An image file is an element of Upload.  Its bytes are abstracted to     *)
(* what the pipeline tells apart: for which image it was sent, whether     *)
(* image.Decode accepts it, and which of the PUTs for that image it was.   *)
(* A preview is identified with the upload it was made from, and so are    *)
(* the three size columns, which are computed from the previews.           *)
(***************************************************************************)
EXTENDS Naturals

CONSTANTS
    Ids,        \* image UUIDs
    Users,      \* the sub claims of the accepted tokens
    Names,      \* file names
    MaxPuts,    \* bound: PUTs into the upload bucket per image
    None,       \* "no row", "no object", "no job"
    Env         \* what may go wrong, a subset of Faults

\* "db"      a statement fails, with or without its effect
\* "s3"      a MinIO request fails, with or without its effect
\* "push"    the connection to push-service is refused or breaks
\* "loss"    a bucket event does not arrive, or its call arrives broken
\* "crash"   the process of img-service dies
\* "overlap" a rollout runs the old and the new pod of img-service together
\* "stray"   an object is put into upload other than through a live URL
Faults == {"db", "s3", "push", "loss", "crash", "overlap", "stray"}

Buckets  == {"large", "medium", "small"}
Statuses == {"upload", "process", "ready", "error"}

Upload == [id : Ids, n : 1..MaxPuts, decodable : BOOLEAN]
Row    == [owner : Users, name : Names, status : Statuses,
           sizes : Upload \cup {None}]

ASSUME PutsAssumption == MaxPuts \in Nat \ {0}
ASSUME EnvAssumption  == Env \subseteq Faults
ASSUME NoneAssumption == None \notin Upload \cup Row \cup Ids

VARIABLES
    image,      \* public.image: id -> row
    upload,     \* bucket upload: id -> object
    original,   \* bucket original: file name -> object
    preview,    \* buckets large, medium, small: id.jpeg -> object
    puts,       \* PUTs into upload so far
    events      \* put events of bucket upload not delivered yet

storeVars == <<image, upload, original, preview, puts, events>>

StoresTypeOK ==
    /\ image \in [Ids -> Row \cup {None}]
    /\ upload \in [Ids -> Upload \cup {None}]
    /\ original \in [Names -> Upload \cup {None}]
    /\ preview \in [Buckets -> [Ids -> Upload \cup {None}]]
    /\ puts \in [Ids -> 0..MaxPuts]
    /\ events \in [Ids -> 0..MaxPuts]

StoresInit ==
    /\ image = [id \in Ids |-> None]
    /\ upload = [id \in Ids |-> None]
    /\ original = [name \in Names |-> None]
    /\ preview = [b \in Buckets |-> [id \in Ids |-> None]]
    /\ puts = [id \in Ids |-> 0]
    /\ events = [id \in Ids |-> 0]

-----------------------------------------------------------------------------
(* SQL statements on public.image                                          *)

\* INSERT of api-service.
InsertImage(id, u, name) ==
    image' = [image EXCEPT ![id] = [owner |-> u, name |-> name,
                                    status |-> "upload", sizes |-> None]]

\* UPDATE ... SET status: matches no row, and reports no error, when there is
\* no such image.
SetStatus(id, status) ==
    image' = [image EXCEPT ![id] = IF @ = None THEN None
                                   ELSE [@ EXCEPT !.status = status]]

\* UPDATE ... SET size_large, size_medium, size_small, status='ready'.
UpdateSizes(id, sizes) ==
    image' = [image EXCEPT ![id] =
                IF @ = None THEN None
                ELSE [@ EXCEPT !.sizes = sizes, !.status = "ready"]]

-----------------------------------------------------------------------------
(* Bucket upload, from outside                                             *)

\* A client PUTs a file; the bucket's put event is raised for the webhook.
PutObject(id, decodable) ==
    /\ puts[id] < MaxPuts
    /\ puts' = [puts EXCEPT ![id] = @ + 1]
    /\ upload' = [upload EXCEPT ![id] =
                    [id |-> id, n |-> puts[id] + 1, decodable |-> decodable]]
    /\ events' = [events EXCEPT ![id] = @ + 1]
    /\ UNCHANGED <<image, original, preview>>
=============================================================================
