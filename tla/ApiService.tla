----------------------------- MODULE ApiService -----------------------------
(***************************************************************************)
(* api-service: POST /api/img registers an image and answers with a URL    *)
(* that allows PUTs into the upload bucket for 15 minutes; GET /api/img    *)
(* answers with the links of a finished image.  The requests here are the  *)
(* authenticated, well-formed ones.                                        *)
(***************************************************************************)
EXTENDS Stores

VARIABLE url    \* the presigned URL of each image: "none", "live", "expired"

ApiTypeOK == url \in [Ids -> {"none", "live", "expired"}]

ApiInit == url = [id \in Ids |-> "none"]

\* POST /api/img.  uuid.New() yields an id nobody has used.  The URL is
\* signed before the INSERT and handed out after it; when the INSERT fails
\* the answer is a 500 without the URL, the row being there or not.
PostImage(u, id, name) ==
    /\ image[id] = None /\ puts[id] = 0
    /\ InsertImage(id, u, name)
    /\ \/ url' = [url EXCEPT ![id] = "live"]
       \/ "db" \in Env /\ UNCHANGED url
    /\ UNCHANGED <<upload, original, preview, puts, events>>

\* 15 minutes later.
ExpireUrl(id) ==
    /\ url[id] = "live"
    /\ url' = [url EXCEPT ![id] = "expired"]
    /\ UNCHANGED storeVars

\* The client uses its URL, any number of times while it lives.
ClientPut(id, decodable) ==
    /\ url[id] = "live" \/ "stray" \in Env
    /\ PutObject(id, decodable)
    /\ UNCHANGED url

\* GET /api/img?id=...: the answer's status code, decided from one SELECT.
GetImage(u, id) ==
    IF image[id] = None THEN 404
    ELSE IF image[id].owner # u THEN 403
    ELSE IF image[id].status # "ready" THEN 406
    ELSE 200

\* The objects behind the four links of a 200.
Links(id) == {original[image[id].name]} \cup {preview[b][id] : b \in Buckets}
=============================================================================
