------------------------------ MODULE Pipeline ------------------------------
(***************************************************************************)
(* The image pipeline of exam/: api-service, MinIO's bucket events,        *)
(* img-service and push-service around one table and five buckets.         *)
(***************************************************************************)
EXTENDS ApiService, ImgService

vars == <<storeVars, pushVars, url, imgVars>>

Init == StoresInit /\ PushInit /\ ApiInit /\ ImgInit

Api ==
    /\ \E id \in Ids :
          \/ \E u \in Users, name \in Names : PostImage(u, id, name)
          \/ ExpireUrl(id)
          \/ \E decodable \in BOOLEAN : ClientPut(id, decodable)
    /\ UNCHANGED <<pushVars, imgVars>>

Img ==
    /\ \/ \E p \in Pods : StartPod(p) \/ KillPod(p) \/ Work(p)
       \/ \E p \in Pods, id \in Ids : Process(p, id) \/ RefuseCall(p, id)
       \/ \E id \in Ids : LoseEvent(id)
    /\ UNCHANGED url

Push ==
    /\ \E p \in Pods : Notify(p) \/ NotifyFails(p)
    /\ UNCHANGED <<url, imgVars>>

\* Nothing is under way: the system may rest until a client comes.
Quiescent ==
    /\ \A id \in Ids : events[id] = 0
    /\ \A p \in Pods : /\ pc[p] = "idle" /\ ch[p] = <<>> /\ parked[p] = <<>>
                       /\ notify[p] = None /\ pod[p] # "new"

Rest == Quiescent /\ UNCHANGED vars

Next == Api \/ Img \/ Push \/ Rest

Spec == Init /\ [][Next]_vars

\* The worker goroutine of a live process runs on, and push-service answers
\* what it was asked.  Nothing is assumed of clients, webhooks or pods.
Fairness ==
    \A p \in Pods : /\ WF_vars(Work(p) /\ UNCHANGED url)
                    /\ WF_vars((Notify(p) \/ NotifyFails(p))
                               /\ UNCHANGED <<url, imgVars>>)

FairSpec == Spec /\ Fairness
-----------------------------------------------------------------------------
(* Invariants                                                              *)

\* Every variable stays in its domain.
TypeOK == StoresTypeOK /\ PushTypeOK /\ ApiTypeOK /\ ImgTypeOK

\* Whenever GET /api/img answers 200, the four links it hands out lead to
\* objects, and the sizes in the row have been recorded: whatever call failed,
\* whichever pod died and however many rounds of processing there were.
ServedLinksResolve ==
    \A u \in Users, id \in Ids :
        GetImage(u, id) = 200 =>
            None \notin Links(id) /\ image[id].sizes # None

\* The previews of a ready image are all made from the one upload whose
\* sizes the row records, although a later round replaces them one by one.
ReadyPreviewsMatch ==
    \A id \in Ids :
        image[id] # None /\ image[id].status = "ready" =>
            \A b \in Buckets : preview[b][id] = image[id].sizes

\* The ids in a sequence.
In(s) == {s[i] : i \in 1..Len(s)}

Settled(id) == image[id] # None /\ image[id].status \in {"ready", "error"}

\* Some live pod still has the id in its channel or its worker's hands.
InHand(id) ==
    \E p \in Pods : pod[p] = "up" /\ (id \in In(ch[p]) \/ job[p] = id)

\* An id that was answered 202 is never left behind: until its image is ready
\* or in error, a live pod holds it.
NoAcceptedWorkLost ==
    \A id \in accepted : image[id] = None \/ Settled(id) \/ InHand(id)

\* A notification under way says what the table says: the row is written
\* before the request is sent and not again before it is answered.
NotifiedIsStored ==
    \A p \in Pods :
        notify[p] # None /\ image[notify[p].id] # None =>
            image[notify[p].id].status = notify[p].status

\* Once an image has settled and no work on it is left, the last line in
\* push-service's log about it has the status in the table.
LastWord ==
    \A id \in Ids :
        Settled(id) /\ (\A p \in Pods : job[p] # id) =>
            lastlog[id] = image[id].status

OnlyOneNamed(id) ==
    \A other \in Ids \ {id} :
        image[other] # None => image[other].name # image[id].name

\* original/<name> of a ready image that was PUT once holds the very file its
\* previews were made of, as long as no other image has its name.
OriginalMatches ==
    \A id \in Ids :
        image[id] # None /\ image[id].status = "ready"
        /\ puts[id] = 1 /\ OnlyOneNamed(id) =>
            original[image[id].name] = image[id].sizes

\* The link to the original of a ready image leads to a file that was sent for
\* that image.
OriginalIsOwn ==
    \A id \in Ids :
        image[id] # None /\ image[id].status = "ready" =>
            original[image[id].name].id = id

\* The previews the worker has written when it is at each label.
Written(l) ==
    CASE l = "medium" -> {"large"}
      [] l = "small"  -> {"large", "medium"}
      [] l \in {"name", "copy", "remove", "finish"} -> Buckets
      [] OTHER -> {}

InOrder(p) ==
    /\ job[p] = None => pc[p] = "idle"
    /\ pc[p] \in Buckets \cup {"name", "copy", "remove", "finish"} =>
          src[p] # None
    /\ \A b \in Written(pc[p]) : preview[b][job[p]] # None
    /\ pc[p] \in {"copy", "remove", "finish"} => image[job[p]] # None
    /\ pc[p] \in {"remove", "finish"} =>
          original[image[job[p]].name] # None

\* Why a link resolves: a worker has a decoded image from "large" on, has
\* written the previews of the labels it has passed, has seen the row before
\* it copies the original, and has copied it before it removes the upload.
WorkerKeepsOrder == \A p \in Pods : InOrder(p)

-----------------------------------------------------------------------------
(* What a step may never do                                                *)

\* An upload leaves the bucket upload only for original: at the moment it is
\* removed, the very same file is in original under the image's name.
MovePreserves ==
    [][\A id \in Ids :
          upload[id] # None /\ upload'[id] = None =>
              image[id] # None /\ original[image[id].name] = upload[id]]_vars

-----------------------------------------------------------------------------
(* Liveness                                                                *)

\* An id that was answered 202 leads to an image that is ready or in error.
AcceptedSettles ==
    \A id \in Ids : (id \in accepted /\ image[id] # None) ~> Settled(id)

\* A webhook call that blocks on a full channel is answered in the end.
ParkedIsAccepted ==
    \A p \in Pods, id \in Ids : (id \in In(parked[p])) ~> (id \in accepted)

-----------------------------------------------------------------------------
(* Refinement                                                              *)

ArtefactsOf(id) ==
    {b \in Buckets : preview[b][id] # None} \cup
    {o \in {"original"} : image[id] # None /\ original[image[id].name] # None}

Lifecycle == INSTANCE ImageLifecycle WITH
    Artefacts <- Buckets \cup {"original"},
    Reliable  <- {"db", "overlap"} \cap Env = {},
    status    <- [id \in Ids |-> IF image[id] = None THEN "absent"
                                 ELSE image[id].status],
    artefacts <- [id \in Ids |-> ArtefactsOf(id)]

\* The pipeline implements the life cycle of an image.
KeepsLifecycle == Lifecycle!Spec

Line == INSTANCE WaitingLine WITH
    Nobody <- None,
    life   <- pod,
    line   <- [p \in Pods |-> ch[p] \o parked[p]],
    hand   <- job

\* The worker takes ids in the order in which the webhook was called for them,
\* those whose call blocked on the full channel included, takes each once, and
\* loses none of them while its process lives.
KeepsQueue == Line!Spec
=============================================================================
