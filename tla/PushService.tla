---------------------------- MODULE PushService -----------------------------
(***************************************************************************)
(* push-service: one handler, Notify, that img-service calls after each    *)
(* image.  It looks the image up and writes one "notify" log line with the *)
(* status of the request, not of the row.  notify[p] is the request that   *)
(* pod p of img-service has in flight: the caller sends one at a time and  *)
(* waits for its answer.                                                   *)
(***************************************************************************)
EXTENDS Stores

CONSTANT Pods   \* pods of img-service over the life of the deployment

Notice == [id : Ids, status : {"ready", "error"}]

ASSUME NoticeAssumption == None \notin Notice

VARIABLES
    notify,     \* the request in flight from each pod, or None
    lastlog     \* the status in the last "notify" line of each image

pushVars == <<notify, lastlog>>

PushTypeOK ==
    /\ notify \in [Pods -> Notice \cup {None}]
    /\ lastlog \in [Ids -> {"none", "ready", "error"}]

PushInit ==
    /\ notify = [p \in Pods |-> None]
    /\ lastlog = [id \in Ids |-> "none"]

\* 200: the image is found and the notification is logged.
Notify(p) ==
    /\ notify[p] # None
    /\ image[notify[p].id] # None
    /\ lastlog' = [lastlog EXCEPT ![notify[p].id] = notify[p].status]
    /\ notify' = [notify EXCEPT ![p] = None]
    /\ UNCHANGED storeVars

\* 500, or no answer but a broken connection: there is no such image, the
\* SELECT fails, or push-service dies with the request.
NotifyFails(p) ==
    /\ notify[p] # None
    /\ image[notify[p].id] = None \/ {"db", "push"} \cap Env # {}
    /\ notify' = [notify EXCEPT ![p] = None]
    /\ UNCHANGED <<storeVars, lastlog>>
=============================================================================
