----------------------------- MODULE ImgService -----------------------------
(***************************************************************************)
(* img-service: each pod has an HTTP handler, Process, that MinIO's        *)
(* webhook calls for every put event, a Go channel of capacity 64, and one *)
(* worker goroutine, Run, that takes ids from the channel and processes    *)
(* them one by one.  The channel lives in the memory of the process.       *)
(*                                                                         *)
(* Handlers that find the channel full stay blocked in Enqueue: they are   *)
(* parked, in arrival order.  The worker is a program counter pc and the   *)
(* local variables of queue.process that matter: job, the id, and src, the *)
(* decoded image.  Each step of the worker is one call to a store.         *)
(***************************************************************************)
EXTENDS PushService, Sequences

CONSTANT QueueCap   \* capacity of the channel, 64 in the code

ASSUME CapAssumption == QueueCap \in Nat \ {0}

VARIABLES
    pod,        \* "new", "up" or "dead"
    ch,         \* the channel's buffer
    parked,     \* handlers blocked in Enqueue
    pc, job, src,
    accepted    \* history: the ids some handler has answered 202 for

workVars == <<pc, job, src>>
imgVars  == <<pod, ch, parked, workVars, accepted>>

\* Where the worker is: about to make the call the name stands for.
PCs == {"idle", "start", "fetch"} \cup Buckets \cup
       {"name", "copy", "remove", "finish", "fail", "ready", "error", "posted"}

\* Mutant: the medium preview is forgotten.
AfterSkipping == [large |-> "small", medium |-> "small", small |-> "name"]

\* The order of the previews in queue.process.
After == [large |-> "medium", medium |-> "small", small |-> "name"]

ImgTypeOK ==
    /\ pod \in [Pods -> {"new", "up", "dead"}]
    /\ ch \in [Pods -> Seq(Ids)]
    /\ parked \in [Pods -> Seq(Ids)]
    /\ pc \in [Pods -> PCs]
    /\ job \in [Pods -> Ids \cup {None}]
    /\ src \in [Pods -> Upload \cup {None}]
    /\ accepted \subseteq Ids

ImgInit ==
    /\ pod = [p \in Pods |-> "new"]
    /\ ch = [p \in Pods |-> <<>>]
    /\ parked = [p \in Pods |-> <<>>]
    /\ pc = [p \in Pods |-> "idle"]
    /\ job = [p \in Pods |-> None]
    /\ src = [p \in Pods |-> None]
    /\ accepted = {}

-----------------------------------------------------------------------------
(* Pods                                                                    *)

\* main: a process starts with an empty channel.  One pod runs at a time,
\* except while a rollout replaces it.
StartPod(p) ==
    /\ pod[p] = "new"
    /\ "overlap" \in Env \/ \A q \in Pods : pod[q] # "up"
    /\ pod' = [pod EXCEPT ![p] = "up"]
    /\ UNCHANGED <<storeVars, pushVars, ch, parked, workVars, accepted>>

\* The process dies: no signal is handled, nothing is drained.  A request it
\* has in flight to push-service is still served.
KillPod(p) ==
    /\ "crash" \in Env
    /\ pod[p] = "up"
    /\ pod' = [pod EXCEPT ![p] = "dead"]
    /\ ch' = [ch EXCEPT ![p] = <<>>]
    /\ parked' = [parked EXCEPT ![p] = <<>>]
    /\ pc' = [pc EXCEPT ![p] = "idle"]
    /\ job' = [job EXCEPT ![p] = None]
    /\ src' = [src EXCEPT ![p] = None]
    /\ UNCHANGED <<storeVars, pushVars, accepted>>

-----------------------------------------------------------------------------
(* The webhook                                                             *)

Consume(id) == events' = [events EXCEPT ![id] = @ - 1]

\* Mutant: a send that does not block and drops the id when the channel is full.
ProcessDropping(p, id) ==
    /\ pod[p] = "up"
    /\ events[id] > 0
    /\ Consume(id)
    /\ ch' = [ch EXCEPT ![p] = IF Len(@) < QueueCap THEN Append(@, id) ELSE @]
    /\ accepted' = accepted \cup {id}
    /\ UNCHANGED <<image, upload, original, preview, puts, pushVars, pod,
                   workVars, parked>>

\* Mutant: takes a webhook call for an object nobody has PUT.
ProcessSpurious(p, id) ==
    /\ pod[p] = "up"
    /\ Consume(id)
    /\ ch' = [ch EXCEPT ![p] = Append(@, id)]
    /\ accepted' = accepted \cup {id}
    /\ UNCHANGED <<image, upload, original, preview, puts, pushVars, pod,
                   workVars, parked>>

\* Handler Process: Enqueue the id of the first record and answer 202, or block
\* in Enqueue.  A call has one record, as MinIO sends it; were there more, the
\* rest would be dropped, which is LoseEvent for them.
Process(p, id) ==
    /\ pod[p] = "up"
    /\ events[id] > 0
    /\ Consume(id)
    /\ \/ /\ Len(ch[p]) < QueueCap
          /\ ch' = [ch EXCEPT ![p] = Append(@, id)]
          /\ accepted' = accepted \cup {id}
          /\ UNCHANGED parked
       \/ /\ Len(ch[p]) >= QueueCap
          /\ parked' = [parked EXCEPT ![p] = Append(@, id)]
          /\ UNCHANGED <<ch, accepted>>
    /\ UNCHANGED <<image, upload, original, preview, puts, pushVars, pod,
                   workVars>>

\* No pod to call, or the call fails; nobody repeats it.
LoseEvent(id) ==
    /\ events[id] > 0
    /\ "loss" \in Env \/ \A p \in Pods : pod[p] # "up"
    /\ Consume(id)
    /\ UNCHANGED <<image, upload, original, preview, puts, pushVars, imgVars>>

\* Handler Process on a call it refuses with 400, since its body breaks off or
\* has no record: to the queue and the stores one more event that is lost.  A
\* key that is no UUID, refused as well, is no image's and has no event here.
RefuseCall(p, id) ==
    /\ pod[p] = "up"
    /\ "loss" \in Env
    /\ LoseEvent(id)

-----------------------------------------------------------------------------
(* The worker                                                              *)

\* The step of pod p's worker that is at label l, and where it goes next.
At(p, l)   == pod[p] = "up" /\ pc[p] = l
Goto(p, l) == pc' = [pc EXCEPT ![p] = l] /\ UNCHANGED <<job, src>>
Idle(p)    == /\ pc' = [pc EXCEPT ![p] = "idle"]
              /\ job' = [job EXCEPT ![p] = None]
              /\ src' = [src EXCEPT ![p] = None]
\* return through fail(err): the decoded image is not used again.
Abandon(p) == /\ pc' = [pc EXCEPT ![p] = "fail"]
              /\ src' = [src EXCEPT ![p] = None]
              /\ UNCHANGED job

queueVars == <<pod, ch, parked, accepted>>

\* Mutant: blocked senders are not woken.
ReceiveOnly(p) ==
    /\ At(p, "idle")
    /\ ch[p] # <<>>
    /\ job' = [job EXCEPT ![p] = Head(ch[p])]
    /\ pc' = [pc EXCEPT ![p] = "start"]
    /\ ch' = [ch EXCEPT ![p] = Tail(@)]
    /\ UNCHANGED <<storeVars, pushVars, pod, src, parked, accepted>>

\* Mutant: the first blocked sender is served before the buffer.
ReceiveBlocked(p) ==
    /\ At(p, "idle")
    /\ ch[p] # <<>>
    /\ pc' = [pc EXCEPT ![p] = "start"]
    /\ \/ /\ parked[p] = <<>>
          /\ job' = [job EXCEPT ![p] = Head(ch[p])]
          /\ ch' = [ch EXCEPT ![p] = Tail(@)]
          /\ UNCHANGED <<parked, accepted>>
       \/ /\ parked[p] # <<>>
          /\ job' = [job EXCEPT ![p] = Head(parked[p])]
          /\ parked' = [parked EXCEPT ![p] = Tail(@)]
          /\ accepted' = accepted \cup {Head(parked[p])}
          /\ UNCHANGED ch
    /\ UNCHANGED <<storeVars, pushVars, pod, src>>

\* for id := range q.ch.  When senders are blocked, the receive takes the
\* first of the buffer and lets the first sender put its id at the end.
Receive(p) ==
    /\ At(p, "idle")
    /\ ch[p] # <<>>
    /\ job' = [job EXCEPT ![p] = Head(ch[p])]
    /\ pc' = [pc EXCEPT ![p] = "start"]
    /\ \/ /\ parked[p] = <<>>
          /\ ch' = [ch EXCEPT ![p] = Tail(@)]
          /\ UNCHANGED <<parked, accepted>>
       \/ /\ parked[p] # <<>>
          /\ ch' = [ch EXCEPT ![p] = Append(Tail(@), Head(parked[p]))]
          /\ parked' = [parked EXCEPT ![p] = Tail(@)]
          /\ accepted' = accepted \cup {Head(parked[p])}
    /\ UNCHANGED <<storeVars, pushVars, pod, src>>

\* Mutant: the row is left as it was while its previews are replaced.
StartSilently(p) ==
    /\ At(p, "start")
    /\ Goto(p, "fetch")
    /\ UNCHANGED <<storeVars, pushVars, queueVars>>

\* SetStatus(id, "process"); its error is not looked at.
Start(p) ==
    /\ At(p, "start")
    /\ SetStatus(job[p], "process") \/ ("db" \in Env /\ UNCHANGED image)
    /\ Goto(p, "fetch")
    /\ UNCHANGED <<upload, original, preview, puts, events, pushVars,
                   queueVars>>

\* Mutant: returns without fail when there is nothing to decode.
FetchReturning(p) ==
    /\ At(p, "fetch")
    /\ \/ /\ upload[job[p]] # None /\ upload[job[p]].decodable
          /\ src' = [src EXCEPT ![p] = upload[job[p]]]
          /\ pc' = [pc EXCEPT ![p] = "large"]
          /\ UNCHANGED job
       \/ Idle(p)
    /\ UNCHANGED <<storeVars, pushVars, queueVars>>

\* Get and image.Decode.  GetObject is lazy, so a missing object shows up as
\* a decoding error.
Fetch(p) ==
    LET id      == job[p]
        isImage == upload[id] # None /\ upload[id].decodable
    IN  /\ At(p, "fetch")
        /\ \/ /\ isImage
              /\ src' = [src EXCEPT ![p] = upload[id]]
              /\ pc' = [pc EXCEPT ![p] = "large"]
              /\ UNCHANGED job
           \/ /\ isImage => "s3" \in Env
              /\ Abandon(p)
        /\ UNCHANGED <<storeVars, pushVars, queueVars>>

\* Mutant: a failed Put is logged and the loop goes on.
PutPreviewGoingOn(p, b) ==
    /\ At(p, b)
    /\ \/ preview' = [preview EXCEPT ![b][job[p]] = src[p]]
       \/ "s3" \in Env /\ UNCHANGED preview
    /\ Goto(p, After[b])
    /\ UNCHANGED <<image, upload, original, puts, events, pushVars, queueVars>>

\* One round of the loop over sizes: Fit, Encode and Put.
PutPreview(p, b) ==
    /\ At(p, b)
    /\ \/ /\ preview' = [preview EXCEPT ![b][job[p]] = src[p]]
          /\ Goto(p, After[b])
       \/ /\ "s3" \in Env
          /\ \/ preview' = [preview EXCEPT ![b][job[p]] = src[p]]
             \/ UNCHANGED preview
          /\ Abandon(p)
    /\ UNCHANGED <<image, upload, original, puts, events, pushVars, queueVars>>

\* SELECT name.  No statement changes a name, so CopyObject reads it again
\* instead of keeping it in a variable of the worker.
GetFileName(p) ==
    /\ At(p, "name")
    /\ \/ image[job[p]] # None /\ Goto(p, "copy")
       \/ (image[job[p]] = None \/ "db" \in Env) /\ Abandon(p)
    /\ UNCHANGED <<storeVars, pushVars, queueVars>>

\* Mutant: the error of CopyObject is overwritten by that of RemoveObject.
CopyObjectGoingOn(p) ==
    LET id == job[p] IN
    /\ At(p, "copy")
    /\ \/ /\ upload[id] # None
          /\ original' = [original EXCEPT ![image[id].name] = upload[id]]
       \/ (upload[id] = None \/ "s3" \in Env) /\ UNCHANGED original
    /\ Goto(p, "remove")
    /\ UNCHANGED <<image, upload, preview, puts, events, pushVars, queueVars>>

\* First half of S3.Copy: CopyObject to original/<name>.
CopyObject(p) ==
    LET id   == job[p]
        copy == original' = [original EXCEPT ![image[id].name] = upload[id]]
    IN  /\ At(p, "copy")
        /\ \/ upload[id] # None /\ copy /\ Goto(p, "remove")
           \/ upload[id] = None /\ UNCHANGED original /\ Abandon(p)
           \/ /\ "s3" \in Env /\ upload[id] # None
              /\ copy \/ UNCHANGED original
              /\ Abandon(p)
        /\ UNCHANGED <<image, upload, preview, puts, events, pushVars,
                       queueVars>>

\* Second half of S3.Copy: RemoveObject from upload.
RemoveObject(p) ==
    LET remove == upload' = [upload EXCEPT ![job[p]] = None]
    IN  /\ At(p, "remove")
        /\ \/ remove /\ Goto(p, "finish")
           \/ "s3" \in Env /\ (remove \/ UNCHANGED upload) /\ Abandon(p)
        /\ UNCHANGED <<image, original, preview, puts, events, pushVars,
                       queueVars>>

\* UpdateSizes, which also sets the status to ready.
Finish(p) ==
    /\ At(p, "finish")
    /\ \/ UpdateSizes(job[p], src[p]) /\ Goto(p, "ready")
       \/ /\ "db" \in Env
          /\ UpdateSizes(job[p], src[p]) \/ UNCHANGED image
          /\ Abandon(p)
    /\ UNCHANGED <<upload, original, preview, puts, events, pushVars,
                   queueVars>>

\* Mutant: fail notifies without setting the status.
FailSilently(p) ==
    /\ At(p, "fail")
    /\ Goto(p, "error")
    /\ UNCHANGED <<storeVars, pushVars, queueVars>>

\* fail: SetStatus(id, "error"); its error is not looked at.
Fail(p) ==
    /\ At(p, "fail")
    /\ SetStatus(job[p], "error") \/ ("db" \in Env /\ UNCHANGED image)
    /\ Goto(p, "error")
    /\ UNCHANGED <<upload, original, preview, puts, events, pushVars,
                   queueVars>>

\* Mutant: every notification says ready.
PostNotifyReady(p, status) ==
    /\ At(p, status)
    /\ notify' = [notify EXCEPT ![p] = [id |-> job[p], status |-> "ready"]]
    /\ Goto(p, "posted")
    /\ UNCHANGED <<storeVars, lastlog, queueVars>>

\* pushNotify: GetUserID only fills a field push-service ignores, so its
\* failure changes nothing.  A refused connection is logged and forgotten.
PostNotify(p, status) ==
    /\ At(p, status)
    /\ \/ /\ notify' = [notify EXCEPT ![p] = [id |-> job[p], status |-> status]]
          /\ Goto(p, "posted")
       \/ /\ "push" \in Env
          /\ Idle(p)
          /\ UNCHANGED notify
    /\ UNCHANGED <<storeVars, lastlog, queueVars>>

\* http.Post returns, with an answer of any status or a broken connection;
\* there is no timeout.
Answered(p) ==
    /\ At(p, "posted")
    /\ notify[p] = None
    /\ Idle(p)
    /\ UNCHANGED <<storeVars, pushVars, queueVars>>

Work(p) ==
    \/ Receive(p) \/ Start(p) \/ Fetch(p)
    \/ \E b \in Buckets : PutPreview(p, b)
    \/ GetFileName(p) \/ CopyObject(p) \/ RemoveObject(p)
    \/ Finish(p) \/ Fail(p)
    \/ \E status \in {"ready", "error"} : PostNotify(p, status)
    \/ Answered(p)
=============================================================================
