--------------------------- MODULE PipelineProofs ---------------------------
(***************************************************************************)
(* Theorems about Pipeline for all values of its constants.                *)
(*                                                                         *)
(* IInv is the inductive invariant.  That the links of a ready image       *)
(* resolve is not inductive: UpdateSizes sets "ready" knowing nothing of   *)
(* the buckets.  It is the worker's position that knows what has been      *)
(* written (WorkerKeepsOrder), and nothing that was written goes away      *)
(* (Keeps), whatever fails and whoever else works on the image.            *)
(*                                                                         *)
(* The last two sections are for RoundProofs, FileProofs and QueueProofs:  *)
(* KInv adds to IInv who is at work on what, and RowForms says in which of *)
(* a few ways a step can change a row.                                     *)
(***************************************************************************)
EXTENDS Pipeline, TLAPS, SequenceTheorems

\* No more events are under way than PUTs were made.
EventsCounted == \A id \in Ids : events[id] <= puts[id]

\* A ready row has its sizes, and its links resolve.
ReadyComplete ==
    \A id \in Ids :
        image[id] # None /\ image[id].status = "ready" =>
            None \notin Links(id) /\ image[id].sizes # None

IInv == TypeOK /\ EventsCounted /\ WorkerKeepsOrder /\ ReadyComplete

\* What no step takes away: a row and its name, a preview, an original.
Keeps ==
    /\ \A id \in Ids : image[id] # None =>
          image'[id] # None /\ image'[id].name = image[id].name
    /\ \A b \in Buckets, id \in Ids :
          preview[b][id] # None => preview'[b][id] # None
    /\ \A name \in Names : original[name] # None => original'[name] # None

-----------------------------------------------------------------------------
(* The SQL statements                                                      *)

Rows == [Ids -> Row \cup {None}]

\* SetStatus changes the status of one row and nothing else of the table.
LEMMA SetStatusChanges ==
    ASSUME NEW id \in Ids, NEW s \in Statuses, image \in Rows,
           SetStatus(id, s)
    PROVE  /\ image' \in Rows
           /\ \A i \in Ids : (image'[i] = None) <=> (image[i] = None)
           /\ \A i \in Ids : image[i] # None =>
                 /\ image'[i].name = image[i].name
                 /\ image'[i].sizes = image[i].sizes
                 /\ image'[i].owner = image[i].owner
                 /\ image'[i].status = IF i = id THEN s ELSE image[i].status
<1> DEFINE New(r) == [r EXCEPT !.status = s]
<1>1. \A r \in Row : /\ New(r) \in Row
                     /\ New(r).name = r.name
                     /\ New(r).sizes = r.sizes
                     /\ New(r).owner = r.owner
                     /\ New(r).status = s
  BY DEF Row
<1>2. None \notin Row
  BY NoneAssumption
<1>3. /\ image' = [i \in Ids |-> image'[i]]
      /\ \A i \in Ids : image'[i] =
            IF i = id THEN (IF image[i] = None THEN None ELSE New(image[i]))
            ELSE image[i]
  BY DEF SetStatus, Rows
<1>4. \A i \in Ids : image[i] # None => image[i] \in Row
  BY DEF Rows
<1> HIDE DEF New
<1>5. \A i \in Ids : image'[i] \in Row \cup {None}
  BY <1>1, <1>3, <1>4
<1>6. image' \in Rows
  BY <1>3, <1>5 DEF Rows
<1> QED
  BY <1>1, <1>2, <1>3, <1>4, <1>6

\* UpdateSizes makes one row ready with new sizes.
LEMMA UpdateSizesChanges ==
    ASSUME NEW id \in Ids, NEW z \in Upload \cup {None}, image \in Rows,
           UpdateSizes(id, z)
    PROVE  /\ image' \in Rows
           /\ \A i \in Ids : (image'[i] = None) <=> (image[i] = None)
           /\ \A i \in Ids : image[i] # None =>
                 /\ image'[i].name = image[i].name
                 /\ image'[i].owner = image[i].owner
                 /\ image'[i].sizes = IF i = id THEN z ELSE image[i].sizes
                 /\ image'[i].status =
                       IF i = id THEN "ready" ELSE image[i].status
<1> DEFINE New(r) == [r EXCEPT !.sizes = z, !.status = "ready"]
<1>1. \A r \in Row : /\ New(r) \in Row
                     /\ New(r).name = r.name
                     /\ New(r).owner = r.owner
                     /\ New(r).sizes = z
                     /\ New(r).status = "ready"
  BY DEF Row, Statuses
<1>2. None \notin Row
  BY NoneAssumption
<1>3. /\ image' = [i \in Ids |-> image'[i]]
      /\ \A i \in Ids : image'[i] =
            IF i = id THEN (IF image[i] = None THEN None ELSE New(image[i]))
            ELSE image[i]
  BY DEF UpdateSizes, Rows
<1>4. \A i \in Ids : image[i] # None => image[i] \in Row
  BY DEF Rows
<1> HIDE DEF New
<1>5. \A i \in Ids : image'[i] \in Row \cup {None}
  BY <1>1, <1>3, <1>4
<1>6. image' \in Rows
  BY <1>3, <1>5 DEF Rows
<1> QED
  BY <1>1, <1>2, <1>3, <1>4, <1>6

\* InsertImage adds one row, which is not ready.
LEMMA InsertImageAdds ==
    ASSUME NEW id \in Ids, NEW u \in Users, NEW name \in Names,
           image \in Rows, image[id] = None, InsertImage(id, u, name)
    PROVE  /\ image' \in Rows
           /\ image'[id] # None /\ image'[id].status = "upload"
           /\ image'[id].sizes = None
           /\ \A i \in Ids \ {id} : image'[i] = image[i]
<1> DEFINE new == [owner |-> u, name |-> name, status |-> "upload",
                   sizes |-> None]
<1>1. new \in Row /\ new # None /\ new.status = "upload" /\ new.sizes = None
  BY NoneAssumption DEF Row, Statuses
<1> QED
  BY <1>1 DEF InsertImage, Rows

-----------------------------------------------------------------------------
(* The channel                                                             *)

\* Receive and Process leave sequences of ids in the channel.
LEMMA ChannelTypes ==
    ASSUME NEW S, NEW s \in Seq(S), NEW id \in S
    PROVE  /\ Append(s, id) \in Seq(S)
           /\ s # <<>> => Head(s) \in S /\ Tail(s) \in Seq(S)
BY AppendProperties, HeadTailProperties

-----------------------------------------------------------------------------
(* Every step keeps the types                                              *)

LEMMA InitTypes == Init => TypeOK /\ EventsCounted
<1> SUFFICES ASSUME Init PROVE TypeOK /\ EventsCounted
  OBVIOUS
<1>1. StoresInit /\ PushInit /\ ApiInit /\ ImgInit
  BY DEF Init
<1>2. StoresTypeOK
  BY <1>1, PutsAssumption DEF StoresInit, StoresTypeOK
<1>3. PushTypeOK /\ ApiTypeOK
  BY <1>1 DEF PushInit, ApiInit, PushTypeOK, ApiTypeOK
<1>4. ImgTypeOK
  <2>1. <<>> \in Seq(Ids)
    BY EmptySeq
  <2>2. ch \in [Pods -> Seq(Ids)] /\ parked \in [Pods -> Seq(Ids)]
    BY <1>1, <2>1 DEF ImgInit
  <2> QED
    BY <1>1, <2>2 DEF ImgInit, ImgTypeOK, PCs
<1>5. EventsCounted
  <2>1. ASSUME NEW id \in Ids PROVE events[id] <= puts[id]
    BY <1>1 DEF StoresInit
  <2> QED
    BY <2>1 DEF EventsCounted
<1> QED
  BY <1>2, <1>3, <1>4, <1>5 DEF TypeOK

\* A step of api-service or of a client keeps the types.
LEMMA ApiTypes ==
    ASSUME TypeOK, EventsCounted, Api
    PROVE  TypeOK' /\ EventsCounted'
<1> USE DEF StoresTypeOK, storeVars, pushVars, imgVars, workVars
<1>1. PushTypeOK' /\ ImgTypeOK'
  BY DEF Api, TypeOK, PushTypeOK, ImgTypeOK
<1>2. PICK id \in Ids :
        \/ \E u \in Users, name \in Names : PostImage(u, id, name)
        \/ ExpireUrl(id)
        \/ \E decodable \in BOOLEAN : ClientPut(id, decodable)
  BY DEF Api
<1>3. ASSUME NEW u \in Users, NEW name \in Names, PostImage(u, id, name)
      PROVE  StoresTypeOK' /\ ApiTypeOK' /\ EventsCounted'
  <2>1. image' \in [Ids -> Row \cup {None}]
    BY <1>3, InsertImageAdds DEF PostImage, TypeOK, Rows
  <2>2. StoresTypeOK'
    BY <1>3, <2>1 DEF PostImage, TypeOK
  <2> QED
    BY <1>3, <2>2 DEF PostImage, TypeOK, ApiTypeOK, EventsCounted
<1>4. ASSUME ExpireUrl(id)
      PROVE  StoresTypeOK' /\ ApiTypeOK' /\ EventsCounted'
  BY <1>4 DEF ExpireUrl, TypeOK, ApiTypeOK, EventsCounted
<1>5. ASSUME NEW decodable \in BOOLEAN, ClientPut(id, decodable)
      PROVE  StoresTypeOK' /\ ApiTypeOK' /\ EventsCounted'
  <2>1. puts[id] \in 0..MaxPuts /\ events[id] \in 0..MaxPuts
    BY DEF TypeOK
  <2>2. [id |-> id, n |-> puts[id] + 1, decodable |-> decodable] \in Upload
    BY <1>5, <2>1, PutsAssumption DEF Upload, ClientPut, PutObject
  <2>3. upload' \in [Ids -> Upload \cup {None}]
    BY <1>5, <2>2 DEF TypeOK, ClientPut, PutObject
  <2>4. /\ puts' \in [Ids -> 0..MaxPuts] /\ events' \in [Ids -> 0..MaxPuts]
        /\ EventsCounted'
    BY <1>5, <2>1, PutsAssumption
       DEF TypeOK, ClientPut, PutObject, EventsCounted
  <2> QED
    BY <1>5, <2>3, <2>4 DEF TypeOK, ApiTypeOK, ClientPut, PutObject
<1> QED
  BY <1>1, <1>2, <1>3, <1>4, <1>5 DEF TypeOK

\* A step of push-service keeps the types.
LEMMA PushTypes ==
    ASSUME TypeOK, EventsCounted, Push
    PROVE  TypeOK' /\ EventsCounted'
<1> USE DEF storeVars, pushVars, imgVars, workVars
<1>1. PICK p \in Pods : Notify(p) \/ NotifyFails(p)
  BY DEF Push
<1>2. StoresTypeOK' /\ ApiTypeOK' /\ ImgTypeOK' /\ EventsCounted'
  BY <1>1 DEF Push, Notify, NotifyFails, TypeOK, StoresTypeOK, ApiTypeOK,
              ImgTypeOK, EventsCounted
<1>3. notify[p] # None => notify[p] \in Notice
  BY DEF TypeOK, PushTypeOK
<1>4. PushTypeOK'
  BY <1>1, <1>3 DEF Notify, NotifyFails, TypeOK, PushTypeOK, Notice
<1> QED
  BY <1>2, <1>4 DEF TypeOK

\* Every worker that is at work has an id.
Busy == \A p \in Pods : pc[p] # "idle" => job[p] \in Ids

\* A step of img-service changes its own variables within their types.
LEMMA ImgOwnTypes ==
    ASSUME TypeOK, Busy, Img
    PROVE  ImgTypeOK'
<1> USE DEF TypeOK, ImgTypeOK
<1>1. ASSUME NEW p \in Pods, StartPod(p) PROVE ImgTypeOK'
  BY <1>1 DEF StartPod, workVars
<1>2. ASSUME NEW p \in Pods, KillPod(p) PROVE ImgTypeOK'
  <2>1. <<>> \in Seq(Ids)
    BY EmptySeq
  <2> QED
    BY <1>2, <2>1 DEF KillPod, PCs
<1>3. ASSUME NEW p \in Pods, NEW id \in Ids, Process(p, id) PROVE ImgTypeOK'
  <2>1. Append(ch[p], id) \in Seq(Ids) /\ Append(parked[p], id) \in Seq(Ids)
    BY ChannelTypes
  <2> QED
    BY <1>3, <2>1 DEF Process, workVars
<1>4. ASSUME NEW id \in Ids, LoseEvent(id) PROVE ImgTypeOK'
  BY <1>4 DEF LoseEvent, imgVars, workVars
<1>5. ASSUME NEW p \in Pods, Receive(p) PROVE ImgTypeOK'
  <2>1. ch[p] # <<>>
    BY <1>5 DEF Receive
  <2>2. Head(ch[p]) \in Ids /\ Tail(ch[p]) \in Seq(Ids)
    BY <2>1, ChannelTypes
  <2>3. ASSUME parked[p] # <<>>
        PROVE  /\ Head(parked[p]) \in Ids /\ Tail(parked[p]) \in Seq(Ids)
               /\ Append(Tail(ch[p]), Head(parked[p])) \in Seq(Ids)
    BY <2>2, <2>3, ChannelTypes
  <2>4. job' \in [Pods -> Ids \cup {None}] /\ pc' \in [Pods -> PCs]
        /\ UNCHANGED <<pod, src>>
    BY <1>5, <2>2 DEF Receive, PCs
  <2>5. CASE parked[p] = <<>>
    BY <1>5, <2>2, <2>4, <2>5 DEF Receive
  <2>6. CASE parked[p] # <<>>
    BY <1>5, <2>3, <2>4, <2>6 DEF Receive
  <2> QED
    BY <2>5, <2>6
<1>6. ASSUME NEW p \in Pods,
             \/ Start(p) \/ GetFileName(p) \/ CopyObject(p)
             \/ RemoveObject(p) \/ Finish(p) \/ Fail(p)
      PROVE  ImgTypeOK'
  BY <1>6 DEF Start, GetFileName, CopyObject, RemoveObject, Finish, Fail,
              Goto, Abandon, queueVars, PCs
<1>7. ASSUME NEW p \in Pods, Fetch(p) PROVE ImgTypeOK'
  <2>1. job[p] \in Ids
    BY <1>7 DEF Fetch, At, Busy
  <2>2. upload[job[p]] \in Upload \cup {None}
    BY <2>1 DEF StoresTypeOK
  <2> QED
    BY <1>7, <2>2 DEF Fetch, Abandon, queueVars, PCs, Buckets
<1>8. ASSUME NEW p \in Pods, NEW b \in Buckets, PutPreview(p, b)
      PROVE  ImgTypeOK'
  <2>1. After[b] \in PCs /\ "fail" \in PCs
    BY DEF After, Buckets, PCs
  <2> QED
    BY <1>8, <2>1 DEF PutPreview, Goto, Abandon, queueVars
<1>9. ASSUME NEW p \in Pods, NEW status \in {"ready", "error"},
             PostNotify(p, status)
      PROVE  ImgTypeOK'
  BY <1>9 DEF PostNotify, Goto, Idle, queueVars, PCs
<1>10. ASSUME NEW p \in Pods, Answered(p) PROVE ImgTypeOK'
  BY <1>10 DEF Answered, Idle, queueVars, PCs
<1> QED
  BY <1>1, <1>2, <1>3, <1>4, <1>5, <1>6, <1>7, <1>8, <1>9, <1>10
     DEF Img, RefuseCall, Work

\* A step of img-service changes the stores and the request under way within
\* their types.
LEMMA ImgOtherTypes ==
    ASSUME TypeOK, EventsCounted, Busy, Img
    PROVE  StoresTypeOK' /\ PushTypeOK' /\ ApiTypeOK' /\ EventsCounted'
<1> DEFINE Others == StoresTypeOK' /\ PushTypeOK' /\ EventsCounted'
<1> USE DEF TypeOK, StoresTypeOK, PushTypeOK, EventsCounted,
            storeVars, pushVars
<1>1. ApiTypeOK'
  BY DEF Img, RefuseCall, ApiTypeOK
<1>2. ASSUME NEW p \in Pods,
             \/ StartPod(p) \/ KillPod(p) \/ Receive(p) \/ Fetch(p)
             \/ GetFileName(p) \/ Answered(p)
      PROVE  Others
  BY <1>2 DEF StartPod, KillPod, Receive, Fetch, GetFileName, Answered
<1>3. ASSUME NEW id \in Ids, events[id] > 0, Consume(id), UNCHANGED puts
      PROVE  events' \in [Ids -> 0..MaxPuts] /\ EventsCounted'
  BY <1>3, PutsAssumption DEF Consume
<1>4. ASSUME NEW p \in Pods, NEW id \in Ids, Process(p, id) PROVE Others
  BY <1>3, <1>4 DEF Process
<1>5. ASSUME NEW id \in Ids, LoseEvent(id) PROVE Others
  BY <1>3, <1>5 DEF LoseEvent
<1>6. ASSUME NEW p \in Pods, Start(p) \/ Finish(p) \/ Fail(p) PROVE Others
  <2>1. job[p] \in Ids /\ src[p] \in Upload \cup {None}
    BY <1>6 DEF Start, Finish, Fail, At, Busy, ImgTypeOK
  <2>2. \/ \E s \in Statuses : SetStatus(job[p], s)
        \/ UpdateSizes(job[p], src[p])
        \/ UNCHANGED image
    BY <1>6 DEF Start, Finish, Fail, Statuses
  <2>3. image' \in [Ids -> Row \cup {None}]
    BY <2>1, <2>2, SetStatusChanges, UpdateSizesChanges DEF Rows
  <2> QED
    BY <1>6, <2>3 DEF Start, Finish, Fail
<1>7. ASSUME NEW p \in Pods, NEW b \in Buckets, PutPreview(p, b) PROVE Others
  <2>1. job[p] \in Ids /\ src[p] \in Upload \cup {None}
    BY <1>7 DEF PutPreview, At, Busy, ImgTypeOK, Buckets
  <2>2. preview' \in [Buckets -> [Ids -> Upload \cup {None}]]
    BY <1>7, <2>1 DEF PutPreview
  <2> QED
    BY <1>7, <2>2 DEF PutPreview
<1>8. ASSUME NEW p \in Pods, CopyObject(p) \/ RemoveObject(p) PROVE Others
  <2>1. job[p] \in Ids
    BY <1>8 DEF CopyObject, RemoveObject, At, Busy
  <2>2. /\ original' \in [Names -> Upload \cup {None}]
        /\ upload' \in [Ids -> Upload \cup {None}]
    BY <1>8, <2>1 DEF CopyObject, RemoveObject
  <2> QED
    BY <1>8, <2>2 DEF CopyObject, RemoveObject
<1>9. ASSUME NEW p \in Pods, NEW status \in {"ready", "error"},
             PostNotify(p, status)
      PROVE  Others
  <2>1. [id |-> job[p], status |-> status] \in Notice
    BY <1>9 DEF PostNotify, At, Busy, Notice
  <2> QED
    BY <1>9, <2>1 DEF PostNotify
<1> QED
  BY <1>1, <1>2, <1>4, <1>5, <1>6, <1>7, <1>8, <1>9 DEF Img, RefuseCall, Work

-----------------------------------------------------------------------------
(* Nothing that a link needs goes away                                     *)

LEMMA BusyWorkers == TypeOK /\ WorkerKeepsOrder => Busy
BY DEF TypeOK, ImgTypeOK, WorkerKeepsOrder, InOrder, Busy

LEMMA StepKeeps ==
    ASSUME TypeOK, WorkerKeepsOrder, [Next]_vars
    PROVE  Keeps
<1> USE DEF TypeOK, StoresTypeOK
<1>1. ASSUME UNCHANGED <<image, original, preview>> PROVE Keeps
  BY <1>1 DEF Keeps
<1>2. ASSUME UNCHANGED <<original, preview>>,
             NEW id \in Ids, NEW s \in Statuses, SetStatus(id, s)
      PROVE  Keeps
  BY <1>2, SetStatusChanges DEF Keeps, Rows
<1>3. ASSUME UNCHANGED <<original, preview>>,
             NEW id \in Ids, NEW z \in Upload \cup {None}, UpdateSizes(id, z)
      PROVE  Keeps
  BY <1>3, UpdateSizesChanges DEF Keeps, Rows
<1>4. Busy
  BY BusyWorkers
<1>5. CASE Api
  <2>1. ASSUME NEW id \in Ids, NEW u \in Users, NEW name \in Names,
               PostImage(u, id, name)
        PROVE  Keeps
    BY <2>1, InsertImageAdds DEF PostImage, Keeps, Rows
  <2>2. ASSUME NEW id \in Ids,
               ExpireUrl(id) \/ \E d \in BOOLEAN : ClientPut(id, d)
        PROVE  Keeps
    BY <1>1, <2>2 DEF ExpireUrl, ClientPut, PutObject, storeVars
  <2> QED
    BY <1>5, <2>1, <2>2 DEF Api
<1>6. CASE Img
  <2>1. ASSUME NEW p \in Pods,
               \/ StartPod(p) \/ KillPod(p) \/ Receive(p) \/ Fetch(p)
               \/ GetFileName(p) \/ RemoveObject(p) \/ Answered(p)
               \/ \E status \in {"ready", "error"} : PostNotify(p, status)
        PROVE  Keeps
    BY <1>1, <2>1 DEF StartPod, KillPod, Receive, Fetch, GetFileName,
                      RemoveObject, Answered, PostNotify, storeVars
  <2>2. ASSUME NEW id \in Ids, LoseEvent(id) \/ \E p \in Pods : Process(p, id)
        PROVE  Keeps
    BY <1>1, <2>2 DEF LoseEvent, Process
  <2>3. ASSUME NEW p \in Pods, Start(p) \/ Finish(p) \/ Fail(p) PROVE Keeps
    <3>1. job[p] \in Ids /\ src[p] \in Upload \cup {None}
      BY <1>4, <2>3 DEF Start, Finish, Fail, At, Busy, ImgTypeOK
    <3>2. \/ \E s \in Statuses : SetStatus(job[p], s)
          \/ UpdateSizes(job[p], src[p])
          \/ UNCHANGED image
      BY <2>3 DEF Start, Finish, Fail, Statuses
    <3>3. UNCHANGED <<original, preview>>
      BY <2>3 DEF Start, Finish, Fail
    <3> QED
      BY <1>1, <1>2, <1>3, <3>1, <3>2, <3>3
  <2>4. ASSUME NEW p \in Pods, NEW b \in Buckets, PutPreview(p, b) PROVE Keeps
    <3>1. job[p] \in Ids /\ src[p] # None
      BY <1>4, <2>4 DEF PutPreview, At, Busy, ImgTypeOK, WorkerKeepsOrder,
                        InOrder, Buckets
    <3> QED
      BY <2>4, <3>1 DEF PutPreview, Keeps
  <2>5. ASSUME NEW p \in Pods, CopyObject(p) PROVE Keeps
    <3>1. job[p] \in Ids
      BY <1>4, <2>5 DEF CopyObject, At, Busy
    <3>2. upload[job[p]] = None => UNCHANGED original
      BY <2>5 DEF CopyObject
    <3> QED
      BY <2>5, <3>1, <3>2 DEF CopyObject, Keeps
  <2> QED
    BY <1>6, <2>1, <2>2, <2>3, <2>4, <2>5 DEF Img, RefuseCall, Work
<1>7. CASE Push
  BY <1>1, <1>7 DEF Push, Notify, NotifyFails, storeVars
<1>8. CASE Rest \/ UNCHANGED vars
  BY <1>1, <1>8 DEF Rest, vars, storeVars
<1> QED
  BY <1>5, <1>6, <1>7, <1>8 DEF Next

\* A worker that stays where it is stays in order while the others work.
LEMMA WaitingInOrder ==
    ASSUME TypeOK, Keeps, NEW p \in Pods, InOrder(p),
           pc'[p] = pc[p], job'[p] = job[p], src'[p] = src[p]
    PROVE  InOrder(p)'
<1>1. CASE pc[p] = "idle"
  BY <1>1 DEF InOrder, Written, Buckets
<1>2. CASE pc[p] # "idle"
  <2>1. job[p] \in Ids
    BY <1>2 DEF InOrder, TypeOK, ImgTypeOK
  <2>2. Written(pc[p]) \subseteq Buckets
    BY DEF Written, Buckets
  <2>3. image[job[p]] # None => image[job[p]].name \in Names
    BY <2>1 DEF TypeOK, StoresTypeOK, Row
  <2>4. \A b \in Written(pc[p]) : preview'[b][job[p]] # None
    BY <2>1, <2>2 DEF InOrder, Keeps
  <2>5. /\ image[job[p]] # None => /\ image'[job[p]] # None
                                   /\ image'[job[p]].name = image[job[p]].name
        /\ original[image[job[p]].name] # None /\ image[job[p]] # None =>
              original'[image'[job[p]].name] # None
    BY <2>1, <2>3 DEF Keeps
  <2> QED
    BY <2>4, <2>5 DEF InOrder
<1> QED
  BY <1>1, <1>2

\* Only its own pod's steps, and its death, move a worker.
LEMMA OthersWait ==
    ASSUME TypeOK, NEW p \in Pods, NEW q \in Pods \ {p},
           StartPod(p) \/ KillPod(p) \/ Work(p) \/ \E id \in Ids : Process(p, id)
    PROVE  pc'[q] = pc[q] /\ job'[q] = job[q] /\ src'[q] = src[q]
<1> USE DEF TypeOK, ImgTypeOK
<1>1. CASE StartPod(p) \/ KillPod(p) \/ \E id \in Ids : Process(p, id)
  BY <1>1 DEF StartPod, KillPod, Process, workVars
<1>2. CASE Work(p)
  <2>1. CASE Receive(p)
    BY <2>1 DEF Receive
  <2>2. ASSUME \/ Start(p) \/ Fetch(p) \/ GetFileName(p) \/ CopyObject(p)
               \/ RemoveObject(p) \/ Finish(p) \/ Fail(p)
        PROVE  pc'[q] = pc[q] /\ job'[q] = job[q] /\ src'[q] = src[q]
    BY <2>2 DEF Start, Fetch, GetFileName, CopyObject, RemoveObject, Finish,
                Fail, Goto, Abandon
  <2>3. ASSUME NEW b \in Buckets, PutPreview(p, b)
        PROVE  pc'[q] = pc[q] /\ job'[q] = job[q] /\ src'[q] = src[q]
    BY <2>3 DEF PutPreview, Goto, Abandon
  <2>4. ASSUME Answered(p) \/ \E s \in {"ready", "error"} : PostNotify(p, s)
        PROVE  pc'[q] = pc[q] /\ job'[q] = job[q] /\ src'[q] = src[q]
    BY <2>4 DEF PostNotify, Answered, Goto, Idle
  <2> QED
    BY <1>2, <2>1, <2>2, <2>3, <2>4 DEF Work
<1> QED
  BY <1>1, <1>2

\* A step of a worker leaves that worker in order.
LEMMA WorkInOrder ==
    ASSUME TypeOK, Keeps, WorkerKeepsOrder, NEW p \in Pods, Work(p)
    PROVE  InOrder(p)'
<1> USE DEF TypeOK, ImgTypeOK
<1>1. InOrder(p) /\ Busy
  BY BusyWorkers DEF WorkerKeepsOrder
<1>2. ASSUME Abandon(p), pc[p] # "idle" PROVE InOrder(p)'
  BY <1>1, <1>2 DEF Abandon, InOrder, Written, Buckets, Busy
<1>3. CASE Receive(p)
  <2>1. Head(ch[p]) \in Ids
    BY <1>3, ChannelTypes DEF Receive
  <2>2. pc'[p] = "start" /\ job'[p] # None
    BY <1>3, <2>1, NoneAssumption DEF Receive
  <2> QED
    BY <2>2 DEF InOrder, Written, Buckets
<1>4. CASE Start(p) \/ Fail(p)
  <2>1. pc'[p] \in {"fetch", "error"} /\ job'[p] # None
    BY <1>1, <1>4, NoneAssumption DEF Start, Fail, Goto, At, Busy
  <2> QED
    BY <2>1 DEF InOrder, Written, Buckets
<1>5. CASE Fetch(p)
  <2>1. CASE Abandon(p)
    BY <1>2, <1>5, <2>1 DEF Fetch, At
  <2>2. CASE pc'[p] = "large" /\ src'[p] # None /\ UNCHANGED job
    BY <1>1, <1>5, <2>2, NoneAssumption
       DEF Fetch, At, Busy, InOrder, Written, Buckets
  <2> QED
    BY <1>5, <2>1, <2>2 DEF Fetch
<1>6. ASSUME NEW b \in Buckets, PutPreview(p, b) PROVE InOrder(p)'
  <2>1. CASE Abandon(p)
    BY <1>2, <1>6, <2>1 DEF PutPreview, At, Buckets
  <2>2. CASE /\ Goto(p, After[b])
             /\ preview' = [preview EXCEPT ![b][job[p]] = src[p]]
    <3>1. job[p] \in Ids /\ job[p] # None /\ src[p] # None /\ pc[p] = b
      BY <1>1, <1>6, NoneAssumption DEF PutPreview, At, Busy, Buckets, InOrder
    <3>2. job'[p] = job[p] /\ src'[p] = src[p] /\ pc'[p] = After[b]
      BY <2>2 DEF Goto, PCs, After, Buckets
    <3>3. Written(After[b]) = Written(b) \cup {b}
      BY DEF Written, After, Buckets
    <3>4. preview'[b][job[p]] # None
      BY <2>2, <3>1 DEF StoresTypeOK
    <3>5. \A c \in Written(b) : preview'[c][job[p]] # None
      BY <1>1, <3>1 DEF InOrder, Keeps, Written, Buckets
    <3>6. After[b] \notin {"copy", "remove", "finish", "idle"}
      BY DEF After, Buckets
    <3> QED
      BY <3>1, <3>2, <3>3, <3>4, <3>5, <3>6 DEF InOrder
  <2> QED
    BY <1>6, <2>1, <2>2 DEF PutPreview
<1> DEFINE Kept == /\ job'[p] = job[p] /\ src'[p] = src[p]
                   /\ job[p] \in Ids /\ job[p] # None /\ src[p] # None
                   /\ \A b \in Buckets : preview'[b][job[p]] # None
<1>7. ASSUME pc[p] \in {"name", "copy", "remove", "finish"},
             UNCHANGED <<job, src>>
      PROVE  Kept
  BY <1>1, <1>7, NoneAssumption DEF Busy, InOrder, Written, Keeps
<1>8. CASE GetFileName(p)
  <2>1. CASE Abandon(p)
    BY <1>2, <1>8, <2>1 DEF GetFileName, At
  <2>2. CASE image[job[p]] # None /\ Goto(p, "copy")
    <3>1. Kept /\ pc'[p] = "copy" /\ image'[job[p]] # None
      BY <1>7, <1>8, <2>2 DEF GetFileName, At, Goto, storeVars
    <3> QED
      BY <3>1 DEF InOrder, Written, Buckets
  <2> QED
    BY <1>8, <2>1, <2>2 DEF GetFileName
<1>9. CASE CopyObject(p)
  <2>1. CASE Abandon(p)
    BY <1>2, <1>9, <2>1 DEF CopyObject, At
  <2>2. CASE /\ upload[job[p]] # None /\ Goto(p, "remove")
             /\ original' =
                  [original EXCEPT ![image[job[p]].name] = upload[job[p]]]
    <3>1. Kept /\ pc'[p] = "remove" /\ image'[job[p]] # None
          /\ image'[job[p]].name = image[job[p]].name
      BY <1>1, <1>7, <1>9, <2>2 DEF CopyObject, At, Goto, InOrder, Keeps
    <3>2. image[job[p]].name \in Names
      BY <1>1, <1>9, <3>1 DEF CopyObject, At, InOrder, StoresTypeOK, Row
    <3>3. original'[image'[job[p]].name] # None
      BY <2>2, <3>1, <3>2 DEF StoresTypeOK
    <3> QED
      BY <3>1, <3>3 DEF InOrder, Written, Buckets
  <2> QED
    BY <1>9, <2>1, <2>2 DEF CopyObject
<1>10. CASE RemoveObject(p)
  <2>1. CASE Abandon(p)
    BY <1>2, <1>10, <2>1 DEF RemoveObject, At
  <2>2. CASE Goto(p, "finish")
    <3>1. Kept /\ pc'[p] = "finish"
      BY <1>7, <1>10, <2>2 DEF RemoveObject, At, Goto
    <3>2. UNCHANGED <<image, original>> /\ pc[p] = "remove"
      BY <1>10 DEF RemoveObject, At
    <3> QED
      BY <1>1, <3>1, <3>2 DEF InOrder, Written, Buckets
  <2> QED
    BY <1>10, <2>1, <2>2 DEF RemoveObject
<1>11. CASE Finish(p)
  <2>1. CASE Abandon(p)
    BY <1>2, <1>11, <2>1 DEF Finish, At
  <2>2. CASE Goto(p, "ready")
    BY <1>1, <1>11, <2>2, NoneAssumption
       DEF Finish, At, Goto, Busy, InOrder, Written, Buckets
  <2> QED
    BY <1>11, <2>1, <2>2 DEF Finish
<1>12. CASE Answered(p) \/ \E s \in {"ready", "error"} : PostNotify(p, s)
  <2>1. CASE Idle(p)
    BY <2>1 DEF Idle, InOrder, Written, Buckets
  <2>2. CASE Goto(p, "posted")
    BY <1>1, <1>12, <2>2, NoneAssumption
       DEF PostNotify, Answered, At, Goto, Busy, InOrder, Written, Buckets
  <2> QED
    BY <1>12, <2>1, <2>2 DEF PostNotify, Answered
<1> QED
  BY <1>3, <1>4, <1>5, <1>6, <1>8, <1>9, <1>10, <1>11, <1>12 DEF Work

\* The workers stay in order.
LEMMA StepInOrder ==
    ASSUME TypeOK, WorkerKeepsOrder, [Next]_vars
    PROVE  WorkerKeepsOrder'
<1>1. Keeps
  BY StepKeeps
<1>2. ASSUME NEW p \in Pods, pc'[p] = pc[p], job'[p] = job[p], src'[p] = src[p]
      PROVE  InOrder(p)'
  BY <1>1, <1>2, WaitingInOrder DEF WorkerKeepsOrder
<1>3. ASSUME UNCHANGED workVars PROVE WorkerKeepsOrder'
  BY <1>2, <1>3 DEF workVars, WorkerKeepsOrder
<1>4. CASE Api \/ Push \/ Rest \/ UNCHANGED vars
  BY <1>3, <1>4 DEF Api, Push, Rest, vars, imgVars
<1>5. CASE Img
  <2>1. ASSUME NEW id \in Ids, LoseEvent(id) PROVE WorkerKeepsOrder'
    BY <1>3, <2>1 DEF LoseEvent, imgVars
  <2>2. ASSUME NEW p \in Pods,
               \/ StartPod(p) \/ KillPod(p) \/ Work(p)
               \/ \E id \in Ids : Process(p, id)
        PROVE  WorkerKeepsOrder'
    <3>1. \A q \in Pods \ {p} : InOrder(q)'
      BY <1>2, <2>2, OthersWait
    <3>2. CASE StartPod(p) \/ \E id \in Ids : Process(p, id)
      BY <1>3, <3>2 DEF StartPod, Process
    <3>3. CASE KillPod(p)
      <4>1. pc'[p] = "idle"
        BY <3>3 DEF KillPod, TypeOK, ImgTypeOK
      <4> QED
        BY <3>1, <4>1 DEF WorkerKeepsOrder, InOrder, Written, Buckets
    <3>4. CASE Work(p)
      BY <1>1, <3>1, <3>4, WorkInOrder DEF WorkerKeepsOrder
    <3> QED
      BY <2>2, <3>2, <3>3, <3>4
  <2> QED
    BY <1>5, <2>1, <2>2 DEF Img, RefuseCall
<1> QED
  BY <1>4, <1>5 DEF Next

\* A row that was ready, and still is with the sizes it had, is complete.
LEMMA StaysComplete ==
    ASSUME TypeOK, Keeps, ReadyComplete, NEW id \in Ids,
           image[id] # None, image[id].status = "ready",
           image'[id].sizes = image[id].sizes
    PROVE  /\ None \notin Links(id)'
           /\ image'[id].sizes # None
<1>1. None \notin Links(id) /\ image[id].sizes # None
  BY DEF ReadyComplete
<1>2. /\ original[image[id].name] # None
      /\ \A b \in Buckets : preview[b][id] # None
  BY <1>1 DEF Links
<1>3. image[id].name \in Names /\ image'[id].name = image[id].name
  BY DEF TypeOK, StoresTypeOK, Row, Keeps
<1>4. /\ original'[image'[id].name] # None
      /\ \A b \in Buckets : preview'[b][id] # None
  BY <1>2, <1>3 DEF Keeps
<1> QED
  BY <1>1, <1>4 DEF Links

\* A row becomes ready by UpdateSizes only, when everything is there.
LEMMA StepReady ==
    ASSUME TypeOK, WorkerKeepsOrder, ReadyComplete, [Next]_vars
    PROVE  ReadyComplete'
<1> USE DEF TypeOK, StoresTypeOK
<1>1. Keeps /\ Busy
  BY StepKeeps, BusyWorkers
<1> SUFFICES ASSUME NEW id \in Ids,
                    image'[id] # None, image'[id].status = "ready"
             PROVE  None \notin Links(id)' /\ image'[id].sizes # None
  BY DEF ReadyComplete
<1> DEFINE Same == /\ image[id] # None /\ image[id].status = "ready"
                   /\ image'[id].sizes = image[id].sizes
<1>2. ASSUME UNCHANGED image PROVE Same
  BY <1>2
<1>3. ASSUME NEW i \in Ids, NEW s \in Statuses, s # "ready", SetStatus(i, s)
      PROVE  Same
  BY <1>3, SetStatusChanges DEF Rows
<1>4. CASE Api
  <2>1. ASSUME NEW i \in Ids, NEW u \in Users, NEW name \in Names,
               PostImage(u, i, name)
        PROVE  Same
    BY <2>1, InsertImageAdds DEF PostImage, Rows
  <2>2. ASSUME NEW i \in Ids,
               ExpireUrl(i) \/ \E d \in BOOLEAN : ClientPut(i, d)
        PROVE  Same
    BY <1>2, <2>2 DEF ExpireUrl, ClientPut, PutObject, storeVars
  <2>3. Same
    BY <1>4, <2>1, <2>2 DEF Api
  <2> QED
    BY <1>1, <2>3, StaysComplete
<1>5. CASE Push \/ Rest \/ UNCHANGED vars
  <2>1. UNCHANGED image
    BY <1>5 DEF Push, Notify, NotifyFails, Rest, vars, storeVars
  <2> QED
    BY <1>1, <1>2, <2>1, StaysComplete
<1>6. CASE Img
  <2>1. ASSUME NEW p \in Pods, Finish(p), UpdateSizes(job[p], src[p])
        PROVE  None \notin Links(id)' /\ image'[id].sizes # None
    <3>1. /\ pc[p] = "finish" /\ job[p] \in Ids
          /\ src[p] \in Upload \cup {None} /\ src[p] # None
      BY <1>1, <2>1 DEF Finish, At, Busy, WorkerKeepsOrder, InOrder, ImgTypeOK
    <3>2. CASE id = job[p]
      <4>1. image'[id].sizes = src[p] /\ image[id] # None
        BY <2>1, <3>1, <3>2, UpdateSizesChanges DEF Rows
      <4>2. /\ \A b \in Buckets : preview[b][id] # None
            /\ original[image[id].name] # None
        BY <3>1, <3>2 DEF WorkerKeepsOrder, InOrder, Written
      <4>3. image[id].name \in Names /\ image'[id].name = image[id].name
        BY <1>1, <4>1 DEF Row, Keeps
      <4>4. /\ \A b \in Buckets : preview'[b][id] # None
            /\ original'[image'[id].name] # None
        BY <1>1, <4>2, <4>3 DEF Keeps
      <4> QED
        BY <3>1, <4>1, <4>4 DEF Links
    <3>3. CASE id # job[p]
      <4>1. Same
        BY <2>1, <3>1, <3>3, UpdateSizesChanges DEF Rows
      <4> QED
        BY <1>1, <4>1, StaysComplete
    <3> QED
      BY <3>2, <3>3
  <2>2. ASSUME NEW p \in Pods, Start(p) \/ Fail(p) PROVE Same
    <3>1. job[p] \in Ids
      BY <1>1, <2>2 DEF Start, Fail, At, Busy
    <3>2. \/ \E s \in Statuses \ {"ready"} : SetStatus(job[p], s)
          \/ UNCHANGED image
      BY <2>2 DEF Start, Fail, Statuses
    <3> QED
      BY <1>2, <1>3, <3>1, <3>2
  <2>3. ASSUME NEW p \in Pods,
               \/ StartPod(p) \/ KillPod(p) \/ Receive(p) \/ Fetch(p)
               \/ GetFileName(p) \/ CopyObject(p) \/ RemoveObject(p)
               \/ Answered(p) \/ \E b \in Buckets : PutPreview(p, b)
               \/ \E s \in {"ready", "error"} : PostNotify(p, s)
               \/ \E i \in Ids : Process(p, i)
        PROVE  Same
    BY <1>2, <2>3 DEF StartPod, KillPod, Receive, Fetch, GetFileName,
                      CopyObject, RemoveObject, Answered, PutPreview,
                      PostNotify, Process, storeVars
  <2>4. ASSUME NEW i \in Ids, LoseEvent(i) PROVE Same
    BY <1>2, <2>4 DEF LoseEvent
  <2>5. ASSUME NEW p \in Pods, Finish(p), UNCHANGED image PROVE Same
    BY <1>2, <2>5
  <2>6. \A p \in Pods : Finish(p) =>
           UpdateSizes(job[p], src[p]) \/ UNCHANGED image
    BY DEF Finish
  <2> QED
    BY <1>1, <1>6, <2>1, <2>2, <2>3, <2>4, <2>5, <2>6, StaysComplete
       DEF Img, RefuseCall, Work
<1> QED
  BY <1>4, <1>5, <1>6 DEF Next

-----------------------------------------------------------------------------
(* The theorems                                                            *)

LEMMA InitIInv == Init => IInv
<1> SUFFICES ASSUME Init PROVE IInv
  OBVIOUS
<1>1. \A p \in Pods : pc[p] = "idle"
  BY DEF Init, ImgInit
<1>2. \A id \in Ids : image[id] = None
  BY DEF Init, StoresInit
<1> QED
  BY <1>1, <1>2, InitTypes
     DEF IInv, WorkerKeepsOrder, InOrder, Written, Buckets, ReadyComplete

LEMMA StepIInv == IInv /\ [Next]_vars => IInv'
<1> SUFFICES ASSUME IInv, [Next]_vars PROVE IInv'
  OBVIOUS
<1>1. TypeOK /\ EventsCounted /\ WorkerKeepsOrder /\ ReadyComplete
  BY DEF IInv
<1>2. TypeOK' /\ EventsCounted'
  <2>1. CASE Api
    BY <1>1, <2>1, ApiTypes
  <2>2. CASE Img
    BY <1>1, <2>2, BusyWorkers, ImgOwnTypes, ImgOtherTypes DEF TypeOK
  <2>3. CASE Push
    BY <1>1, <2>3, PushTypes
  <2>4. CASE Rest \/ UNCHANGED vars
    BY <1>1, <2>4 DEF Rest, vars, storeVars, pushVars, imgVars, workVars,
         TypeOK, StoresTypeOK, PushTypeOK, ApiTypeOK, ImgTypeOK, EventsCounted
  <2> QED
    BY <2>1, <2>2, <2>3, <2>4 DEF Next
<1>3. WorkerKeepsOrder'
  BY <1>1, StepInOrder
<1>4. ReadyComplete'
  BY <1>1, StepReady
<1> QED
  BY <1>2, <1>3, <1>4 DEF IInv

LEMMA SpecIInv == Spec => []IInv
BY InitIInv, StepIInv, PTL DEF Spec

\* Every variable of the pipeline stays in its domain.
THEOREM TypesHold == Spec => []TypeOK
<1>1. IInv => TypeOK
  BY DEF IInv
<1> QED
  BY <1>1, SpecIInv, PTL

\* The worker's position tells what is in the buckets: the previews of the
\* labels it has passed are there, and the original is before the upload goes.
THEOREM OrderHolds == Spec => []WorkerKeepsOrder
<1>1. IInv => WorkerKeepsOrder
  BY DEF IInv
<1> QED
  BY <1>1, SpecIInv, PTL

\* The links GET /api/img answers with lead to objects, for any number of
\* images, users, names, PUTs and pods and under every fault of the model.
THEOREM LinksHold == Spec => []ServedLinksResolve
<1>1. IInv => ServedLinksResolve
  <2> SUFFICES ASSUME IInv, NEW u \in Users, NEW id \in Ids,
                      GetImage(u, id) = 200
               PROVE  None \notin Links(id) /\ image[id].sizes # None
    BY DEF ServedLinksResolve
  <2>1. image[id] # None /\ image[id].status = "ready"
    BY DEF GetImage
  <2> QED
    BY <2>1 DEF IInv, ReadyComplete
<1> QED
  BY <1>1, SpecIInv, PTL
-----------------------------------------------------------------------------
(* Work is for files that were sent, and is done by processes that run     *)

Known == {id \in Ids : puts[id] > 0}

\* An id gets into a channel, to a worker or into a 202 only after a PUT.  It
\* then has its row or never gets one: PostImage takes ids nobody has used.
WorkIsKnown ==
    /\ accepted \subseteq Known
    /\ ch \in [Pods -> Seq(Known)] /\ parked \in [Pods -> Seq(Known)]
    /\ job \in [Pods -> Known \cup {None}]

UpWorks == \A p \in Pods : pc[p] # "idle" => pod[p] = "up"

\* Except while a rollout replaces it, one pod runs at a time.
OneUp ==
    "overlap" \notin Env =>
        \A p, q \in Pods : pod[p] = "up" /\ pod[q] = "up" => p = q

KInv == IInv /\ WorkIsKnown /\ UpWorks /\ OneUp

LEMMA StepKnown ==
    ASSUME TypeOK, EventsCounted, WorkIsKnown, [Next]_vars
    PROVE  WorkIsKnown'
<1> USE DEF TypeOK, ImgTypeOK, StoresTypeOK
<1>1. ASSUME Known \subseteq Known', UNCHANGED <<accepted, ch, parked, job>>
      PROVE  WorkIsKnown'
  <2>1. \A s \in Seq(Known) : s \in Seq(Known')
    BY <1>1, SeqMonotonic
  <2>. QED BY <1>1, <2>1 DEF WorkIsKnown
<1>2. ASSUME UNCHANGED puts PROVE Known' = Known
  BY <1>2 DEF Known
<1>3. CASE Api
  <2>1. UNCHANGED <<accepted, ch, parked, job>>
    BY <1>3 DEF Api, imgVars, workVars
  <2>2. \A id \in Ids : puts[id] <= puts'[id]
    BY <1>3, PutsAssumption
       DEF Api, PostImage, ExpireUrl, ClientPut, PutObject, storeVars
  <2>3. Known \subseteq Known'
    <3>1. ASSUME NEW id \in Ids, puts[id] > 0, puts[id] <= puts'[id]
          PROVE  puts'[id] > 0
      <4>1. puts'[id] \in 0..MaxPuts
        BY <1>3, ApiTypes
      <4>. QED BY <3>1, <4>1, PutsAssumption
    <3>. QED BY <2>2, <3>1 DEF Known
  <2>. QED BY <1>1, <2>1, <2>3
<1>4. CASE Push \/ Rest \/ UNCHANGED vars
  <2>1. UNCHANGED <<puts, accepted, ch, parked, job>>
    BY <1>4 DEF Push, Notify, NotifyFails, Rest, vars, storeVars, imgVars, workVars
  <2>. QED BY <1>1, <1>2, <2>1
<1>5. CASE Img
  <2>1. Known' = Known
    <3>1. UNCHANGED puts
      <4>1. ASSUME NEW p \in Pods, Work(p) PROVE UNCHANGED puts
        BY <4>1 DEF Work, Receive, Start, Fetch, PutPreview, GetFileName,
             CopyObject, RemoveObject, Finish, Fail, PostNotify, Answered,
             storeVars
      <4>. QED BY <1>5, <4>1 DEF Img, RefuseCall, StartPod, KillPod, Process,
           LoseEvent, storeVars
    <3>. QED BY <1>2, <3>1
  <2>2. ASSUME NEW p \in Pods, NEW id \in Ids, Process(p, id) PROVE WorkIsKnown'
    <3>1. id \in Known
      <4>1. events[id] \in Nat /\ puts[id] \in Nat /\ events[id] > 0
        BY <2>2, PutsAssumption DEF Process
      <4>. QED BY <4>1 DEF Known, EventsCounted
    <3>2. /\ Append(ch[p], id) \in Seq(Known)
          /\ Append(parked[p], id) \in Seq(Known)
      BY <3>1, ChannelTypes DEF WorkIsKnown
    <3>. QED BY <2>1, <2>2, <3>1, <3>2 DEF Process, workVars, WorkIsKnown
  <2>3. ASSUME NEW p \in Pods, Receive(p) PROVE WorkIsKnown'
    <3>1. Head(ch[p]) \in Known /\ Tail(ch[p]) \in Seq(Known)
      BY <2>3, ChannelTypes DEF Receive, WorkIsKnown
    <3>2. job' \in [Pods -> Known \cup {None}]
      BY <2>3, <3>1 DEF Receive, WorkIsKnown
    <3>3. CASE parked[p] = <<>>
      BY <2>1, <2>3, <3>1, <3>2, <3>3 DEF Receive, WorkIsKnown
    <3>4. CASE parked[p] # <<>>
      <4>1. /\ Head(parked[p]) \in Known /\ Tail(parked[p]) \in Seq(Known)
            /\ Append(Tail(ch[p]), Head(parked[p])) \in Seq(Known)
        BY <3>1, <3>4, ChannelTypes DEF WorkIsKnown
      <4>2. /\ ch' = [ch EXCEPT ![p] = Append(Tail(@), Head(parked[p]))]
            /\ parked' = [parked EXCEPT ![p] = Tail(@)]
            /\ accepted' = accepted \cup {Head(parked[p])}
        BY <2>3, <3>4 DEF Receive
      <4>3. ch' \in [Pods -> Seq(Known)] /\ parked' \in [Pods -> Seq(Known)]
        BY <4>1, <4>2 DEF WorkIsKnown
      <4>. QED BY <2>1, <3>2, <4>1, <4>2, <4>3 DEF WorkIsKnown
    <3>. QED BY <3>3, <3>4
  <2>4. ASSUME NEW p \in Pods, Work(p), ~Receive(p) PROVE WorkIsKnown'
    <3>1. UNCHANGED <<accepted, ch, parked>> /\ (UNCHANGED job \/ Idle(p))
      BY <2>4 DEF Work, Start, Fetch, PutPreview, GetFileName, CopyObject,
           RemoveObject, Finish, Fail, PostNotify, Answered, Goto, Abandon,
           queueVars
    <3>. QED BY <2>1, <3>1 DEF WorkIsKnown, Idle
  <2>5. ASSUME NEW p \in Pods, KillPod(p) PROVE WorkIsKnown'
    <3>1. <<>> \in Seq(Known)
      BY EmptySeq
    <3>. QED BY <2>1, <2>5, <3>1 DEF KillPod, WorkIsKnown
  <2>6. CASE \/ \E p \in Pods : StartPod(p)
             \/ \E id \in Ids : LoseEvent(id)
    BY <1>1, <2>1, <2>6 DEF StartPod, LoseEvent, imgVars, workVars
  <2>. QED BY <1>5, <2>2, <2>3, <2>4, <2>5, <2>6 DEF Img, RefuseCall
<1>. QED BY <1>3, <1>4, <1>5 DEF Next

\* A pod comes up once and works only while it is up.
LEMMA StepPods ==
    ASSUME TypeOK, UpWorks, OneUp, [Next]_vars
    PROVE  UpWorks' /\ OneUp'
<1> USE DEF TypeOK, ImgTypeOK
<1>1. CASE UNCHANGED <<pod, pc>>
  BY <1>1 DEF UpWorks, OneUp
<1>2. ASSUME NEW p \in Pods, StartPod(p) PROVE UpWorks' /\ OneUp'
  BY <1>2 DEF StartPod, workVars, UpWorks, OneUp
<1>3. ASSUME NEW p \in Pods, KillPod(p) PROVE UpWorks' /\ OneUp'
  BY <1>3 DEF KillPod, UpWorks, OneUp
<1>4. ASSUME NEW p \in Pods, Work(p) PROVE UpWorks' /\ OneUp'
  <2>1. UNCHANGED pod /\ pod[p] = "up"
    BY <1>4 DEF Work, Receive, Start, Fetch, PutPreview, GetFileName, CopyObject,
         RemoveObject, Finish, Fail, PostNotify, Answered, queueVars, At
  <2>2. \A q \in Pods \ {p} : pc'[q] = pc[q]
    BY <1>4, OthersWait
  <2>. QED BY <2>1, <2>2 DEF UpWorks, OneUp
<1>5. \/ UNCHANGED <<pod, pc>>
      \/ \E p \in Pods : StartPod(p) \/ KillPod(p) \/ Work(p)
  BY DEF Next, Api, Push, Rest, Img, RefuseCall, Process, LoseEvent, vars,
       imgVars, workVars
<1>. QED BY <1>1, <1>2, <1>3, <1>4, <1>5

LEMMA SpecKInv == Spec => []KInv
<1>1. Init => WorkIsKnown /\ UpWorks /\ OneUp
  <2>1. <<>> \in Seq(Known)
    BY EmptySeq
  <2>. QED BY <2>1 DEF Init, ImgInit, WorkIsKnown, UpWorks, OneUp
<1>2. KInv /\ IInv' /\ [Next]_vars => KInv'
  BY StepKnown, StepPods DEF KInv, IInv
<1>. QED BY <1>1, <1>2, SpecIInv, PTL DEF Spec, KInv
-----------------------------------------------------------------------------
(* What a step does to a row, a preview and a worker                       *)

\* The worker p writes the status s, and with "ready" the sizes z.
Writes(p, s, z) ==
    \/ Start(p) /\ s = "process" /\ z = image[job[p]].sizes
    \/ Finish(p) /\ s = "ready" /\ z = src[p]
    \/ Fail(p) /\ s = "error" /\ z = image[job[p]].sizes

RowStays(id) == image'[id] = image[id]

RowComes(id) ==
    /\ image[id] = None /\ puts[id] = 0
    /\ image'[id] # None /\ image'[id].status = "upload"
    /\ image'[id].sizes = None
    /\ UNCHANGED <<original, preview, workVars, pushVars>>

RowMoves(id) ==
    \E p \in Pods, s \in Statuses, z \in Upload \cup {None} :
        /\ job[p] = id /\ Writes(p, s, z)
        /\ image[id] # None /\ image'[id] # None
        /\ image'[id].name = image[id].name
        /\ image'[id].status = s /\ image'[id].sizes = z

\* A step that changes rows changes one.
LEMMA RowForms ==
    ASSUME TypeOK, Busy, [Next]_vars
    PROVE  \/ UNCHANGED image
           \/ \E id \in Ids : /\ RowComes(id) \/ RowMoves(id)
                              /\ \A i \in Ids \ {id} : RowStays(i)
<1> DEFINE Goal == \/ UNCHANGED image
                   \/ \E id \in Ids : /\ RowComes(id) \/ RowMoves(id)
                                      /\ \A i \in Ids \ {id} : RowStays(i)
<1>1. image \in Rows
  BY DEF TypeOK, StoresTypeOK, Rows
<1>2. ASSUME NEW id \in Ids, NEW u \in Users, NEW name \in Names,
             PostImage(u, id, name), Api
      PROVE  Goal
  <2>1. /\ image'[id] # None /\ image'[id].status = "upload"
        /\ image'[id].sizes = None
        /\ \A i \in Ids \ {id} : image'[i] = image[i]
    BY <1>1, <1>2, InsertImageAdds DEF PostImage
  <2>2. RowComes(id)
    BY <1>2, <2>1 DEF PostImage, Api, imgVars, RowComes
  <2>. QED BY <2>1, <2>2 DEF RowStays
<1>3. ASSUME NEW p \in Pods, NEW s \in Statuses, SetStatus(job[p], s),
             \/ Start(p) /\ s = "process"
             \/ Fail(p) /\ s = "error"
      PROVE  Goal
  <2>1. job[p] \in Ids
    BY <1>3 DEF Start, Fail, At, Busy
  <2>2. /\ image' \in Rows
        /\ \A i \in Ids : (image'[i] = None) <=> (image[i] = None)
        /\ \A i \in Ids : image[i] # None =>
              /\ image'[i].name = image[i].name
              /\ image'[i].sizes = image[i].sizes
              /\ image'[i].status = IF i = job[p] THEN s ELSE image[i].status
    BY <1>1, <1>3, <2>1, SetStatusChanges
  <2>3. \A i \in Ids \ {job[p]} : image'[i] = image[i]
    BY <1>1, <1>3, <2>1 DEF SetStatus, Rows
  <2>4. CASE image[job[p]] = None
    <3>1. \A i \in Ids : image'[i] = image[i]
      BY <2>2, <2>3, <2>4
    <3>. QED BY <1>1, <2>2, <3>1 DEF Rows
  <2>5. CASE image[job[p]] # None
    <3>1. image[job[p]].sizes \in Upload \cup {None}
      BY <1>1, <2>1, <2>5 DEF Rows, Row
    <3>2. RowMoves(job[p])
      BY <1>3, <2>1, <2>2, <2>5, <3>1 DEF RowMoves, Writes
    <3>. QED BY <2>1, <2>3, <3>2 DEF RowStays
  <2>. QED BY <2>4, <2>5
<1>4. ASSUME NEW p \in Pods, Finish(p), UpdateSizes(job[p], src[p])
      PROVE  Goal
  <2>1. job[p] \in Ids /\ src[p] \in Upload \cup {None} /\ "ready" \in Statuses
    BY <1>4 DEF Finish, At, Busy, TypeOK, ImgTypeOK, Statuses
  <2>2. /\ image' \in Rows
        /\ \A i \in Ids : (image'[i] = None) <=> (image[i] = None)
        /\ \A i \in Ids : image[i] # None =>
              /\ image'[i].name = image[i].name
              /\ image'[i].sizes = IF i = job[p] THEN src[p] ELSE image[i].sizes
              /\ image'[i].status =
                    IF i = job[p] THEN "ready" ELSE image[i].status
    BY <1>1, <1>4, <2>1, UpdateSizesChanges
  <2>3. \A i \in Ids \ {job[p]} : image'[i] = image[i]
    BY <1>1, <1>4, <2>1 DEF UpdateSizes, Rows
  <2>4. CASE image[job[p]] = None
    <3>1. \A i \in Ids : image'[i] = image[i]
      BY <2>2, <2>3, <2>4
    <3>. QED BY <1>1, <2>2, <3>1 DEF Rows
  <2>5. CASE image[job[p]] # None
    <3>1. RowMoves(job[p])
      BY <1>4, <2>1, <2>2, <2>5 DEF RowMoves, Writes
    <3>. QED BY <2>1, <2>3, <3>1 DEF RowStays
  <2>. QED BY <2>4, <2>5
<1>5. ASSUME NEW p \in Pods, Work(p), ~UNCHANGED image
      PROVE  \/ Start(p) /\ SetStatus(job[p], "process")
             \/ Fail(p) /\ SetStatus(job[p], "error")
             \/ Finish(p) /\ UpdateSizes(job[p], src[p])
  BY <1>5 DEF Work, Receive, Start, Fetch, PutPreview, GetFileName, CopyObject,
       RemoveObject, Finish, Fail, PostNotify, Answered, storeVars
<1>6. ASSUME ~UNCHANGED image
      PROVE  \/ \E p \in Pods : Work(p)
             \/ /\ Api
                /\ \E id \in Ids, u \in Users, name \in Names :
                      PostImage(u, id, name)
  BY <1>6 DEF Next, Api, Img, RefuseCall, Push, Rest, vars, storeVars,
       ExpireUrl, ClientPut,
       PutObject, StartPod, KillPod, Process, LoseEvent, Notify, NotifyFails
<1>. QED BY <1>2, <1>3, <1>4, <1>5, <1>6 DEF Statuses
\* A preview changes when a worker puts it.
LEMMA PreviewForms ==
    ASSUME TypeOK, Busy, [Next]_vars, NEW b \in Buckets, NEW id \in Ids,
           preview'[b][id] # preview[b][id]
    PROVE  \E p \in Pods : PutPreview(p, b) /\ job[p] = id
<1>1. preview \in [Buckets -> [Ids -> Upload \cup {None}]]
  BY DEF TypeOK, StoresTypeOK
<1>2. ~UNCHANGED preview
  OBVIOUS
<1>3. \E p \in Pods, c \in Buckets : PutPreview(p, c)
  BY <1>2 DEF Next, Api, Img, RefuseCall, Push, Rest, vars, storeVars,
       PostImage, ExpireUrl,
       ClientPut, PutObject, StartPod, KillPod, Process, LoseEvent, Notify,
       NotifyFails, Work, Receive, Start, Fetch, GetFileName, CopyObject,
       RemoveObject, Finish, Fail, PostNotify, Answered
<1>4. ASSUME NEW p \in Pods, NEW c \in Buckets, PutPreview(p, c)
      PROVE  c = b /\ job[p] = id
  <2>1. preview' = [preview EXCEPT ![c][job[p]] = src[p]]
    BY <1>2, <1>4 DEF PutPreview
  <2>2. job[p] \in Ids
    BY <1>4 DEF PutPreview, At, Busy, Buckets
  <2>. QED BY <1>1, <2>1, <2>2
<1>. QED BY <1>3, <1>4

\* A step of a worker leaves the others where they are; any other step leaves
\* all workers where they are, or ends one with its process.
LEMMA WorkerForms ==
    ASSUME TypeOK, [Next]_vars
    PROVE  \/ UNCHANGED workVars
           \/ \E p \in Pods :
                 /\ \/ Work(p)
                    \/ "crash" \in Env /\ pc'[p] = "idle" /\ job'[p] = None
                       /\ UNCHANGED <<storeVars, pushVars>>
                 /\ \A q \in Pods \ {p} : UNCHANGED <<pc[q], job[q], src[q]>>
<1>1. ASSUME NEW p \in Pods, Work(p) \/ KillPod(p)
      PROVE  \A q \in Pods \ {p} : UNCHANGED <<pc[q], job[q], src[q]>>
  BY <1>1, OthersWait
<1>2. ASSUME NEW p \in Pods, KillPod(p)
      PROVE  /\ "crash" \in Env /\ pc'[p] = "idle" /\ job'[p] = None
             /\ UNCHANGED <<storeVars, pushVars>>
  BY <1>2 DEF KillPod, TypeOK, ImgTypeOK
<1>3. \/ UNCHANGED workVars
      \/ \E p \in Pods : Work(p) \/ KillPod(p)
  BY DEF Next, Api, Img, RefuseCall, Push, Rest, vars, imgVars, StartPod,
       Process, LoseEvent
<1>. QED BY <1>1, <1>2, <1>3

\* Where pods do not overlap, the one that works has no other beside it.
LEMMA WorksAlone ==
    ASSUME KInv, "overlap" \notin Env, NEW p \in Pods, pc[p] # "idle" \/ Work(p)
    PROVE  \A q \in Pods \ {p} : pc[q] = "idle"
<1>1. pod[p] = "up"
  <2>1. Work(p) => pod[p] = "up"
    BY DEF Work, Receive, Start, Fetch, PutPreview, GetFileName, CopyObject,
         RemoveObject, Finish, Fail, PostNotify, Answered, At
  <2>. QED BY <2>1 DEF KInv, UpWorks
<1>. QED BY <1>1 DEF KInv, UpWorks, OneUp

LEMMA KInvFacts ==
    ASSUME KInv
    PROVE  /\ TypeOK /\ WorkerKeepsOrder /\ Busy
           /\ \A p \in Pods : job[p] # None => job[p] \in Ids /\ puts[job[p]] > 0
BY BusyWorkers DEF KInv, IInv, WorkIsKnown, Known
=============================================================================
