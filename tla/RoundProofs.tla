---------------------------- MODULE RoundProofs -----------------------------
(***************************************************************************)
(* What a round of processing leaves in the table, the previews and the    *)
(* log of push-service, and that Pipeline implements ImageLifecycle.       *)
(*                                                                         *)
(* Each theorem has as its hypothesis the faults it does not survive; the  *)
(* runs show what happens under them.  While no statement is lost and no   *)
(* two pods overlap, the row of the image in a worker's hands says         *)
(* "process" from Start to Finish or Fail (InRound): that is why nobody    *)
(* sees a ready row whose previews are being replaced, and why a status    *)
(* passes through "process".                                               *)
(***************************************************************************)
EXTENDS PipelineProofs

\* The labels at which a round has begun and its status is not yet written.
Middle == {"fetch", "name", "copy", "remove", "finish", "fail"} \cup Buckets

Stored(id, s) == image[id] # None => image[id].status = s

InRound(p) ==
    /\ pc[p] \in Middle => Stored(job[p], "process")
    /\ \A b \in Written(pc[p]) : preview[b][job[p]] = src[p]

-----------------------------------------------------------------------------
(* The status says "process" while a round lasts                           *)

Serial == {"db", "overlap"} \cap Env = {}

LEMMA WorkRound ==
    ASSUME Serial, KInv, NEW p \in Pods, InRound(p), Work(p)
    PROVE  InRound(p)'
<1>1. /\ TypeOK /\ Busy
      /\ image \in Rows /\ preview \in [Buckets -> [Ids -> Upload \cup {None}]]
      /\ pc \in [Pods -> PCs] /\ job \in [Pods -> Ids \cup {None}]
      /\ src \in [Pods -> Upload \cup {None}]
  BY KInvFacts DEF TypeOK, StoresTypeOK, ImgTypeOK, Rows
<1>2. "db" \notin Env
  BY DEF Serial
<1>3. ASSUME pc'[p] \notin Middle PROVE InRound(p)'
  BY <1>3 DEF InRound, Written, Middle, Buckets
<1>4. ASSUME pc[p] \in Middle, job'[p] = job[p], UNCHANGED image
      PROVE  Stored(job[p], "process")'
  BY <1>4 DEF InRound, Stored
<1>5. ASSUME pc[p] \in Middle, Abandon(p), UNCHANGED image PROVE InRound(p)'
  <2>1. pc'[p] = "fail" /\ job'[p] = job[p]
    BY <1>1, <1>5 DEF Abandon
  <2>. QED BY <1>4, <1>5, <2>1 DEF InRound, Written, Stored
<1>6. CASE Receive(p)
  BY <1>1, <1>3, <1>6 DEF Receive, Middle, Buckets
<1>7. CASE Start(p)
  <2>1. SetStatus(job[p], "process") /\ job[p] \in Ids
    BY <1>1, <1>2, <1>7 DEF Start, At, Busy
  <2>2. pc'[p] = "fetch" /\ job'[p] = job[p]
    BY <1>1, <1>7 DEF Start, Goto
  <2>3. image'[job[p]] # None => image'[job[p]].status = "process"
    BY <1>1, <2>1, SetStatusChanges DEF Statuses
  <2>. QED BY <2>2, <2>3 DEF InRound, Stored, Written
<1>8. CASE Fetch(p)
  <2>1. pc[p] \in Middle /\ UNCHANGED image
    BY <1>8 DEF Fetch, At, Middle, storeVars
  <2>2. CASE pc' = [pc EXCEPT ![p] = "large"] /\ UNCHANGED job
    <3>1. pc'[p] = "large" /\ job'[p] = job[p]
      BY <1>1, <2>2
    <3>. QED BY <1>4, <2>1, <3>1 DEF InRound, Written, Stored
  <2>. QED BY <1>5, <1>8, <2>1, <2>2 DEF Fetch
<1>9. ASSUME NEW b \in Buckets, PutPreview(p, b) PROVE InRound(p)'
  <2>1. pc[p] \in Middle /\ pc[p] = b /\ UNCHANGED image /\ job[p] \in Ids
    BY <1>1, <1>9 DEF PutPreview, At, Middle, Busy, Buckets
  <2>2. CASE /\ preview' = [preview EXCEPT ![b][job[p]] = src[p]]
             /\ Goto(p, After[b])
    <3>1. pc'[p] = After[b] /\ job'[p] = job[p] /\ src'[p] = src[p]
      BY <1>1, <2>2 DEF Goto
    <3>2. /\ Written(After[b]) = Written(b) \cup {b}
          /\ Written(b) \subseteq Buckets
      BY DEF Written, After, Buckets
    <3>3. \A c \in Written(b) \cup {b} : preview'[c][job[p]] = src[p]
      BY <1>1, <2>1, <2>2, <3>2 DEF InRound
    <3>. QED BY <1>4, <2>1, <3>1, <3>2, <3>3 DEF InRound, Stored
  <2>. QED BY <1>5, <1>9, <2>1, <2>2 DEF PutPreview
<1>10. CASE GetFileName(p) \/ CopyObject(p) \/ RemoveObject(p)
  <2>1. /\ pc[p] \in {"name", "copy", "remove"} /\ UNCHANGED <<image, preview>>
        /\ Abandon(p) \/ \E l \in {"copy", "remove", "finish"} : Goto(p, l)
    BY <1>10 DEF GetFileName, CopyObject, RemoveObject, At, storeVars
  <2>2. pc[p] \in Middle
    BY <2>1 DEF Middle
  <2>3. ASSUME NEW l \in {"copy", "remove", "finish"}, Goto(p, l)
        PROVE  InRound(p)'
    <3>1. pc'[p] = l /\ job'[p] = job[p] /\ src'[p] = src[p]
      BY <1>1, <2>3 DEF Goto
    <3>2. Written(l) = Written(pc[p])
      BY <2>1 DEF Written
    <3>. QED BY <1>4, <2>1, <2>2, <3>1, <3>2 DEF InRound, Stored
  <2>. QED BY <1>5, <2>1, <2>2, <2>3
<1>11. CASE Finish(p) \/ Fail(p)
  BY <1>1, <1>2, <1>3, <1>11 DEF Finish, Fail, Goto, Middle, Buckets
<1>12. CASE Answered(p) \/ \E s \in {"ready", "error"} : PostNotify(p, s)
  <2>1. pc'[p] \in {"idle", "posted"}
    BY <1>1, <1>12 DEF PostNotify, Answered, Idle, Goto
  <2>. QED BY <1>3, <2>1 DEF Middle, Buckets
<1>. QED BY <1>6, <1>7, <1>8, <1>9, <1>10, <1>11, <1>12 DEF Work

LEMMA StepRound ==
    ASSUME Serial, KInv, \A p \in Pods : InRound(p), [Next]_vars
    PROVE  \A p \in Pods : InRound(p)'
<1>1. TypeOK /\ Busy
  BY KInvFacts
<1>2. ASSUME NEW p \in Pods, pc'[p] = "idle" PROVE InRound(p)'
  BY <1>2 DEF InRound, Middle, Buckets, Written
<1>3. CASE UNCHANGED workVars
  <2>1. ASSUME NEW p \in Pods, pc[p] # "idle" PROVE InRound(p)'
    <3>1. job[p] \in Ids /\ puts[job[p]] # 0
      <4>1. job[p] \in Ids /\ job[p] # None
        BY <1>1, <2>1, NoneAssumption DEF Busy
      <4>2. puts[job[p]] > 0
        BY <4>1, KInvFacts
      <4>. QED BY <4>1, <4>2
    <3>2. UNCHANGED <<pc, job, src>>
      BY <1>3 DEF workVars
    <3>3. \A b \in Buckets : preview'[b][job[p]] = preview[b][job[p]]
      <4>1. ASSUME NEW q \in Pods, NEW b \in Buckets, PutPreview(q, b)
            PROVE  FALSE
        <5>1. pc[q] = b /\ pc'[q] \in {After[b], "fail"}
          BY <1>1, <4>1
             DEF PutPreview, At, Goto, Abandon, TypeOK, ImgTypeOK
        <5>. QED BY <3>2, <5>1 DEF After, Buckets
      <4>. QED BY <1>1, <3>1, <4>1, PreviewForms
    <3>4. ~RowMoves(job[p])
      <4>1. ASSUME NEW q \in Pods, Start(q) \/ Finish(q) \/ Fail(q) PROVE FALSE
        BY <1>1, <3>2, <4>1
           DEF Start, Finish, Fail, At, Goto, Abandon, TypeOK, ImgTypeOK
      <4>. QED BY <4>1 DEF RowMoves, Writes
    <3>5. image'[job[p]] = image[job[p]]
      BY <1>1, <3>1, <3>4, RowForms DEF RowComes, RowStays
    <3>6. Written(pc[p]) \subseteq Buckets
      BY DEF Written, Buckets
    <3>. QED BY <3>2, <3>3, <3>5, <3>6 DEF InRound, Stored
  <2>2. UNCHANGED pc
    BY <1>3 DEF workVars
  <2>. QED BY <1>2, <2>1, <2>2
<1>4. ASSUME NEW p \in Pods, Work(p) PROVE \A q \in Pods : InRound(q)'
  <2>1. \A q \in Pods \ {p} : pc'[q] = "idle"
    BY <1>1, <1>4, WorksAlone, OthersWait DEF Serial
  <2>. QED BY <1>2, <1>4, <2>1, WorkRound
<1>5. ASSUME NEW p \in Pods, pc'[p] = "idle", UNCHANGED storeVars,
             \A q \in Pods \ {p} : UNCHANGED <<pc[q], job[q], src[q]>>
      PROVE  \A q \in Pods : InRound(q)'
  BY <1>2, <1>5 DEF InRound, Stored, storeVars
<1>. QED BY <1>1, <1>3, <1>4, <1>5, WorkerForms
LEMMA InitRound == Init => \A p \in Pods : InRound(p)
BY DEF Init, ImgInit, InRound, Middle, Buckets, Written

\* Where no statement fails and no pods overlap, a round's row says "process".
LEMMA SpecRound ==
    ASSUME Serial
    PROVE  Spec => [](KInv /\ \A p \in Pods : InRound(p))
<1> DEFINE RInv == \A p \in Pods : InRound(p)
<1>1. KInv /\ RInv /\ [Next]_vars => RInv'
  BY StepRound
<1>2. Init => RInv
  BY InitRound
<1> HIDE DEF RInv
<1>3. Spec => []RInv
  BY <1>1, <1>2, SpecKInv, PTL DEF Spec
<1>. QED BY <1>3, SpecKInv, PTL DEF RInv

\* A row is made ready by the worker that has just put its previews, and the
\* next one says so before it replaces them.
LEMMA StepMatch ==
    ASSUME Serial, KInv, \A p \in Pods : InRound(p), ReadyPreviewsMatch,
           [Next]_vars
    PROVE  ReadyPreviewsMatch'
<1> SUFFICES ASSUME NEW id \in Ids, image'[id] # None,
                    image'[id].status = "ready", NEW b \in Buckets
             PROVE  preview'[b][id] = image'[id].sizes
  BY DEF ReadyPreviewsMatch
<1>1. TypeOK /\ Busy
  BY KInvFacts
<1>2. CASE RowStays(id)
  <2>1. image[id] # None /\ image[id].status = "ready"
    BY <1>2 DEF RowStays
  <2>2. ASSUME NEW p \in Pods, PutPreview(p, b), job[p] = id PROVE FALSE
    BY <2>1, <2>2 DEF PutPreview, At, InRound, Middle, Stored
  <2>3. preview'[b][id] = preview[b][id]
    BY <1>1, <2>2, PreviewForms
  <2>. QED BY <1>2, <2>1, <2>3 DEF RowStays, ReadyPreviewsMatch
<1>3. ASSUME NEW p \in Pods, job[p] = id, Finish(p), image'[id].sizes = src[p]
      PROVE  preview'[b][id] = image'[id].sizes
  <2>1. pc[p] = "finish" /\ UNCHANGED preview
    BY <1>3 DEF Finish, At
  <2>2. preview[b][id] = src[p]
    BY <1>3, <2>1 DEF InRound, Written
  <2>. QED BY <1>3, <2>1, <2>2
<1>. QED BY <1>1, <1>2, <1>3, RowForms DEF RowComes, RowMoves, Writes, RowStays

-----------------------------------------------------------------------------
(* The life cycle of an image                                              *)

StatusOf(id) == IF image[id] = None THEN "absent" ELSE image[id].status


\* What an image has, it keeps.
LEMMA ArtefactsGrow ==
    ASSUME TypeOK, Keeps, NEW id \in Ids
    PROVE  /\ ArtefactsOf(id) \subseteq ArtefactsOf(id)'
           /\ ArtefactsOf(id)' \subseteq Buckets \cup {"original"}
<1>1. image[id] # None => image[id].name \in Names
  BY DEF TypeOK, StoresTypeOK, Row
<1>. QED BY <1>1 DEF Keeps, ArtefactsOf

\* Writing a status adds and removes nothing.
LEMMA WriteKeepsArtefacts ==
    ASSUME TypeOK, Busy, NEW p \in Pods, Start(p) \/ Finish(p) \/ Fail(p)
    PROVE  \A id \in Ids : ArtefactsOf(id)' = ArtefactsOf(id)
<1>1. UNCHANGED <<preview, original>>
  BY DEF Start, Finish, Fail
<1>2. job[p] \in Ids /\ src[p] \in Upload \cup {None} /\ image \in Rows
  BY DEF Start, Finish, Fail, At, Busy, TypeOK, StoresTypeOK, ImgTypeOK, Rows
<1>3. \/ \E s \in Statuses : SetStatus(job[p], s)
      \/ UpdateSizes(job[p], src[p])
      \/ UNCHANGED image
  BY DEF Start, Finish, Fail, Statuses
<1>4. /\ \A i \in Ids : (image'[i] = None) <=> (image[i] = None)
      /\ \A i \in Ids : image[i] # None => image'[i].name = image[i].name
  BY <1>2, <1>3, SetStatusChanges, UpdateSizesChanges
<1>. QED BY <1>1, <1>4 DEF ArtefactsOf

LEMMA InitLifecycle == Init => Lifecycle!Init
<1>. SUFFICES ASSUME Init PROVE Lifecycle!Init
  OBVIOUS
<1>1. \A id \in Ids : image[id] = None
  BY DEF Init, StoresInit
<1>2. \A id \in Ids : ArtefactsOf(id) \in SUBSET (Buckets \cup {"original"})
  BY DEF ArtefactsOf
<1>. QED BY <1>1, <1>2 DEF Lifecycle!Init

LEMMA StepLifecycle ==
    ASSUME KInv, Serial => \A p \in Pods : InRound(p), [Next]_vars
    PROVE  [Lifecycle!Next]_(Lifecycle!vars)
<1>1. TypeOK /\ Busy /\ WorkerKeepsOrder /\ Keeps
  BY KInvFacts, StepKeeps
<1>2. Lifecycle!Grow
  BY <1>1, ArtefactsGrow DEF Lifecycle!Grow
<1>3. ASSUME \A id \in Ids : StatusOf(id)' = StatusOf(id)
      PROVE  Lifecycle!Next
  <2>1. Lifecycle!Publish
    BY <1>2, <1>3 DEF Lifecycle!Publish, StatusOf
  <2>. QED BY <2>1 DEF Lifecycle!Next
<1>4. CASE UNCHANGED image
  BY <1>3, <1>4 DEF StatusOf
<1>5. ASSUME NEW id \in Ids, RowComes(id), \A i \in Ids \ {id} : RowStays(i)
      PROVE  Lifecycle!Next
  <2>1. Lifecycle!Create(id)
    BY <1>2, <1>5 DEF Lifecycle!Create, RowComes, RowStays
  <2>. QED BY <2>1 DEF Lifecycle!Next
<1>6. ASSUME NEW id \in Ids, RowMoves(id), \A i \in Ids \ {id} : RowStays(i)
      PROVE  Lifecycle!Next
  <2>1. PICK p \in Pods, s \in Statuses, z \in Upload \cup {None} :
           /\ job[p] = id /\ Writes(p, s, z)
           /\ image[id] # None /\ image'[id] # None
           /\ image'[id].name = image[id].name
           /\ image'[id].status = s
    BY <1>6 DEF RowMoves
  <2>2. s \in {"process", "ready", "error"}
    BY <2>1 DEF Writes
  <2>3. CASE image[id].status = s
    BY <1>3, <1>6, <2>1, <2>3 DEF StatusOf, RowStays
  <2>4. CASE image[id].status # s
    <3>1. image[id].status \in Statuses
      BY <1>1, <2>1 DEF TypeOK, StoresTypeOK, Row
    <3>2. Serial /\ s \in {"ready", "error"} => image[id].status = "process"
      BY <2>1 DEF Writes, Finish, Fail, At, InRound, Middle, Stored
    <3>3. <<image[id].status, s>> \in Lifecycle!Moves
      BY <2>2, <2>4, <3>1, <3>2 DEF Lifecycle!Moves, Serial, Statuses
    <3>4. s = "ready" => ArtefactsOf(id) = Buckets \cup {"original"}
      <4>1. ASSUME s = "ready"
            PROVE  /\ \A b \in Buckets : preview[b][id] # None
                   /\ original[image[id].name] # None
        BY <1>1, <2>1, <4>1
           DEF Writes, Finish, At, WorkerKeepsOrder, InOrder, Written
      <4>. QED BY <2>1, <4>1 DEF ArtefactsOf
    <3>5. \A i \in Ids : ArtefactsOf(i)' = ArtefactsOf(i)
      BY <1>1, <2>1, WriteKeepsArtefacts DEF Writes
    <3>6. Lifecycle!Move(id, s)
      BY <1>6, <2>1, <3>3, <3>4, <3>5 DEF Lifecycle!Move, RowStays
    <3>. QED BY <2>2, <3>6 DEF Lifecycle!Next
  <2>. QED BY <2>3, <2>4
<1>. QED BY <1>1, <1>4, <1>5, <1>6, RowForms

\* The pipeline implements the life cycle of an image, under every fault: its
\* status moves along Moves, what it has it keeps, and it is ready only when
\* it has everything.
THEOREM KeepsLifecycleHolds == Spec => KeepsLifecycle
<1>1. ASSUME Serial PROVE Spec => KeepsLifecycle
  <2> DEFINE RInv == \A p \in Pods : InRound(p)
  <2>1. KInv /\ RInv /\ [Next]_vars => [Lifecycle!Next]_(Lifecycle!vars)
    BY StepLifecycle
  <2>2. Spec => []KInv /\ []RInv
    BY <1>1, SpecRound, PTL
  <2> HIDE DEF RInv
  <2>. QED BY <2>1, <2>2, InitLifecycle, PTL DEF Spec, KeepsLifecycle, Lifecycle!Spec
<1>2. ASSUME ~Serial PROVE Spec => KeepsLifecycle
  <2>1. KInv /\ [Next]_vars => [Lifecycle!Next]_(Lifecycle!vars)
    BY <1>2, StepLifecycle
  <2>. QED BY <2>1, SpecKInv, InitLifecycle, PTL
       DEF Spec, KeepsLifecycle, Lifecycle!Spec
<1>. QED BY <1>1, <1>2

\* The previews of a ready image are made from the one upload whose sizes its
\* row has, for any number of rounds, deaths of pods and failures of MinIO, as
\* long as no statement fails and no two pods overlap.
THEOREM ReadyPreviewsMatchHolds ==
    ASSUME Serial
    PROVE  Spec => []ReadyPreviewsMatch
<1> DEFINE RInv == \A p \in Pods : InRound(p)
<1>1. Init => ReadyPreviewsMatch
  BY DEF Init, StoresInit, ReadyPreviewsMatch
<1>2. KInv /\ RInv /\ ReadyPreviewsMatch /\ [Next]_vars => ReadyPreviewsMatch'
  BY StepMatch
<1>3. Spec => []KInv /\ []RInv
  BY SpecRound, PTL
<1> HIDE DEF RInv
<1>. QED BY <1>1, <1>2, <1>3, PTL DEF Spec
-----------------------------------------------------------------------------
(* What push-service is told                                               *)

\* A request under way is about the image in its worker's hands and says what
\* its row says, and so does the request the worker is about to send.
Announced(p) ==
    /\ notify[p] # None => /\ pc[p] = "posted" /\ notify[p].id = job[p]
                           /\ Stored(job[p], notify[p].status)
    /\ pc[p] \in {"ready", "error"} => Stored(job[p], pc[p])

\* A dead process leaves its request behind: here none dies.
Steady == Serial /\ "crash" \notin Env

\* A row stays as it is while another worker, or none, moves.
LEMMA RowWaits ==
    ASSUME KInv, [Next]_vars, NEW p \in Pods, pc[p] # "idle",
           \A q \in Pods : Work(q) => job[q] # job[p]
    PROVE  RowStays(job[p])
<1>1. TypeOK /\ Busy
  BY KInvFacts
<1>2. job[p] \in Ids /\ puts[job[p]] # 0
  <2>1. job[p] \in Ids /\ job[p] # None
    BY <1>1, NoneAssumption DEF Busy
  <2>2. puts[job[p]] > 0
    BY <2>1, KInvFacts
  <2>. QED BY <2>1, <2>2
<1>3. ~RowMoves(job[p])
  BY DEF RowMoves, Writes, Work
<1>. QED BY <1>1, <1>2, <1>3, RowForms DEF RowComes, RowStays

\* What a step does to the requests under way.
LEMMA NotifyForms ==
    ASSUME TypeOK, [Next]_vars
    PROVE  \/ UNCHANGED pushVars
           \/ \E p \in Pods, s \in {"ready", "error"} :
                 PostNotify(p, s) /\ UNCHANGED lastlog
           \/ \E p \in Pods : /\ Notify(p) \/ NotifyFails(p)
                              /\ UNCHANGED <<image, workVars>>
BY DEF Next, Api, Img, RefuseCall, Push, Rest, vars, storeVars, pushVars,
     imgVars, StartPod,
       KillPod, Process, LoseEvent, Notify, NotifyFails, Work, Receive, Start,
       Fetch, PutPreview, GetFileName, CopyObject, RemoveObject, Finish, Fail,
       PostNotify, Answered
LEMMA WorkAnnounced ==
    ASSUME Steady, KInv, NEW p \in Pods, Announced(p), Work(p)
    PROVE  Announced(p)'
<1>1. /\ TypeOK /\ Busy /\ image \in Rows /\ "db" \notin Env
      /\ pc \in [Pods -> PCs] /\ job \in [Pods -> Ids \cup {None}]
      /\ src \in [Pods -> Upload \cup {None}]
      /\ notify \in [Pods -> Notice \cup {None}]
  BY KInvFacts DEF TypeOK, StoresTypeOK, PushTypeOK, ImgTypeOK, Rows, Steady, Serial
<1>2. ASSUME pc[p] # "posted", UNCHANGED notify,
             pc'[p] \notin {"ready", "error"}
      PROVE  Announced(p)'
  BY <1>2 DEF Announced
<1>3. CASE \/ Receive(p) \/ Start(p) \/ Fetch(p) \/ GetFileName(p)
           \/ CopyObject(p) \/ RemoveObject(p)
           \/ \E b \in Buckets : PutPreview(p, b)
  <2>1. pc[p] # "posted" /\ UNCHANGED notify
    BY <1>3 DEF Receive, Start, Fetch, GetFileName, CopyObject, RemoveObject,
         PutPreview, At, Buckets, pushVars
  <2>2. pc'[p] \notin {"ready", "error"}
    BY <1>1, <1>3 DEF Receive, Start, Fetch, GetFileName, CopyObject,
         RemoveObject, PutPreview, Goto, Abandon, After, Buckets
  <2>. QED BY <1>2, <2>1, <2>2
<1>4. CASE Finish(p)
  <2>1. /\ UpdateSizes(job[p], src[p]) /\ UNCHANGED pushVars
        /\ pc[p] = "finish" /\ pc'[p] = "ready" /\ job'[p] = job[p]
    BY <1>1, <1>4 DEF Finish, Goto, At
  <2>2. job[p] \in Ids /\ src[p] \in Upload \cup {None}
    BY <1>1, <2>1 DEF Busy
  <2>3. Stored(job[p], "ready")'
    BY <1>1, <2>1, <2>2, UpdateSizesChanges DEF Stored
  <2>. QED BY <2>1, <2>3 DEF Announced, Stored, pushVars
<1>5. CASE Fail(p)
  <2>1. /\ SetStatus(job[p], "error") /\ UNCHANGED pushVars
        /\ pc[p] = "fail" /\ pc'[p] = "error" /\ job'[p] = job[p]
    BY <1>1, <1>5 DEF Fail, Goto, At
  <2>2. job[p] \in Ids /\ "error" \in Statuses
    BY <1>1, <2>1 DEF Busy, Statuses
  <2>3. Stored(job[p], "error")'
    BY <1>1, <2>1, <2>2, SetStatusChanges DEF Stored
  <2>. QED BY <2>1, <2>3 DEF Announced, Stored, pushVars
<1>6. ASSUME NEW s \in {"ready", "error"}, PostNotify(p, s)
      PROVE  Announced(p)'
  <2>1. pc[p] = s /\ UNCHANGED image
    BY <1>6 DEF PostNotify, At, storeVars
  <2>2. CASE Idle(p) /\ UNCHANGED notify
    BY <1>1, <1>2, <2>1, <2>2 DEF Idle
  <2>3. CASE /\ Goto(p, "posted")
             /\ notify' = [notify EXCEPT ![p] = [id |-> job[p], status |-> s]]
    <3>1. pc'[p] = "posted" /\ job'[p] = job[p]
      BY <1>1, <2>3 DEF Goto
    <3>2. notify'[p].id = job[p] /\ notify'[p].status = s
      BY <1>1, <2>3
    <3>3. Stored(job[p], s)'
      BY <2>1, <3>1 DEF Announced, Stored
    <3>. QED BY <3>1, <3>2, <3>3 DEF Announced, Stored
  <2>. QED BY <1>6, <2>2, <2>3 DEF PostNotify
<1>7. CASE Answered(p)
  BY <1>1, <1>7 DEF Answered, Idle, Announced, pushVars
<1>. QED BY <1>3, <1>4, <1>5, <1>6, <1>7 DEF Work

LEMMA StepAnnounced ==
    ASSUME Steady, KInv, \A p \in Pods : Announced(p), [Next]_vars
    PROVE  \A p \in Pods : Announced(p)'
<1>1. TypeOK /\ Busy /\ notify \in [Pods -> Notice \cup {None}]
  BY KInvFacts DEF TypeOK, PushTypeOK
<1>2. ASSUME NEW p \in Pods, Work(p), NEW q \in Pods \ {p} PROVE Announced(q)'
  <2>1. pc[q] = "idle" /\ pc'[q] = "idle"
    BY <1>1, <1>2, WorksAlone, OthersWait DEF Steady, Serial
  <2>2. notify'[q] = notify[q]
    BY <1>1, <1>2 DEF Work, Receive, Start, Fetch, PutPreview, GetFileName,
         CopyObject, RemoveObject, Finish, Fail, PostNotify, Answered, pushVars
  <2>. QED BY <2>1, <2>2 DEF Announced
<1>3. ASSUME \A p \in Pods : ~Work(p), NEW q \in Pods PROVE Announced(q)'
  <2>1. UNCHANGED workVars
    BY <1>1, <1>3, WorkerForms DEF Steady
  <2>2. notify'[q] \in {notify[q], None}
    <3>1. ASSUME NEW p \in Pods, NEW s \in {"ready", "error"}, PostNotify(p, s)
          PROVE  FALSE
      BY <1>3, <3>1 DEF Work
    <3>. QED BY <1>1, <3>1, NotifyForms DEF pushVars, Notify, NotifyFails
  <2>3. pc[q] # "idle" => RowStays(job[q])
    BY <1>3, RowWaits
  <2>. QED BY <2>1, <2>2, <2>3 DEF Announced, Stored, RowStays, workVars
<1>. QED BY <1>2, <1>3, WorkAnnounced

LEMMA SpecAnnounced ==
    ASSUME Steady
    PROVE  Spec => [](KInv /\ \A p \in Pods : Announced(p))
<1> DEFINE AInv == \A p \in Pods : Announced(p)
<1>1. KInv /\ AInv /\ [Next]_vars => AInv'
  BY StepAnnounced
<1>2. Init => AInv
  BY DEF Init, ImgInit, PushInit, Announced
<1> HIDE DEF AInv
<1>3. Spec => []AInv
  BY <1>1, <1>2, SpecKInv, PTL DEF Spec
<1>. QED BY <1>3, SpecKInv, PTL DEF AInv

\* A notification under way says what the table says, whatever MinIO and the
\* connection to push-service do, as long as no statement fails, no process
\* dies and no two pods overlap.
THEOREM NotifiedIsStoredHolds ==
    ASSUME Steady
    PROVE  Spec => []NotifiedIsStored
<1>1. KInv /\ (\A p \in Pods : Announced(p)) => NotifiedIsStored
  BY DEF Announced, Stored, NotifiedIsStored
<1>. QED BY <1>1, SpecAnnounced, PTL

-----------------------------------------------------------------------------
(* The last line of the log                                                *)

\* Where the log and a settled row differ, a worker is about to say so or
\* push-service about to hear it.
Pending(p, id) ==
    /\ job[p] = id
    /\ \/ pc[p] \in {"ready", "error"}
       \/ pc[p] = "posted" /\ notify[p] # None

Told(id) ==
    Settled(id) /\ lastlog[id] # image[id].status =>
        \E p \in Pods : Pending(p, id)

Calm == Steady /\ "push" \notin Env

\* While it is pending, a notification stays so until push-service logs it.
LEMMA StaysPending ==
    ASSUME Calm, KInv, \A p \in Pods : Announced(p), [Next]_vars,
           NEW id \in Ids, Settled(id), NEW p \in Pods, Pending(p, id),
           lastlog'[id] # image[id].status
    PROVE  Pending(p, id)'
<1>1. /\ TypeOK /\ Busy /\ {"db", "push", "crash"} \cap Env = {}
      /\ pc \in [Pods -> PCs] /\ job \in [Pods -> Ids \cup {None}]
      /\ notify \in [Pods -> Notice \cup {None}]
      /\ lastlog \in [Ids -> {"none", "ready", "error"}]
  BY KInvFacts DEF TypeOK, ImgTypeOK, PushTypeOK, Calm, Steady, Serial
<1>2. CASE Work(p)
  <2>1. ASSUME NEW s \in {"ready", "error"}, PostNotify(p, s)
        PROVE  Pending(p, id)'
    <3>1. /\ Goto(p, "posted")
          /\ notify' = [notify EXCEPT ![p] = [id |-> job[p], status |-> s]]
      BY <1>1, <2>1 DEF PostNotify
    <3>2. [id |-> job[p], status |-> s] # None
      BY NoticeAssumption DEF Notice, Pending
    <3>. QED BY <1>1, <3>1, <3>2 DEF Goto, Pending
  <2>2. CASE Answered(p)
    BY <2>2 DEF Answered, At, Pending
  <2>3. CASE \/ Receive(p) \/ Start(p) \/ Fetch(p) \/ GetFileName(p)
             \/ CopyObject(p) \/ RemoveObject(p) \/ Finish(p) \/ Fail(p)
             \/ \E b \in Buckets : PutPreview(p, b)
    BY <2>3 DEF Receive, Start, Fetch, GetFileName, CopyObject, RemoveObject,
         Finish, Fail, PutPreview, At, Buckets, Pending
  <2>. QED BY <1>2, <2>1, <2>2, <2>3 DEF Work
<1>3. CASE ~Work(p)
  <2>1. UNCHANGED <<pc[p], job[p]>>
    BY <1>1, <1>3, WorkerForms DEF workVars
  <2>2. ASSUME pc[p] = "posted", notify[p] # None PROVE notify'[p] = notify[p]
    <3>1. ASSUME NEW q \in Pods, NEW s \in {"ready", "error"}, PostNotify(q, s)
          PROVE  notify'[p] = notify[p]
      <4>1. q # p
        BY <1>3, <3>1 DEF Work
      <4>. QED BY <1>1, <3>1, <4>1 DEF PostNotify
    <3>2. ~NotifyFails(p)
      BY <1>1, <2>2 DEF NotifyFails, Announced, Pending, Settled
    <3>3. ~Notify(p)
      <4>1. Notify(p) => lastlog'[id] = notify[p].status
        BY <1>1, <2>2 DEF Notify, Announced, Pending
      <4>2. notify[p].status = image[id].status
        BY <2>2 DEF Announced, Stored, Pending, Settled
      <4>. QED BY <4>1, <4>2
    <3>4. ASSUME NEW q \in Pods, Notify(q) \/ NotifyFails(q)
          PROVE  notify'[p] = notify[p]
      BY <1>1, <3>2, <3>3, <3>4 DEF Notify, NotifyFails
    <3>. QED BY <1>1, <3>1, <3>4, NotifyForms DEF pushVars
  <2>. QED BY <2>1, <2>2 DEF Pending
<1>. QED BY <1>2, <1>3

LEMMA StepTold ==
    ASSUME Calm, KInv, \A p \in Pods : Announced(p),
           \A id \in Ids : Told(id), [Next]_vars
    PROVE  \A id \in Ids : Told(id)'
<1>1. /\ TypeOK /\ Busy
      /\ pc \in [Pods -> PCs] /\ job \in [Pods -> Ids \cup {None}]
      /\ lastlog \in [Ids -> {"none", "ready", "error"}]
  BY KInvFacts DEF TypeOK, ImgTypeOK, PushTypeOK
<1> SUFFICES ASSUME NEW id \in Ids,
                    Settled(id)', lastlog'[id] # image'[id].status
             PROVE  \E p \in Pods : Pending(p, id)'
  BY DEF Told
<1>2. CASE RowStays(id)
  <2>1. Settled(id) /\ lastlog'[id] # image[id].status
    BY <1>2 DEF RowStays, Settled
  <2>2. ASSUME lastlog[id] = image[id].status PROVE FALSE
    <3>1. PICK p \in Pods : Notify(p)
      <4>1. lastlog' # lastlog
        BY <2>1, <2>2
      <4>2. \A p \in Pods : NotifyFails(p) => lastlog' = lastlog
        BY DEF NotifyFails
      <4>. QED BY <1>1, <4>1, <4>2, NotifyForms DEF pushVars
    <3>2. /\ notify[p] # None /\ notify[p].id = id
          /\ lastlog'[id] = notify[p].status
      BY <1>1, <2>1, <2>2, <3>1 DEF Notify
    <3>3. notify[p].status = image[id].status
      BY <2>1, <3>2 DEF Announced, Stored, Settled
    <3>. QED BY <2>1, <3>2, <3>3
  <2>3. PICK p \in Pods : Pending(p, id)
    BY <2>1, <2>2 DEF Told
  <2>. QED BY <2>1, <2>3, StaysPending
<1>3. ASSUME RowMoves(id) PROVE \E p \in Pods : Pending(p, id)'
  <2>1. PICK p \in Pods, s \in Statuses, z \in Upload \cup {None} :
           job[p] = id /\ Writes(p, s, z) /\ image'[id].status = s
    BY <1>3 DEF RowMoves
  <2>2. Finish(p) \/ Fail(p)
    BY <2>1 DEF Writes, Settled
  <2>3. "db" \notin Env
    BY DEF Calm, Steady, Serial
  <2>4. pc'[p] \in {"ready", "error"} /\ job'[p] = job[p]
    BY <1>1, <2>2, <2>3 DEF Finish, Fail, Goto
  <2>. QED BY <2>1, <2>4 DEF Pending
<1>. QED BY <1>1, <1>2, <1>3, RowForms DEF RowComes, RowStays, Settled

\* Once the work on a settled image is over, the last line about it in the log
\* of push-service has its status: where no statement and no connection fails,
\* no process dies and no two pods overlap, however many files are sent.
THEOREM LastWordHolds ==
    ASSUME Calm
    PROVE  Spec => []LastWord
<1> DEFINE AInv == \A p \in Pods : Announced(p)
           TInv == \A id \in Ids : Told(id)
<1>1. KInv /\ AInv /\ TInv /\ [Next]_vars => TInv'
  BY StepTold
<1>2. Init => TInv
  BY DEF Init, StoresInit, Told, Settled
<1>3. TInv => LastWord
  BY DEF Told, Pending, LastWord
<1>4. Spec => []KInv /\ []AInv
  BY SpecAnnounced, PTL DEF Calm
<1> HIDE DEF AInv, TInv
<1>. QED BY <1>1, <1>2, <1>3, <1>4, PTL DEF Spec
=============================================================================
