----------------------------- MODULE FileProofs -----------------------------
(***************************************************************************)
(* Where the bytes of a file are.  A file that is PUT once exists in one   *)
(* version only, in every place it has come to: the bucket upload, a       *)
(* worker's memory, the bucket original and, as sizes, the row (FileIs).   *)
(* From that follow what is behind the link to an original and that no     *)
(* file is lost when it is moved, whatever fails.  An image PUT twice has  *)
(* no such guarantee, as the run second_put shows.                         *)
(***************************************************************************)
EXTENDS PipelineProofs

\* Every copy of the file of image id is f; with None, there is none.
FileIs(id, f) ==
    /\ upload[id] \in {None, f}
    /\ \A p \in Pods : job[p] = id => src[p] \in {None, f}
    /\ image[id] # None => image[id].sizes \in {None, f}
    /\ \A n \in Names : original[n] # None /\ original[n].id = id =>
                           original[n] = f

\* A PUT creates one file; a second one another.
OneFile ==
    \A id \in Ids :
        /\ puts[id] = 0 => FileIs(id, None)
        /\ puts[id] = 1 => \E f \in Upload : FileIs(id, f)

\* What is in upload under an id is that image's, and what is in original under
\* a name is some image's that has the name.
OwnFiles ==
    /\ \A id \in Ids : upload[id] # None => upload[id].id = id
    /\ \A n \in Names : original[n] # None =>
          \E id \in Ids : /\ image[id] # None /\ image[id].name = n
                          /\ original[n].id = id

\* An idle worker has no image in memory.
IdleIsEmpty == \A p \in Pods : pc[p] = "idle" => src[p] = None

FInv == OneFile /\ OwnFiles /\ IdleIsEmpty

-----------------------------------------------------------------------------
(* What a step does to files                                               *)

LEMMA BucketForms ==
    ASSUME [Next]_vars
    PROVE  /\ \/ UNCHANGED upload
              \/ \E i \in Ids, d \in BOOLEAN : ClientPut(i, d)
              \/ \E p \in Pods : RemoveObject(p)
           /\ \/ UNCHANGED puts
              \/ \E i \in Ids, d \in BOOLEAN :
                    ClientPut(i, d) /\ UNCHANGED imgVars
           /\ \/ UNCHANGED original
              \/ \E p \in Pods : CopyObject(p)
<1>1. ASSUME NEW p \in Pods, Work(p)
      PROVE  /\ UNCHANGED puts
             /\ UNCHANGED upload \/ RemoveObject(p)
             /\ UNCHANGED original \/ CopyObject(p)
  BY <1>1 DEF Work, Receive, Start, Fetch, PutPreview, GetFileName, CopyObject,
       RemoveObject, Finish, Fail, PostNotify, Answered, storeVars
<1>2. ASSUME Api
      PROVE  /\ UNCHANGED original
             /\ \/ UNCHANGED <<upload, puts>>
                \/ \E i \in Ids, d \in BOOLEAN :
                      ClientPut(i, d) /\ UNCHANGED imgVars
  BY <1>2 DEF Api, PostImage, ExpireUrl, ClientPut, PutObject, storeVars
<1>. QED BY <1>1, <1>2 DEF Next, Img, RefuseCall, Push, Rest, vars, storeVars,
     StartPod,
          KillPod, Process, LoseEvent, Notify, NotifyFails

\* A worker's image comes from upload, and is the one of its id.
LEMMA SourceForms ==
    ASSUME TypeOK, Busy, IdleIsEmpty, [Next]_vars, NEW p \in Pods
    PROVE  /\ \/ src'[p] = None
              \/ job'[p] = job[p] /\ src'[p] = src[p]
              \/ /\ job'[p] = job[p] /\ job[p] \in Ids
                 /\ src'[p] = upload[job[p]]
           /\ pc'[p] = "idle" => src'[p] = None
<1>1. /\ pc \in [Pods -> PCs] /\ job \in [Pods -> Ids \cup {None}]
      /\ src \in [Pods -> Upload \cup {None}]
  BY DEF TypeOK, ImgTypeOK
<1> DEFINE Goal == /\ \/ src'[p] = None
                      \/ job'[p] = job[p] /\ src'[p] = src[p]
                      \/ /\ job'[p] = job[p] /\ job[p] \in Ids
                         /\ src'[p] = upload[job[p]]
                   /\ pc'[p] = "idle" => src'[p] = None
<1>2. ASSUME UNCHANGED <<pc[p], job[p], src[p]>> PROVE Goal
  BY <1>2 DEF IdleIsEmpty
<1>3. CASE Work(p)
  <2>1. CASE Receive(p)
    BY <1>1, <2>1 DEF Receive, At, IdleIsEmpty
  <2>2. CASE Fetch(p)
    BY <1>1, <2>2 DEF Fetch, Abandon, At, Busy
  <2>3. ASSUME \/ Start(p) \/ GetFileName(p) \/ CopyObject(p) \/ RemoveObject(p)
               \/ Finish(p) \/ Fail(p)
        PROVE  Goal
    BY <1>1, <2>3 DEF Start, GetFileName, CopyObject, RemoveObject, Finish, Fail,
         Goto, Abandon
  <2>4. ASSUME NEW b \in Buckets, PutPreview(p, b) PROVE Goal
    BY <1>1, <2>4 DEF PutPreview, Goto, Abandon, After, Buckets
  <2>5. ASSUME Answered(p) \/ \E s \in {"ready", "error"} : PostNotify(p, s)
        PROVE  Goal
    BY <1>1, <2>5 DEF Answered, PostNotify, Goto, Idle
  <2>. QED BY <1>3, <2>1, <2>2, <2>3, <2>4, <2>5 DEF Work
<1>4. CASE KillPod(p)
  BY <1>1, <1>4 DEF KillPod
<1>5. CASE ~Work(p) /\ ~KillPod(p)
  <2>1. ASSUME NEW q \in Pods \ {p}, Work(q) \/ KillPod(q)
        PROVE  UNCHANGED <<pc[p], job[p], src[p]>>
    BY <2>1, OthersWait
  <2>2. \/ UNCHANGED workVars
        \/ \E q \in Pods \ {p} : Work(q) \/ KillPod(q)
    BY <1>5 DEF Next, Api, Img, RefuseCall, Push, Rest, vars, imgVars,
         StartPod, Process,
         LoseEvent
  <2>. QED BY <1>2, <2>1, <2>2 DEF workVars
<1>. QED BY <1>3, <1>4, <1>5
-----------------------------------------------------------------------------
(* The invariant                                                           *)

LEMMA KInvKeeps ==
    ASSUME KInv, [Next]_vars
    PROVE  /\ TypeOK /\ Busy /\ WorkerKeepsOrder /\ Keeps
           /\ puts \in [Ids -> 0..MaxPuts]
           /\ upload \in [Ids -> Upload \cup {None}]
           /\ original \in [Names -> Upload \cup {None}]
           /\ image \in Rows
BY KInvFacts, StepKeeps DEF TypeOK, StoresTypeOK, Rows

LEMMA StepIdle ==
    ASSUME KInv, IdleIsEmpty, [Next]_vars
    PROVE  IdleIsEmpty'
BY KInvFacts, SourceForms DEF IdleIsEmpty

\* An upload is its image's; a copy in original is of an image of that name.
LEMMA StepOwn ==
    ASSUME KInv, OwnFiles, [Next]_vars
    PROVE  OwnFiles'
<1>1. /\ TypeOK /\ Busy /\ WorkerKeepsOrder /\ Keeps
      /\ upload \in [Ids -> Upload \cup {None}]
      /\ original \in [Names -> Upload \cup {None}]
      /\ image \in Rows
  BY KInvKeeps
<1>2. ASSUME NEW id \in Ids, upload'[id] # None PROVE upload'[id].id = id
  <2>1. CASE upload'[id] = upload[id]
    BY <1>2, <2>1 DEF OwnFiles
  <2>2. ASSUME NEW i \in Ids, NEW d \in BOOLEAN, ClientPut(i, d)
        PROVE  upload'[id] = upload[id] \/ upload'[id].id = id
    BY <1>1, <2>2 DEF ClientPut, PutObject
  <2>3. ASSUME NEW p \in Pods, RemoveObject(p) PROVE upload'[id] = upload[id]
    BY <1>1, <1>2, <2>3 DEF RemoveObject
  <2>. QED BY <2>1, <2>2, <2>3, BucketForms
<1>3. ASSUME NEW n \in Names, original'[n] # None
      PROVE  \E id \in Ids : /\ image'[id] # None /\ image'[id].name = n
                             /\ original'[n].id = id
  <2>1. CASE original'[n] = original[n]
    BY <1>1, <1>3, <2>1 DEF OwnFiles, Keeps
  <2>2. ASSUME NEW p \in Pods, CopyObject(p), original'[n] # original[n]
        PROVE  \E id \in Ids : /\ image'[id] # None /\ image'[id].name = n
                               /\ original'[n].id = id
    <3>1. job[p] \in Ids /\ image[job[p]] # None
      BY <1>1, <2>2 DEF CopyObject, At, Busy, WorkerKeepsOrder, InOrder
    <3>2. /\ upload[job[p]] # None
          /\ original' =
                [original EXCEPT ![image[job[p]].name] = upload[job[p]]]
      BY <2>2 DEF CopyObject
    <3>3. image[job[p]].name = n /\ original'[n] = upload[job[p]]
      BY <1>1, <2>2, <3>2
    <3>. QED BY <1>1, <3>1, <3>2, <3>3 DEF OwnFiles, Keeps
  <2>. QED BY <2>1, <2>2, BucketForms
<1>. QED BY <1>2, <1>3 DEF OwnFiles

\* A step that is no PUT of image id makes no other version of its file.
LEMMA FileStays ==
    ASSUME KInv, OwnFiles, IdleIsEmpty, [Next]_vars, NEW id \in Ids, NEW f,
           FileIs(id, f), puts'[id] = puts[id]
    PROVE  FileIs(id, f)'
<1>1. /\ TypeOK /\ Busy /\ WorkerKeepsOrder /\ Keeps
      /\ upload \in [Ids -> Upload \cup {None}]
      /\ original \in [Names -> Upload \cup {None}]
      /\ image \in Rows /\ puts \in [Ids -> 0..MaxPuts]
  BY KInvKeeps
<1>2. upload'[id] \in {None, f}
  <2>1. ASSUME NEW i \in Ids, NEW d \in BOOLEAN, ClientPut(i, d)
        PROVE  upload'[id] = upload[id]
    <3>1. puts' = [puts EXCEPT ![i] = @ + 1] /\ puts[i] \in Int
      BY <1>1, <2>1, PutsAssumption DEF ClientPut, PutObject
    <3>2. i # id
      BY <1>1, <3>1
    <3>. QED BY <1>1, <2>1, <3>2 DEF ClientPut, PutObject
  <2>2. ASSUME NEW p \in Pods, RemoveObject(p)
        PROVE  upload'[id] \in {upload[id], None}
    BY <1>1, <2>2 DEF RemoveObject
  <2>. QED BY <2>1, <2>2, BucketForms DEF FileIs
<1>3. ASSUME NEW p \in Pods, job'[p] = id PROVE src'[p] \in {None, f}
  BY <1>1, <1>3, SourceForms DEF FileIs
<1>4. ASSUME image'[id] # None PROVE image'[id].sizes \in {None, f}
  <2>1. CASE RowStays(id)
    BY <1>4, <2>1 DEF RowStays, FileIs
  <2>2. CASE RowComes(id)
    BY <2>2 DEF RowComes
  <2>3. CASE RowMoves(id)
    BY <2>3 DEF RowMoves, Writes, FileIs
  <2>. QED BY <1>1, <2>1, <2>2, <2>3, RowForms DEF RowStays
<1>5. ASSUME NEW n \in Names, original'[n] # None, original'[n].id = id
      PROVE  original'[n] = f
  <2>1. CASE original'[n] = original[n]
    BY <1>5, <2>1 DEF FileIs
  <2>2. ASSUME NEW p \in Pods, CopyObject(p), original'[n] # original[n]
        PROVE  original'[n] = f
    <3>1. /\ upload[job[p]] # None /\ job[p] \in Ids
          /\ original' =
                [original EXCEPT ![image[job[p]].name] = upload[job[p]]]
      BY <1>1, <2>2 DEF CopyObject, At, Busy
    <3>2. original'[n] = upload[job[p]]
      BY <1>1, <2>2, <3>1
    <3>3. job[p] = id
      BY <1>5, <3>1, <3>2 DEF OwnFiles
    <3>. QED BY <3>1, <3>2, <3>3 DEF FileIs
  <2>. QED BY <2>1, <2>2, BucketForms
<1>. QED BY <1>2, <1>3, <1>4, <1>5 DEF FileIs

\* The first PUT of an image finds no copy of any file of it.
LEMMA FirstPut ==
    ASSUME KInv, [Next]_vars, NEW id \in Ids, NEW d \in BOOLEAN,
           ClientPut(id, d), puts[id] = 0, FileIs(id, None), UNCHANGED imgVars
    PROVE  \E f \in Upload : FileIs(id, f)'
<1>1. /\ upload \in [Ids -> Upload \cup {None}]
      /\ upload' \in [Ids -> Upload \cup {None}]
  BY KInvKeeps, StepIInv DEF KInv, IInv, TypeOK, StoresTypeOK
<1> DEFINE f == [id |-> id, n |-> 1, decodable |-> d]
<1>2. upload'[id] = f /\ UNCHANGED <<image, original, job, src>>
  BY <1>1 DEF ClientPut, PutObject, imgVars, workVars
<1>3. f \in Upload
  BY PutsAssumption DEF Upload
<1>4. FileIs(id, f)'
  BY <1>2 DEF FileIs
<1>. QED BY <1>3, <1>4

LEMMA StepOneFile ==
    ASSUME KInv, FInv, [Next]_vars
    PROVE  OneFile'
<1>1. puts \in [Ids -> 0..MaxPuts] /\ MaxPuts \in Nat \ {0}
  BY KInvKeeps, PutsAssumption
<1> SUFFICES ASSUME NEW id \in Ids
             PROVE  /\ puts'[id] = 0 => FileIs(id, None)'
                    /\ puts'[id] = 1 => \E f \in Upload : FileIs(id, f)'
  BY DEF OneFile
<1>2. CASE puts'[id] = puts[id]
  <2>1. ASSUME NEW f, FileIs(id, f) PROVE FileIs(id, f)'
    BY <1>2, <2>1, FileStays DEF FInv
  <2>. QED BY <1>2, <2>1 DEF FInv, OneFile
<1>3. CASE puts'[id] # puts[id]
  <2>1. PICK i \in Ids, d \in BOOLEAN : ClientPut(i, d) /\ UNCHANGED imgVars
    BY <1>3, BucketForms
  <2>2. i = id /\ puts'[id] = puts[id] + 1
    BY <1>1, <1>3, <2>1 DEF ClientPut, PutObject
  <2>3. puts[id] = 0 => \E f \in Upload : FileIs(id, f)'
    BY <2>1, <2>2, FirstPut DEF FInv, OneFile
  <2>. QED BY <1>1, <2>2, <2>3
<1>. QED BY <1>2, <1>3

LEMMA SpecFInv == Spec => [](KInv /\ FInv)
<1>1. Init => FInv
  BY DEF Init, StoresInit, ImgInit, FInv, OneFile, FileIs, OwnFiles, IdleIsEmpty
<1>2. KInv /\ FInv /\ [Next]_vars => FInv'
  BY StepOneFile, StepOwn, StepIdle DEF FInv
<1>. QED BY <1>1, <1>2, SpecKInv, PTL DEF Spec

-----------------------------------------------------------------------------
(* The theorems                                                            *)

\* The link to the original of a ready image that was PUT once, and has its
\* name to itself, leads to the file its previews were made of, under every
\* fault and however many pods have worked on it.
THEOREM OriginalMatchesHolds == Spec => []OriginalMatches
<1>1. KInv /\ FInv => OriginalMatches
  <2> SUFFICES ASSUME KInv, FInv, NEW id \in Ids,
                      image[id] # None, image[id].status = "ready",
                      puts[id] = 1, OnlyOneNamed(id)
               PROVE  original[image[id].name] = image[id].sizes
    BY DEF OriginalMatches
  <2>1. image[id].name \in Names
    BY DEF KInv, IInv, TypeOK, StoresTypeOK, Row
  <2>2. original[image[id].name] # None /\ image[id].sizes # None
    BY DEF KInv, IInv, ReadyComplete, Links
  <2>3. original[image[id].name].id = id
    BY <2>1, <2>2 DEF FInv, OwnFiles, OnlyOneNamed
  <2>. QED BY <2>1, <2>2, <2>3 DEF FInv, OneFile, FileIs
<1>. QED BY <1>1, SpecFInv, PTL

\* Where pods do not overlap, nobody else writes an original while its worker
\* is between copying and removing.
CopyStays ==
    "overlap" \notin Env =>
        \A p \in Pods : pc[p] = "remove" =>
                           original[image[job[p]].name].id = job[p]

LEMMA StepCopyStays ==
    ASSUME KInv, OwnFiles, CopyStays, [Next]_vars
    PROVE  CopyStays'
<1> SUFFICES ASSUME "overlap" \notin Env, NEW p \in Pods, pc'[p] = "remove"
             PROVE  original'[image'[job'[p]].name].id = job'[p]
  BY DEF CopyStays
<1>1. /\ TypeOK /\ Busy /\ WorkerKeepsOrder /\ Keeps
      /\ original \in [Names -> Upload \cup {None}] /\ image \in Rows
      /\ pc \in [Pods -> PCs] /\ job \in [Pods -> Ids \cup {None}]
  BY KInvKeeps DEF TypeOK, ImgTypeOK
<1>2. CASE CopyObject(p)
  <2>1. job[p] \in Ids /\ image[job[p]] # None /\ image[job[p]].name \in Names
    BY <1>1, <1>2
       DEF CopyObject, At, Busy, WorkerKeepsOrder, InOrder, Rows, Row
  <2>2. /\ upload[job[p]] # None /\ job'[p] = job[p] /\ UNCHANGED image
        /\ original' = [original EXCEPT ![image[job[p]].name] = upload[job[p]]]
    BY <1>1, <1>2 DEF CopyObject, Goto, Abandon
  <2>. QED BY <1>1, <2>1, <2>2 DEF OwnFiles
<1>3. CASE ~CopyObject(p)
  <2>1. pc[p] = "remove" /\ job'[p] = job[p]
    <3>1. ~Work(p)
      BY <1>1, <1>3 DEF Work, Receive, Start, Fetch, PutPreview, GetFileName,
         RemoveObject, Finish, Fail, PostNotify, Answered, Goto, Abandon, Idle,
         After, Buckets
    <3>. QED BY <1>1, <3>1, WorkerForms DEF workVars
  <2>2. UNCHANGED original
    <3>1. ASSUME NEW q \in Pods, CopyObject(q) PROVE FALSE
      <4>1. q # p
        BY <1>3, <3>1
      <4>2. pc[q] = "copy"
        BY <3>1 DEF CopyObject, At
      <4>. QED BY <2>1, <4>1, <4>2, WorksAlone
    <3>. QED BY <3>1, BucketForms
  <2>3. /\ job[p] \in Ids /\ image[job[p]] # None
        /\ original[image[job[p]].name].id = job[p]
    BY <1>1, <2>1 DEF Busy, WorkerKeepsOrder, InOrder, CopyStays
  <2>. QED BY <1>1, <2>1, <2>2, <2>3 DEF Keeps
<1>. QED BY <1>2, <1>3

\* Removing the upload of an image PUT once, when nobody else can have written
\* under its name, leaves the very same file in original.
MovesOnce ==
    \A id \in Ids :
        puts[id] = 1 /\ ("overlap" \notin Env \/ OnlyOneNamed(id))
        /\ upload[id] # None /\ upload'[id] = None =>
            image[id] # None /\ original[image[id].name] = upload[id]

LEMMA StepMoves ==
    ASSUME KInv, FInv, CopyStays, [Next]_vars
    PROVE  MovesOnce
<1> SUFFICES ASSUME NEW id \in Ids, puts[id] = 1,
                    "overlap" \notin Env \/ OnlyOneNamed(id),
                    upload[id] # None, upload'[id] = None
             PROVE  image[id] # None /\ original[image[id].name] = upload[id]
  BY DEF MovesOnce
<1>1. /\ TypeOK /\ Busy /\ WorkerKeepsOrder /\ image \in Rows
      /\ upload \in [Ids -> Upload \cup {None}]
  BY KInvKeeps
<1>2. PICK p \in Pods : RemoveObject(p)
  <2>1. ASSUME NEW i \in Ids, NEW d \in BOOLEAN, ClientPut(i, d) PROVE FALSE
    <3>1. upload'[id] # None
      <4>1. upload' \in [Ids -> Upload \cup {None}]
        BY StepIInv DEF KInv, IInv, TypeOK, StoresTypeOK
      <4>2. upload' = [upload EXCEPT ![i] =
                         [id |-> i, n |-> puts[i] + 1, decodable |-> d]]
        BY <2>1 DEF ClientPut, PutObject
      <4>3. [id |-> i, n |-> puts[i] + 1, decodable |-> d] # None
        <5>1. puts[i] \in 0..MaxPuts /\ puts[i] < MaxPuts
          BY <2>1, KInvKeeps DEF ClientPut, PutObject
        <5>2. [id |-> i, n |-> puts[i] + 1, decodable |-> d] \in Upload
          BY <5>1, PutsAssumption DEF Upload
        <5>. QED BY <5>2, NoneAssumption
      <4>. QED BY <1>1, <4>2, <4>3
    <3>. QED BY <3>1
  <2>. QED BY <2>1, BucketForms
<1>3. job[p] = id /\ pc[p] = "remove"
  BY <1>1, <1>2 DEF RemoveObject, At, Busy
<1>4. /\ image[id] # None /\ original[image[id].name] # None
      /\ image[id].name \in Names
  BY <1>1, <1>3 DEF WorkerKeepsOrder, InOrder, Rows, Row
<1>5. original[image[id].name].id = id
  <2>1. CASE "overlap" \notin Env
    BY <1>3, <2>1 DEF CopyStays
  <2>2. CASE OnlyOneNamed(id)
    BY <1>4, <2>2 DEF FInv, OwnFiles, OnlyOneNamed
  <2>. QED BY <2>1, <2>2
<1>. QED BY <1>4, <1>5 DEF FInv, OneFile, FileIs

\* The file of an image PUT once leaves the bucket upload only for original:
\* for any number of other images and of PUTs of them, and under every fault
\* if no other image has its name.
THEOREM MovesOnceHolds == Spec => [][MovesOnce]_vars
<1>1. Init => CopyStays
  BY DEF Init, ImgInit, CopyStays
<1>2. KInv /\ FInv /\ CopyStays /\ [Next]_vars => CopyStays'
  BY StepCopyStays DEF FInv
<1>3. KInv /\ FInv /\ CopyStays /\ [Next]_vars => [MovesOnce]_vars
  BY StepMoves
<1>. QED BY <1>1, <1>2, <1>3, SpecFInv, PTL DEF Spec

\* Where an image is PUT at most once and pods do not overlap, an upload is
\* never removed before it has been copied, and no other file is in its place.
THEOREM MovePreservesHolds ==
    ASSUME MaxPuts = 1, "overlap" \notin Env
    PROVE  Spec => MovePreserves
<1> DEFINE Moves == \A id \in Ids :
                       upload[id] # None /\ upload'[id] = None =>
                          image[id] # None /\ original[image[id].name] = upload[id]
<1>1. KInv /\ FInv /\ [MovesOnce]_vars => [Moves]_vars
  <2>1. ASSUME KInv, FInv, MovesOnce PROVE Moves
    <3>1. ASSUME NEW id \in Ids, upload[id] # None PROVE puts[id] = 1
      <4>1. puts[id] \in 0..1 /\ upload[id] # None
        BY <2>1, <3>1 DEF KInv, IInv, TypeOK, StoresTypeOK
      <4>2. puts[id] # 0
        BY <2>1, <3>1 DEF FInv, OneFile, FileIs
      <4>. QED BY <4>1, <4>2
    <3>. QED BY <2>1, <3>1 DEF MovesOnce
  <2>. QED BY <2>1
<1> HIDE DEF Moves
<1>2. Spec => [][Moves]_vars
  BY <1>1, SpecFInv, MovesOnceHolds, PTL
<1>. QED BY <1>2 DEF MovePreserves, Moves
=============================================================================
