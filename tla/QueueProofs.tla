---------------------------- MODULE QueueProofs -----------------------------
(***************************************************************************)
(* The channel of img-service, the webhook calls blocked on it and its     *)
(* worker are one waiting line per process: Pipeline implements            *)
(* WaitingLine, for any capacity of the channel and any set of faults.     *)
(*                                                                         *)
(* A call that finds room in the channel must not find others blocked      *)
(* before it: calls block only behind a full channel (Ordered), and a      *)
(* receive gives its room to the first of them.                            *)
(*                                                                         *)
(* What was answered 202 is not lost on its way from the channel through   *)
(* the worker to a status (Kept).                                          *)
(***************************************************************************)
EXTENDS PipelineProofs

\* Where calls are blocked the channel is full; an idle worker has no id.
Ordered ==
    \A p \in Pods : /\ parked[p] # <<>> => Len(ch[p]) = QueueCap
                    /\ Len(ch[p]) <= QueueCap
                    /\ pc[p] = "idle" => job[p] = None

QInv == TypeOK /\ Ordered

-----------------------------------------------------------------------------
(* Sequences                                                               *)

\* What is appended to the second of two sequences comes last in both.
LEMMA JoinsTheEnd ==
    ASSUME NEW s \in Seq(Ids), NEW t \in Seq(Ids), NEW id \in Ids
    PROVE  s \o Append(t, id) = Append(s \o t, id)
<1>1. <<id>> \in Seq(Ids) /\ s \o t \in Seq(Ids)
  BY ConcatProperties
<1>2. Append(t, id) = t \o <<id>> /\ Append(s \o t, id) = (s \o t) \o <<id>>
  BY <1>1, AppendIsConcat
<1>. QED BY <1>1, <1>2, ConcatAssociative

\* Taking the first of a sequence and moving the first of the one behind it up
\* takes the first of both.
LEMMA ServesTheFirst ==
    ASSUME NEW s \in Seq(Ids), NEW t \in Seq(Ids), s # <<>>
    PROVE  /\ s \o t # <<>> /\ Head(s \o t) = Head(s)
           /\ Tail(s) \o t = Tail(s \o t)
           /\ t # <<>> => Append(Tail(s), Head(t)) \o Tail(t) = Tail(s \o t)
<1>1. /\ s \o t \in Seq(Ids) /\ s \o t # <<>>
      /\ Len(s) \in Nat \ {0} /\ Len(t) \in Nat
      /\ Len(s \o t) = Len(s) + Len(t)
  BY ConcatProperties, ConcatEqualIffEmpty, EmptySeq, LenProperties
<1>2. Head(s \o t) = Head(s)
  <2>1. (s \o t)[1] = s[1]
    BY <1>1, ConcatProperties
  <2>. QED BY <2>1
<1>3. /\ Tail(s) \in Seq(Ids) /\ Len(Tail(s)) = Len(s) - 1
      /\ \A i \in 1..Len(Tail(s)) : Tail(s)[i] = s[i + 1]
  BY HeadTailProperties
<1>4. /\ Tail(s \o t) \in Seq(Ids) /\ Len(Tail(s \o t)) = Len(s) + Len(t) - 1
      /\ \A i \in 1..Len(Tail(s \o t)) : Tail(s \o t)[i] = (s \o t)[i + 1]
  BY <1>1, HeadTailProperties
<1>5. Tail(s) \o t = Tail(s \o t)
  <2>1. /\ Tail(s) \o t \in Seq(Ids)
        /\ Len(Tail(s) \o t) = Len(s) + Len(t) - 1
    BY <1>1, <1>3, ConcatProperties
  <2>2. ASSUME NEW i \in 1..(Len(s) + Len(t) - 1)
        PROVE  (Tail(s) \o t)[i] = Tail(s \o t)[i]
    <3>1. (Tail(s) \o t)[i] = IF i <= Len(s) - 1 THEN Tail(s)[i]
                              ELSE t[i - (Len(s) - 1)]
      BY <1>1, <1>3, ConcatProperties
    <3>2. (s \o t)[i + 1] = IF i + 1 <= Len(s) THEN s[i + 1]
                            ELSE t[(i + 1) - Len(s)]
      BY <1>1, ConcatProperties
    <3>. QED BY <1>1, <1>3, <1>4, <3>1, <3>2
  <2>. QED BY <1>1, <1>4, <2>1, <2>2, SeqEqual
<1>6. ASSUME t # <<>>
      PROVE  Append(Tail(s), Head(t)) \o Tail(t) = Tail(s) \o t
  <2>1. /\ Head(t) \in Ids /\ Tail(t) \in Seq(Ids) /\ Len(Tail(t)) = Len(t) - 1
        /\ \A i \in 1..Len(Tail(t)) : Tail(t)[i] = t[i + 1]
        /\ Len(t) \in Nat \ {0}
    BY <1>6, HeadTailProperties, EmptySeq
  <2>2. <<Head(t)>> \in Seq(Ids)
    BY <2>1
  <2>3. <<Head(t)>> \o Tail(t) = t
    <3>1. SubSeq(t, 1, Len(t)) = << t[1] >> \o SubSeq(t, 2, Len(t))
      BY <2>1, SubSeqRecursiveFirst
    <3>2. Tail(t) = SubSeq(t, 2, Len(t)) /\ SubSeq(t, 1, Len(t)) = t
      BY <1>6, TailIsSubSeq, SubSeqFull
    <3>. QED BY <3>1, <3>2
  <2>4. Append(Tail(s), Head(t)) = Tail(s) \o <<Head(t)>>
    BY <1>3, <2>1, AppendIsConcat
  <2>5. (Tail(s) \o <<Head(t)>>) \o Tail(t) = Tail(s) \o (<<Head(t)>> \o Tail(t))
    BY <1>3, <2>1, <2>2, ConcatAssociative
  <2>. QED BY <2>3, <2>4, <2>5
<1>. QED BY <1>1, <1>2, <1>5, <1>6

-----------------------------------------------------------------------------
(* What a step does to one pod's channel, calls and worker                 *)

\* Pod p's part of a step, by what it is for the waiting line.
Begins(p) ==
    /\ pod[p] = "new" /\ pod'[p] = "up"
    /\ UNCHANGED <<ch[p], parked[p], job[p], pc[p]>>

Lives(p) == pod[p] = "up" /\ pod'[p] = "up"

Stays(p) ==
    /\ Lives(p) /\ UNCHANGED <<ch[p], parked[p], job[p]>>
    /\ pc'[p] = "idle" => pc[p] = "idle"

Joins(p, id) ==
    /\ Lives(p) /\ job'[p] = job[p] /\ pc'[p] = pc[p]
    /\ \/ /\ Len(ch[p]) < QueueCap
          /\ ch'[p] = Append(ch[p], id) /\ parked'[p] = parked[p]
       \/ /\ Len(ch[p]) >= QueueCap
          /\ parked'[p] = Append(parked[p], id) /\ ch'[p] = ch[p]

Takes(p) ==
    /\ Lives(p) /\ ch[p] # <<>> /\ job'[p] = Head(ch[p])
    /\ pc[p] = "idle" /\ pc'[p] = "start"
    /\ \/ /\ parked[p] = <<>> /\ parked'[p] = <<>>
          /\ ch'[p] = Tail(ch[p])
       \/ /\ parked[p] # <<>> /\ parked'[p] = Tail(parked[p])
          /\ ch'[p] = Append(Tail(ch[p]), Head(parked[p]))

Frees(p) == Lives(p) /\ UNCHANGED <<ch[p], parked[p]>> /\ job'[p] = None

Empties(p) ==
    /\ pod[p] = "up" /\ pod'[p] = "dead"
    /\ ch'[p] = <<>> /\ parked'[p] = <<>> /\ job'[p] = None

Apart(p) ==
    \/ Begins(p) \/ Stays(p) \/ Takes(p) \/ Frees(p) \/ Empties(p)
    \/ \E id \in Ids : Joins(p, id)

\* The pods a step does not concern.
Untouched(q) == UNCHANGED <<pod[q], ch[q], parked[q], job[q], pc[q]>>

\* A step of a worker other than receiving goes on to a label, or ends.
LEMMA WorksApart ==
    ASSUME TypeOK, NEW p \in Pods, Work(p), ~Receive(p)
    PROVE  Apart(p) /\ \A q \in Pods \ {p} : Untouched(q)
<1>1. /\ pc \in [Pods -> PCs] /\ job \in [Pods -> Ids \cup {None}]
  BY DEF TypeOK, ImgTypeOK
<1>2. \/ \E l \in PCs \ {"idle"} : Goto(p, l)
      \/ Abandon(p) \/ Idle(p)
      \/ UNCHANGED job /\ \E l \in PCs \ {"idle"} : pc' = [pc EXCEPT ![p] = l]
  <2>1. {"fetch", "large", "copy", "remove", "finish", "ready", "error", "posted"}
           \subseteq PCs \ {"idle"}
    BY DEF PCs, Buckets
  <2>2. \A b \in Buckets : After[b] \in PCs \ {"idle"}
    BY DEF After, PCs, Buckets
  <2>3. CASE Start(p) \/ Fetch(p) \/ GetFileName(p)
    BY <2>1, <2>3 DEF Start, Fetch, GetFileName
  <2>4. CASE \E b \in Buckets : PutPreview(p, b)
    BY <2>2, <2>4 DEF PutPreview
  <2>5. CASE CopyObject(p) \/ RemoveObject(p) \/ Finish(p)
    BY <2>1, <2>5 DEF CopyObject, RemoveObject, Finish
  <2>6. CASE Fail(p) \/ Answered(p) \/ \E s \in {"ready", "error"} : PostNotify(p, s)
    BY <2>1, <2>6 DEF Fail, Answered, PostNotify
  <2>. QED BY <2>3, <2>4, <2>5, <2>6 DEF Work
<1>3. UNCHANGED <<pod, ch, parked>> /\ Lives(p)
  <2>. USE DEF Lives, At
  <2>1. CASE Start(p) \/ Fetch(p) \/ GetFileName(p) \/ \E b \in Buckets : PutPreview(p, b)
    BY <2>1 DEF Start, Fetch, GetFileName, PutPreview, queueVars
  <2>2. CASE CopyObject(p) \/ RemoveObject(p) \/ Finish(p)
    BY <2>2 DEF CopyObject, RemoveObject, Finish, queueVars
  <2>3. CASE Fail(p) \/ Answered(p) \/ \E s \in {"ready", "error"} : PostNotify(p, s)
    BY <2>3 DEF Fail, Answered, PostNotify, queueVars
  <2>. QED BY <2>1, <2>2, <2>3 DEF Work
<1>4. CASE Idle(p)
  BY <1>1, <1>3, <1>4 DEF Idle, Frees, Apart, Untouched
<1>5. ASSUME UNCHANGED job, NEW l \in PCs \ {"idle"}, pc' = [pc EXCEPT ![p] = l]
      PROVE  Apart(p) /\ \A q \in Pods \ {p} : Untouched(q)
  BY <1>1, <1>3, <1>5 DEF Stays, Apart, Untouched
<1>6. "fail" \in PCs \ {"idle"}
  BY DEF PCs
<1>. QED BY <1>2, <1>4, <1>5, <1>6 DEF Goto, Abandon

\* Every step concerns at most one pod, in one of the six ways.
LEMMA StepApart ==
    ASSUME TypeOK, [Next]_vars
    PROVE  \/ \A q \in Pods : Untouched(q)
           \/ \E p \in Pods : Apart(p) /\ \A q \in Pods \ {p} : Untouched(q)
<1>1. /\ ch \in [Pods -> Seq(Ids)] /\ parked \in [Pods -> Seq(Ids)]
      /\ pc \in [Pods -> PCs] /\ job \in [Pods -> Ids \cup {None}]
  BY DEF TypeOK, ImgTypeOK
<1>0. pod \in [Pods -> {"new", "up", "dead"}]
  BY DEF TypeOK, ImgTypeOK
<1>2. CASE UNCHANGED <<pod, ch, parked, pc, job>>
  BY <1>2 DEF Untouched
<1>3. ASSUME NEW p \in Pods, Work(p)
      PROVE  Apart(p) /\ \A q \in Pods \ {p} : Untouched(q)
  <2>1. CASE Receive(p)
    BY <1>1, <2>1 DEF Receive, At, Lives, Takes, Apart, Untouched
  <2>. QED BY <1>3, <2>1, WorksApart
<1>4. ASSUME NEW p \in Pods, KillPod(p)
      PROVE  Apart(p) /\ \A q \in Pods \ {p} : Untouched(q)
  BY <1>0, <1>1, <1>4 DEF KillPod, Empties, Apart, Untouched
<1>5. ASSUME NEW p \in Pods, NEW id \in Ids, Process(p, id)
      PROVE  Apart(p) /\ \A q \in Pods \ {p} : Untouched(q)
  BY <1>1, <1>5 DEF Process, workVars, Lives, Joins, Apart, Untouched
<1>6. ASSUME NEW p \in Pods, StartPod(p)
      PROVE  Apart(p) /\ \A q \in Pods \ {p} : Untouched(q)
  BY <1>0, <1>6 DEF StartPod, workVars, Begins, Apart, Untouched
<1>7. \/ UNCHANGED <<pod, ch, parked, pc, job>>
      \/ \E p \in Pods : \/ Work(p) \/ KillPod(p) \/ StartPod(p)
                        \/ \E id \in Ids : Process(p, id)
  BY DEF Next, Api, Push, Rest, Img, RefuseCall, LoseEvent, vars, imgVars,
       workVars
<1>. QED BY <1>2, <1>3, <1>4, <1>5, <1>6, <1>7

\* Whatever happens to a pod, its blocked calls stay behind a full channel.
LEMMA ApartOrdered ==
    ASSUME QInv, NEW p \in Pods, Apart(p)
    PROVE  /\ parked'[p] # <<>> => Len(ch'[p]) = QueueCap
           /\ Len(ch'[p]) <= QueueCap
           /\ pc'[p] = "idle" => job'[p] = None
<1> DEFINE Goal == /\ parked'[p] # <<>> => Len(ch'[p]) = QueueCap
                   /\ Len(ch'[p]) <= QueueCap
                   /\ pc'[p] = "idle" => job'[p] = None
<1>1. /\ ch[p] \in Seq(Ids) /\ parked[p] \in Seq(Ids)
      /\ parked[p] # <<>> => Len(ch[p]) = QueueCap
      /\ Len(ch[p]) <= QueueCap
      /\ pc[p] = "idle" => job[p] = None
  BY DEF QInv, TypeOK, ImgTypeOK, Ordered
<1>2. Len(ch[p]) \in Nat /\ QueueCap \in Nat \ {0}
  BY <1>1, LenProperties, CapAssumption
<1>3. CASE Begins(p) \/ Stays(p) \/ Frees(p)
  BY <1>1, <1>3 DEF Begins, Stays, Frees
<1>4. ASSUME NEW id \in Ids, Joins(p, id) PROVE Goal
  <2>1. Len(Append(ch[p], id)) = Len(ch[p]) + 1
    BY <1>1, AppendProperties
  <2>2. CASE Len(ch[p]) < QueueCap
    BY <1>1, <1>2, <1>4, <2>1, <2>2 DEF Joins
  <2>3. CASE Len(ch[p]) >= QueueCap
    BY <1>1, <1>2, <1>4, <2>3 DEF Joins
  <2>. QED BY <1>2, <2>2, <2>3
<1>5. CASE Takes(p)
  <2>1. Tail(ch[p]) \in Seq(Ids) /\ Len(Tail(ch[p])) = Len(ch[p]) - 1
    BY <1>1, <1>5, HeadTailProperties DEF Takes
  <2>2. ASSUME parked[p] # <<>>
        PROVE  Len(Append(Tail(ch[p]), Head(parked[p]))) = Len(ch[p])
    <3>1. Head(parked[p]) \in Ids
      BY <1>1, <2>2, HeadTailProperties
    <3>. QED BY <1>2, <2>1, <3>1, AppendProperties
  <2>3. parked'[p] # <<>> => Len(ch'[p]) = QueueCap
    BY <1>1, <1>5, <2>2 DEF Takes
  <2>4. Len(ch'[p]) \in {Len(ch[p]), Len(ch[p]) - 1}
    BY <1>5, <2>1, <2>2 DEF Takes
  <2>5. Len(ch'[p]) <= QueueCap
    BY <1>1, <1>2, <2>4
  <2>. QED BY <1>5, <2>3, <2>5 DEF Takes
<1>6. CASE Empties(p)
  BY <1>2, <1>6, EmptySeq DEF Empties
<1>. QED BY <1>3, <1>4, <1>5, <1>6 DEF Apart

LEMMA QInvInit == Init => QInv
<1>. SUFFICES ASSUME Init PROVE QInv
  OBVIOUS
<1>1. \A p \in Pods : ch[p] = <<>> /\ parked[p] = <<>> /\ job[p] = None
  BY DEF Init, ImgInit
<1>2. Len(<<>>) <= QueueCap
  BY EmptySeq, CapAssumption
<1>. QED BY <1>1, <1>2, InitTypes DEF QInv, Ordered

LEMMA OrderedStep ==
    ASSUME QInv, [Next]_vars
    PROVE  Ordered'
<1>1. ASSUME NEW q \in Pods
      PROVE  /\ parked'[q] # <<>> => Len(ch'[q]) = QueueCap
             /\ Len(ch'[q]) <= QueueCap
             /\ pc'[q] = "idle" => job'[q] = None
  <2>1. CASE Untouched(q)
    BY <2>1 DEF Untouched, QInv, Ordered
  <2>2. CASE Apart(q)
    BY <2>2, ApartOrdered
  <2>. QED BY <2>1, <2>2, StepApart DEF QInv
<1>. QED BY <1>1 DEF Ordered

\* Pod p's part of a step is a step of its waiting line, or none.
LEMMA ApartServes ==
    ASSUME QInv, NEW p \in Pods, Apart(p)
    PROVE  LET old == ch[p] \o parked[p]
               new == ch'[p] \o parked'[p]
           IN  \/ /\ pod[p] = "new" /\ pod'[p] = "up"
                  /\ new = old /\ job'[p] = job[p]
               \/ /\ Lives(p)
                  /\ \/ new = old /\ job'[p] \in {job[p], None}
                     \/ \E id \in Ids : new = Append(old, id) /\ job'[p] = job[p]
                     \/ /\ job[p] = None /\ old # <<>>
                        /\ job'[p] = Head(old) /\ new = Tail(old)
               \/ /\ pod[p] = "up" /\ pod'[p] = "dead"
                  /\ new = <<>> /\ job'[p] = None
<1>1. /\ ch[p] \in Seq(Ids) /\ parked[p] \in Seq(Ids)
      /\ parked[p] # <<>> => Len(ch[p]) = QueueCap
      /\ pc[p] = "idle" => job[p] = None
      /\ Len(ch[p]) <= QueueCap
  BY DEF QInv, TypeOK, ImgTypeOK, Ordered
<1>3. ASSUME NEW id \in Ids, Joins(p, id)
      PROVE  ch'[p] \o parked'[p] = Append(ch[p] \o parked[p], id)
  <2>1. CASE Len(ch[p]) < QueueCap
    <3>1. parked[p] = <<>> /\ ~(Len(ch[p]) >= QueueCap)
      BY <1>1, <2>1, LenProperties, CapAssumption
    <3>2. Append(ch[p], id) \in Seq(Ids)
      BY <1>1, AppendProperties
    <3>. QED BY <1>1, <1>3, <3>1, <3>2, ConcatEmptySeq DEF Joins
  <2>2. CASE ~(Len(ch[p]) < QueueCap)
    BY <1>1, <1>3, <2>2, JoinsTheEnd DEF Joins
  <2>. QED BY <2>1, <2>2
<1>4. ASSUME Takes(p)
      PROVE  /\ job[p] = None
             /\ ch[p] \o parked[p] # <<>>
             /\ job'[p] = Head(ch[p] \o parked[p])
             /\ ch'[p] \o parked'[p] = Tail(ch[p] \o parked[p])
  <2>1. /\ ch[p] \o parked[p] # <<>>
        /\ Head(ch[p] \o parked[p]) = Head(ch[p])
        /\ Tail(ch[p]) \o parked[p] = Tail(ch[p] \o parked[p])
        /\ parked[p] # <<>> =>
              Append(Tail(ch[p]), Head(parked[p])) \o Tail(parked[p])
              = Tail(ch[p] \o parked[p])
    BY <1>1, <1>4, ServesTheFirst DEF Takes
  <2>. QED BY <1>1, <1>4, <2>1 DEF Takes
<1>5. <<>> \o <<>> = <<>>
  BY ConcatEmptySeq, EmptySeq
<1> DEFINE old == ch[p] \o parked[p]
           new == ch'[p] \o parked'[p]
<1>6. CASE Begins(p)
  BY <1>6 DEF Begins
<1>7. CASE Stays(p) \/ Frees(p)
  <2>1. Lives(p) /\ new = old /\ job'[p] \in {job[p], None}
    BY <1>7 DEF Stays, Frees
  <2>. QED BY <2>1
<1>8. ASSUME NEW id \in Ids, Joins(p, id)
      PROVE  Lives(p) /\ new = Append(old, id) /\ job'[p] = job[p]
  BY <1>3, <1>8 DEF Joins
<1>9. CASE Takes(p)
  <2>1. Lives(p)
    BY <1>9 DEF Takes
  <2>. QED BY <1>4, <1>9, <2>1
<1>10. CASE Empties(p)
  BY <1>5, <1>10 DEF Empties
<1>. QED BY <1>6, <1>7, <1>8, <1>9, <1>10 DEF Apart

-----------------------------------------------------------------------------
(* The refinement                                                          *)

\* Types and order are kept together with the rest of Pipeline's invariant.
LEMMA SpecQInv == Spec => []QInv
<1>1. QInv /\ [Next]_vars /\ IInv' => Ordered'
  BY OrderedStep
<1>2. IInv => TypeOK
  BY DEF IInv
<1>3. QInv <=> TypeOK /\ Ordered
  BY DEF QInv
<1>. QED BY <1>1, <1>2, <1>3, QInvInit, SpecIInv, PTL DEF Spec

LEMMA InitLine == Init => Line!Init
<1>. SUFFICES ASSUME Init PROVE Line!Init
  OBVIOUS
<1>1. <<>> \o <<>> = <<>>
  BY ConcatEmptySeq, EmptySeq
<1>. QED BY <1>1 DEF Init, ImgInit, Line!Init

LEMMA StepLine == QInv /\ QInv' /\ [Next]_vars => [Line!Next]_(Line!vars)
<1>. SUFFICES ASSUME QInv, QInv', [Next]_vars PROVE [Line!Next]_(Line!vars)
  OBVIOUS
<1> DEFINE old == [p \in Pods |-> ch[p] \o parked[p]]
           new == [p \in Pods |-> ch'[p] \o parked'[p]]
<1>0. /\ pod \in [Pods -> {"new", "up", "dead"}]
      /\ pod' \in [Pods -> {"new", "up", "dead"}]
  BY DEF QInv, TypeOK, ImgTypeOK
<1>1. /\ job \in [Pods -> Ids \cup {None}] /\ job' \in [Pods -> Ids \cup {None}]
  BY DEF QInv, TypeOK, ImgTypeOK
<1>2. CASE \A q \in Pods : Untouched(q)
  <2>1. old = new
    BY <1>2 DEF Untouched
  <2>2. job' = job /\ pod' = pod
    BY <1>0, <1>1, <1>2 DEF Untouched
  <2>. QED BY <2>1, <2>2 DEF Line!vars
<1>3. ASSUME NEW p \in Pods, Apart(p), \A q \in Pods \ {p} : Untouched(q)
      PROVE  [Line!Next]_(Line!vars)
  <2>1. \A x : new[p] = x => new = [old EXCEPT ![p] = x]
    BY <1>3 DEF Untouched
  <2>2. /\ job' = [job EXCEPT ![p] = job'[p]]
        /\ pod' = [pod EXCEPT ![p] = pod'[p]]
    BY <1>0, <1>1, <1>3 DEF Untouched
  <2>3. old[p] = ch[p] \o parked[p] /\ new[p] = ch'[p] \o parked'[p]
    OBVIOUS
  <2>4. \/ /\ pod[p] = "new" /\ pod'[p] = "up"
           /\ new[p] = old[p] /\ job'[p] = job[p]
        \/ /\ Lives(p)
           /\ \/ new[p] = old[p] /\ job'[p] \in {job[p], None}
              \/ \E id \in Ids : new[p] = Append(old[p], id) /\ job'[p] = job[p]
              \/ /\ job[p] = None /\ old[p] # <<>>
                 /\ job'[p] = Head(old[p]) /\ new[p] = Tail(old[p])
        \/ /\ pod[p] = "up" /\ pod'[p] = "dead"
           /\ new[p] = <<>> /\ job'[p] = None
    BY <1>3, <2>3, ApartServes
  <2>5. old' = new
    OBVIOUS
  <2> HIDE DEF old, new
  <2>6. CASE Lives(p) /\ new[p] = old[p] /\ job'[p] \in {job[p], None}
    <3>0. pod' = pod
      BY <1>0, <2>2, <2>6 DEF Lives
    <3>1. new = old /\ pod' = pod
      BY <2>1, <2>6, <3>0 DEF old
    <3>2. job' = job \/ (job[p] # None /\ job' = [job EXCEPT ![p] = None])
      BY <1>1, <2>2, <2>6
    <3>. QED BY <2>5, <2>6, <3>1, <3>2
             DEF old, Lives, Line!Release, Line!Next, Line!vars
  <2>7. ASSUME NEW id \in Ids, Lives(p),
               new[p] = Append(old[p], id), job'[p] = job[p]
        PROVE  Line!Join(p, id)
    <3>1. job' = job /\ pod' = pod
      BY <1>0, <1>1, <2>2, <2>7 DEF Lives
    <3>. QED BY <2>1, <2>5, <2>7, <3>1 DEF old, Lives, Line!Join
  <2>8. CASE /\ Lives(p) /\ job[p] = None /\ old[p] # <<>>
             /\ job'[p] = Head(old[p]) /\ new[p] = Tail(old[p])
    <3>1. pod' = pod
      BY <1>0, <2>2, <2>8 DEF Lives
    <3>2. Line!Serve(p)
      BY <2>1, <2>2, <2>5, <2>8, <3>1 DEF old, Lives, Line!Serve
    <3>. QED BY <3>2 DEF Line!Next
  <2>9. CASE /\ pod[p] = "up" /\ pod'[p] = "dead"
             /\ new[p] = <<>> /\ job'[p] = None
    <3>1. Line!Die(p)
      BY <2>1, <2>2, <2>5, <2>9 DEF old, Line!Die
    <3>. QED BY <3>1 DEF Line!Next
  <2>10. CASE /\ pod[p] = "new" /\ pod'[p] = "up"
              /\ new[p] = old[p] /\ job'[p] = job[p]
    <3>1. new = old /\ job' = job
      BY <1>1, <2>1, <2>2, <2>10 DEF old
    <3>2. Line!Begin(p)
      BY <2>2, <2>5, <2>10, <3>1 DEF old, Line!Begin
    <3>. QED BY <3>2 DEF Line!Next
  <2>. QED BY <2>4, <2>6, <2>7, <2>8, <2>9, <2>10 DEF Line!Next
<1>. QED BY <1>2, <1>3, StepApart DEF QInv

\* The worker takes the ids in the order in which the webhook was called for
\* them, each once, wherever the channel ends and the blocked calls begin, and
\* no id leaves its line otherwise while the process lives.
THEOREM KeepsQueueHolds == Spec => KeepsQueue
<1>. QED BY SpecQInv, InitLine, StepLine, PTL DEF Spec, KeepsQueue, Line!Spec
-----------------------------------------------------------------------------
(* Accepted work                                                           *)

LEMMA InAppend ==
    ASSUME NEW s \in Seq(Ids), NEW id \in Ids
    PROVE  In(Append(s, id)) = In(s) \cup {id}
<1>1. /\ Len(s) \in Nat /\ Len(Append(s, id)) = Len(s) + 1
      /\ \A i \in 1..Len(s) : Append(s, id)[i] = s[i]
      /\ Append(s, id)[Len(s) + 1] = id
  BY AppendProperties, LenProperties
<1>2. 1..(Len(s) + 1) = 1..Len(s) \cup {Len(s) + 1}
  BY <1>1
<1>. QED BY <1>1, <1>2 DEF In

LEMMA InHeadTail ==
    ASSUME NEW s \in Seq(Ids), s # <<>>
    PROVE  In(s) = {Head(s)} \cup In(Tail(s))
<1>1. /\ Len(s) \in Nat \ {0} /\ Len(Tail(s)) = Len(s) - 1 /\ Head(s) = s[1]
      /\ \A i \in 1..Len(Tail(s)) : Tail(s)[i] = s[i + 1]
  BY HeadTailProperties, EmptySeq
<1>2. ASSUME NEW x \in In(s) PROVE x \in {Head(s)} \cup In(Tail(s))
  <2>1. PICK i \in 1..Len(s) : x = s[i]
    BY DEF In
  <2>2. CASE i = 1
    BY <1>1, <2>1, <2>2
  <2>3. CASE i # 1
    <3>1. i - 1 \in 1..Len(Tail(s)) /\ Tail(s)[i - 1] = s[(i - 1) + 1]
      BY <1>1, <2>1, <2>3
    <3>2. (i - 1) + 1 = i
      BY <1>1, <2>1
    <3>. QED BY <2>1, <3>1, <3>2 DEF In
  <2>. QED BY <2>2, <2>3
<1>3. ASSUME NEW x \in {Head(s)} \cup In(Tail(s)) PROVE x \in In(s)
  <2>1. CASE x = Head(s)
    BY <1>1, <2>1 DEF In
  <2>2. CASE x \in In(Tail(s))
    <3>1. PICK i \in 1..Len(Tail(s)) : x = Tail(s)[i]
      BY <2>2 DEF In
    <3>2. i + 1 \in 1..Len(s) /\ x = s[i + 1]
      BY <1>1, <3>1
    <3>. QED BY <3>2 DEF In
  <2>. QED BY <2>1, <2>2
<1>. QED BY <1>2, <1>3

\* Pod p is up and will still write the status of the image id.
Carries(p, id) ==
    /\ pod[p] = "up"
    /\ \/ id \in In(ch[p])
       \/ job[p] = id /\ pc[p] \notin {"idle", "ready", "error", "posted"}

\* InHand is too weak to be inductive: a worker that is about to notify has
\* the id in its hands and will do nothing more for its row.
Kept == \A id \in accepted :
            image[id] = None \/ Settled(id) \/ \E p \in Pods : Carries(p, id)

\* What makes a 202 a promise: no statement fails and no process dies.
Durable == {"db", "crash"} \cap Env = {}

\* What is in the channel stays there until the worker takes it.
LEMMA ChannelCarries ==
    ASSUME TypeOK, Durable, [Next]_vars, NEW p \in Pods, pod[p] = "up",
           NEW id \in In(ch[p])
    PROVE  Carries(p, id)'
<1>1. /\ ch \in [Pods -> Seq(Ids)] /\ parked \in [Pods -> Seq(Ids)]
      /\ pc \in [Pods -> PCs] /\ job \in [Pods -> Ids \cup {None}]
      /\ pod \in [Pods -> {"new", "up", "dead"}]
  BY DEF TypeOK, ImgTypeOK
<1>2. pod'[p] = "up"
  BY <1>1 DEF Durable, Next, Api, Img, RefuseCall, Push, Rest, vars, imgVars,
       StartPod,
       KillPod, Process, LoseEvent, Work, Receive, Start, Fetch, PutPreview,
       GetFileName, CopyObject, RemoveObject, Finish, Fail, PostNotify,
       Answered, queueVars
<1>3. CASE ch'[p] = ch[p]
  BY <1>2, <1>3 DEF Carries
<1>4. ASSUME NEW i \in Ids, Process(p, i) PROVE Carries(p, id)'
  <2>1. ch'[p] \in {ch[p], Append(ch[p], i)}
    BY <1>1, <1>4 DEF Process
  <2>2. id \in In(ch'[p])
    BY <1>1, <2>1, InAppend
  <2>. QED BY <1>2, <2>2 DEF Carries
<1>5. ASSUME Receive(p) PROVE Carries(p, id)'
  <2>1. /\ ch[p] # <<>> /\ pc'[p] = "start" /\ job'[p] = Head(ch[p])
        /\ Tail(ch[p]) \in Seq(Ids)
        /\ parked[p] # <<>> => Head(parked[p]) \in Ids
    BY <1>1, <1>5, ChannelTypes DEF Receive
  <2>2. id \in {Head(ch[p])} \cup In(Tail(ch[p]))
    BY <1>1, <2>1, InHeadTail
  <2>3. CASE id = Head(ch[p])
    BY <1>2, <2>1, <2>3 DEF Carries
  <2>4. CASE id \in In(Tail(ch[p]))
    <3>1. \/ ch'[p] = Tail(ch[p])
          \/ parked[p] # <<>> /\ ch'[p] = Append(Tail(ch[p]), Head(parked[p]))
      BY <1>1, <1>5 DEF Receive
    <3>2. id \in In(ch'[p])
      BY <2>1, <2>4, <3>1, InAppend
    <3>. QED BY <1>2, <3>2 DEF Carries
  <2>. QED BY <2>2, <2>3, <2>4
<1>6. \/ ch'[p] = ch[p]
      \/ Receive(p)
      \/ \E i \in Ids : Process(p, i)
  <2>1. ASSUME NEW q \in Pods, Work(q), ~Receive(q) PROVE UNCHANGED ch
    BY <2>1 DEF Work, Start, Fetch, PutPreview, GetFileName, CopyObject,
         RemoveObject, Finish, Fail, PostNotify, Answered, queueVars
  <2>2. \/ UNCHANGED ch
        \/ \E q \in Pods : Receive(q) \/ \E i \in Ids : Process(q, i)
    BY <2>1 DEF Durable, Next, Api, Img, RefuseCall, Push, Rest, vars, imgVars,
         StartPod,
         KillPod, LoseEvent
  <2>3. ASSUME NEW q \in Pods \ {p}, Receive(q) \/ \E i \in Ids : Process(q, i)
        PROVE  ch'[p] = ch[p]
    BY <1>1, <2>3 DEF Receive, Process
  <2>. QED BY <2>2, <2>3
<1>. QED BY <1>3, <1>4, <1>5, <1>6

\* What a worker has in its hands stays there until its row is settled.
LEMMA WorkerCarries ==
    ASSUME KInv, Durable, [Next]_vars, NEW p \in Pods, pod[p] = "up",
           pc[p] \notin {"idle", "ready", "error", "posted"},
           NEW id, job[p] = id, image[id] # None, RowStays(id), ~Settled(id)
    PROVE  Carries(p, id)'
<1>1. /\ TypeOK /\ Busy /\ image \in Rows /\ {"db", "crash"} \cap Env = {}
      /\ pc \in [Pods -> PCs] /\ job \in [Pods -> Ids \cup {None}]
      /\ pod \in [Pods -> {"new", "up", "dead"}]
      /\ src \in [Pods -> Upload \cup {None}]
  BY KInvFacts DEF TypeOK, ImgTypeOK, StoresTypeOK, Rows, Durable
<1>2. pod'[p] = "up"
  BY <1>1 DEF Next, Api, Img, RefuseCall, Push, Rest, vars, imgVars, StartPod,
       KillPod, Process, LoseEvent, Work, Receive, Start, Fetch, PutPreview,
       GetFileName, CopyObject, RemoveObject, Finish, Fail, PostNotify,
       Answered, queueVars
<1>3. job[p] \in Ids
  BY <1>1 DEF Busy
<1>4. CASE Work(p)
  <2>1. ~Finish(p)
    <3>1. ASSUME Finish(p) PROVE image'[job[p]].status = "ready"
      <4>1. UpdateSizes(job[p], src[p])
        BY <1>1, <3>1 DEF Finish
      <4>. QED BY <1>1, <1>3, <4>1, UpdateSizesChanges
    <3>. QED BY <3>1 DEF RowStays, Settled
  <2>2. ~Fail(p)
    <3>1. ASSUME Fail(p) PROVE image'[job[p]].status = "error"
      <4>1. SetStatus(job[p], "error") /\ "error" \in Statuses
        BY <1>1, <3>1 DEF Fail, Statuses
      <4>. QED BY <1>1, <1>3, <4>1, SetStatusChanges
    <3>. QED BY <3>1 DEF RowStays, Settled
  <2>3. ~Receive(p) /\ ~Answered(p) /\ \A s \in {"ready", "error"} : ~PostNotify(p, s)
    BY DEF Receive, Answered, PostNotify, At
  <2>4. CASE \E b \in Buckets : PutPreview(p, b)
    <3>1. job'[p] = job[p] /\ pc'[p] \in {"medium", "small", "name", "fail"}
      BY <1>1, <2>4 DEF PutPreview, Goto, Abandon, After, Buckets
    <3>. QED BY <1>2, <3>1 DEF Carries
  <2>5. CASE \/ Start(p) \/ Fetch(p) \/ GetFileName(p) \/ CopyObject(p)
             \/ RemoveObject(p)
    <3>1. /\ job'[p] = job[p]
          /\ pc'[p] \in {"fetch", "large", "copy", "remove", "finish", "fail"}
      BY <1>1, <2>5 DEF Start, Fetch, GetFileName, CopyObject, RemoveObject,
           Goto, Abandon
    <3>. QED BY <1>2, <3>1 DEF Carries
  <2>. QED BY <1>4, <2>1, <2>2, <2>3, <2>4, <2>5 DEF Work
<1>5. CASE ~Work(p)
  <2>1. UNCHANGED <<pc[p], job[p]>>
    BY <1>1, <1>5, WorkerForms DEF workVars
  <2>. QED BY <1>2, <2>1 DEF Carries
<1>. QED BY <1>4, <1>5

\* An id is answered 202 when it is put into the channel.
LEMMA AcceptedCarries ==
    ASSUME TypeOK, [Next]_vars, NEW id \in accepted', id \notin accepted
    PROVE  \E p \in Pods : Carries(p, id)'
<1>1. /\ ch \in [Pods -> Seq(Ids)] /\ parked \in [Pods -> Seq(Ids)]
  BY DEF TypeOK, ImgTypeOK
<1>2. \E p \in Pods : Receive(p) \/ \E i \in Ids : Process(p, i)
  BY DEF Next, Api, Img, RefuseCall, Push, Rest, vars, imgVars, StartPod,
       KillPod,
       LoseEvent, Work, Start, Fetch, PutPreview, GetFileName, CopyObject,
       RemoveObject, Finish, Fail, PostNotify, Answered, queueVars
<1>3. ASSUME NEW p \in Pods, NEW i \in Ids, Process(p, i)
      PROVE  Carries(p, id)'
  <2>1. i = id /\ ch'[p] = Append(ch[p], id) /\ pod'[p] = "up"
    BY <1>1, <1>3 DEF Process
  <2>. QED BY <1>1, <2>1, InAppend DEF Carries
<1>4. ASSUME NEW p \in Pods, Receive(p) PROVE Carries(p, id)'
  <2>1. /\ parked[p] # <<>> /\ id = Head(parked[p])
        /\ ch'[p] = Append(Tail(ch[p]), id) /\ ch[p] # <<>>
        /\ pod'[p] = "up"
    BY <1>1, <1>4 DEF Receive, At
  <2>2. Tail(ch[p]) \in Seq(Ids) /\ id \in Ids
    BY <1>1, <2>1, ChannelTypes
  <2>. QED BY <2>1, <2>2, InAppend DEF Carries
<1>. QED BY <1>2, <1>3, <1>4

LEMMA StepKept ==
    ASSUME KInv, Durable, Kept, [Next]_vars
    PROVE  Kept'
<1>1. /\ TypeOK /\ Busy /\ accepted \subseteq Known /\ accepted \subseteq Ids
      /\ pc \in [Pods -> PCs] /\ job \in [Pods -> Ids \cup {None}]
  BY KInvFacts DEF KInv, WorkIsKnown, TypeOK, ImgTypeOK
<1> SUFFICES ASSUME NEW id \in accepted', image'[id] # None, ~Settled(id)'
             PROVE  \E p \in Pods : Carries(p, id)'
  BY DEF Kept
<1>2. CASE id \notin accepted
  BY <1>1, <1>2, AcceptedCarries
<1>3. CASE id \in accepted /\ RowStays(id)
  <2>1. image[id] # None /\ ~Settled(id)
    BY <1>3 DEF RowStays, Settled
  <2>2. PICK p \in Pods : Carries(p, id)
    BY <1>3, <2>1 DEF Kept
  <2>3. CASE id \in In(ch[p])
    BY <1>1, <2>2, <2>3, ChannelCarries DEF Carries
  <2>4. CASE job[p] = id /\ pc[p] \notin {"idle", "ready", "error", "posted"}
    BY <1>3, <2>1, <2>2, <2>4, WorkerCarries DEF Carries
  <2>. QED BY <2>2, <2>3, <2>4 DEF Carries
<1>4. CASE id \in accepted /\ RowMoves(id)
  <2>1. PICK p \in Pods, s \in Statuses, z \in Upload \cup {None} :
           job[p] = id /\ Writes(p, s, z) /\ image'[id].status = s
    BY <1>4 DEF RowMoves
  <2>2. Start(p)
    BY <2>1 DEF Writes, Settled
  <2>3. pod'[p] = "up" /\ pc'[p] = "fetch" /\ job'[p] = id
    BY <1>1, <2>1, <2>2 DEF Start, At, Goto, queueVars
  <2>. QED BY <2>3 DEF Carries
<1>5. CASE id \in accepted /\ RowComes(id)
  BY <1>1, <1>5 DEF RowComes, Known
<1>6. id \in accepted => RowStays(id) \/ RowMoves(id) \/ RowComes(id)
  BY <1>1, RowForms DEF RowStays
<1>. QED BY <1>2, <1>3, <1>4, <1>5, <1>6

\* An id that was answered 202 stays with a live pod until its image is ready
\* or in error, through full channels, lost notifications, failures of MinIO
\* and several pods at work, as long as no statement fails and no process dies.
THEOREM NoAcceptedWorkLostHolds ==
    ASSUME Durable
    PROVE  Spec => []NoAcceptedWorkLost
<1>1. Init => Kept
  BY DEF Init, ImgInit, Kept
<1>2. KInv /\ Kept /\ [Next]_vars => Kept'
  BY StepKept
<1>3. Kept => NoAcceptedWorkLost
  BY DEF Kept, Carries, NoAcceptedWorkLost, InHand
<1>. QED BY <1>1, <1>2, <1>3, SpecKInv, PTL DEF Spec
=============================================================================
