-------------------------- MODULE UserServerProofs --------------------------
(***************************************************************************)
(* Theorems about UserServer for any number of requests, users and         *)
(* profiles, with statements failing or not.                               *)
(*                                                                         *)
(* Behind routes, tokens and metrics the server is the UserApi, whose      *)
(* theorems hold of it.  The metrics rest on one invariant: a sample       *)
(* counts the requests whose middleware is past it (Past), and what is     *)
(* left of a request's increments is the end of all of them (Suffix).  A   *)
(* scrape is bounded by it since samples only ever count more (Grows).     *)
(***************************************************************************)
EXTENDS UserServer, UserApiProofs, FiniteSetTheorems, SequenceTheorems

-----------------------------------------------------------------------------
(* The API behind the middleware                                           *)

LEMMA ServesStep == ServerNext => [Next]_vars
BY DEF ServerNext, Serve, Reject, Measure, Next, BeginScrape, ReadSample, EndScrape

\* Nothing the routes, the token check or the metrics do is seen by the
\* tables: whatever is served is served as UserApi says.
THEOREM ServesUserApi == ServerSpec => Spec
<1>1. ServerInit => Init
  BY DEF ServerInit
<1>2. [ServerNext]_serverVars => [Next]_vars
  BY ServesStep DEF serverVars
<1>. QED BY <1>1, <1>2, PTL DEF ServerSpec, Spec

-----------------------------------------------------------------------------
(* The increments of one answer                                            *)

Labels == [entity : Entities, operation : Operations]

Total(l, c) == <<"app_request_total", l.entity, l.operation, c>>

\* What Updates is, increment by increment.
LEMMA UpdatesAre ==
    ASSUME NEW l, NEW status, l.entity \in Entities, l.operation \in Operations,
           status \in 200..599
    PROVE  LET e == l.entity
               o == l.operation
               u == Updates(l, status) IN
           /\ u \in Seq(Sample) /\ Len(u) \in 3..4
           /\ u[1] = <<"app_request_total", e, o, status \div 100>>
           /\ u[2] = <<"app_request_duration_seconds", e, o>>
           /\ u[3] = <<"app_request_duration_summary_seconds", e, o>>
           /\ Len(u) = 4 <=> status >= 400
           /\ status \in 400..499 => u[4] = <<"app_client_errors_total", e, o>>
           /\ status >= 500 => u[4] = <<"app_server_errors_total", e, o>>
<1> DEFINE e == l.entity
           o == l.operation
<1> DEFINE first == << <<"app_request_total", e, o, status \div 100>>,
                       <<"app_request_duration_seconds", e, o>>,
                       <<"app_request_duration_summary_seconds", e, o>> >>
           client == <<"app_client_errors_total", e, o>>
           server == <<"app_server_errors_total", e, o>>
<1>1. status \div 100 \in 2..5
  OBVIOUS
<1>2. first \in Seq(Sample) /\ Len(first) = 3
  BY <1>1 DEF Sample
<1>3. <<client>> \in Seq(Sample) /\ <<server>> \in Seq(Sample)
      /\ << >> \in Seq(Sample)
  BY DEF Sample
<1>4. Updates(l, status) =
        first \o (IF status \in 400..499 THEN <<client>>
                  ELSE IF status >= 500 THEN <<server>> ELSE << >>)
  BY DEF Updates, UpdatesWith, Recorded, Family
<1> DEFINE last == IF status \in 400..499 THEN <<client>>
                   ELSE IF status >= 500 THEN <<server>> ELSE << >>
<1>5. /\ last \in Seq(Sample) /\ Len(last) \in 0..1
      /\ Len(last) = 1 <=> status >= 400
      /\ status \in 400..499 => last[1] = client
      /\ status >= 500 => last[1] = server
  BY <1>3
<1>6. /\ first[1] = <<"app_request_total", e, o, status \div 100>>
      /\ first[2] = <<"app_request_duration_seconds", e, o>>
      /\ first[3] = <<"app_request_duration_summary_seconds", e, o>>
  OBVIOUS
<1>7. Updates(l, status) = first \o last
  BY <1>4
<1> HIDE DEF first, last, client, server
<1>8. /\ first \o last \in Seq(Sample)
      /\ Len(first \o last) = 3 + Len(last)
      /\ \A i \in 1..3 : (first \o last)[i] = first[i]
      /\ Len(last) = 1 => (first \o last)[4] = last[1]
  <2>1. /\ first \o last \in Seq(Sample)
        /\ Len(first \o last) = Len(first) + Len(last)
        /\ \A i \in 1..(Len(first) + Len(last)) : (first \o last)[i] =
              IF i <= Len(first) THEN first[i] ELSE last[i - Len(first)]
    BY <1>2, <1>5, ConcatProperties
  <2>. QED BY <1>2, <1>5, <2>1
<1>. QED BY <1>5, <1>6, <1>7, <1>8 DEF client, server

-----------------------------------------------------------------------------
(* What the middleware has of a request                                    *)

\* The increments made: all but those left.
Past(m) == Len(Updates(m, m.status)) - Len(m.left)

\* What is left is the end of all the increments.
Suffix(m) ==
    /\ Past(m) \in 0..4
    /\ \A i \in 1..Len(m.left) : m.left[i] = Updates(m, m.status)[Past(m) + i]

\* Sample f is among the increments made.
Made(m, f) == \E i \in 1..Past(m) : Updates(m, m.status)[i] = f

\* The requests that sample f has counted.
Counted(f) == {h \in Requests : meter[h] # None /\ Made(meter[h], f)}

Metering ==
    /\ meter \in [Requests -> Meters \cup {None}]
    /\ \A h \in Requests : meter[h] # None => Suffix(meter[h])

Counting ==
    /\ IsABag(samples) /\ BagToSet(samples) \subseteq Sample
    /\ \A f \in Sample : Value(f) = Cardinality(Counted(f))

\* What the increments of a request are.
Shaped(u, m) ==
    /\ u \in Seq(Sample) /\ Len(u) \in 3..4
    /\ u[1] = <<"app_request_total", m.entity, m.operation, m.status \div 100>>
    /\ u[2] = <<"app_request_duration_seconds", m.entity, m.operation>>
    /\ u[3] = <<"app_request_duration_summary_seconds", m.entity, m.operation>>
    /\ Len(u) = 4 <=> m.status >= 400
    /\ m.status \in 400..499 =>
         u[4] = <<"app_client_errors_total", m.entity, m.operation>>
    /\ m.status >= 500 =>
         u[4] = <<"app_server_errors_total", m.entity, m.operation>>

LEMMA UpdatesOf ==
    ASSUME NEW m \in Meters
    PROVE  LET u == Updates(m, m.status) IN
           /\ Shaped(u, m)
           /\ \A i, j \in 1..Len(u) : u[i] = u[j] => i = j
<1> DEFINE u == Updates(m, m.status)
<1>1. m.entity \in Entities /\ m.operation \in Operations /\ m.status \in 200..599
  BY DEF Meters
<1>2. Shaped(u, m)
  BY <1>1, UpdatesAre DEF Shaped
<1> HIDE DEF u
<1>3. /\ u[1][1] = "app_request_total" /\ u[2][1] = "app_request_duration_seconds"
      /\ u[3][1] = "app_request_duration_summary_seconds"
      /\ m.status \in 400..499 => u[4][1] = "app_client_errors_total"
      /\ m.status >= 500 => u[4][1] = "app_server_errors_total"
  BY <1>2 DEF Shaped
<1>4. Len(u) = 4 => u[4][1] \in {"app_client_errors_total", "app_server_errors_total"}
  <2>1. Len(u) = 4 => m.status \in 400..499 \/ m.status >= 500
    <3>1. Len(u) = 4 => m.status >= 400
      BY <1>2 DEF Shaped
    <3>2. m.status \in Int
      BY <1>1
    <3>. QED BY <3>1, <3>2
  <2>. QED BY <1>3, <2>1
<1>5. ASSUME NEW i \in 1..Len(u), NEW j \in 1..Len(u), u[i] = u[j]
      PROVE  i = j
  <2>1. u[i][1] = u[j][1]
    BY <1>5
  <2>2. Len(u) = 3 \/ Len(u) = 4
    BY <1>2 DEF Shaped
  <2>3. CASE Len(u) = 3
    <3>1. i \in {1, 2, 3} /\ j \in {1, 2, 3}
      BY <1>5, <2>3
    <3>. QED BY <1>3, <2>1, <3>1
  <2>4. CASE Len(u) = 4
    <3>1. i \in {1, 2, 3, 4} /\ j \in {1, 2, 3, 4}
      BY <1>5, <2>4
    <3>. QED BY <1>3, <1>4, <2>1, <2>4, <3>1
  <2>. QED BY <2>2, <2>3, <2>4
<1>. QED BY <1>2, <1>5 DEF u

\* An increment that is left is not among those made.
LEMMA HeadIsNew ==
    ASSUME NEW m \in Meters, Suffix(m), m.left # << >>
    PROVE  LET u == Updates(m, m.status) IN
           /\ Past(m) + 1 \in 1..Len(u)
           /\ Head(m.left) = u[Past(m) + 1]
           /\ Head(m.left) \in Sample
           /\ \A i \in 1..Past(m) : u[i] # Head(m.left)
           /\ LET n == [m EXCEPT !.left = Tail(@)] IN
              /\ n \in Meters /\ Suffix(n)
              /\ n.entity = m.entity /\ n.operation = m.operation
              /\ n.status = m.status /\ Past(n) = Past(m) + 1
              /\ Updates(n, n.status) = u
<1> DEFINE u == Updates(m, m.status)
           n == [m EXCEPT !.left = Tail(m.left)]
           left == m.left
<1>1. /\ m.left \in Seq(Sample) /\ left = m.left
  BY DEF Meters
<1>2. /\ u \in Seq(Sample) /\ Len(u) \in 3..4
      /\ \A i, j \in 1..Len(u) : u[i] = u[j] => i = j
  BY UpdatesOf DEF Shaped
<1>3. /\ Head(left) = left[1] /\ Head(left) \in Sample /\ Tail(left) \in Seq(Sample)
      /\ Len(left) \in Nat \ {0} /\ Len(Tail(left)) = Len(left) - 1
      /\ \A i \in 1..Len(Tail(left)) : Tail(left)[i] = left[i + 1]
  BY <1>1, HeadTailProperties
<1>4. /\ n \in Meters /\ n.left = Tail(left)
      /\ n.entity = m.entity /\ n.operation = m.operation /\ n.status = m.status
  BY <1>3 DEF Meters
<1>5. Updates(n, n.status) = u
  BY <1>4 DEF Updates, UpdatesWith, Family
<1>6. /\ Past(m) = Len(u) - Len(left) /\ Past(m) \in 0..4
      /\ \A i \in 1..Len(left) : left[i] = u[Past(m) + i]
  BY DEF Suffix, Past
<1> HIDE DEF u, left, n
<1>7. Past(n) = Past(m) + 1
  <2>1. Past(n) = Len(u) - Len(Tail(left))
    BY <1>4, <1>5 DEF Past
  <2>2. Len(u) \in Nat /\ Len(left) \in Nat
    BY <1>2, <1>3
  <2>. QED BY <1>3, <1>6, <2>1, <2>2
<1>8. /\ Past(m) + 1 \in 1..Len(u) /\ Head(left) = u[Past(m) + 1]
  BY <1>2, <1>3, <1>6
<1>9. \A i \in 1..Past(m) : u[i] # Head(left)
  BY <1>2, <1>6, <1>8
<1>10. Suffix(n)
  <2>1. Past(n) \in 0..4
    <3>1. Past(m) + 1 <= Len(u) /\ Len(u) <= 4
      BY <1>2, <1>8
    <3>. QED BY <1>2, <1>6, <1>7, <3>1
  <2>2. ASSUME NEW i \in 1..Len(n.left)
        PROVE  n.left[i] = u[Past(n) + i]
    <3>1. /\ n.left[i] = left[i + 1] /\ i + 1 \in 1..Len(left)
      BY <1>3, <1>4
    <3>2. left[i + 1] = u[Past(m) + (i + 1)] /\ Past(m) + (i + 1) = Past(n) + i
      BY <1>6, <1>7, <3>1
    <3>. QED BY <3>1, <3>2
  <2>. QED BY <1>5, <2>1, <2>2 DEF Suffix
<1>. QED BY <1>3, <1>4, <1>5, <1>7, <1>8, <1>9, <1>10 DEF u, left, n
-----------------------------------------------------------------------------
(* The steps                                                               *)

\* What has been read of a sample counts at least those of its requests that
\* were over when the scrape began, and at most those it counts by now.
Scraping ==
    scrape # None =>
        /\ scrape \in Scrapes
        /\ scrape.over \subseteq Over
        /\ \A f \in Watched : scrape.read[f] # None =>
              /\ Cardinality(Counted(f) \cap scrape.over) <= scrape.read[f]
              /\ scrape.read[f] <= Cardinality(Counted(f))

ServerInv == IInv /\ Metering /\ Counting /\ Scraping

\* Of a step: what is over stays as it is, and no sample forgets a request.
Grows ==
    /\ \A h \in Over : meter'[h] = meter[h]
    /\ \A f \in Sample : Counted(f) \subseteq Counted(f)'

\* A request is answered, with all its increments to come.
Starts(h) ==
    /\ meter[h] = None
    /\ \E m \in Meters : /\ m.left = Updates(m, m.status)
                         /\ meter' = [meter EXCEPT ![h] = m]
    /\ UNCHANGED samples

LEMMA MeterStarts ==
    ASSUME NEW h \in Requests, NEW l, NEW status, meter[h] = None,
           l.entity \in Entities, l.operation \in Operations,
           status \in 200..599, Meter(h, l, status), UNCHANGED samples
    PROVE  Starts(h)
<1> DEFINE m == [entity |-> l.entity, operation |-> l.operation,
                 status |-> status, left |-> Updates(l, status)]
<1>1. Updates(l, status) \in Seq(Sample)
  BY UpdatesAre
<1>2. m \in Meters
  BY <1>1 DEF Meters
<1>3. m.left = Updates(m, m.status)
  BY DEF Updates, UpdatesWith, Family
<1>4. meter' = [meter EXCEPT ![h] = m]
  BY DEF Meter
<1> HIDE DEF m
<1>. QED BY <1>2, <1>3, <1>4 DEF Starts

LEMMA ServeForm ==
    ASSUME IInv, IInv', NEW h \in Requests, Serve(h)
    PROVE  UNCHANGED <<meter, samples>> \/ Starts(h)
<1>1. CASE at'[h] = "answered"
  <2>1. Answers(h)
    <3>1. Forms(h) /\ at[h] # "answered"
      BY StepForms DEF Serve
    <3>2. at \in [Requests -> {"idle", "insert", "readback", "answered"}]
      BY DEF IInv, RequestsOK
    <3>. QED BY <1>1, <3>1, <3>2 DEF Forms, End, Continue
  <2>2. answer'[h] \in Answer
    BY <2>1 DEF Answers, AnswerWith, IInv, RequestsOK
  <2>3. answer'[h].op \in {"listUsers", "createUser", "updateUser", "deleteUser",
                           "getUser", "getProfile", "createProfile",
                           "updateProfile", "deleteProfile"}
        /\ answer'[h].status \in {200, 201, 204, 400, 404, 409, 500}
    BY <2>2 DEF Answer
  <2>4. ASSUME NEW op \in {"listUsers", "createUser", "updateUser", "deleteUser",
                           "getUser", "getProfile", "createProfile",
                           "updateProfile", "deleteProfile"}
        PROVE  LabelsOf[op].entity \in Entities /\ LabelsOf[op].operation \in Operations
    BY DEF LabelsOf, Entities, Operations
  <2>5. Meter(h, LabelsOf[answer'[h].op], answer'[h].status) /\ UNCHANGED samples
        /\ meter[h] = None
    BY <1>1 DEF Serve
  <2>6. answer'[h].status \in 200..599
    BY <2>3
  <2>. QED BY <2>3, <2>4, <2>5, <2>6, MeterStarts
<1>2. CASE at'[h] # "answered"
  BY <1>2 DEF Serve
<1>. QED BY <1>1, <1>2

LEMMA RejectForm ==
    ASSUME NEW h \in Requests, NEW r \in Rejections, Reject(h, r)
    PROVE  Starts(h)
<1>1. /\ r.entity \in Entities /\ r.operation \in Operations
      /\ r.status \in {400, 401, 404, 405}
  BY DEF Rejections, Entities, Operations
<1>2. r.status \in 200..599
  BY <1>1
<1>. QED BY <1>1, <1>2, MeterStarts DEF Reject

LEMMA StartsKeeps ==
    ASSUME ServerInv, NEW h \in Requests, Starts(h)
    PROVE  Metering' /\ Counting' /\ Grows
<1>1. PICK m \in Meters : /\ m.left = Updates(m, m.status)
                          /\ meter' = [meter EXCEPT ![h] = m]
  BY DEF Starts
<1>2. /\ meter \in [Requests -> Meters \cup {None}]
      /\ \A q \in Requests : meter[q] # None => Suffix(meter[q])
  BY DEF ServerInv, Metering
<1>3. m # None /\ meter[h] = None
  BY MetersAssumption DEF Starts
<1>4. Past(m) = 0 /\ Suffix(m)
  <2>1. Updates(m, m.status) \in Seq(Sample)
    BY UpdatesOf DEF Shaped
  <2>2. Len(m.left) \in Nat
    BY <1>1, <2>1
  <2>3. Past(m) = 0
    BY <1>1, <2>2 DEF Past
  <2>. QED BY <1>1, <2>3 DEF Suffix
<1>5. Metering'
  <2>1. meter' \in [Requests -> Meters \cup {None}]
    BY <1>1, <1>2
  <2>2. ASSUME NEW q \in Requests, meter'[q] # None
        PROVE  Suffix(meter'[q])
    BY <1>1, <1>2, <1>4, <2>2
  <2>. QED BY <2>1, <2>2 DEF Metering, Suffix, Past
<1>6. ASSUME NEW f \in Sample
      PROVE  Counted(f)' = Counted(f)
  <2>1. ~ Made(m, f)
    BY <1>4 DEF Made
  <2>2. meter'[h] = m /\ \A q \in Requests \ {h} : meter'[q] = meter[q]
    BY <1>1, <1>2
  <2>. QED BY <1>3, <2>1, <2>2 DEF Counted
<1>7. \A f : Value(f)' = Value(f)
  BY DEF Starts, Value
<1>8. Counting'
  BY <1>6, <1>7 DEF Counting, ServerInv, Starts
<1>9. Grows
  <2>1. \A q \in Over : q # h /\ meter'[q] = meter[q]
    BY <1>1, <1>2, <1>3 DEF Over
  <2>. QED BY <1>6, <2>1 DEF Grows
<1>. QED BY <1>5, <1>8, <1>9

\* One more copy of g, and the copies of nothing else.
LEMMA AddOne ==
    ASSUME NEW g \in Sample, IsABag(samples), BagToSet(samples) \subseteq Sample,
           samples' = samples (+) SetToBag({g})
    PROVE  /\ IsABag(samples)' /\ (BagToSet(samples) \subseteq Sample)'
           /\ Value(g)' = Value(g) + 1
           /\ \A f : f # g => Value(f)' = Value(f)
<1>1. DOMAIN SetToBag({g}) = {g} /\ SetToBag({g})[g] = 1
  BY DEF SetToBag
<1>2. samples' = [e \in (DOMAIN samples) \cup {g} |->
                     (IF e \in DOMAIN samples THEN samples[e] ELSE 0)
                     + (IF e = g THEN 1 ELSE 0)]
  BY <1>1 DEF (+)
<1>3. \A e \in DOMAIN samples : samples[e] \in Nat /\ samples[e] > 0
  BY DEF IsABag
<1>4. DOMAIN samples' = (DOMAIN samples) \cup {g}
  BY <1>2
<1>5. \A e \in DOMAIN samples' : samples'[e] \in {n \in Nat : n > 0}
  BY <1>2, <1>3, <1>4
<1>6. IsABag(samples)' /\ (BagToSet(samples) \subseteq Sample)'
  BY <1>2, <1>4, <1>5 DEF IsABag, BagToSet
<1>7. Value(g)' = Value(g) + 1
  BY <1>2, <1>3, <1>4 DEF Value, BagIn, BagToSet
<1>8. ASSUME NEW f, f # g
      PROVE  Value(f)' = Value(f)
  BY <1>2, <1>3, <1>4, <1>8 DEF Value, BagIn, BagToSet
<1>. QED BY <1>6, <1>7, <1>8

LEMMA MeasureKeeps ==
    ASSUME ServerInv, NEW h \in Requests, Measure(h)
    PROVE  Metering' /\ Counting' /\ Grows
<1> DEFINE m == meter[h]
           n == [m EXCEPT !.left = Tail(@)]
           u == Updates(m, m.status)
<1>1. /\ meter \in [Requests -> Meters \cup {None}]
      /\ \A q \in Requests : meter[q] # None => Suffix(meter[q])
  BY DEF ServerInv, Metering
<1>2. m \in Meters /\ Suffix(m) /\ m.left # << >> /\ m # None
  BY <1>1 DEF Measure
<1>3. meter' = [meter EXCEPT ![h] = n]
  BY <1>2 DEF Measure
<1>4. PICK g \in Sample :
      /\ g = Head(m.left)
      /\ Past(m) + 1 \in 1..Len(u) /\ g = u[Past(m) + 1]
      /\ \A i \in 1..Past(m) : u[i] # g
      /\ n \in Meters /\ Suffix(n) /\ Past(n) = Past(m) + 1
      /\ Updates(n, n.status) = u
  BY <1>2, HeadIsNew
<1>5. n # None /\ Past(m) \in 0..4
  BY <1>2, <1>4, MetersAssumption DEF Suffix
<1>6. samples' = samples (+) SetToBag({g})
  BY <1>4 DEF Measure
<1> HIDE DEF m, n, u
<1>7. /\ m = meter[h] /\ u = Updates(m, m.status)
      /\ meter'[h] = n /\ \A q \in Requests \ {h} : meter'[q] = meter[q]
  BY <1>1, <1>3 DEF m, u
<1>8. Metering'
  <2>1. meter' \in [Requests -> Meters \cup {None}]
    BY <1>1, <1>3, <1>4
  <2>2. ASSUME NEW q \in Requests, meter'[q] # None
        PROVE  Suffix(meter'[q])
    BY <1>1, <1>4, <1>7, <2>2
  <2>. QED BY <2>1, <2>2 DEF Metering, Suffix, Past
<1>9. ASSUME NEW f
      PROVE  Made(n, f) <=> f = g \/ Made(m, f)
  BY <1>4, <1>5, <1>7 DEF Made
<1>10. Counted(g)' = Counted(g) \cup {h} /\ h \notin Counted(g)
  <2>1. ~ Made(m, g) /\ Made(n, g)
    BY <1>4, <1>7, <1>9 DEF Made
  <2>. QED BY <1>2, <1>5, <1>7, <2>1 DEF Counted
<1>11. ASSUME NEW f, f # g
       PROVE  Counted(f)' = Counted(f)
  BY <1>2, <1>5, <1>7, <1>9, <1>11 DEF Counted
<1>12. /\ IsABag(samples)' /\ (BagToSet(samples) \subseteq Sample)'
       /\ Value(g)' = Value(g) + 1
       /\ \A f : f # g => Value(f)' = Value(f)
  <2>1. IsABag(samples) /\ BagToSet(samples) \subseteq Sample
    BY DEF ServerInv, Counting
  <2>. QED BY <1>4, <1>6, <2>1, AddOne
<1>13. Cardinality(Counted(g)') = Cardinality(Counted(g)) + 1
  <2>1. IsFiniteSet(Counted(g))
    BY RequestsAssumption, FS_Subset DEF Counted
  <2>. QED BY <1>10, <2>1, FS_AddElement
<1>14. ASSUME NEW f \in Sample
       PROVE  Value(f)' = Cardinality(Counted(f)')
  BY <1>4, <1>11, <1>12, <1>13 DEF ServerInv, Counting
<1>15. Grows
  <2>1. h \notin Over
    BY <1>2, <1>7 DEF Over
  <2>2. \A f : Counted(f) \subseteq Counted(f)'
    BY <1>10, <1>11
  <2>. QED BY <1>7, <2>1, <2>2 DEF Over, Grows
<1>. QED BY <1>8, <1>12, <1>14, <1>15 DEF Counting

LEMMA CountedIsFinite == \A f : IsFiniteSet(Counted(f))
BY RequestsAssumption, FS_Subset DEF Counted

\* A step that only lets samples grow keeps what was read within bounds.
LEMMA GrowsKeepsScraping ==
    ASSUME ServerInv, Grows, UNCHANGED scrape, Metering', Counting'
    PROVE  Scraping'
<1> SUFFICES ASSUME scrape # None
             PROVE  /\ scrape \in Scrapes
                    /\ scrape.over \subseteq Over'
                    /\ \A f \in Watched : scrape.read[f] # None =>
                          /\ Cardinality(Counted(f)' \cap scrape.over) <= scrape.read[f]
                          /\ scrape.read[f] <= Cardinality(Counted(f)')
  BY DEF Scraping
<1>1. /\ scrape \in Scrapes /\ scrape.over \subseteq Over
      /\ \A h \in Over : meter'[h] = meter[h]
  BY DEF ServerInv, Scraping, Grows
<1>2. scrape.over \subseteq Over'
  BY <1>1 DEF Over
<1>3. ASSUME NEW f \in Watched, scrape.read[f] # None
      PROVE  /\ Cardinality(Counted(f)' \cap scrape.over) <= scrape.read[f]
             /\ scrape.read[f] <= Cardinality(Counted(f)')
  <2>1. f \in Sample /\ scrape.read[f] \in Nat
    BY <1>1, <1>3, WatchedAssumption DEF Scrapes
  <2>2. Counted(f)' \cap scrape.over = Counted(f) \cap scrape.over
    BY <1>1 DEF Counted, Over, Made, Past
  <2>3. /\ Counted(f) \subseteq Counted(f)' /\ IsFiniteSet(Counted(f)')
        /\ IsFiniteSet(Counted(f))
    <3>1. IsFiniteSet(Counted(f)')
      BY RequestsAssumption, FS_Subset DEF Counted
    <3>. QED BY <2>1, <3>1, CountedIsFinite DEF Grows
  <2>4. /\ Cardinality(Counted(f)) <= Cardinality(Counted(f)')
        /\ Cardinality(Counted(f)) \in Nat /\ Cardinality(Counted(f)') \in Nat
    BY <2>3, FS_Subset, FS_CardinalityType
  <2>5. /\ Cardinality(Counted(f) \cap scrape.over) <= scrape.read[f]
        /\ scrape.read[f] <= Cardinality(Counted(f))
    BY <1>3 DEF ServerInv, Scraping
  <2>. QED BY <2>1, <2>2, <2>4, <2>5
<1>. QED BY <1>1, <1>2, <1>3

LEMMA ScrapeKeeps ==
    ASSUME ServerInv, BeginScrape \/ (\E f \in Watched : ReadSample(f)) \/ EndScrape
    PROVE  Scraping'
<1>1. UNCHANGED <<meter, samples>> /\ Over' = Over /\ \A f : Counted(f)' = Counted(f)
  BY DEF BeginScrape, ReadSample, EndScrape, Over, Counted, Made, Past
<1>2. CASE EndScrape
  BY <1>2 DEF EndScrape, Scraping
<1>3. CASE BeginScrape
  <2>1. /\ scrape' = [over |-> Over, read |-> [f \in Watched |-> None]]
        /\ Over \subseteq Requests
    BY <1>3 DEF BeginScrape, Over
  <2>2. scrape' \in Scrapes /\ scrape'.over = Over
        /\ \A f \in Watched : scrape'.read[f] = None
    BY <2>1 DEF Scrapes
  <2>. QED BY <1>1, <2>2 DEF Scraping
<1>4. ASSUME NEW g \in Watched, ReadSample(g) PROVE Scraping'
  <2>1. /\ scrape # None /\ scrape \in Scrapes /\ scrape.over \subseteq Over
        /\ scrape' = [scrape EXCEPT !.read[g] = Value(g)]
    BY <1>4 DEF ReadSample, ServerInv, Scraping
  <2>2. /\ g \in Sample /\ Value(g) = Cardinality(Counted(g))
        /\ Cardinality(Counted(g)) \in Nat
    BY WatchedAssumption, CountedIsFinite, FS_CardinalityType DEF ServerInv, Counting
  <2>3. /\ scrape' \in Scrapes /\ scrape'.over = scrape.over
        /\ scrape'.read[g] = Cardinality(Counted(g))
        /\ \A f \in Watched \ {g} : scrape'.read[f] = scrape.read[f]
    BY <2>1, <2>2 DEF Scrapes
  <2>4. Cardinality(Counted(g) \cap scrape.over) <= Cardinality(Counted(g))
    BY CountedIsFinite, FS_Subset
  <2>5. ASSUME NEW f \in Watched, scrape'.read[f] # None
        PROVE  /\ Cardinality(Counted(f) \cap scrape.over) <= scrape'.read[f]
               /\ scrape'.read[f] <= Cardinality(Counted(f))
    <3>1. CASE f = g
      BY <2>2, <2>3, <2>4, <3>1
    <3>2. CASE f # g
      BY <2>1, <2>3, <2>5, <3>2 DEF ServerInv, Scraping
    <3>. QED BY <3>1, <3>2
  <2>. QED BY <1>1, <2>1, <2>3, <2>5 DEF Scraping
<1>. QED BY <1>2, <1>3, <1>4

LEMMA InitServerInv == ServerInit => ServerInv
<1> SUFFICES ASSUME ServerInit PROVE ServerInv
  OBVIOUS
<1>1. IInv
  BY InitIInv DEF ServerInit
<1>2. Metering
  BY DEF ServerInit, Metering
<1>3. samples = [e \in {} |-> 1]
  BY DEF ServerInit, EmptyBag, SetToBag
<1>4. \A f : Counted(f) = {} /\ Value(f) = 0
  BY <1>3 DEF ServerInit, Counted, Value, BagIn, BagToSet
<1>5. IsABag(samples) /\ BagToSet(samples) \subseteq Sample
  BY <1>3 DEF IsABag, BagToSet
<1>6. Counting
  BY <1>4, <1>5, FS_EmptySet DEF Counting
<1>7. Scraping
  BY DEF ServerInit, Scraping
<1>. QED BY <1>1, <1>2, <1>6, <1>7 DEF ServerInv

LEMMA StepServerInv == ServerInv /\ [ServerNext]_serverVars => ServerInv'
<1> SUFFICES ASSUME ServerInv, [ServerNext]_serverVars
             PROVE  ServerInv'
  OBVIOUS
<1>1. IInv'
  BY ServesStep, StepIInv DEF serverVars, ServerInv
<1>2. ASSUME UNCHANGED <<meter, samples>>
      PROVE  Metering' /\ Counting' /\ Grows
  BY <1>2 DEF ServerInv, Metering, Counting, Suffix, Past, Counted, Made,
              Value, IsABag, BagIn, BagToSet, Grows, Over
<1>3. ASSUME NEW h \in Requests,
             Serve(h) \/ Measure(h) \/ \E r \in Rejections : Reject(h, r)
      PROVE  Metering' /\ Counting' /\ Grows /\ UNCHANGED scrape
  <2>1. UNCHANGED scrape
    BY <1>3 DEF Serve, Measure, Reject
  <2>2. (Metering' /\ Counting' /\ Grows) \/ UNCHANGED <<meter, samples>>
    BY <1>1, <1>3, ServeForm, RejectForm, StartsKeeps, MeasureKeeps DEF ServerInv
  <2>. QED BY <1>2, <2>1, <2>2
<1>4. CASE UNCHANGED scrape /\ Metering' /\ Counting' /\ Grows
  BY <1>1, <1>4, GrowsKeepsScraping DEF ServerInv
<1>5. CASE BeginScrape \/ (\E f \in Watched : ReadSample(f)) \/ EndScrape
  <2>1. UNCHANGED <<meter, samples>>
    BY <1>5 DEF BeginScrape, ReadSample, EndScrape
  <2>. QED BY <1>1, <1>2, <1>5, <2>1, ScrapeKeeps DEF ServerInv
<1>. QED BY <1>2, <1>3, <1>4, <1>5 DEF ServerNext, serverVars

LEMMA SpecServerInv == ServerSpec => []ServerInv
BY InitServerInv, StepServerInv, PTL DEF ServerSpec

-----------------------------------------------------------------------------
(* What a scrape shows                                                     *)

LEMMA LabelsAre ==
    ASSUME NEW l \in ServedLabels
    PROVE  l.entity \in Entities /\ l.operation \in Operations
BY DEF ServedLabels, LabelsOf, Entities, Operations

\* Which increments were made, of the three the properties are about.
LEMMA MadeOf ==
    ASSUME NEW m \in Meters, Suffix(m), NEW e, NEW o
    PROVE  /\ \A c : Made(m, <<"app_request_total", e, o, c>>) <=>
                     /\ Past(m) >= 1 /\ m.entity = e /\ m.operation = o
                     /\ m.status \div 100 = c
           /\ Made(m, <<"app_client_errors_total", e, o>>) <=>
              Past(m) = 4 /\ m.entity = e /\ m.operation = o /\ m.status \in 400..499
           /\ Made(m, <<"app_server_errors_total", e, o>>) <=>
              Past(m) = 4 /\ m.entity = e /\ m.operation = o /\ m.status \in 500..599
<1> DEFINE u == Updates(m, m.status)
           client == <<"app_client_errors_total", e, o>>
           server == <<"app_server_errors_total", e, o>>
<1>1. Shaped(u, m)
  BY UpdatesOf
<1>2. m.status \in 200..599 /\ m.left \in Seq(Sample)
  BY DEF Meters
<1>2a. PICK s \in 200..599 : s = m.status
  BY <1>2
<1>2b. /\ s >= 400 => s \in 400..499 \/ s \in 500..599
      /\ s \in 500..599 => s >= 500
  OBVIOUS
<1>3. Past(m) \in {0, 1, 2, 3, 4} /\ (Past(m) = 4 => m.status >= 400)
  <2>1. Len(m.left) \in Nat /\ Len(u) \in 3..4 /\ Past(m) = Len(u) - Len(m.left)
    BY <1>1, <1>2 DEF Past, Shaped
  <2>2. Past(m) \in 0..4
    BY DEF Suffix
  <2>3. Past(m) = 4 => Len(u) = 4
    <3>1. PICK j \in Nat, k \in 3..4 : j = Len(m.left) /\ k = Len(u)
      BY <2>1
    <3>2. k - j = 4 => k = 4
      OBVIOUS
    <3>. QED BY <2>1, <3>1, <3>2
  <2>4. Len(u) = 4 => m.status >= 400
    BY <1>1 DEF Shaped
  <2>. QED BY <2>2, <2>3, <2>4
<1>4. \A f : Made(m, f) <=> \E i \in 1..Past(m) : u[i] = f
  BY DEF Made
<1> HIDE DEF u
<1>5. \A f : Made(m, f) <=> \/ Past(m) >= 1 /\ u[1] = f
                            \/ Past(m) >= 2 /\ u[2] = f
                            \/ Past(m) >= 3 /\ u[3] = f
                            \/ Past(m) = 4 /\ u[4] = f
  BY <1>3, <1>4
<1>6. /\ u[2][1] = "app_request_duration_seconds"
      /\ u[3][1] = "app_request_duration_summary_seconds"
      /\ u[1][1] = "app_request_total"
      /\ m.status \in 400..499 => u[4][1] = "app_client_errors_total"
      /\ m.status >= 500 => u[4][1] = "app_server_errors_total"
  BY <1>1 DEF Shaped
<1>7. Past(m) = 4 => m.status \in 400..499 \/ m.status \in 500..599
  BY <1>3, <1>2a, <1>2b
<1>8. /\ Past(m) = 4 => u[4][1] # "app_request_total"
      /\ Past(m) = 4 /\ u[4][1] = "app_client_errors_total" => m.status \in 400..499
      /\ Past(m) = 4 /\ u[4][1] = "app_server_errors_total" => m.status \in 500..599
  <2>1. m.status \in 500..599 => m.status >= 500
    BY <1>2a, <1>2b
  <2>. QED BY <1>6, <1>7, <2>1
<1>9. ASSUME NEW c
      PROVE  Made(m, <<"app_request_total", e, o, c>>) <=>
             /\ Past(m) >= 1 /\ m.entity = e /\ m.operation = o
             /\ m.status \div 100 = c
  <2> DEFINE f == <<"app_request_total", e, o, c>>
  <2>1. f[1] = "app_request_total"
    OBVIOUS
  <2>2. u[1] = f <=> m.entity = e /\ m.operation = o /\ m.status \div 100 = c
    BY <1>1 DEF Shaped
  <2> HIDE DEF f
  <2>3. Made(m, f) <=> Past(m) >= 1 /\ u[1] = f
    BY <1>5, <1>6, <1>8, <2>1
  <2>. QED BY <2>2, <2>3 DEF f
<1>10. Made(m, client) <=>
       Past(m) = 4 /\ m.entity = e /\ m.operation = o /\ m.status \in 400..499
  <2>1. client[1] = "app_client_errors_total"
    OBVIOUS
  <2>2. m.status \in 400..499 => (u[4] = client <=> m.entity = e /\ m.operation = o)
    BY <1>1 DEF Shaped
  <2> HIDE DEF client
  <2>3. Made(m, client) <=> Past(m) = 4 /\ u[4] = client /\ m.status \in 400..499
    BY <1>5, <1>6, <1>8, <2>1
  <2>. QED BY <2>2, <2>3
<1>11. Made(m, server) <=>
       Past(m) = 4 /\ m.entity = e /\ m.operation = o /\ m.status \in 500..599
  <2>1. server[1] = "app_server_errors_total"
    OBVIOUS
  <2>2. m.status \in 500..599 => (u[4] = server <=> m.entity = e /\ m.operation = o)
    <3>1. m.status \in 500..599 => m.status >= 500
      BY <1>2a, <1>2b
    <3>2. m.status \in 500..599 =>
            u[4] = <<"app_server_errors_total", m.entity, m.operation>>
      BY <1>1, <3>1 DEF Shaped
    <3>. QED BY <3>2
  <2> HIDE DEF server
  <2>3. Made(m, server) <=> Past(m) = 4 /\ u[4] = server /\ m.status \in 500..599
    BY <1>5, <1>6, <1>8, <2>1
  <2>. QED BY <2>2, <2>3
<1>. QED BY <1>9, <1>10, <1>11
\* The requests with these labels and one of these statuses whose middleware
\* has made n increments.
Measured(n, e, o, S) ==
    {h \in Requests : /\ meter[h] # None /\ Past(meter[h]) >= n
                      /\ meter[h].entity = e /\ meter[h].operation = o
                      /\ meter[h].status \in S}

LEMMA MeterFits ==
    ASSUME ServerInv, NEW h \in Requests, meter[h] # None
    PROVE  /\ meter[h] \in Meters /\ Suffix(meter[h])
           /\ meter[h].status \in 200..599
           /\ Past(meter[h]) = 4 <=> Past(meter[h]) >= 4
<1>1. meter[h] \in Meters /\ Suffix(meter[h])
  BY DEF ServerInv, Metering
<1>2. Past(meter[h]) \in 0..4
  BY <1>1 DEF Suffix
<1>3. Past(meter[h]) = 4 <=> Past(meter[h]) >= 4
  BY <1>2
<1>. QED BY <1>1, <1>3 DEF Meters

LEMMA CountedTotal ==
    ASSUME ServerInv, NEW e, NEW o, NEW c \in 2..5
    PROVE  Counted(<<"app_request_total", e, o, c>>) =
           Measured(1, e, o, (100 * c)..(100 * c + 99))
<1> DEFINE f == <<"app_request_total", e, o, c>>
           S == (100 * c)..(100 * c + 99)
<1>1. \A s \in 200..599 : s \div 100 = c <=> s \in S
  OBVIOUS
<1>2. ASSUME NEW h \in Requests, meter[h] # None
      PROVE  Made(meter[h], f) <=>
             /\ Past(meter[h]) >= 1
             /\ meter[h].entity = e /\ meter[h].operation = o
             /\ meter[h].status \in S
  <2>1. meter[h] \in Meters /\ Suffix(meter[h]) /\ meter[h].status \in 200..599
    BY <1>2, MeterFits
  <2>2. PICK m \in Meters : m = meter[h] /\ Suffix(m)
    BY <2>1
  <2>3. \A d : Made(m, <<"app_request_total", e, o, d>>) <=>
               /\ Past(m) >= 1 /\ m.entity = e /\ m.operation = o
               /\ m.status \div 100 = d
    BY <2>2, MadeOf, ZenonT(60)
  <2> HIDE DEF S
  <2>4. Made(m, f) <=>
               /\ Past(m) >= 1 /\ m.entity = e /\ m.operation = o
               /\ m.status \div 100 = c
    BY <2>3
  <2>. QED BY <1>1, <2>1, <2>2, <2>4
<1> HIDE DEF f, S
<1>3. Counted(f) = Measured(1, e, o, S)
  BY <1>2 DEF Counted, Measured
<1>. QED BY <1>3 DEF f, S

LEMMA CountedErrors ==
    ASSUME ServerInv, NEW e, NEW o
    PROVE  /\ Counted(<<"app_client_errors_total", e, o>>) =
              Measured(4, e, o, Class(4))
           /\ Counted(<<"app_server_errors_total", e, o>>) =
              Measured(4, e, o, Class(5))
<1>1. ASSUME NEW h \in Requests, meter[h] # None
      PROVE  /\ Made(meter[h], <<"app_client_errors_total", e, o>>) <=>
                /\ Past(meter[h]) >= 4
                /\ meter[h].entity = e /\ meter[h].operation = o
                /\ meter[h].status \in Class(4)
             /\ Made(meter[h], <<"app_server_errors_total", e, o>>) <=>
                /\ Past(meter[h]) >= 4
                /\ meter[h].entity = e /\ meter[h].operation = o
                /\ meter[h].status \in Class(5)
  BY <1>1, MeterFits, MadeOf DEF Class
<1>2. Counted(<<"app_client_errors_total", e, o>>) = Measured(4, e, o, Class(4))
  BY <1>1 DEF Counted, Measured
<1>3. Counted(<<"app_server_errors_total", e, o>>) = Measured(4, e, o, Class(5))
  BY <1>1 DEF Counted, Measured
<1>. QED BY <1>2, <1>3

\* What a sample shows are the requests past its increment.
LEMMA TotalIs ==
    ASSUME ServerInv, NEW l \in ServedLabels,
           NEW c \in 2..5
    PROVE  Value(<<"app_request_total", l.entity, l.operation, c>>) =
           Cardinality(Measured(1, l.entity, l.operation,
                                (100 * c)..(100 * c + 99)))
<1> DEFINE f == <<"app_request_total", l.entity, l.operation, c>>
<1>1. l.entity \in Entities /\ l.operation \in Operations
  BY LabelsAre
<1>2. f \in Sample
  BY <1>1 DEF Sample
<1>3. Counted(f) = Measured(1, l.entity, l.operation, (100 * c)..(100 * c + 99))
  BY CountedTotal
<1> HIDE DEF f
<1>4. Value(f) = Cardinality(Counted(f))
  BY <1>2 DEF ServerInv, Counting
<1>. QED BY <1>3, <1>4 DEF f

LEMMA ErrorsAre ==
    ASSUME ServerInv, NEW l \in ServedLabels
    PROVE  /\ Value(Family("app_client_errors_total", l)) =
              Cardinality(Measured(4, l.entity, l.operation, Class(4)))
           /\ Value(Family("app_server_errors_total", l)) =
              Cardinality(Measured(4, l.entity, l.operation, Class(5)))
<1> DEFINE client == <<"app_client_errors_total", l.entity, l.operation>>
           server == <<"app_server_errors_total", l.entity, l.operation>>
<1>1. l.entity \in Entities /\ l.operation \in Operations
  BY LabelsAre
<1>2. client \in Sample /\ server \in Sample
  BY <1>1 DEF Sample
<1>3. /\ Counted(client) = Measured(4, l.entity, l.operation, Class(4))
      /\ Counted(server) = Measured(4, l.entity, l.operation, Class(5))
  BY CountedErrors
<1>4. /\ Family("app_client_errors_total", l) = client
      /\ Family("app_server_errors_total", l) = server
  BY DEF Family
<1> HIDE DEF client, server
<1>. QED BY <1>2, <1>3, <1>4 DEF ServerInv, Counting

\* The domains of the server's variables; at most four increments are left.
THEOREM ServerTypesHold == ServerSpec => []ServerTypeOK
<1>1. ServerInv => ServerTypeOK
  <2> SUFFICES ASSUME ServerInv PROVE ServerTypeOK
    OBVIOUS
  <2>1. TypeOK
    BY DEF ServerInv, IInv, TablesOK, RequestsOK, TypeOK
  <2>2. ASSUME NEW h \in Requests, meter[h] # None
        PROVE  Len(meter[h].left) <= 4
    <3>1. /\ meter[h].left \in Seq(Sample)
          /\ Len(Updates(meter[h], meter[h].status)) \in 3..4
      BY <2>2, UpdatesOf DEF Shaped, ServerInv, Metering, Meters
    <3>2. Past(meter[h]) \in 0..4
      BY <2>2 DEF ServerInv, Metering, Suffix
    <3>3. PICK j \in Nat, k \in 3..4 :
             /\ j = Len(meter[h].left)
             /\ k = Len(Updates(meter[h], meter[h].status))
      BY <3>1
    <3>4. k - j \in 0..4
      BY <3>2, <3>3 DEF Past
    <3>5. j <= 4
      BY <3>4
    <3>. QED BY <3>3, <3>5
  <2>3. scrape \in Scrapes \cup {None}
    BY DEF ServerInv, Scraping
  <2>. QED BY <2>1, <2>2, <2>3 DEF ServerInv, Metering, Counting, ServerTypeOK
<1>. QED BY <1>1, SpecServerInv, PTL

\* How far the middleware of a request that is over has come.
LEMMA OverIsPast ==
    ASSUME ServerInv, NEW h \in Over
    PROVE  /\ meter[h] # None /\ meter[h].status \in 200..599
           /\ Past(meter[h]) >= 1
           /\ meter[h].status >= 400 => Past(meter[h]) >= 4
<1>1. /\ h \in Requests /\ meter[h] # None
      /\ meter[h] \in Meters /\ meter[h].left = << >>
  BY DEF ServerInv, Metering, Over
<1>2. /\ Len(Updates(meter[h], meter[h].status)) \in 3..4
      /\ Len(Updates(meter[h], meter[h].status)) = 4 <=> meter[h].status >= 400
  BY <1>1, UpdatesOf DEF Shaped
<1>3. PICK k \in 3..4 : k = Len(Updates(meter[h], meter[h].status))
  BY <1>2
<1>4. Past(meter[h]) = k
  BY <1>1, <1>3 DEF Past
<1>5. meter[h].status >= 400 => k = 4
  BY <1>2, <1>3
<1>6. k >= 1 /\ (k = 4 => k >= 4)
  OBVIOUS
<1>. QED BY <1>1, <1>4, <1>5, <1>6 DEF Meters

\* A sample that counts the requests of some labels and statuses brackets them,
\* if the requests that are over have come to it.
LEMMA BracketsBy ==
    ASSUME ServerInv, scrape # None, NEW l, NEW f, NEW S, NEW n,
           Counted(f) = Measured(n, l.entity, l.operation, S),
           \A h \in Over : meter[h].status \in S => Past(meter[h]) >= n
    PROVE  Brackets(f, l, S)
<1> SUFFICES ASSUME f \in Watched, scrape.read[f] # None
             PROVE  /\ Cardinality(AnsweredWith(scrape.over, l, S)) <= scrape.read[f]
                    /\ scrape.read[f] <= Cardinality(AnsweredWith(Requests, l, S))
  BY DEF Brackets
<1>1. /\ scrape.over \subseteq Over /\ scrape.read[f] \in Nat
      /\ Cardinality(Counted(f) \cap scrape.over) <= scrape.read[f]
      /\ scrape.read[f] <= Cardinality(Counted(f))
  BY DEF ServerInv, Scraping, Scrapes
<1>2. AnsweredWith(scrape.over, l, S) \subseteq Counted(f) \cap scrape.over
  BY <1>1 DEF AnsweredWith, Measured, Over
<1>3. Counted(f) \subseteq AnsweredWith(Requests, l, S)
  BY DEF AnsweredWith, Measured
<1>4. /\ IsFiniteSet(Counted(f) \cap scrape.over)
      /\ IsFiniteSet(AnsweredWith(Requests, l, S))
      /\ IsFiniteSet(AnsweredWith(scrape.over, l, S)) /\ IsFiniteSet(Counted(f))
  <2>1. /\ IsFiniteSet(Counted(f))
        /\ Counted(f) \cap scrape.over \subseteq Counted(f)
    BY CountedIsFinite
  <2>2. AnsweredWith(Requests, l, S) \subseteq Requests
    BY DEF AnsweredWith
  <2>3. IsFiniteSet(Counted(f) \cap scrape.over)
    BY <2>1, FS_Subset
  <2>. QED BY <1>2, <2>1, <2>2, <2>3, RequestsAssumption, FS_Subset
<1>5. /\ Cardinality(AnsweredWith(scrape.over, l, S))
           <= Cardinality(Counted(f) \cap scrape.over)
      /\ Cardinality(Counted(f)) <= Cardinality(AnsweredWith(Requests, l, S))
  BY <1>2, <1>3, <1>4, FS_Subset
<1>6. /\ Cardinality(AnsweredWith(scrape.over, l, S)) \in Nat
      /\ Cardinality(Counted(f) \cap scrape.over) \in Nat
      /\ Cardinality(Counted(f)) \in Nat
      /\ Cardinality(AnsweredWith(Requests, l, S)) \in Nat
  BY <1>4, FS_CardinalityType
<1>. QED BY <1>1, <1>5, <1>6

LEMMA BracketsHold ==
    ASSUME ServerInv, scrape # None, NEW l \in ServedLabels
    PROVE  /\ \A c \in 2..5 :
                 Brackets(<<"app_request_total", l.entity, l.operation, c>>,
                          l, Class(c))
           /\ Brackets(Family("app_client_errors_total", l), l, Class(4))
           /\ Brackets(Family("app_server_errors_total", l), l, Class(5))
<1>1. ASSUME NEW c \in 2..5
      PROVE  Brackets(<<"app_request_total", l.entity, l.operation, c>>,
                      l, Class(c))
  <2> DEFINE f == <<"app_request_total", l.entity, l.operation, c>>
  <2>1. Counted(f) = Measured(1, l.entity, l.operation, Class(c))
    BY CountedTotal DEF Class
  <2>2. \A h \in Over : Past(meter[h]) >= 1
    BY OverIsPast
  <2> HIDE DEF f
  <2>3. Brackets(f, l, Class(c))
    BY <2>1, <2>2, BracketsBy
  <2>. QED BY <2>3 DEF f
<1> DEFINE client == <<"app_client_errors_total", l.entity, l.operation>>
           server == <<"app_server_errors_total", l.entity, l.operation>>
<1>2. /\ Counted(client) = Measured(4, l.entity, l.operation, Class(4))
      /\ Counted(server) = Measured(4, l.entity, l.operation, Class(5))
  BY CountedErrors
<1>3. \A h \in Over :
         meter[h].status \in Class(4) \/ meter[h].status \in Class(5) =>
             Past(meter[h]) >= 4
  <2>1. \A s \in 200..599 : s \in Class(4) \/ s \in Class(5) => s >= 400
    BY DEF Class
  <2>. QED BY <2>1, OverIsPast
<1>4. /\ Family("app_client_errors_total", l) = client
      /\ Family("app_server_errors_total", l) = server
  BY DEF Family
<1> HIDE DEF client, server
<1>5. Brackets(client, l, Class(4)) /\ Brackets(server, l, Class(5))
  BY <1>2, <1>3, BracketsBy
<1>. QED BY <1>1, <1>4, <1>5

\* Whatever a scrape reads, one sample after the other while requests are
\* answered and measured, lies between the answers that were complete when it
\* began and those given so far.
THEOREM ScrapesAreBoundedHolds == ServerSpec => []ScrapesAreBounded
<1>1. ServerInv => ScrapesAreBounded
  <2>1. \A c \in {2, 4, 5} : c \in 2..5
    OBVIOUS
  <2>. QED BY <2>1, BracketsHold DEF ScrapesAreBounded
<1>. QED BY <1>1, SpecServerInv, PTL

\* A scrape shows more client errors than requests answered 4xx by at most the
\* 4xx answers it overlapped.
THEOREM RatesAreBoundedHolds == ServerSpec => []RatesAreBounded
<1>1. ServerInv => RatesAreBounded
  <2> SUFFICES ASSUME ServerInv, scrape # None, NEW l \in ServedLabels,
                      NEW total, NEW errors,
                      total = <<"app_request_total", l.entity, l.operation, 4>>,
                      errors = Family("app_client_errors_total", l),
                      {total, errors} \subseteq Watched,
                      scrape.read[total] # None, scrape.read[errors] # None
               PROVE  scrape.read[errors] <= scrape.read[total] +
                        Cardinality(AnsweredWith(Requests \ scrape.over, l, Class(4)))
    BY DEF RatesAreBounded
  <2> DEFINE All  == AnsweredWith(Requests, l, Class(4))
             Old  == AnsweredWith(scrape.over, l, Class(4))
             Late == AnsweredWith(Requests \ scrape.over, l, Class(4))
  <2>1. 4 \in 2..5
    OBVIOUS
  <2>2. Brackets(total, l, Class(4)) /\ Brackets(errors, l, Class(4))
    BY <2>1, BracketsHold
  <2>3. Cardinality(Old) <= scrape.read[total] /\ scrape.read[errors] <= Cardinality(All)
    BY <2>2 DEF Brackets
  <2>4. /\ scrape.over \subseteq Requests
        /\ scrape.read[total] \in Nat /\ scrape.read[errors] \in Nat
    BY DEF ServerInv, Scraping, Scrapes
  <2>5. /\ All = Old \cup Late /\ Old \cap Late = {}
        /\ Old \subseteq Requests /\ Late \subseteq Requests
    BY <2>4 DEF AnsweredWith
  <2> HIDE DEF All, Old, Late
  <2>6. IsFiniteSet(Old) /\ IsFiniteSet(Late)
    BY <2>5, RequestsAssumption, FS_Subset
  <2>7. /\ Cardinality(All) =
              Cardinality(Old) + Cardinality(Late) - Cardinality(Old \cap Late)
        /\ Cardinality(Old \cap Late) = 0
        /\ Cardinality(Old) \in Nat /\ Cardinality(Late) \in Nat
    BY <2>5, <2>6, FS_Union, FS_EmptySet, FS_CardinalityType
  <2>8. scrape.read[errors] <= scrape.read[total] + Cardinality(Late)
    BY <2>3, <2>4, <2>7
  <2>. QED BY <2>8 DEF Late
<1>. QED BY <1>1, SpecServerInv, PTL

\* Once every answer is complete for its client, each has been counted in the
\* total of its class, and as an error if it was one, once.
THEOREM AnswersAreMeasuredHolds == ServerSpec => []AnswersAreMeasured
<1>1. ServerInv => AnswersAreMeasured
  <2> SUFFICES ASSUME ServerInv,
                      \A h \in Requests : meter[h] # None => h \in Over,
                      NEW l \in ServedLabels
               PROVE  /\ \A c \in {2, 4, 5} :
                           Value(<<"app_request_total", l.entity, l.operation, c>>)
                           = Cardinality(AnsweredWith(Over, l, Class(c)))
                      /\ Value(Family("app_client_errors_total", l))
                         = Cardinality(AnsweredWith(Over, l, Class(4)))
                      /\ Value(Family("app_server_errors_total", l))
                         = Cardinality(AnsweredWith(Over, l, Class(5)))
    BY DEF AnswersAreMeasured
  <2>1. ASSUME NEW S, NEW n, \A h \in Over : meter[h].status \in S => Past(meter[h]) >= n
        PROVE  AnsweredWith(Over, l, S) = Measured(n, l.entity, l.operation, S)
    BY <2>1 DEF AnsweredWith, Measured, Over
  <2>2. ASSUME NEW c \in {2, 4, 5}
        PROVE  Value(<<"app_request_total", l.entity, l.operation, c>>)
               = Cardinality(AnsweredWith(Over, l, Class(c)))
    <3>1. c \in 2..5
      OBVIOUS
    <3>2. Value(<<"app_request_total", l.entity, l.operation, c>>)
          = Cardinality(Measured(1, l.entity, l.operation, Class(c)))
      BY <3>1, TotalIs DEF Class
    <3>3. AnsweredWith(Over, l, Class(c)) = Measured(1, l.entity, l.operation, Class(c))
      BY <2>1, OverIsPast
    <3>. QED BY <3>2, <3>3
  <2>3. ASSUME NEW S \in {Class(4), Class(5)}
        PROVE  AnsweredWith(Over, l, S) = Measured(4, l.entity, l.operation, S)
    <3>1. \A s \in 200..599 : s \in S => s >= 400
      BY DEF Class
    <3>2. \A h \in Over : meter[h].status \in S => Past(meter[h]) >= 4
      BY <3>1, OverIsPast
    <3>. QED BY <2>1, <3>2
  <2>4. /\ Value(Family("app_client_errors_total", l))
           = Cardinality(AnsweredWith(Over, l, Class(4)))
        /\ Value(Family("app_server_errors_total", l))
           = Cardinality(AnsweredWith(Over, l, Class(5)))
    <3>1. /\ AnsweredWith(Over, l, Class(4)) = Measured(4, l.entity, l.operation, Class(4))
          /\ AnsweredWith(Over, l, Class(5)) = Measured(4, l.entity, l.operation, Class(5))
      BY <2>3
    <3>. QED BY <3>1, ErrorsAre
  <2>. QED BY <2>2, <2>4
<1>. QED BY <1>1, SpecServerInv, PTL
=============================================================================
